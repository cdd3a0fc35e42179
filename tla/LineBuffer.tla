----------------------------- MODULE LineBuffer -----------------------------
(***************************************************************************)
(* The buffer of readline, src/libril/atchannel.c: the reader thread        *)
(* appends what a read returns, any number of bytes, and cuts lines off the *)
(* front.  A line ends with a carriage return and a line feed; the prompt   *)
(* for a short message, "> ", ends with nothing.  The buffer outlives the   *)
(* session: at_open does not touch it.                                      *)
(*                                                                          *)
(* A byte is a character and, which the code does not see, the session in   *)
(* which the modem sent it.                                                 *)
(***************************************************************************)
EXTENDS Integers, Sequences, FiniteSets, FiniteSetsExt, SequencesExt

CONSTANTS
    MAX_AT_RESPONSE,   \* the size of the buffer
    Messages,          \* what the modem may send, sequences of characters
    Echo,              \* a command that is sent back before ATE0 is heeded
    MaxMessages, MaxSessions

LineBufferAssumption ==
    /\ MAX_AT_RESPONSE \in Nat /\ MAX_AT_RESPONSE > 2
    /\ MaxMessages \in Nat /\ MaxSessions \in Nat \ {0}
    /\ \A m \in Messages \cup {Echo} : m \in Seq(Range(m))

CR == "\r"
LF == "\n"
Prompt == <<">", " ">>

VARIABLES
    at,         \* the reader: cutting a line, in read, or ended
    buf,        \* the bytes from ATBuffer to ATBufferEnd
    cur,        \* ATBufferCur, as an offset
    wire,       \* sent and not yet read
    session,
    sent,       \* counts the messages
    stream,     \* of this session: what was left of the last one, and all that was sent
    lines,      \* of this session: what readline has returned
    discarded   \* of this session: the lengths of what a full buffer has lost

vars == <<at, buf, cur, wire, session, sent, stream, lines, discarded>>

Chars(s)  == [i \in DOMAIN s |-> s[i].char]
Bytes     == [char : UNION {Range(m) : m \in Messages \cup {Echo}}, of : 1 .. MaxSessions]

\* The buffer is never longer than its array, and the cursor is inside.
TypeOK ==
    /\ at \in {"cut", "read", "ended"}
    /\ buf \in Seq(Bytes) /\ Len(buf) <= MAX_AT_RESPONSE
    /\ cur \in 0 .. Len(buf)
    /\ wire \in Seq(Bytes) /\ stream \in Seq(Bytes) /\ lines \in Seq(Seq(Bytes))
    /\ session \in 1 .. MaxSessions /\ sent \in 0 .. MaxMessages
    /\ discarded \subseteq 1 .. MAX_AT_RESPONSE

Init ==
    /\ at = "cut" /\ buf = <<>> /\ cur = 0
    /\ wire = <<>> /\ session = 1 /\ sent = 0
    /\ stream = <<>> /\ lines = <<>> /\ discarded = {}

(***************************************************************************)
(* tryALine and findNextEOL                                                 *)
(***************************************************************************)
Newline(b, i) == b[i].char = CR /\ b[i + 1].char = LF
Rest(b, c)    == SubSeq(b, c + 1, Len(b))

\* the cursor behind the leading pairs of carriage return and line feed
Skip(b, c) ==
    c + 2 * Max({n \in 0 .. (Len(b) - c) \div 2 : \A i \in 1 .. n : Newline(b, c + 2*i - 1)})

NoPrompt(b, c) == FALSE  \* a mutant: the special case is missing
IsPrompt(b, c) == Chars(Rest(b, c)) = Prompt

\* the offsets of the ends of line behind the cursor
Ends(b, c) == {i \in c + 1 .. Len(b) - 1 : Newline(b, i)}

\* the text of the next line and the offset where the one after it begins
Found(b, c)     == IsPrompt(b, c) \/ Ends(b, c) # {}
Line(b, c)      == IF IsPrompt(b, c) THEN Rest(b, c) ELSE SubSeq(b, c + 1, Min(Ends(b, c)) - 1)
findNextEOL(b, c) == IF IsPrompt(b, c) THEN Len(b) ELSE Min(Ends(b, c)) + 1

\* A partial line is moved to the front, unless it is shorter than two bytes.
Moved(b, c) == Rest(b, c)

tryALine(b, c0) ==
    LET c == Skip(b, c0)
    IN  IF Found(b, c)
        THEN LET eol == findNextEOL(b, c)
             IN  /\ at' = "cut"
                 /\ lines' = Append(lines, Line(b, c))
                 /\ IF eol = Len(b) THEN buf' = <<>> /\ cur' = 0 ELSE buf' = b /\ cur' = eol
        ELSE /\ at' = "read"
             /\ UNCHANGED lines
             /\ IF Len(b) - c >= 2 THEN buf' = Moved(b, c) /\ cur' = 0 ELSE buf' = b /\ cur' = c

(***************************************************************************)
(* readline                                                                 *)
(***************************************************************************)
\* readerLoop wants the next line
Cut ==
    /\ at = "cut"
    /\ tryALine(buf, cur)
    /\ UNCHANGED <<wire, session, sent, stream, discarded>>

\* a buffer that is full is given up
Full       == Len(buf) = MAX_AT_RESPONSE
Kept       == IF Full THEN <<>> ELSE buf
KeptCursor == IF Full THEN 0 ELSE cur
Discard    == discarded' = discarded \cup {n \in {Len(buf) - cur} : Full /\ n > 0}

Room == MAX_AT_RESPONSE - Len(Kept)

Read ==
    /\ at = "read" /\ wire # <<>>
    /\ \E n \in 1 .. Min({Room, Len(wire)}) :
          /\ tryALine(Kept \o SubSeq(wire, 1, n), KeptCursor)
          /\ wire' = SubSeq(wire, n + 1, Len(wire))
    /\ Discard
    /\ UNCHANGED <<session, sent, stream>>

\* end of file, or a read error; what was not read is gone
EndOfFile ==
    /\ at = "read"
    /\ at' = "ended" /\ buf' = Kept /\ cur' = KeptCursor /\ wire' = <<>>
    /\ Discard
    /\ UNCHANGED <<session, sent, stream, lines>>

\* at_open, which starts the reader of the next session
Open ==
    /\ at = "ended" /\ session < MaxSessions
    /\ at' = "cut" /\ session' = session + 1
    /\ stream' = Rest(buf, cur) /\ lines' = <<>> /\ discarded' = {}
    /\ UNCHANGED <<buf, cur, wire, sent>>

\* The modem sends a message.  It echoes the first command of a session only,
\* which tells it not to.
Send(m) ==
    /\ at # "ended" /\ sent < MaxMessages
    /\ m = Echo => ~\E i \in DOMAIN stream : stream[i].of = session
    /\ LET bytes == [i \in DOMAIN m |-> [char |-> m[i], of |-> session]]
       IN  wire' = wire \o bytes /\ stream' = stream \o bytes
    /\ sent' = sent + 1
    /\ UNCHANGED <<at, buf, cur, session, lines, discarded>>

Next == Cut \/ Read \/ EndOfFile \/ Open \/ \E m \in Messages \cup {Echo} : Send(m)
Spec == Init /\ [][Next]_vars

(***************************************************************************)
(* Properties                                                               *)
(***************************************************************************)
\* the lines of a stream: what is between two pairs, if it is not empty, and
\* a prompt at the end
Divide(s) ==
    LET Take(acc, b) ==
            IF b.char = LF /\ acc.part # <<>> /\ Last(acc.part).char = CR
            THEN [part |-> <<>>,
                  whole |-> IF Len(acc.part) = 1 THEN acc.whole ELSE Append(acc.whole, Front(acc.part))]
            ELSE [acc EXCEPT !.part = Append(@, b)]
        all == FoldLeft(Take, [part |-> <<>>, whole |-> <<>>], s)
    IN  IF Chars(all.part) = Prompt THEN Append(all.whole, all.part) ELSE all.whole

\* s with none or more of its elements left out
LeavesOut(s, t) ==
    FoldLeft(LAMBDA k, x : IF k < Len(s) /\ s[k + 1] = x THEN k + 1 ELSE k, 0, t) = Len(s)

\* The buffer ran full between the two characters of a line end: a line feed
\* is left, and hides a prompt behind it.
EndCutInTwo == \E l \in Range(Divide(stream)) : (Len(l) + 1) % MAX_AT_RESPONSE = 0

\* When readline waits and everything that was sent has been read, every line
\* that fits into the buffer has been returned, in order, whatever the lengths
\* of the reads; a longer one has left at most one other line behind; the
\* prompt has been returned without a line end; and what at_open found in the
\* buffer is in the first line only.  The exceptions are half a line end, and
\* a single byte that a full buffer has lost: it is not moved to the front,
\* and counts as a line that is too long.
LinesThatFitReturned ==
    at = "read" /\ wire = <<>> /\ 1 \notin discarded /\ ~EndCutInTwo =>
        LET all == Divide(stream)
        IN  /\ LeavesOut(SelectSeq(all, LAMBDA l : Len(l) + 2 <= MAX_AT_RESPONSE), lines)
            /\ Len(lines) <= Len(all)
=============================================================================
