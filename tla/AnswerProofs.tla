----------------------------- MODULE AnswerProofs -----------------------------
(***************************************************************************)
(* Theorems about AtChannel: whose lines the answer of a call consists of, *)
(* what may replace a final response that nobody has collected yet, and    *)
(* that the runner writes to an open descriptor only.                      *)
(*                                                                         *)
(* AnswerIsMine speaks of what has been returned.  Its strengthening       *)
(* AnswerInv follows every command number from the modem to the answer: a  *)
(* number still on its way belongs to the pending command, whose own final *)
(* response has not come yet, or to one that was abandoned.                *)
(***************************************************************************)
EXTENDS AtChannelProofs

(* The line the reader is about to process, if it has one.                  *)
Got == pc[Reader] = "got"

(* An unsolicited line is of one of the kinds the modem sends unasked, and  *)
(* the only final response among them is NO CARRIER.                        *)
StrayKinds == {"urc", "prefixed", "NO CARRIER", "sms", "smsbody"}

Unasked(l) == l.of = 0 => l.kind \in StrayKinds

UnaskedKinds ==
  /\ \A i \in DOMAIN wire : Unasked(wire[i])
  /\ Got => Unasked(line)

(* The modem works on commands that were written, on each of them once.     *)
ModemOrder ==
  /\ \A i \in DOMAIN modem : modem[i].of \in 1 .. sent
  /\ \A i, j \in DOMAIN modem : modem[i].of = modem[j].of => i = j

Ends(l) == IsFinal(l) /\ l.of # 0

(* A final response is the last the modem says of its command.              *)
FinalIsLast ==
  /\ \A i \in DOMAIN wire : Ends(wire[i]) =>
       /\ \A j \in DOMAIN wire : j > i => wire[j].of # wire[i].of
       /\ \A j \in DOMAIN modem : modem[j].of # wire[i].of
  /\ Got /\ Ends(line) =>
       /\ \A j \in DOMAIN wire : wire[j].of # line.of
       /\ \A j \in DOMAIN modem : modem[j].of # line.of

(* Nothing is on its way that answers a command not written yet.            *)
Written ==
  /\ \A i \in DOMAIN wire : wire[i].of <= sent
  /\ Got => line.of <= sent

(* A command something may still be said about was abandoned, or it is the  *)
(* pending one and its own final response has not been processed.           *)
Expected(n) ==
  \/ n = 0
  \/ n \in abandoned
  \/ n = response.of /\ response.final.of # n

OnTheWay == {modem[i].of : i \in DOMAIN modem} \cup {wire[i].of : i \in DOMAIN wire}
            \cup (IF Got THEN {line.of} ELSE {})

OnlyExpected == \A n \in OnTheWay : Expected(n)

(* The lines of an answer to command n, asked for by a raw command or not.  *)
StrayEnd == Line("NO CARRIER", 0)

FinalOf(n, l) == l.of \in abandoned \cup {n} \/ l = StrayEnd
InfoOf(n, raw, s) ==
  \A i \in DOMAIN s : \/ s[i].of \in abandoned \cup {n}
                      \/ s[i].kind = "prefixed"
                      \/ raw /\ s[i].of = 0

(* AnswerIsMine of the response that is still being filled.                 *)
SlotIsMine ==
  /\ response.final = NoLine \/ FinalOf(response.of, response.final)
  /\ InfoOf(response.of, response.type = "RAW_RESULT", response.info)

(* AnswerIsMine in the same words. *)
OutcomeIsMine ==
  \A c \in Clients : outcome[c].code = "OK" =>
    /\ FinalOf(outcome[c].of, outcome[c].final)
    /\ InfoOf(outcome[c].of, op[c] = "raw", outcome[c].info)

(* The slot has the type the wrapper of the waiting thread asked for.       *)
SlotType == \A c \in Clients : pc[c] \in InFlight => response.type = TypeOf(op[c])

AnswerInv ==
  /\ UnaskedKinds
  /\ ModemOrder
  /\ FinalIsLast
  /\ Written
  /\ OnlyExpected
  /\ SlotIsMine
  /\ SlotType
  /\ OutcomeIsMine

-----------------------------------------------------------------------------

(* A thread that is about to write found the reader open and has kept       *)
(* commandmutex, without which nobody marks it closed.                      *)
WriterFoundOpen == \A c \in Clients : pc[c] = "write" => ~readerClosed

(* The reader closes the descriptor only after it has marked itself closed. *)
ReaderMarksFirst ==
  pc[Reader] \in {"callback", "close1", "close2", "close3"} => readerClosed

(* Who has closed the descriptor: the reader, or the runner on its way out. *)
CloserKnown ==
  fd # "open" => readerClosed \/ pc[Runner] \in {"close2", "close3", "done"}

DescriptorInv ==
  /\ WriterFoundOpen
  /\ ReaderMarksFirst
  /\ CloserKnown

-----------------------------------------------------------------------------
(* What an element is in a sequence that has grown or lost its head.        *)

LEMMA AppendIndex ==
  ASSUME NEW S, NEW s \in Seq(S), NEW e \in S
  PROVE  /\ DOMAIN Append(s, e) = 1 .. Len(s) + 1 /\ DOMAIN s = 1 .. Len(s) /\ Len(s) \in Nat
         /\ \A i \in DOMAIN s : Append(s, e)[i] = s[i]
         /\ Append(s, e)[Len(s) + 1] = e
OBVIOUS

LEMMA TailIndex ==
  ASSUME NEW S, NEW s \in Seq(S), s # <<>>
  PROVE  /\ 1 \in DOMAIN s /\ Head(s) = s[1]
         /\ \A i \in DOMAIN Tail(s) : i \in Nat /\ i + 1 \in DOMAIN s /\ Tail(s)[i] = s[i + 1]
OBVIOUS

(* The control points of the other threads after a thread has moved and     *)
(* signalled commandcond.                                                   *)
LEMMA SignalFrame ==
  ASSUME TypeOK, NEW t \in Threads, NEW s \in Pcs, s # "respWait",
         pc' \in SignalCommand([pc EXCEPT ![t] = s])
  PROVE  /\ pc'[t] = s
         /\ \A u \in Threads : u # t =>
              pc'[u] = pc[u] \/ (u \in Clients /\ pc[u] = "respWait" /\ pc'[u] = "respWake")
<1> DEFINE p == [pc EXCEPT ![t] = s]
<1>1. p \in [Threads -> Pcs] /\ p[t] = s /\ \A u \in Threads : u # t => p[u] = pc[u]
  BY DEF TypeOK, Pcs
<1> HIDE DEF p
<1>2. \A u \in Threads : pc'[u] = p[u] \/ (u \in Clients /\ p[u] = "respWait" /\ pc'[u] = "respWake")
  BY <1>1, SignalEffect DEF p
<1>3. QED
  BY <1>1, <1>2

(* The control points of the other threads after a return.                  *)
LEMMA FinishFrame ==
  ASSUME TypeOK, NEW c \in Clients, NEW code, NEW answer, Finish(c, code, answer)
  PROVE  /\ pc'[Reader] = pc[Reader]
         /\ pc'[c] = AfterAttempt(c, code)
         /\ \A d \in Clients \ {c} : pc'[d] = pc[d] \/ (pc[d] = "reqWait" /\ pc'[d] = "reqWake")
<1> DEFINE p == [pc EXCEPT ![c] = AfterAttempt(c, code)]
<1>0. c \in Threads /\ Clients \subseteq Threads /\ Reader \in Threads /\ Reader \notin Clients
  BY ThreadsAssumption DEF Threads
<1>1. p \in [Threads -> Pcs] /\ p[c] = AfterAttempt(c, code)
      /\ \A t \in Threads : t # c => p[t] = pc[t]
  BY <1>0, AfterAttemptRange DEF TypeOK, Pcs, ClientPcs
<1>2. pc' = BroadcastRequest(p)
  BY DEF Finish
<1>3. pc[Reader] # "reqWait"
  BY DEF TypeOK, ReaderPcs
<1> HIDE DEF p
<1>4. \A t \in Threads : pc'[t] = p[t] \/ (p[t] = "reqWait" /\ pc'[t] = "reqWake")
  BY <1>1, <1>2, BroadcastEffect
<1>5. QED
  BY <1>0, <1>1, <1>3, <1>4, AfterAttemptRange

-----------------------------------------------------------------------------
(* The lines on their way.                                                  *)

StreamInv == UnaskedKinds /\ ModemOrder /\ FinalIsLast /\ Written

(* A step that reads nothing, sends nothing and leaves the numbers the      *)
(* modem works on alone.                                                    *)
LEMMA StreamQuiet ==
  ASSUME StreamInv, wire' = wire, line' = line, sent' = sent, Got' => Got,
         DOMAIN modem' = DOMAIN modem, \A i \in DOMAIN modem : modem'[i].of = modem[i].of
  PROVE  StreamInv'
BY DEF StreamInv, UnaskedKinds, ModemOrder, FinalIsLast, Written

(* A step in which the modem sends a line for its first command, which it   *)
(* keeps: an intermediate line or a prompt.                                 *)
LEMMA StreamInfo ==
  ASSUME TypeOK, StreamInv, modem # <<>>,
         NEW l \in Lines, l.of = modem[1].of, ~IsFinal(l), wire' = Append(wire, l),
         DOMAIN modem' = DOMAIN modem, \A i \in DOMAIN modem : modem'[i].of = modem[i].of,
         line' = line, pc' = pc, sent' = sent
  PROVE  StreamInv'
<1>1. /\ 1 \in DOMAIN modem /\ modem[1].of \in 1 .. sent /\ sent \in Nat
      /\ Got' <=> Got
  BY TailIndex DEF TypeOK, StreamInv, ModemOrder, Got
<1>2. l.of # 0
  BY <1>1
<1>3. ~Ends(l)
  BY DEF Ends
<1>4. /\ DOMAIN wire' = 1 .. Len(wire) + 1 /\ DOMAIN wire = 1 .. Len(wire) /\ Len(wire) \in Nat
      /\ \A i \in DOMAIN wire : wire'[i] = wire[i]
      /\ wire'[Len(wire) + 1] = l
  BY AppendIndex DEF TypeOK
<1>5. \A i \in DOMAIN wire' : i \in DOMAIN wire \/ (i = Len(wire) + 1 /\ i \notin DOMAIN wire)
  BY <1>4
<1>6. UnaskedKinds'
  BY <1>1, <1>2, <1>4, <1>5 DEF StreamInv, UnaskedKinds, Unasked
<1>7. ModemOrder'
  BY DEF StreamInv, ModemOrder
<1>8. FinalIsLast'
  <2>1. ASSUME NEW i \in DOMAIN wire', Ends(wire'[i])
        PROVE  i \in DOMAIN wire /\ Ends(wire[i]) /\ wire'[i] = wire[i]
    BY <1>3, <1>4, <1>5, <2>1
  <2>2. ASSUME NEW i \in DOMAIN wire', Ends(wire'[i])
        PROVE  /\ \A j \in DOMAIN wire' : j > i => wire'[j].of # wire'[i].of
               /\ \A j \in DOMAIN modem' : modem'[j].of # wire'[i].of
    BY <1>1, <1>2, <1>4, <1>5, <2>1, <2>2 DEF StreamInv, FinalIsLast
  <2>3. ASSUME Got, Ends(line)
        PROVE  /\ \A j \in DOMAIN wire' : wire'[j].of # line.of
               /\ \A j \in DOMAIN modem' : modem'[j].of # line.of
    BY <1>1, <1>2, <1>4, <1>5, <2>3 DEF StreamInv, FinalIsLast
  <2>4. QED
    BY <1>1, <2>2, <2>3 DEF FinalIsLast, Ends, IsFinal
<1>9. Written'
  BY <1>1, <1>2, <1>4, <1>5 DEF StreamInv, Written
<1>10. QED
  BY <1>6, <1>7, <1>8, <1>9 DEF StreamInv

(* The lines that begin with a digit or a prefix nobody sends unasked.      *)
LEMMA LineKindFacts ==
  /\ \A k \in {"OK", "ERROR", "info", "digits", "> "} : k \in LineKinds
  /\ \A k \in StrayKinds : k \in LineKinds
  /\ \A k \in StrayKinds : k \notin {"digits", "info", "> "}
BY Zenon DEF StrayKinds, LineKinds

LEMMA FinalKindFacts ==
  ASSUME NEW l
  PROVE  /\ l.kind \in {"info", "digits", "> "} => ~IsFinal(l)
         /\ l.kind \in StrayKinds /\ IsFinal(l) => l.kind = "NO CARRIER"
<1>1. /\ \A k \in {"info", "digits", "> "} : k \notin {"OK", "ERROR", "NO CARRIER"}
      /\ \A k \in StrayKinds : k \in {"OK", "ERROR", "NO CARRIER"} => k = "NO CARRIER"
  BY Zenon DEF StrayKinds
<1>2. QED
  BY <1>1, Zenon DEF IsFinal

(* The first line has been read. *)
LEMMA StreamRead ==
  ASSUME TypeOK, StreamInv, ReadLine
  PROVE  StreamInv'
<1>1. /\ wire \in Seq(Lines) /\ wire # <<>> /\ wire' = Tail(wire) /\ line' = Head(wire)
      /\ modem' = modem /\ sent' = sent
  BY DEF ReadLine, TypeOK, modemVars, ghostVars
<1>2. /\ 1 \in DOMAIN wire /\ line' = wire[1] /\ DOMAIN wire = 1 .. Len(wire)
      /\ \A i \in DOMAIN wire' : i \in Nat /\ i > 0 /\ i + 1 \in DOMAIN wire /\ wire'[i] = wire[i + 1]
  BY <1>1, TailIndex
<1>3. UnaskedKinds' /\ ModemOrder' /\ Written'
  BY <1>1, <1>2 DEF StreamInv, UnaskedKinds, Unasked, ModemOrder, Written
<1>4. FinalIsLast'
  <2>1. ASSUME NEW i \in DOMAIN wire', Ends(wire'[i])
        PROVE  /\ \A j \in DOMAIN wire' : j > i => wire'[j].of # wire'[i].of
               /\ \A j \in DOMAIN modem' : modem'[j].of # wire'[i].of
    BY <1>1, <1>2, <2>1 DEF StreamInv, FinalIsLast
  <2>2. ASSUME Ends(line')
        PROVE  /\ \A j \in DOMAIN wire' : wire'[j].of # line'.of
               /\ \A j \in DOMAIN modem' : modem'[j].of # line'.of
    BY <1>1, <1>2, <2>2 DEF StreamInv, FinalIsLast
  <2>3. QED
    BY <2>1, <2>2 DEF FinalIsLast, Ends, IsFinal
<1>5. QED
  BY <1>3, <1>4 DEF StreamInv

(* FinalIsLast depends on the modem only through the numbers it works on.   *)
LEMMA LastKept ==
  ASSUME FinalIsLast, wire' = wire, line' = line, Got' => Got,
         \A i \in DOMAIN wire, j \in DOMAIN modem' : Ends(wire[i]) => modem'[j].of # wire[i].of,
         \A j \in DOMAIN modem' : Got /\ Ends(line) => modem'[j].of # line.of
  PROVE  FinalIsLast'
BY DEF FinalIsLast, Ends, IsFinal

(* A new command has been handed to the modem. *)
LEMMA StreamWrite ==
  ASSUME TypeOK, StreamInv, NEW c \in Clients, Write(c)
  PROVE  StreamInv'
<1> DEFINE m == [of |-> sent + 1, op |-> op[c], stage |-> "new"]
<1>0. Reader \notin Clients
  BY ThreadsAssumption
<1>1. /\ wire' = wire /\ line' = line /\ sent' = sent + 1 /\ sent \in Nat
      /\ Got' <=> Got
      /\ modem' = Append(modem, m) /\ modem \in Seq(Commands)
  BY <1>0 DEF Write, TypeOK, linkVars, Got
<1>2. m \in Commands /\ m.of = sent + 1
  BY <1>1 DEF Commands, TypeOK
<1> HIDE DEF m
<1>3. /\ DOMAIN modem' = 1 .. Len(modem) + 1 /\ DOMAIN modem = 1 .. Len(modem) /\ Len(modem) \in Nat
      /\ \A i \in DOMAIN modem : modem'[i] = modem[i]
      /\ modem'[Len(modem) + 1] = m
  BY <1>1, <1>2, AppendIndex
<1>4. \A i \in DOMAIN modem' : \/ i \in DOMAIN modem /\ modem'[i].of = modem[i].of
                               \/ i = Len(modem) + 1 /\ modem'[i].of = sent + 1
  BY <1>2, <1>3
<1>5. UnaskedKinds' /\ Written'
  <2>1. \A i \in DOMAIN wire : wire[i] \in Lines
    BY DEF TypeOK
  <2>2. \A i \in DOMAIN wire : wire[i].of \in Nat
    BY <2>1 DEF Lines
  <2>3. line.of \in Nat
    BY DEF TypeOK, Lines
  <2>4. QED
    BY <1>1, <2>2, <2>3 DEF StreamInv, UnaskedKinds, Unasked, Written
<1>6. ModemOrder'
  BY <1>1, <1>4 DEF StreamInv, ModemOrder
<1>7. FinalIsLast'
  <2>1. \A i \in DOMAIN wire : wire[i].of # sent + 1
    <3>1. \A i \in DOMAIN wire : wire[i] \in Lines
      BY DEF TypeOK
    <3>2. QED
      BY <1>1, <3>1 DEF StreamInv, Written, Lines
  <2>2. Got => line.of # sent + 1
    BY <1>1 DEF StreamInv, Written, TypeOK, Lines
  <2>3. /\ \A i \in DOMAIN wire, j \in DOMAIN modem' : Ends(wire[i]) => modem'[j].of # wire[i].of
        /\ \A j \in DOMAIN modem' : Got /\ Ends(line) => modem'[j].of # line.of
    BY <1>4, <2>1, <2>2 DEF StreamInv, FinalIsLast
  <2>4. QED
    BY <1>1, <2>3, LastKept DEF StreamInv
<1>8. QED
  BY <1>5, <1>6, <1>7 DEF StreamInv

(* The modem forgets its first command. *)
LEMMA StreamDrop ==
  ASSUME TypeOK, StreamInv, ModemDrops
  PROVE  StreamInv'
<1>1. /\ modem \in Seq(Commands) /\ modem # <<>> /\ modem' = Tail(modem)
      /\ wire' = wire /\ line' = line /\ pc' = pc /\ sent' = sent
  BY DEF ModemDrops, TypeOK, linkVars, ghostVars
<1>2. \A i \in DOMAIN modem' : i \in Nat /\ i + 1 \in DOMAIN modem /\ modem'[i] = modem[i + 1]
  BY <1>1, TailIndex
<1>3. UnaskedKinds' /\ Written'
  BY <1>1 DEF StreamInv, UnaskedKinds, Unasked, Written, Got
<1>4. ModemOrder'
  BY <1>1, <1>2 DEF StreamInv, ModemOrder
<1>5. FinalIsLast'
  <2>1. /\ \A i \in DOMAIN wire, j \in DOMAIN modem' : Ends(wire[i]) => modem'[j].of # wire[i].of
        /\ \A j \in DOMAIN modem' : Got /\ Ends(line) => modem'[j].of # line.of
    BY <1>2 DEF StreamInv, FinalIsLast
  <2>2. Got' => Got
    BY <1>1 DEF Got
  <2>3. QED
    BY <1>1, <2>1, <2>2, LastKept DEF StreamInv
<1>6. QED
  BY <1>3, <1>4, <1>5 DEF StreamInv

(* The modem ends its first command. *)
LEMMA StreamFinal ==
  ASSUME TypeOK, StreamInv, NEW k \in {"OK", "ERROR"}, ModemFinal(k)
  PROVE  StreamInv'
<1> DEFINE l == Line(k, modem[1].of)
<1>1. /\ modem \in Seq(Commands) /\ modem # <<>> /\ modem' = Tail(modem)
      /\ wire' = Append(wire, l) /\ wire \in Seq(Lines)
      /\ line' = line /\ pc' = pc /\ sent' = sent
  BY HeadOfModem DEF ModemFinal, TypeOK, linkVars, ghostVars
<1>2. /\ 1 \in DOMAIN modem
      /\ \A i \in DOMAIN modem' : i \in Nat /\ i # 0 /\ i + 1 \in DOMAIN modem /\ modem'[i] = modem[i + 1]
  BY <1>1, TailIndex
<1>3. modem[1].of \in 1 .. sent /\ sent \in Nat /\ (Got' <=> Got)
  BY <1>1, <1>2 DEF StreamInv, ModemOrder, TypeOK, Got
<1>4. l \in Lines /\ l.of = modem[1].of /\ l.of # 0
  <2>1. k \in LineKinds
    BY Zenon DEF LineKinds
  <2>2. QED
    BY <1>3, <2>1 DEF Line, Lines
<1> HIDE DEF l
<1>5. /\ DOMAIN wire' = 1 .. Len(wire) + 1 /\ DOMAIN wire = 1 .. Len(wire) /\ Len(wire) \in Nat
      /\ \A i \in DOMAIN wire : wire'[i] = wire[i]
      /\ wire'[Len(wire) + 1] = l
  BY <1>1, <1>4, AppendIndex
<1>6. \A i \in DOMAIN wire' : \/ i \in DOMAIN wire /\ wire'[i] = wire[i] /\ i <= Len(wire)
                              \/ i = Len(wire) + 1 /\ wire'[i] = l
  BY <1>5
<1>7. UnaskedKinds' /\ Written'
  BY <1>1, <1>3, <1>4, <1>6 DEF StreamInv, UnaskedKinds, Unasked, Written
<1>8. ModemOrder'
  BY <1>1, <1>2 DEF StreamInv, ModemOrder
<1>9. \A j \in DOMAIN modem' : modem'[j].of # l.of
  BY <1>2, <1>4 DEF StreamInv, ModemOrder
<1>10. FinalIsLast'
  <2>1. \A i \in DOMAIN wire' : Ends(wire'[i]) =>
          /\ \A j \in DOMAIN wire' : j > i => wire'[j].of # wire'[i].of
          /\ \A j \in DOMAIN modem' : modem'[j].of # wire'[i].of
    <3> SUFFICES ASSUME NEW i \in DOMAIN wire', Ends(wire'[i])
                 PROVE  /\ \A j \in DOMAIN wire' : j > i => wire'[j].of # wire'[i].of
                        /\ \A j \in DOMAIN modem' : modem'[j].of # wire'[i].of
      OBVIOUS
    <3>1. CASE i \in DOMAIN wire /\ wire'[i] = wire[i]
      BY <1>2, <1>4, <1>5, <1>6, <3>1 DEF StreamInv, FinalIsLast
    <3>2. CASE i = Len(wire) + 1 /\ wire'[i] = l
      BY <1>5, <1>9, <3>2
    <3>3. QED
      BY <1>6, <3>1, <3>2
  <2>2. Got /\ Ends(line) =>
          /\ \A j \in DOMAIN wire' : wire'[j].of # line.of
          /\ \A j \in DOMAIN modem' : modem'[j].of # line.of
    BY <1>2, <1>4, <1>6 DEF StreamInv, FinalIsLast
  <2>3. QED
    BY <1>1, <1>3, <2>1, <2>2 DEF FinalIsLast, Ends, IsFinal
<1>11. QED
  BY <1>7, <1>8, <1>10 DEF StreamInv

(* The modem sends lines nobody asked for. *)
LEMMA StreamStray ==
  ASSUME TypeOK, StreamInv, NEW s \in Seq(Lines), wire' = wire \o s,
         \A i \in DOMAIN s : s[i].of = 0 /\ s[i].kind \in StrayKinds,
         modem' = modem, line' = line, pc' = pc, sent' = sent
  PROVE  StreamInv'
<1>1. /\ wire \in Seq(Lines) /\ sent \in Nat /\ (Got' <=> Got)
      /\ \A i \in DOMAIN modem : modem[i].of \in 1 .. sent
  BY DEF TypeOK, Got, StreamInv, ModemOrder
<1>2. \A i \in DOMAIN wire' : \/ i \in DOMAIN wire /\ wire'[i] = wire[i]
                              \/ /\ i \notin DOMAIN wire /\ i \in Nat
                                 /\ i - Len(wire) \in DOMAIN s /\ wire'[i] = s[i - Len(wire)]
  BY <1>1
<1>3. \A i \in DOMAIN wire' : \/ i \in DOMAIN wire /\ wire'[i] = wire[i]
                              \/ /\ i \notin DOMAIN wire
                                 /\ wire'[i].of = 0 /\ wire'[i].kind \in StrayKinds
  BY <1>2
<1>4. UnaskedKinds' /\ ModemOrder' /\ Written'
  BY <1>1, <1>3 DEF StreamInv, UnaskedKinds, Unasked, ModemOrder, Written
<1>5. FinalIsLast'
  <2>1. \A i \in DOMAIN wire' : Ends(wire'[i]) => i \in DOMAIN wire /\ wire'[i] = wire[i]
    BY <1>3 DEF Ends
  <2>2. ASSUME NEW i \in DOMAIN wire', Ends(wire'[i])
        PROVE  /\ \A j \in DOMAIN wire' : j > i => wire'[j].of # wire'[i].of
               /\ \A j \in DOMAIN modem' : modem'[j].of # wire'[i].of
    <3>1. /\ i \in DOMAIN wire /\ wire'[i] = wire[i] /\ wire[i].of # 0 /\ Ends(wire[i])
      BY <2>1, <2>2 DEF Ends
    <3>2. QED
      BY <1>3, <3>1 DEF StreamInv, FinalIsLast
  <2>3. ASSUME Got, Ends(line)
        PROVE  /\ \A j \in DOMAIN wire' : wire'[j].of # line.of
               /\ \A j \in DOMAIN modem' : modem'[j].of # line.of
    <3>1. line.of # 0
      BY <2>3 DEF Ends
    <3>2. QED
      BY <1>3, <2>3, <3>1 DEF StreamInv, FinalIsLast
  <2>4. QED
    BY <1>1, <2>2, <2>3 DEF FinalIsLast, Ends, IsFinal
<1>6. QED
  BY <1>4, <1>5 DEF StreamInv

(* A command's progress does not change its number.                         *)
LEMMA StageKeepsNumber ==
  ASSUME modem \in Seq(Commands), modem # <<>>, NEW s
  PROVE  /\ DOMAIN [modem EXCEPT ![1].stage = s] = DOMAIN modem
         /\ \A i \in DOMAIN modem : [modem EXCEPT ![1].stage = s][i].of = modem[i].of
<1>1. DOMAIN modem = 1 .. Len(modem) /\ \A i \in DOMAIN modem : modem[i] \in Commands
  OBVIOUS
<1>2. QED
  BY <1>1 DEF Commands

(* The lines on their way, over every step. *)
LEMMA StreamStep == TypeOK /\ StreamInv /\ [Next]_vars => StreamInv'
<1> SUFFICES ASSUME TypeOK, StreamInv, [Next]_vars PROVE StreamInv'
  OBVIOUS
<1>0. /\ Clients \subseteq Threads /\ Reader \in Threads /\ Runner \in Clients
      /\ Reader \notin Clients
  BY ThreadsAssumption DEF Threads, Clients
<1> USE <1>0 DEF clientVars, channelVars, modemVars, mutexVars, linkVars, ghostVars
<1>1. CASE SetCallbacks
  BY <1>1, StreamQuiet DEF SetCallbacks, Got, TypeOK
<1>2. CASE HandshakeDone
  BY <1>2, StreamQuiet DEF HandshakeDone, Got, TypeOK
<1>3. CASE Serve
  BY <1>3, StreamQuiet DEF Serve, Got, TypeOK
<1>4. CASE LeaveLoop
  BY <1>4, StreamQuiet DEF LeaveLoop, Got, TypeOK
<1>5. CASE ReadLine
  BY <1>5, StreamRead
<1>6. CASE ReadFails
  BY <1>6, StreamQuiet DEF ReadFails, Got, TypeOK
<1>7. CASE ProcessUnsolicited
  BY <1>7, StreamQuiet DEF ProcessUnsolicited, Got, TypeOK
<1>8. CASE TestClosed
  BY <1>8, StreamQuiet DEF TestClosed, Got, TypeOK
<1>9. CASE OnReaderClosed
  BY <1>9, StreamQuiet DEF OnReaderClosed, Got, TypeOK
<1>10. CASE ModemDrops
  BY <1>10, StreamDrop
<1>11. CASE HangUp
  BY <1>11, StreamQuiet DEF HangUp, Got
<1>12. CASE Quiescent
  BY <1>12, StreamQuiet DEF Quiescent, vars, Got
<1>13. ASSUME NEW c \in Clients, Lock(c) PROVE StreamInv'
  BY <1>13, StreamQuiet DEF Lock, Got, TypeOK
<1>14. ASSUME NEW c \in Clients, TryBusy(c) PROVE StreamInv'
  BY <1>14, StreamQuiet DEF TryBusy, Got, TypeOK
<1>15. ASSUME NEW c \in Clients, RequestRelock(c) PROVE StreamInv'
  BY <1>15, StreamQuiet DEF RequestRelock, Got, TypeOK
<1>16. ASSUME NEW c \in Clients, TryAcquire(c) PROVE StreamInv'
  BY <1>16, StreamQuiet DEF TryAcquire, Got, TypeOK
<1>17. ASSUME NEW c \in Clients, Deadline(c) PROVE StreamInv'
  BY <1>17, StreamQuiet DEF Deadline, Got, TypeOK
<1>18. ASSUME NEW c \in Clients, WaitAgain(c) PROVE StreamInv'
  BY <1>18, StreamQuiet DEF WaitAgain, Got, TypeOK
<1>19. ASSUME NEW c \in Clients, OnTimeout(c) PROVE StreamInv'
  BY <1>19, StreamQuiet DEF OnTimeout, Got, TypeOK
<1>20. ASSUME NEW c \in Clients, SpuriousWakeup(c) PROVE StreamInv'
  BY <1>20, StreamQuiet DEF SpuriousWakeup, Got, TypeOK
<1>21. ASSUME NEW c \in Clients, NEW o \in Ops, Call(c, o) PROVE StreamInv'
  BY <1>21, StreamQuiet DEF Call, Got, TypeOK
<1>22. ASSUME NEW c \in Clients, Write(c) PROVE StreamInv'
  BY <1>22, StreamWrite
<1>23. ASSUME NEW c \in Clients, NEW code, NEW answer, Finish(c, code, answer),
              wire' = wire, modem' = modem, sent' = sent
       PROVE  StreamInv'
  <2>1. pc'[Reader] = pc[Reader] /\ line' = line
    BY <1>23, FinishFrame DEF Finish
  <2>2. QED
    BY <1>23, <2>1, StreamQuiet DEF Got
<1>24. ASSUME NEW c \in Clients, TryRefused(c) PROVE StreamInv'
  BY <1>23, <1>24 DEF TryRefused
<1>25. ASSUME NEW c \in Clients, WriteFails(c) PROVE StreamInv'
  BY <1>23, <1>25 DEF WriteFails
<1>26. ASSUME NEW c \in Clients, GiveUp(c) PROVE StreamInv'
  BY <1>23, <1>26 DEF GiveUp
<1>27. ASSUME NEW c \in Clients, ReturnClosed(c) PROVE StreamInv'
  BY <1>23, <1>27 DEF ReturnClosed
<1>28. ASSUME NEW c \in Clients, ReturnAnswer(c) PROVE StreamInv'
  BY <1>23, <1>28 DEF ReturnAnswer
<1>29. ASSUME NEW t \in {Runner, Reader}, CloseFd(t) PROVE StreamInv'
  BY <1>29, StreamQuiet DEF CloseFd, Got, TypeOK
<1>30. ASSUME NEW t \in {Runner, Reader}, ForgetFd(t) PROVE StreamInv'
  BY <1>30, StreamQuiet DEF ForgetFd, Got, TypeOK
<1>31. ASSUME NEW t \in Threads, NEW s \in Pcs \ {"got", "respWait"},
              pc' \in SignalCommand([pc EXCEPT ![t] = s]),
              wire' = wire, modem' = modem, line' = line, sent' = sent
       PROVE  StreamInv'
  <2>1. pc'[Reader] = pc[Reader] \/ pc'[Reader] # "got"
    BY <1>31, SignalFrame
  <2>2. QED
    BY <1>31, <2>1, StreamQuiet DEF Got
<1>32. "done" \in Pcs /\ "read" \in Pcs /\ "callback" \in Pcs
  BY DEF Pcs, ReaderPcs
<1>33. ASSUME NEW t \in {Runner, Reader}, CloseSignal(t) PROVE StreamInv'
  BY <1>31, <1>32, <1>33 DEF CloseSignal
<1>34. CASE ProcessFinal
  BY <1>31, <1>32, <1>34 DEF ProcessFinal
<1>35. CASE MarkClosed
  BY <1>31, <1>32, <1>35 DEF MarkClosed
<1>36. CASE ProcessInfo
  BY <1>36, StreamQuiet DEF ProcessInfo, Got, TypeOK
<1>37. CASE ProcessPrompt
  <2>1. DOMAIN modem' = DOMAIN modem /\ \A i \in DOMAIN modem : modem'[i].of = modem[i].of
    <3>1. \A i \in DOMAIN modem : modem[i] \in Commands
      BY DEF TypeOK
    <3>2. QED
      BY <1>37, <3>1 DEF ProcessPrompt, Commands
  <2>2. wire' = wire /\ line' = line /\ sent' = sent /\ ~Got'
    BY <1>37 DEF ProcessPrompt, Got, TypeOK
  <2>3. QED
    BY <2>1, <2>2, StreamQuiet
<1>38. ASSUME NEW s, modem # <<>>, modem' = [modem EXCEPT ![1].stage = s]
       PROVE  DOMAIN modem' = DOMAIN modem /\ \A i \in DOMAIN modem : modem'[i].of = modem[i].of
  BY <1>38, StageKeepsNumber DEF TypeOK
<1>39. CASE ModemInfo
  <2> DEFINE l == Line(InfoKind(Head(modem).op), Head(modem).of)
  <2>1. modem # <<>> /\ wire' = Append(wire, l)
    BY <1>39 DEF ModemInfo
  <2>2. Head(modem) = modem[1] /\ modem[1] \in Commands
    BY <2>1, HeadOfModem DEF TypeOK
  <2>3. InfoKind(Head(modem).op) \in {"digits", "info"}
    BY DEF InfoKind
  <2>4. /\ l.of = modem[1].of /\ l.kind = InfoKind(Head(modem).op)
    BY <2>2 DEF Line
  <2>5. l \in Lines
    BY <2>2, <2>3, LineKindFacts DEF Line, Lines, Commands
  <2>6. ~IsFinal(l)
    BY <2>3, <2>4, FinalKindFacts
  <2>7. line' = line /\ pc' = pc /\ sent' = sent
    BY <1>39 DEF ModemInfo
  <2>8. DOMAIN modem' = DOMAIN modem /\ \A i \in DOMAIN modem : modem'[i].of = modem[i].of
    BY <1>38, <1>39 DEF ModemInfo
  <2> HIDE DEF l
  <2>9. QED
    BY <2>1, <2>4, <2>5, <2>6, <2>7, <2>8, StreamInfo
<1>40. CASE ModemPrompt
  <2> DEFINE l == Line("> ", Head(modem).of)
  <2>1. modem # <<>> /\ wire' = Append(wire, l)
    BY <1>40 DEF ModemPrompt
  <2>2. Head(modem) = modem[1] /\ modem[1] \in Commands
    BY <2>1, HeadOfModem DEF TypeOK
  <2>3. Head(modem).of \in Nat
    BY <2>2 DEF Commands
  <2>4. l \in Lines
    BY <2>3, LineKindFacts, LineType, Zenon
  <2>5. l.of = modem[1].of /\ l.kind = "> "
    BY <2>2, Zenon DEF Line
  <2>6. ~IsFinal(l)
    BY <2>5, FinalKindFacts, Zenon
  <2> HIDE DEF l
  <2>7. line' = line /\ pc' = pc /\ sent' = sent
    BY <1>40 DEF ModemPrompt
  <2>8. DOMAIN modem' = DOMAIN modem /\ \A i \in DOMAIN modem : modem'[i].of = modem[i].of
    BY <1>38, <1>40 DEF ModemPrompt
  <2>9. l.of = modem[1].of
    BY <2>5
  <2>10. QED
    BY <2>1, <2>4, <2>6, <2>7, <2>8, <2>9, StreamInfo
<1>41. ASSUME NEW k \in Finals, ModemFinal(k) PROVE StreamInv'
  <2>1. k \in {"OK", "ERROR"}
    BY BoundsAssumption, Zenon
  <2>2. QED
    BY <1>41, <2>1, StreamFinal
<1>42. ASSUME NEW k \in Strays, ModemStray(k) PROVE StreamInv'
  <2> DEFINE s == IF k = "sms" THEN <<Line("sms", 0), Line("smsbody", 0)>> ELSE <<Line(k, 0)>>
  <2>1. wire' = wire \o s /\ modem' = modem /\ line' = line /\ pc' = pc /\ sent' = sent
    BY <1>42 DEF ModemStray
  <2>2. k \in StrayKinds /\ "sms" \in StrayKinds /\ "smsbody" \in StrayKinds
    BY BoundsAssumption, Zenon DEF AllStrays, StrayKinds
  <2>3. /\ Line(k, 0) \in Lines /\ Line("sms", 0) \in Lines /\ Line("smsbody", 0) \in Lines
    BY <2>2, LineKindFacts, LineType
  <2>4. s \in Seq(Lines)
    BY <2>3
  <2>5. \A i \in DOMAIN s : s[i].of = 0 /\ s[i].kind \in StrayKinds
    BY <2>2 DEF Line
  <2> HIDE DEF s
  <2>6. QED
    BY <2>1, <2>4, <2>5, StreamStray
<1>43. CASE UNCHANGED vars
  BY <1>43, StreamQuiet DEF vars, Got
<1>44. QED
  BY <1>1, <1>2, <1>3, <1>4, <1>5, <1>6, <1>7, <1>8, <1>9, <1>10, <1>11, <1>12, <1>13,
     <1>14, <1>15, <1>16, <1>17, <1>18, <1>19, <1>20, <1>21, <1>22, <1>24, <1>25,
     <1>26, <1>27, <1>28, <1>29, <1>30, <1>33, <1>34, <1>35, <1>36, <1>37, <1>39,
     <1>40, <1>41, <1>42, <1>43
     DEF Next, RunnerSteps, ClientSteps, Locking, Waiting, ReaderSteps, Closing, ModemSteps

-----------------------------------------------------------------------------
(* The slot and the answers.                                                *)

SlotInv == OnlyExpected /\ SlotIsMine /\ SlotType /\ OutcomeIsMine

(* A step that neither sends nor reads a line. *)
LEMMA WaySame ==
  ASSUME wire' = wire, modem' = modem, line' = line, Got' => Got
  PROVE  OnTheWay' \subseteq OnTheWay
BY DEF OnTheWay

(* A step that leaves the slot and the answers alone. *)
LEMMA SlotQuiet ==
  ASSUME SlotInv, OnTheWay' \subseteq OnTheWay \cup {0},
         response' = response, abandoned' = abandoned, outcome' = outcome, op' = op,
         \A c \in Clients : pc'[c] \in InFlight => pc[c] \in InFlight
  PROVE  SlotInv'
<1>1. OnlyExpected'
  BY DEF SlotInv, OnlyExpected, Expected
<1>2. SlotIsMine'
  BY DEF SlotInv, SlotIsMine, FinalOf, InfoOf
<1>3. SlotType'
  BY DEF SlotInv, SlotType
<1>4. OutcomeIsMine'
  BY DEF SlotInv, OutcomeIsMine, FinalOf, InfoOf
<1>5. QED
  BY <1>1, <1>2, <1>3, <1>4 DEF SlotInv

(* Only the raw wrapper asks for any line. *)
LEMMA RawType ==
  ASSUME NEW o \in AllOps \cup {"handshake"}, TypeOf(o) = "RAW_RESULT"
  PROVE  o = "raw"
BY DEF TypeOf, AllOps

(* A return: what is still expected of the command makes it abandoned, and  *)
(* an answer that is passed on is the one in the slot.                      *)
LEMMA SlotReturn ==
  ASSUME TypeOK, OwnerInv, SlotInv, NEW c \in Clients, NEW code, NEW answer,
         Finish(c, code, answer), OnTheWay' \subseteq OnTheWay,
         reqMutex \in {None, c},
         abandoned \subseteq abandoned',
         response.of \in abandoned' \cup {0, response.final.of},
         code = "OK" => /\ answer = response /\ response.final # NoLine
                        /\ pc[c] \in InFlight /\ cmd'[c] = response.of
  PROVE  SlotInv'
<1>0. c \in Threads /\ None \notin Clients
  BY ThreadsAssumption DEF Threads
<1>1. response' = NoResponse /\ NoResponse.of = 0 /\ NoResponse.final = NoLine /\ NoResponse.info = <<>>
  BY DEF Finish, NoResponse
<1>2. OnlyExpected'
  BY <1>1 DEF SlotInv, OnlyExpected, Expected
<1>3. SlotIsMine'
  BY <1>1 DEF SlotIsMine, InfoOf
<1>4. SlotType'
  <2>1. \A d \in Clients \ {c} : pc[d] \notin InFlight
    BY <1>0 DEF OwnerInv, RequestHolder
  <2>2. \A d \in Clients : pc'[d] \notin InFlight
    BY <2>1, FinishFrame, AfterAttemptRange DEF InFlight
  <2>3. QED
    BY <2>2 DEF SlotType
<1>5. /\ op' = op
      /\ \A d \in Clients \ {c} : outcome'[d] = outcome[d]
      /\ outcome'[c] = [of |-> cmd'[c], code |-> code, final |-> answer.final, info |-> answer.info]
  BY DEF Finish, TypeOK
<1>6. OutcomeIsMine'
  <2> SUFFICES ASSUME NEW d \in Clients, outcome'[d].code = "OK"
               PROVE  /\ FinalOf(outcome[d].of, outcome[d].final)'
                      /\ InfoOf(outcome[d].of, op[d] = "raw", outcome[d].info)'
    BY DEF OutcomeIsMine
  <2>1. CASE d # c
    BY <1>5, <2>1 DEF SlotInv, OutcomeIsMine, FinalOf, InfoOf
  <2>2. CASE d = c
    <3>1. /\ code = "OK" /\ outcome'[c].of = response.of
          /\ outcome'[c].final = response.final /\ outcome'[c].info = response.info
      BY <1>5, <2>2
    <3>2. response.type = "RAW_RESULT" => op[c] = "raw"
      BY <3>1, RawType DEF SlotInv, SlotType, TypeOK
    <3>3. QED
      BY <1>5, <2>2, <3>1, <3>2 DEF SlotInv, SlotIsMine, FinalOf, InfoOf
  <2>3. QED
    BY <2>1, <2>2
<1>7. QED
  BY <1>2, <1>3, <1>4, <1>6 DEF SlotInv

(* A command has been written: nothing else is pending. *)
LEMMA SlotWrite ==
  ASSUME TypeOK, OwnerInv, StreamInv, SlotInv, NEW c \in Clients, Write(c)
  PROVE  SlotInv'
<1>0. Reader \notin Clients /\ c \in Threads /\ Clients \subseteq Threads /\ None \notin Clients
  BY ThreadsAssumption DEF Threads
<1>1. ~Pending /\ reqMutex = c
  BY DEF Write, OwnerInv, ResponseOwned, RequestHolder, InFlight
<1>2. /\ response'.of = sent + 1 /\ response'.final = NoLine /\ response'.info = <<>>
      /\ response'.type = TypeOf(op[c])
      /\ abandoned' = abandoned /\ op' = op /\ outcome' = outcome
  BY DEF Write
<1>3. OnTheWay' \subseteq OnTheWay \cup {sent + 1}
  <2> DEFINE m == [of |-> sent + 1, op |-> op[c], stage |-> "new"]
  <2>1. /\ wire' = wire /\ line' = line /\ (Got' <=> Got)
        /\ modem' = Append(modem, m) /\ modem \in Seq(Commands)
    BY <1>0 DEF Write, TypeOK, linkVars, Got
  <2>2. m \in Commands /\ m.of = sent + 1
    BY DEF Commands, TypeOK
  <2> HIDE DEF m
  <2>3. \A i \in DOMAIN modem' : \/ i \in DOMAIN modem /\ modem'[i].of = modem[i].of
                                 \/ modem'[i].of = sent + 1
    BY <2>1, <2>2, AppendIndex
  <2>4. QED
    BY <2>1, <2>3 DEF OnTheWay
<1>4. OnlyExpected'
  <2>1. NoLine.of = 0 /\ sent + 1 # 0
    BY DEF NoLine, Line, TypeOK
  <2>2. QED
    BY <1>1, <1>2, <1>3, <2>1 DEF SlotInv, OnlyExpected, Expected, Pending
<1>5. SlotIsMine'
  BY <1>2 DEF SlotIsMine, InfoOf
<1>6. SlotType'
  <2>1. \A d \in Clients \ {c} : pc[d] \notin InFlight
    BY <1>0, <1>1 DEF OwnerInv, RequestHolder
  <2>2. \A d \in Clients \ {c} : pc'[d] = pc[d]
    BY <1>0 DEF Write, TypeOK
  <2>3. QED
    BY <1>2, <2>1, <2>2 DEF SlotType
<1>7. OutcomeIsMine'
  BY <1>2 DEF SlotInv, OutcomeIsMine, FinalOf, InfoOf
<1>8. QED
  BY <1>4, <1>5, <1>6, <1>7 DEF SlotInv

(* The reader stores a final response. *)
LEMMA SlotFinal ==
  ASSUME TypeOK, StreamInv, SlotInv, ProcessFinal
  PROVE  SlotInv'
<1>0. /\ Reader \in Threads /\ Reader \notin Clients /\ Clients \subseteq Threads /\ "read" \in Pcs
  BY ThreadsAssumption DEF Threads, Pcs, ReaderPcs
<1>1. /\ Got /\ IsFinal(line) /\ wire' = wire /\ modem' = modem
      /\ abandoned' = abandoned /\ op' = op /\ outcome' = outcome
      /\ response' = [response EXCEPT !.final = line]
  BY DEF ProcessFinal, Got, linkVars, modemVars, ghostVars, clientVars
<1>2. /\ response'.of = response.of /\ response'.final = line
      /\ response'.info = response.info /\ response'.type = response.type
  BY <1>1 DEF TypeOK, Responses
<1>3. /\ pc'[Reader] = "read"
      /\ \A d \in Clients : pc'[d] = pc[d] \/ (pc[d] = "respWait" /\ pc'[d] = "respWake")
  BY <1>0, SignalFrame DEF ProcessFinal
<1>4. \A n \in OnTheWay' : /\ n \in OnTheWay
                           /\ n # 0 => n # line.of
  <2>1. \A n \in OnTheWay' : n \in {modem[i].of : i \in DOMAIN modem} \cup {wire[i].of : i \in DOMAIN wire}
    BY <1>1, <1>3 DEF OnTheWay, Got
  <2>2. line.of # 0 => Ends(line)
    BY <1>1 DEF Ends
  <2>3. QED
    BY <1>1, <2>1, <2>2 DEF OnTheWay, StreamInv, FinalIsLast
<1>5. OnlyExpected'
  BY <1>1, <1>2, <1>4 DEF SlotInv, OnlyExpected, Expected
<1>6. Expected(line.of)
  BY <1>1 DEF SlotInv, OnlyExpected, OnTheWay
<1>7. line.of = 0 => line = StrayEnd
  <2>1. line.of = 0 => line.kind = "NO CARRIER"
    BY <1>1, FinalKindFacts, Zenon DEF StreamInv, UnaskedKinds, Unasked
  <2>2. line \in [kind : LineKinds, of : Nat]
    BY DEF TypeOK, Lines
  <2>3. \A k : line.kind = k /\ line.of = 0 => line = [kind |-> k, of |-> 0]
    BY <2>2
  <2>4. QED
    BY <2>1, <2>3, Zenon DEF StrayEnd, Line
<1>8. FinalOf(response.of, line)
  BY <1>6, <1>7 DEF Expected, FinalOf
<1>9. SlotIsMine'
  BY <1>1, <1>2, <1>8 DEF SlotInv, SlotIsMine, FinalOf, InfoOf
<1>10. SlotType'
  BY <1>1, <1>2, <1>3 DEF SlotInv, SlotType, InFlight
<1>11. OutcomeIsMine'
  BY <1>1 DEF SlotInv, OutcomeIsMine, FinalOf, InfoOf
<1>12. QED
  BY <1>5, <1>9, <1>10, <1>11 DEF SlotInv

(* The reader stores an intermediate line. *)
LEMMA SlotInfo ==
  ASSUME TypeOK, StreamInv, SlotInv, ProcessInfo
  PROVE  SlotInv'
<1>0. /\ Reader \in Threads /\ Reader \notin Clients /\ Clients \subseteq Threads
  BY ThreadsAssumption DEF Threads
<1>1. /\ Got /\ TakenAsInfo(line) /\ wire' = wire /\ modem' = modem /\ line' = line
      /\ abandoned' = abandoned /\ op' = op /\ outcome' = outcome
      /\ response' = [response EXCEPT !.info = Append(@, line)]
  BY DEF ProcessInfo, Got, linkVars, modemVars, ghostVars, clientVars
<1>2. /\ response'.of = response.of /\ response'.final = response.final
      /\ response'.info = Append(response.info, line) /\ response'.type = response.type
      /\ response.info \in Seq(Lines) /\ line \in Lines
  BY <1>1 DEF TypeOK, Responses
<1>3. /\ pc'[Reader] = "read" /\ \A d \in Clients : pc'[d] = pc[d]
  BY <1>0 DEF ProcessInfo, TypeOK
<1>4. OnlyExpected'
  <2>1. OnTheWay' \subseteq OnTheWay
    BY <1>1, <1>3, WaySame DEF Got
  <2>2. QED
    BY <1>1, <1>2, <2>1 DEF SlotInv, OnlyExpected, Expected
<1>5. \/ line.of \in abandoned \cup {response.of}
      \/ line.kind = "prefixed"
      \/ response.type = "RAW_RESULT" /\ line.of = 0
  <2>1. Expected(line.of)
    BY <1>1 DEF SlotInv, OnlyExpected, OnTheWay
  <2>2. line.of = 0 => line.kind \notin {"digits", "info"}
    BY <1>1, LineKindFacts, Zenon DEF StreamInv, UnaskedKinds, Unasked
  <2>3. QED
    BY <1>1, <2>1, <2>2 DEF Expected, TakenAsInfo
<1>6. \A i \in DOMAIN response'.info : \/ i \in DOMAIN response.info /\ response'.info[i] = response.info[i]
                                       \/ response'.info[i] = line
  BY <1>2, AppendIndex
<1>7. SlotIsMine'
  BY <1>1, <1>2, <1>5, <1>6 DEF SlotInv, SlotIsMine, FinalOf, InfoOf
<1>8. SlotType'
  BY <1>1, <1>2, <1>3 DEF SlotInv, SlotType
<1>9. OutcomeIsMine'
  BY <1>1 DEF SlotInv, OutcomeIsMine, FinalOf, InfoOf
<1>10. QED
  BY <1>4, <1>7, <1>8, <1>9 DEF SlotInv

(* The slot and the answers, over every step. *)
LEMMA SlotStep == TypeOK /\ OwnerInv /\ StreamInv /\ SlotInv /\ [Next]_vars => SlotInv'
<1> SUFFICES ASSUME TypeOK, OwnerInv, StreamInv, SlotInv, [Next]_vars PROVE SlotInv'
  OBVIOUS
<1>0. /\ Clients \subseteq Threads /\ Reader \in Threads /\ Runner \in Clients
      /\ Reader \notin Clients
  BY ThreadsAssumption DEF Threads, Clients
<1> USE <1>0 DEF clientVars, channelVars, modemVars, mutexVars, linkVars, ghostVars
<1>1. CASE SetCallbacks
  BY <1>1, SlotQuiet, WaySame DEF SetCallbacks, Got, TypeOK, InFlight
<1>2. CASE HandshakeDone
  BY <1>2, SlotQuiet, WaySame DEF HandshakeDone, Got, TypeOK, InFlight
<1>3. CASE Serve
  BY <1>3, SlotQuiet, WaySame DEF Serve, Got, TypeOK, InFlight
<1>4. CASE LeaveLoop
  BY <1>4, SlotQuiet, WaySame DEF LeaveLoop, Got, TypeOK, InFlight
<1>5. CASE ReadFails
  BY <1>5, SlotQuiet, WaySame DEF ReadFails, Got, TypeOK, InFlight
<1>6. CASE ProcessUnsolicited
  BY <1>6, SlotQuiet, WaySame DEF ProcessUnsolicited, Got, TypeOK, InFlight
<1>7. CASE TestClosed
  BY <1>7, SlotQuiet, WaySame DEF TestClosed, Got, TypeOK, InFlight
<1>8. CASE OnReaderClosed
  BY <1>8, SlotQuiet, WaySame DEF OnReaderClosed, Got, TypeOK, InFlight
<1>9. ASSUME NEW c \in Clients, Lock(c) PROVE SlotInv'
  BY <1>9, SlotQuiet, WaySame DEF Lock, Got, TypeOK, InFlight
<1>10. ASSUME NEW c \in Clients, TryBusy(c) PROVE SlotInv'
  BY <1>10, SlotQuiet, WaySame DEF TryBusy, Got, TypeOK, InFlight
<1>11. ASSUME NEW c \in Clients, RequestRelock(c) PROVE SlotInv'
  BY <1>11, SlotQuiet, WaySame DEF RequestRelock, Got, TypeOK, InFlight
<1>12. ASSUME NEW c \in Clients, TryAcquire(c) PROVE SlotInv'
  BY <1>12, SlotQuiet, WaySame DEF TryAcquire, Got, TypeOK, InFlight
<1>13. ASSUME NEW c \in Clients, Deadline(c) PROVE SlotInv'
  BY <1>13, SlotQuiet, WaySame DEF Deadline, Got, TypeOK, InFlight
<1>14. ASSUME NEW c \in Clients, WaitAgain(c) PROVE SlotInv'
  BY <1>14, SlotQuiet, WaySame DEF WaitAgain, Got, TypeOK, InFlight
<1>15. ASSUME NEW c \in Clients, OnTimeout(c) PROVE SlotInv'
  BY <1>15, SlotQuiet, WaySame DEF OnTimeout, Got, TypeOK, InFlight
<1>16. ASSUME NEW c \in Clients, SpuriousWakeup(c) PROVE SlotInv'
  BY <1>16, SlotQuiet, WaySame DEF SpuriousWakeup, Got, TypeOK, InFlight
<1>17. CASE HangUp
  BY <1>17, SlotQuiet, WaySame DEF HangUp, Got
<1>18. CASE Quiescent
  BY <1>18, SlotQuiet, WaySame DEF Quiescent, vars, Got
<1>19. CASE UNCHANGED vars
  BY <1>19, SlotQuiet, WaySame DEF vars, Got
<1>20. ASSUME NEW t \in {Runner, Reader}, CloseFd(t) PROVE SlotInv'
  BY <1>20, SlotQuiet, WaySame DEF CloseFd, Got, TypeOK, InFlight
<1>21. ASSUME NEW t \in {Runner, Reader}, ForgetFd(t) PROVE SlotInv'
  BY <1>21, SlotQuiet, WaySame DEF ForgetFd, Got, TypeOK, InFlight
<1>22. ASSUME NEW t \in Threads, NEW s \in Pcs \ ({"got"} \cup InFlight),
              pc' \in SignalCommand([pc EXCEPT ![t] = s]),
              wire' = wire, modem' = modem, line' = line, response' = response,
              abandoned' = abandoned, outcome' = outcome, op' = op
       PROVE  SlotInv'
  <2>1. s # "respWait"
    BY <1>22 DEF InFlight
  <2>2. Got' => Got
    BY <1>22, <2>1, SignalFrame DEF Got
  <2>3. \A d \in Clients : pc'[d] \in InFlight => pc[d] \in InFlight
    BY <1>22, <2>1, SignalFrame DEF InFlight
  <2>4. QED
    BY <1>22, <2>2, <2>3, WaySame, SlotQuiet
<1>23. "done" \in Pcs /\ "read" \in Pcs /\ "callback" \in Pcs
  BY DEF Pcs, ReaderPcs
<1>24. ASSUME NEW t \in {Runner, Reader}, CloseSignal(t) PROVE SlotInv'
  BY <1>22, <1>23, <1>24 DEF CloseSignal, InFlight
<1>25. CASE MarkClosed
  BY <1>22, <1>23, <1>25 DEF MarkClosed, InFlight
<1>26. CASE ProcessFinal
  BY <1>26, SlotFinal
<1>27. CASE ProcessInfo
  BY <1>27, SlotInfo
<1>28. ASSUME NEW c \in Clients, Write(c) PROVE SlotInv'
  BY <1>28, SlotWrite
<1>29. ASSUME OnTheWay' \subseteq OnTheWay \cup {0}, response' = response, abandoned' = abandoned,
              outcome' = outcome, op' = op, pc' = pc \/ pc' = [pc EXCEPT ![Reader] = pc'[Reader]]
       PROVE  SlotInv'
  BY <1>29, SlotQuiet DEF TypeOK
<1>30. CASE ReadLine
  <2>1. OnTheWay' \subseteq OnTheWay
    <3>1. /\ wire \in Seq(Lines) /\ wire # <<>> /\ wire' = Tail(wire) /\ line' = Head(wire) /\ modem' = modem
      BY <1>30 DEF ReadLine, TypeOK
    <3>2. /\ 1 \in DOMAIN wire /\ line' = wire[1]
          /\ \A i \in DOMAIN wire' : i + 1 \in DOMAIN wire /\ wire'[i] = wire[i + 1]
      BY <3>1, TailIndex
    <3>3. QED
      BY <3>1, <3>2 DEF OnTheWay
  <2>2. pc' = [pc EXCEPT ![Reader] = pc'[Reader]]
    BY <1>30 DEF ReadLine, TypeOK
  <2>3. QED
    BY <1>29, <1>30, <2>1, <2>2 DEF ReadLine
<1>31. CASE ProcessPrompt
  <2>1. OnTheWay' \subseteq OnTheWay
    <3>1. \A i \in DOMAIN modem : modem[i] \in Commands
      BY DEF TypeOK
    <3>2. DOMAIN modem' = DOMAIN modem /\ \A i \in DOMAIN modem : modem'[i].of = modem[i].of
      BY <1>31, <3>1 DEF ProcessPrompt, Commands
    <3>3. wire' = wire /\ ~Got'
      BY <1>31 DEF ProcessPrompt, Got, TypeOK
    <3>4. QED
      BY <3>2, <3>3 DEF OnTheWay
  <2>2. pc' = [pc EXCEPT ![Reader] = pc'[Reader]]
    BY <1>31 DEF ProcessPrompt, TypeOK
  <2>3. QED
    BY <1>29, <1>31, <2>1, <2>2 DEF ProcessPrompt
<1>32. CASE ModemDrops
  <2>1. modem # <<>> /\ modem' = Tail(modem) /\ wire' = wire /\ line' = line /\ pc' = pc
    BY <1>32 DEF ModemDrops
  <2>2. \A i \in DOMAIN modem' : i + 1 \in DOMAIN modem /\ modem'[i] = modem[i + 1]
    BY <2>1, TailIndex DEF TypeOK
  <2>3. OnTheWay' \subseteq OnTheWay
    BY <2>1, <2>2 DEF OnTheWay, Got
  <2>4. QED
    BY <1>29, <1>32, <2>1, <2>3 DEF ModemDrops
<1>33. ASSUME NEW l \in Lines, modem # <<>>, l.of = modem[1].of, wire' = Append(wire, l),
              \A i \in DOMAIN modem' : \E j \in DOMAIN modem : modem'[i].of = modem[j].of,
              line' = line, pc' = pc
       PROVE  OnTheWay' \subseteq OnTheWay
  <2>1. 1 \in DOMAIN modem
    BY <1>33, TailIndex DEF TypeOK
  <2>2. \A i \in DOMAIN wire' : \/ i \in DOMAIN wire /\ wire'[i] = wire[i]
                                \/ wire'[i] = l
    BY <1>33, AppendIndex DEF TypeOK
  <2>3. QED
    BY <1>33, <2>1, <2>2 DEF OnTheWay, Got
<1>34. ASSUME NEW s, modem # <<>>, modem' = [modem EXCEPT ![1].stage = s]
       PROVE  \A i \in DOMAIN modem' : \E j \in DOMAIN modem : modem'[i].of = modem[j].of
  BY <1>34, StageKeepsNumber DEF TypeOK
<1>35. CASE ModemInfo
  <2> DEFINE l == Line(InfoKind(Head(modem).op), Head(modem).of)
  <2>1. modem # <<>> /\ wire' = Append(wire, l) /\ line' = line /\ pc' = pc
    BY <1>35 DEF ModemInfo
  <2>2. Head(modem) = modem[1] /\ modem[1] \in Commands
    BY <2>1, HeadOfModem DEF TypeOK
  <2>3. InfoKind(Head(modem).op) \in {"digits", "info"}
    BY DEF InfoKind
  <2>4. l \in Lines /\ l.of = modem[1].of
    BY <2>2, <2>3, LineKindFacts DEF Line, Lines, Commands
  <2>5. \A i \in DOMAIN modem' : \E j \in DOMAIN modem : modem'[i].of = modem[j].of
    BY <1>34, <1>35 DEF ModemInfo
  <2> HIDE DEF l
  <2>6. OnTheWay' \subseteq OnTheWay
    BY <1>33, <2>1, <2>4, <2>5
  <2>7. QED
    BY <1>29, <1>35, <2>6 DEF ModemInfo
<1>36. CASE ModemPrompt
  <2> DEFINE l == Line("> ", Head(modem).of)
  <2>1. modem # <<>> /\ wire' = Append(wire, l) /\ line' = line /\ pc' = pc
    BY <1>36 DEF ModemPrompt
  <2>2. Head(modem) = modem[1] /\ modem[1] \in Commands
    BY <2>1, HeadOfModem DEF TypeOK
  <2>3. Head(modem).of \in Nat
    BY <2>2 DEF Commands
  <2>4. l \in Lines
    BY <2>3, LineKindFacts, LineType, Zenon
  <2>5. l.of = modem[1].of
    BY <2>2, Zenon DEF Line
  <2>6. \A i \in DOMAIN modem' : \E j \in DOMAIN modem : modem'[i].of = modem[j].of
    BY <1>34, <1>36 DEF ModemPrompt
  <2> HIDE DEF l
  <2>7. OnTheWay' \subseteq OnTheWay
    BY <1>33, <2>1, <2>4, <2>5, <2>6
  <2>8. response' = response /\ abandoned' = abandoned /\ outcome' = outcome /\ op' = op /\ pc' = pc
    BY <1>36 DEF ModemPrompt
  <2>9. QED
    BY <1>29, <2>7, <2>8
<1>37. ASSUME NEW k \in Finals, ModemFinal(k) PROVE SlotInv'
  <2> DEFINE l == Line(k, Head(modem).of)
  <2>1. /\ modem # <<>> /\ wire' = Append(wire, l) /\ modem' = Tail(modem)
        /\ line' = line /\ pc' = pc
    BY <1>37 DEF ModemFinal
  <2>2. Head(modem) = modem[1] /\ modem[1] \in Commands
    BY <2>1, HeadOfModem DEF TypeOK
  <2>0. k \in {"OK", "ERROR"}
    BY BoundsAssumption, Zenon
  <2>3. l \in Lines /\ l.of = modem[1].of
    BY <2>0, <2>2, LineKindFacts DEF Line, Lines, Commands
  <2>4. \A i \in DOMAIN modem' : \E j \in DOMAIN modem : modem'[i].of = modem[j].of
    BY <2>1, TailIndex DEF TypeOK
  <2> HIDE DEF l
  <2>5. OnTheWay' \subseteq OnTheWay
    BY <1>33, <2>1, <2>3, <2>4
  <2>6. QED
    BY <1>29, <1>37, <2>5 DEF ModemFinal
<1>38. ASSUME NEW k \in Strays, ModemStray(k) PROVE SlotInv'
  <2> DEFINE s == IF k = "sms" THEN <<Line("sms", 0), Line("smsbody", 0)>> ELSE <<Line(k, 0)>>
  <2>1. wire' = wire \o s /\ modem' = modem /\ line' = line /\ pc' = pc
    BY <1>38 DEF ModemStray
  <2>2. k \in StrayKinds /\ "sms" \in StrayKinds /\ "smsbody" \in StrayKinds
    BY BoundsAssumption, Zenon DEF AllStrays, StrayKinds
  <2>3. s \in Seq(Lines)
    <3>1. /\ Line(k, 0) \in Lines /\ Line("sms", 0) \in Lines /\ Line("smsbody", 0) \in Lines
      BY <2>2, LineKindFacts, LineType
    <3>2. QED
      BY <3>1
  <2>4. \A i \in DOMAIN s : s[i].of = 0
    BY DEF Line
  <2> HIDE DEF s
  <2>5. \A i \in DOMAIN wire' : \/ i \in DOMAIN wire /\ wire'[i] = wire[i]
                                \/ wire'[i].of = 0
    <3>1. wire \in Seq(Lines)
      BY DEF TypeOK
    <3>2. \A i \in DOMAIN wire' : \/ i \in DOMAIN wire /\ wire'[i] = wire[i]
                                  \/ i - Len(wire) \in DOMAIN s /\ wire'[i] = s[i - Len(wire)]
      BY <2>1, <2>3, <3>1
    <3>3. QED
      BY <2>4, <3>2
  <2>6. OnTheWay' \subseteq OnTheWay \cup {0}
    BY <2>1, <2>5 DEF OnTheWay, Got
  <2>7. QED
    BY <1>29, <1>38, <2>6 DEF ModemStray
<1>39. ASSUME NEW c \in Clients, NEW o \in Ops, Call(c, o) PROVE SlotInv'
  <2>1. /\ OnTheWay' \subseteq OnTheWay /\ response' = response /\ abandoned' = abandoned
        /\ pc'[c] \notin InFlight /\ outcome'[c].code # "OK"
        /\ \A d \in Clients \ {c} : pc'[d] = pc[d] /\ op'[d] = op[d] /\ outcome'[d] = outcome[d]
    BY <1>39, WaySame DEF Call, Got, TypeOK, InFlight, NoOutcome
  <2>2. OnlyExpected' /\ SlotIsMine'
    BY <2>1 DEF SlotInv, OnlyExpected, Expected, SlotIsMine, FinalOf, InfoOf
  <2>3. SlotType' /\ OutcomeIsMine'
    BY <2>1 DEF SlotInv, SlotType, OutcomeIsMine, FinalOf, InfoOf
  <2>4. QED
    BY <2>2, <2>3 DEF SlotInv
<1>40. ASSUME NEW c \in Clients, NEW code, NEW answer, Finish(c, code, answer),
              wire' = wire, modem' = modem
       PROVE  OnTheWay' \subseteq OnTheWay
  <2>1. pc'[Reader] = pc[Reader] /\ line' = line
    BY <1>40, FinishFrame DEF Finish
  <2>2. QED
    BY <1>40, <2>1, WaySame DEF Got
<1>41. ASSUME NEW c \in Clients, pc[c] \in {"try", "write"} \cup InFlight,
              pc[c] = "try" => reqMutex = None
       PROVE  /\ reqMutex \in {None, c}
              /\ pc[c] \in InFlight => cmd[c] = response.of
              /\ pc[c] \notin InFlight => response.of = 0
  <2>1. None \notin Clients
    BY ThreadsAssumption DEF Threads
  <2>2. pc[c] \in {"write"} \cup InFlight => reqMutex = c
    BY DEF OwnerInv, RequestHolder
  <2>3. QED
    BY <1>41, <2>1, <2>2 DEF OwnerInv, SlotOfWaiter, ResponseOwned, Pending, InFlight
<1>42. ASSUME NEW c \in Clients, TryRefused(c) PROVE SlotInv'
  <2>1. PICK code \in {"COMMAND_PENDING", "CHANNEL_CLOSED"} : Finish(c, code, NoResponse)
    BY <1>42 DEF TryRefused
  <2>2. /\ pc[c] = "try" /\ reqMutex = None /\ abandoned' = abandoned /\ wire' = wire /\ modem' = modem
    BY <1>42 DEF TryRefused
  <2>3. reqMutex \in {None, c} /\ response.of = 0
    BY <1>41, <2>2 DEF InFlight
  <2>4. QED
    BY <1>40, <2>1, <2>2, <2>3, SlotReturn
<1>43. ASSUME NEW c \in Clients, WriteFails(c) PROVE SlotInv'
  <2>1. /\ Finish(c, "TIMEOUT", NoResponse)
        /\ pc[c] = "write" /\ abandoned' = abandoned /\ wire' = wire /\ modem' = modem
    BY <1>43 DEF WriteFails
  <2>2. reqMutex \in {None, c} /\ response.of = 0
    BY <1>41, <2>1 DEF InFlight
  <2>3. QED
    BY <1>40, <2>1, <2>2, SlotReturn
<1>44. ASSUME NEW c \in Clients, GiveUp(c) PROVE SlotInv'
  <2>1. /\ Finish(c, "TIMEOUT", NoResponse)
        /\ pc[c] \in InFlight /\ pc[c] # "try" /\ abandoned' = abandoned \cup {cmd[c]}
        /\ wire' = wire /\ modem' = modem
    BY <1>44 DEF GiveUp, InFlight
  <2>2. reqMutex \in {None, c} /\ response.of = cmd[c]
    BY <1>41, <2>1
  <2>3. QED
    BY <1>40, <2>1, <2>2, SlotReturn
<1>45. ASSUME NEW c \in Clients, ReturnClosed(c) PROVE SlotInv'
  <2>1. /\ Finish(c, "CHANNEL_CLOSED", NoResponse)
        /\ pc[c] \in InFlight /\ pc[c] # "try" /\ abandoned' = abandoned \cup {cmd[c]}
        /\ wire' = wire /\ modem' = modem
    BY <1>45 DEF ReturnClosed, InFlight
  <2>2. reqMutex \in {None, c} /\ response.of = cmd[c]
    BY <1>41, <2>1
  <2>3. QED
    BY <1>40, <2>1, <2>2, SlotReturn
<1>46. ASSUME NEW c \in Clients, ReturnAnswer(c) PROVE SlotInv'
  <2>1. /\ pc[c] \in InFlight /\ pc[c] # "try" /\ response.final # NoLine /\ cmd' = cmd
        /\ abandoned' = IF response.final.of = cmd[c] THEN abandoned ELSE abandoned \cup {cmd[c]}
        /\ wire' = wire /\ modem' = modem
    BY <1>46 DEF ReturnAnswer, InFlight
  <2>2. reqMutex \in {None, c} /\ response.of = cmd[c]
    BY <1>41, <2>1
  <2>3. abandoned \subseteq abandoned' /\ response.of \in abandoned' \cup {0, response.final.of}
    BY <2>1, <2>2
  <2>4. CASE Finish(c, "INVALID_RESPONSE", NoResponse)
    BY <1>40, <2>1, <2>2, <2>3, <2>4, SlotReturn
  <2>5. CASE Finish(c, "OK", response)
    BY <1>40, <2>1, <2>2, <2>3, <2>5, SlotReturn
  <2>6. QED
    BY <1>46, <2>4, <2>5 DEF ReturnAnswer
<1>47. QED
  BY <1>1, <1>2, <1>3, <1>4, <1>5, <1>6, <1>7, <1>8, <1>9, <1>10, <1>11, <1>12, <1>13,
     <1>14, <1>15, <1>16, <1>17, <1>18, <1>19, <1>20, <1>21, <1>24, <1>25, <1>26, <1>27,
     <1>28, <1>30, <1>31, <1>32, <1>35, <1>36, <1>37, <1>38, <1>39, <1>42, <1>43, <1>44,
     <1>45, <1>46
     DEF Next, RunnerSteps, ClientSteps, Locking, Waiting, ReaderSteps, Closing, ModemSteps

-----------------------------------------------------------------------------
(* Whose lines an answer consists of, for every step.                       *)
LEMMA AnswerStep ==
  TypeOK /\ OwnerInv /\ AnswerInv /\ [Next]_vars => AnswerInv'
<1>1. AnswerInv <=> StreamInv /\ SlotInv
  BY DEF AnswerInv, StreamInv, SlotInv
<1>2. AnswerInv' <=> StreamInv' /\ SlotInv'
  BY DEF AnswerInv, StreamInv, SlotInv
<1>3. QED
  BY <1>1, <1>2, StreamStep, SlotStep

(* AnswerInv is an invariant: it needs to know who owns the slot.           *)
THEOREM AnswerInvariant == Spec => []AnswerInv
<1>1. Init => AnswerInv
  <2> SUFFICES ASSUME Init PROVE AnswerInv
    OBVIOUS
  <2>0. Reader \notin Clients /\ Runner \in Clients /\ Reader \in Threads /\ Clients \subseteq Threads
    BY ThreadsAssumption DEF Threads, Clients
  <2>1. wire = <<>> /\ modem = <<>> /\ ~Got
    BY <2>0 DEF Init, Got
  <2>2. \A c \in Clients : pc[c] \notin InFlight
    BY <2>0 DEF Init, InFlight
  <2>3. response.info = <<>> /\ response.final = NoLine
    BY DEF Init, NoResponse
  <2>4. \A c \in Clients : outcome[c].code # "OK"
    BY DEF Init, NoOutcome
  <2>5. UnaskedKinds /\ ModemOrder /\ FinalIsLast /\ Written /\ OnlyExpected
    BY <2>1 DEF UnaskedKinds, ModemOrder, FinalIsLast, Written, OnlyExpected, OnTheWay
  <2>6. SlotIsMine /\ SlotType /\ OutcomeIsMine
    BY <2>2, <2>3, <2>4 DEF SlotIsMine, InfoOf, SlotType, OutcomeIsMine
  <2>7. QED
    BY <2>5, <2>6 DEF AnswerInv
<1>2. TypeOK /\ OwnerInv /\ AnswerInv /\ [Next]_vars => AnswerInv'
  BY AnswerStep
<1>3. AtChannelInv => TypeOK /\ OwnerInv
  BY DEF AtChannelInv, OwnerInv
<1>4. QED
  BY <1>1, <1>2, <1>3, AtChannelInvariant, PTL DEF Spec

(* The answer a call returns consists of lines the modem sent for that very *)
(* command, of late lines of a command abandoned before, or of the          *)
(* unsolicited lines the parser cannot tell apart.                          *)
THEOREM AnswerBelongsToCall == Spec => []AnswerIsMine
<1>1. OutcomeIsMine => AnswerIsMine
  BY Zenon DEF OutcomeIsMine, AnswerIsMine, FinalOf, InfoOf, StrayEnd
<1>2. QED
  BY <1>1, AnswerInvariant, PTL DEF AnswerInv

(* The final response of a pending command is written by processLine only:  *)
(* every other step keeps it, or frees or takes the slot.                   *)
LEMMA FinalWriter ==
  ASSUME TypeOK, OwnerInv, [Next]_vars, Pending, response'.of = response.of
  PROVE  ProcessFinal \/ response'.final = response.final
<1> USE DEF channelVars
<1>1. CASE SetCallbacks \/ HandshakeDone \/ Serve \/ LeaveLoop
  BY <1>1 DEF SetCallbacks, HandshakeDone, Serve, LeaveLoop
<1>2. CASE \E t \in {Runner, Reader} : Closing(t)
  BY <1>2 DEF Closing, CloseFd, ForgetFd, CloseSignal
<1>3. CASE ReadLine \/ ReadFails \/ ProcessUnsolicited \/ TestClosed \/ MarkClosed \/ OnReaderClosed
  BY <1>3 DEF ReadLine, ReadFails, ProcessUnsolicited, TestClosed, MarkClosed, OnReaderClosed
<1>4. CASE ProcessPrompt
  BY <1>4 DEF ProcessPrompt
<1>5. CASE ProcessInfo
  BY <1>5 DEF ProcessInfo, TypeOK, Responses
<1>6. CASE ModemInfo \/ ModemDrops \/ HangUp
  BY <1>6 DEF ModemInfo, ModemDrops, HangUp
<1>7. CASE ModemPrompt
  BY <1>7 DEF ModemPrompt
<1>8. CASE \E k : ModemFinal(k) \/ ModemStray(k)
  BY <1>8 DEF ModemFinal, ModemStray
<1>9. CASE UNCHANGED vars \/ Quiescent
  BY <1>9 DEF vars, Quiescent
<1>10. CASE \E c \in Clients, o \in Ops : Call(c, o)
  BY <1>10 DEF Call
<1>11. CASE \E c \in Clients : Lock(c) \/ RequestRelock(c) \/ TryBusy(c) \/ TryAcquire(c) \/ WaitAgain(c)
                               \/ Deadline(c) \/ SpuriousWakeup(c) \/ OnTimeout(c)
  BY <1>11 DEF Lock, RequestRelock, TryBusy, TryAcquire, WaitAgain, Deadline, SpuriousWakeup, OnTimeout
<1>12. ASSUME NEW c \in Clients, NEW code, NEW answer, Finish(c, code, answer) PROVE FALSE
  BY <1>12 DEF Finish, NoResponse, Pending
<1>13. CASE \E c \in Clients : TryRefused(c) \/ WriteFails(c) \/ GiveUp(c) \/ ReturnClosed(c) \/ ReturnAnswer(c)
  BY <1>12, <1>13 DEF TryRefused, WriteFails, GiveUp, ReturnClosed, ReturnAnswer
<1>14. ASSUME NEW c \in Clients, Write(c) PROVE FALSE
  BY <1>14 DEF Write, OwnerInv, ResponseOwned, RequestHolder, InFlight
<1>15. QED
  BY <1>1, <1>2, <1>3, <1>4, <1>5, <1>6, <1>7, <1>8, <1>9, <1>10, <1>11, <1>13, <1>14, Zenon
     DEF Next, RunnerSteps, ClientSteps, Locking, Waiting, ReaderSteps, ModemSteps

(* A command's own final response that waits for its caller is replaced     *)
(* only by a stray NO CARRIER or the late answer of an abandoned command.   *)
THEOREM FinalResponseStable == Spec => FinalStable
<1> DEFINE Kept ==
      (response.final # NoLine /\ response'.of = response.of /\ Pending) =>
         \/ response'.final = response.final
         \/ response'.final.of \in abandoned
         \/ response'.final = StrayEnd
         \/ response.final.of # response.of
<1>1. TypeOK /\ OwnerInv /\ AnswerInv /\ AnswerInv' /\ [Next]_vars => Kept
  <2> SUFFICES ASSUME TypeOK, OwnerInv, AnswerInv, AnswerInv', [Next]_vars,
                      response'.of = response.of, Pending, response.final.of = response.of,
                      response'.final # response.final
               PROVE  response'.final.of \in abandoned \/ response'.final = StrayEnd
    OBVIOUS
  <2>1. ProcessFinal
    BY FinalWriter
  <2>2. response'.final = line /\ response'.of = response.of /\ Got /\ abandoned' = abandoned
    BY <2>1 DEF ProcessFinal, Got, TypeOK, Responses, ghostVars
  <2>3. line.of \in OnTheWay /\ line \in Lines
    BY <2>2 DEF OnTheWay, TypeOK
  <2>4. line.of = 0 \/ line.of \in abandoned
    BY <2>3 DEF AnswerInv, OnlyExpected, Expected
  <2>5. line # NoLine
    <3>1. NoLine.kind = "none"
      BY DEF NoLine, Line
    <3>2. ~IsFinal(NoLine)
      BY <3>1, Zenon DEF IsFinal
    <3>3. QED
      BY <2>1, <3>2 DEF ProcessFinal
  <2>6. response.of # 0
    BY DEF Pending
  <2>7. line = StrayEnd \/ line.of \in abandoned
    BY <2>2, <2>4, <2>5, <2>6 DEF AnswerInv, SlotIsMine, FinalOf
  <2>8. QED
    BY <2>2, <2>7
<1>2. AtChannelInv => TypeOK /\ OwnerInv
  BY DEF AtChannelInv, OwnerInv
<1>3. Kept => [(response.final # NoLine /\ response'.of = response.of /\ Pending) =>
       \/ response'.final = response.final
       \/ response'.final.of \in abandoned
       \/ response'.final = Line("NO CARRIER", 0)
       \/ response.final.of # response.of]_vars
  BY Zenon DEF StrayEnd
<1> HIDE DEF Kept
<1>4. QED
  BY <1>1, <1>2, <1>3, AtChannelInvariant, AnswerInvariant, PTL DEF Spec, FinalStable

-----------------------------------------------------------------------------
(* Who has closed the descriptor, for every step.                           *)
LEMMA DescriptorStep ==
  TypeOK /\ OwnerInv /\ DescriptorInv /\ [Next]_vars => DescriptorInv'
<1> SUFFICES ASSUME TypeOK, OwnerInv, DescriptorInv, [Next]_vars PROVE DescriptorInv'
  OBVIOUS
<1>0. /\ Clients \subseteq Threads /\ Reader \in Threads /\ Runner \in Clients
      /\ Reader \notin Clients /\ Runner # Reader
  BY ThreadsAssumption DEF Threads, Clients
<1> USE <1>0 DEF channelVars, linkVars
<1> DEFINE Leaving == {"close2", "close3", "done"}
           Marking == {"callback", "close1", "close2", "close3"}
<1>1. ASSUME fd' = fd, readerClosed' = readerClosed,
             pc[Runner] \in Leaving => pc'[Runner] \in Leaving,
             pc'[Reader] \in Marking => pc[Reader] \in Marking,
             \A c \in Clients : pc'[c] = "write" => pc[c] = "write" \/ ~readerClosed
      PROVE  DescriptorInv'
  BY <1>1 DEF DescriptorInv, WriterFoundOpen, ReaderMarksFirst, CloserKnown
<1>2. CASE SetCallbacks \/ HandshakeDone \/ Serve \/ LeaveLoop
  BY <1>1, <1>2 DEF SetCallbacks, HandshakeDone, Serve, LeaveLoop, TypeOK
<1>3. CASE ReadLine \/ ReadFails \/ ProcessUnsolicited \/ ProcessInfo
  BY <1>1, <1>3 DEF ReadLine, ReadFails, ProcessUnsolicited, ProcessInfo, TypeOK
<1>4. CASE ProcessPrompt
  BY <1>1, <1>4 DEF ProcessPrompt, TypeOK
<1>5. CASE TestClosed \/ OnReaderClosed
  BY <1>1, <1>5 DEF TestClosed, OnReaderClosed, TypeOK
<1>6. CASE ModemInfo \/ ModemDrops \/ HangUp
  BY <1>1, <1>6 DEF ModemInfo, ModemDrops, HangUp
<1>7. CASE ModemPrompt
  <2>1. pc' = pc /\ fd' = fd /\ readerClosed' = readerClosed
    BY <1>7 DEF ModemPrompt
  <2>2. QED
    BY <1>1, <2>1
<1>8. CASE \E k : ModemFinal(k) \/ ModemStray(k)
  BY <1>1, <1>8 DEF ModemFinal, ModemStray
<1>9. CASE UNCHANGED vars \/ Quiescent
  BY <1>1, <1>9 DEF vars, Quiescent
<1>10. CASE \E c \in Clients, o \in Ops : Call(c, o)
  BY <1>1, <1>10 DEF Call, TypeOK
<1>11. CASE \E c \in Clients : Lock(c) \/ RequestRelock(c) \/ TryBusy(c) \/ TryAcquire(c)
  BY <1>1, <1>11 DEF Lock, RequestRelock, TryBusy, TryAcquire, TypeOK
<1>12. CASE \E c \in Clients : WaitAgain(c) \/ Deadline(c) \/ SpuriousWakeup(c) \/ OnTimeout(c)
  BY <1>1, <1>12 DEF WaitAgain, Deadline, SpuriousWakeup, OnTimeout, TypeOK
<1>13. ASSUME NEW c \in Clients, NEW code, NEW answer, Finish(c, code, answer), fd' = fd,
              pc[c] \in {"try", "write"} \cup InFlight
       PROVE  DescriptorInv'
  <2>1. /\ pc'[Reader] = pc[Reader] /\ readerClosed' = readerClosed
        /\ pc'[c] = AfterAttempt(c, code)
        /\ \A d \in Clients \ {c} : pc'[d] = pc[d] \/ (pc[d] = "reqWait" /\ pc'[d] = "reqWake")
    BY <1>13, FinishFrame DEF Finish
  <2>2. QED
    BY <1>1, <1>13, <2>1, AfterAttemptRange DEF InFlight
<1>14. CASE \E c \in Clients : TryRefused(c) \/ WriteFails(c) \/ GiveUp(c) \/ ReturnClosed(c) \/ ReturnAnswer(c)
  BY <1>13, <1>14 DEF TryRefused, WriteFails, GiveUp, ReturnClosed, ReturnAnswer, InFlight
<1>15. CASE \E c \in Clients : Write(c)
  BY <1>1, <1>15 DEF Write, TypeOK
<1>16. ASSUME NEW t \in Threads, NEW s \in Pcs, s \notin {"respWait", "write"},
              pc' \in SignalCommand([pc EXCEPT ![t] = s])
       PROVE  /\ pc'[t] = s
              /\ \A u \in Threads : u # t => pc'[u] = pc[u] \/ (pc[u] = "respWait" /\ pc'[u] = "respWake")
  BY <1>16, SignalFrame
<1>17. "done" \in Pcs /\ "read" \in Pcs /\ "callback" \in Pcs
  BY DEF Pcs, ReaderPcs
<1>18. cmdMutex = None => \A c \in Clients : pc[c] # "write"
  BY ThreadsAssumption DEF OwnerInv, CommandHolder, Threads
<1>19. pc[Reader] \in ReaderPcs
  BY DEF TypeOK
<1>20. CASE ProcessFinal
  <2>1. pc' \in SignalCommand([pc EXCEPT ![Reader] = "read"]) /\ fd' = fd /\ readerClosed' = readerClosed
    BY <1>20 DEF ProcessFinal
  <2>2. QED
    BY <1>1, <1>16, <1>17, <2>1
<1>21. CASE MarkClosed
  <2>1. /\ pc' \in SignalCommand([pc EXCEPT ![Reader] = "callback"]) /\ fd' = fd /\ readerClosed' = TRUE
        /\ cmdMutex = None
    BY <1>21 DEF MarkClosed
  <2>2. \A c \in Clients : pc'[c] # "write"
    BY <1>16, <1>17, <1>18, <2>1
  <2>3. QED
    BY <2>1, <2>2 DEF DescriptorInv, WriterFoundOpen, ReaderMarksFirst, CloserKnown
<1>22. ASSUME NEW t \in {Runner, Reader}, CloseFd(t) PROVE DescriptorInv'
  BY <1>22 DEF CloseFd, TypeOK, DescriptorInv, WriterFoundOpen, ReaderMarksFirst, CloserKnown
<1>23. ASSUME NEW t \in {Runner, Reader}, ForgetFd(t) PROVE DescriptorInv'
  BY <1>23 DEF ForgetFd, TypeOK, DescriptorInv, WriterFoundOpen, ReaderMarksFirst, CloserKnown
<1>24. ASSUME NEW t \in {Runner, Reader}, CloseSignal(t) PROVE DescriptorInv'
  <2>1. /\ pc' \in SignalCommand([pc EXCEPT ![t] = "done"]) /\ fd' = fd /\ readerClosed' = TRUE
        /\ cmdMutex = None
    BY <1>24 DEF CloseSignal
  <2>2. \A c \in Clients : pc'[c] # "write"
    BY <1>16, <1>17, <1>18, <2>1
  <2>3. QED
    BY <2>1, <2>2 DEF DescriptorInv, WriterFoundOpen, ReaderMarksFirst, CloserKnown
<1>25. QED
  BY <1>2, <1>3, <1>4, <1>5, <1>6, <1>7, <1>8, <1>9, <1>10, <1>11, <1>12, <1>14, <1>15,
     <1>20, <1>21, <1>22, <1>23, <1>24, Zenon
     DEF Next, RunnerSteps, ClientSteps, Locking, Waiting, ReaderSteps, Closing, ModemSteps

(* The runner never writes to a descriptor that has been closed under it:   *)
(* whoever closes it marks the reader closed under commandmutex first, and  *)
(* the runner keeps that mutex from its test to its write.                  *)
THEOREM WriterHasDescriptor == Spec => []RunnerWritesOpenFd
<1>1. Init => DescriptorInv
  BY ThreadsAssumption
     DEF Init, DescriptorInv, WriterFoundOpen, ReaderMarksFirst, CloserKnown, Threads, Clients
<1>2. TypeOK /\ OwnerInv /\ DescriptorInv /\ [Next]_vars => DescriptorInv'
  BY DescriptorStep
<1>3. AtChannelInv => TypeOK /\ OwnerInv
  BY DEF AtChannelInv, OwnerInv
<1>4. DescriptorInv => RunnerWritesOpenFd
  BY DEF DescriptorInv, WriterFoundOpen, CloserKnown, RunnerWritesOpenFd, Clients
<1>5. QED
  BY <1>1, <1>2, <1>3, <1>4, AtChannelInvariant, PTL DEF Spec

=============================================================================
