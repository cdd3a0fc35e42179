----------------------------- MODULE HandlerRun -----------------------------
(***************************************************************************)
(* A handler of libril at work: processRequest (src/libril/ril-core.c) or   *)
(* the queue runner's list of events calls a function, which runs to its    *)
(* end, step by step, in the vocabulary of HandlerCode.  Every command may  *)
(* be answered, refused, or lost (a timeout, a closed channel, an answer    *)
(* that is not of the kind asked for), and every test on data may go either *)
(* way.  A raw command has no timeout: a silent modem holds the handler,    *)
(* and with it the runner, until it answers or the channel closes, which    *)
(* it need not do.                                                          *)
(*                                                                          *)
(* heap says what each pointer of the handler is:                           *)
(*   null   NULL                      wild   never given a value            *)
(*   line   a response with a line    bare   a response without one         *)
(*   held   a buffer                  inside a place in a buffer, not its   *)
(*   freed  given to free()                  beginning                      *)
(* A handler that frees what is not held, or reads what is not there, has   *)
(* undefined behaviour: the step is recorded in faults and the handler      *)
(* ends, as when the process dies.                                          *)
(***************************************************************************)
EXTENDS HandlerCode, Functions

CONSTANTS
    Code,       \* model -> name of a function -> its blocks
    Requests,   \* the names in RIL_DISP_TABLE: an answer is owed
    Events,     \* callbacks of enqueueRILEvent, branches of onUnsolicited
    \* pairs <<model, name>> that are known not to keep the property named
    Unanswered, Leaking, FreeingTwice, ReadingStale

\* A goto finds its label in the same function, and a call its function.
WellFormed(functions, f) ==
    /\ "main" \in DOMAIN functions[f] /\ DOMAIN functions[f] \subseteq Labels
    /\ \A l \in DOMAIN functions[f] : functions[f][l] \in Seq(Range(functions[f][l]))
    /\ \A l \in DOMAIN functions[f] : \A s \in Range(functions[f][l]) :
          /\ s.op \in Jumps => s.to \in DOMAIN functions[f]
          /\ s.op = "call"  => s.var \in DOMAIN functions

None == "none"
ASSUME HandlerAssumption ==
    /\ None \notin Requests \cup Events
    /\ \A m \in Models : \A f \in DOMAIN Code[m] : WellFormed(Code[m], f)

VARIABLES model, request, frames, heap, last, answers, faults
vars == <<model, request, frames, heap, last, answers, faults>>

Outcomes == {"ok", "refused", "lost"}
Silent   == "silent"       \* a raw command was sent, and nothing has come
Heap     == {"null", "wild", "line", "bare", "held", "inside", "freed"}
Faults   == {"leak", "free", "use"}
Owned(h) == h \in {"line", "bare", "held"}

TypeOK ==
    /\ model \in Models
    /\ request \in Requests \cup Events \cup {None}
    /\ frames \in Seq([f : DOMAIN Code[model], label : Labels, at : Nat \ {0}])
    /\ heap \in [Vars -> Heap]
    /\ last \in Outcomes \cup {Silent}
    /\ answers \in Nat
    /\ faults \in SUBSET Faults

Start == /\ heap = [v \in Vars |-> "null"]
         /\ last = "ok" /\ answers = 0 /\ faults = {}

Init == /\ model \in Models
        /\ request = None /\ frames = << >>
        /\ Start

Frame(f) == [f |-> f, label |-> "main", at |-> 1]
Top      == frames[Len(frames)]
Block    == Code[model][Top.f][Top.label]
Running  == frames # << >>
Now      == Block[Top.at]
At(ops)  == Running /\ Top.at <= Len(Block) /\ Now.op \in ops

Move(t)   == frames' = [frames EXCEPT ![Len(frames)] = t]
Advance   == Move([Top EXCEPT !.at = @ + 1])
Jump(l)   == Move([Top EXCEPT !.label = l, !.at = 1])
JumpIf(p) == IF p THEN Jump(Now.to) ELSE Advance
Fault(k)  == /\ faults' = faults \cup {k} /\ frames' = << >>
             /\ UNCHANGED <<model, request, heap, last, answers>>

(***************************************************************************)
(* The steps                                                                *)
(***************************************************************************)
Dispatch(f) ==
    /\ request = None /\ f \in DOMAIN Code[model]
    /\ request' = f /\ frames' = <<Frame(f)>>
    /\ UNCHANGED <<model, heap, last, answers, faults>>

\* the runner turns to its next event; a process that died is started again
Idle == /\ request # None /\ ~Running
        /\ request' = None /\ frames' = << >>
        /\ heap' = [v \in Vars |-> "null"]
        /\ last' = "ok" /\ answers' = 0 /\ faults' = {}
        /\ UNCHANGED model

Lose(h) == IF Owned(h) THEN {"leak"} ELSE {}
Assign(v, h, extra) == /\ heap' = [heap EXCEPT ![v] = h]
                       /\ faults' = faults \cup Lose(heap[v]) \cup extra

\* at_send_command: a command that fails leaves the variable alone, except
\* that one that wants a line frees a response without it and sets NULL
Command_(o) ==
    /\ At(Asking) /\ Advance /\ last' = o
    /\ \/ Now.var = NoVar /\ UNCHANGED <<heap, faults>>
       \/ /\ Now.var # NoVar /\ o = "ok"
          /\ \/ Assign(Now.var, "line", {})
             \/ Now.op # "ask" /\ Assign(Now.var, "bare", {})
       \/ Now.var # NoVar /\ o = "refused" /\ Assign(Now.var, "bare", {})
       \/ Now.var # NoVar /\ o = "lost" /\ UNCHANGED <<heap, faults>>
       \/ Now.op = "ask" /\ Now.var # NoVar /\ o = "lost" /\ Assign(Now.var, "null", {})
    /\ UNCHANGED <<model, request, answers>>

\* at_send_command_raw waits without a deadline: from here on "lost" is the
\* close of the channel alone
Wait ==
    /\ At({"raw"}) /\ last' = Silent
    /\ UNCHANGED <<model, request, frames, heap, answers, faults>>

Branch ==
    /\ \/ At({"unless"}) /\ JumpIf(last \notin Now.among)
       \/ At({"maybe"}) /\ (Advance \/ Jump(Now.to))
       \/ At({"goto"}) /\ Jump(Now.to)
       \/ At({"lined"}) /\ Owned(heap[Now.var]) /\ JumpIf(heap[Now.var] # "line")
    /\ UNCHANGED <<model, request, heap, last, answers, faults>>

\* what the op needs to be there
Needs(op) == CASE op \in {"parse", "read"} -> {"line"}
               [] OTHER                    -> {"line", "bare", "held"}
Lines ==
    /\ At({"parse", "read", "scan", "look"})
    /\ IF heap[Now.var] \notin Needs(Now.op) THEN Fault("use")
       ELSE /\ \/ Advance
               \/ Now.op \in {"parse", "scan"} /\ Jump(Now.to)
            /\ UNCHANGED <<model, request, heap, last, answers, faults>>

Release ==
    /\ At({"free", "shed"})
    /\ IF heap[Now.var] \in {"freed", "wild", "inside"} THEN Fault("free")
       ELSE /\ Advance
            /\ heap' = [heap EXCEPT ![Now.var] = IF @ = "null" THEN @ ELSE "freed"]
            /\ faults' = faults \cup (IF Now.op = "shed" THEN Lose(heap[Now.var]) ELSE {})
            /\ UNCHANGED <<model, request, last, answers>>

Pointer ==
    /\ At({"make", "null", "wild"}) /\ Advance
    /\ Assign(Now.var, CASE Now.op = "make" -> "held" [] Now.op = "null" -> "null"
                         [] Now.op = "wild" -> "wild", {})
    /\ UNCHANGED <<model, request, last, answers>>

\* a mutant: the place in the buffer is taken for a kind of its own
MovePointerRaw ==
    /\ At({"shift"}) /\ Advance
    /\ heap' = [heap EXCEPT ![Now.var] = Now.op]
    /\ UNCHANGED <<model, request, last, answers, faults>>

\* the buffer is still there, and the only pointer to it is past its start
MovePointer ==
    /\ At({"shift"}) /\ Advance
    /\ heap' = [heap EXCEPT ![Now.var] = "inside"]
    /\ UNCHANGED <<model, request, last, answers, faults>>

Answer ==
    /\ At({"answer"})
    /\ IF Now.var # NoVar /\ ~Owned(heap[Now.var]) THEN Fault("use")
       ELSE /\ Advance /\ answers' = answers + 1
            /\ UNCHANGED <<model, request, heap, last, faults>>

CallStep ==
    /\ At({"call"})
    /\ frames' = Append([frames EXCEPT ![Len(frames)].at = @ + 1], Frame(Now.var))
    /\ UNCHANGED <<model, request, heap, last, answers, faults>>

\* the last return loses what is still held
Return ==
    /\ Running /\ Top.at > Len(Block)
    /\ frames' = SubSeq(frames, 1, Len(frames) - 1)
    /\ faults' = faults \cup (IF Len(frames) = 1
                              THEN UNION {Lose(heap[v]) : v \in Vars} ELSE {})
    /\ UNCHANGED <<model, request, heap, last, answers>>

Step_ == \/ \E o \in Outcomes : Command_(o)
         \/ Wait
         \/ Branch \/ Lines \/ Release \/ Pointer \/ MovePointer
         \/ Answer \/ CallStep \/ Return
Next == (\E f \in Requests \cup Events : Dispatch(f)) \/ Idle \/ Step_
Spec == Init /\ [][Next]_vars

(***************************************************************************)
(* Properties                                                               *)
(***************************************************************************)
This     == <<model, request>>
Crashed  == faults \cap {"free", "use"} # {}
Returned == request # None /\ ~Running /\ ~Crashed

\* A handler that returns has completed its request, once: the framework
\* waits for the token of a request for ever, and a second completion is of
\* a token it has given away (RIL_onRequestComplete, ril.h).
AnsweredOnce ==
    Returned /\ request \in Requests /\ This \notin Unanswered => answers = 1


\* Nothing is freed that is not held: not twice, not a pointer without a
\* value, not the middle of a buffer.
NeverFreedTwice == "free" \in faults => This \in FreeingTwice

\* No line is read that the response does not have, and no answer points
\* into a response that was freed before.
NoStaleRead == "use" \in faults => This \in ReadingStale
=============================================================================
