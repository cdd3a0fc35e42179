--------------------------- MODULE AtChannelProofs ---------------------------
(***************************************************************************)
(* Theorems about AtChannel, for any number of command threads, calls,     *)
(* unsolicited lines, spurious wakeups and handshake attempts.             *)
(*                                                                         *)
(* ResponseOwned is not inductive: that the slot is free whenever          *)
(* requestmutex is, needs to be known together with who holds the two      *)
(* mutexes at each control point.  AtChannelInv is that strengthening.     *)
(***************************************************************************)
EXTENDS AtChannel, TLAPS

(* commandmutex is held exactly while a client is between its lock and a    *)
(* wait, or pauses in at_handshake; the reader never keeps it across steps. *)
CommandHolder ==
  /\ cmdMutex # Reader
  /\ \A c \in Clients : cmdMutex = c <=> pc[c] \in {"try", "write", "drain"}

(* requestmutex is held exactly from the successful trylock to the return.  *)
RequestHolder ==
  \A c \in Clients : reqMutex = c <=> pc[c] \in {"write"} \cup InFlight

(* A thread inside its wait finds its own command in the slot.              *)
SlotOfWaiter ==
  \A c \in Clients : pc[c] \in InFlight => Pending /\ response.of = cmd[c]

AtChannelInv ==
  /\ TypeOK
  /\ CommandHolder
  /\ RequestHolder
  /\ SlotOfWaiter
  /\ ResponseOwned
  /\ NeverCommandPending

-----------------------------------------------------------------------------

Pcs == ClientPcs \cup ReaderPcs

(* A signal moves at most one waiter from its wait to its wakeup.           *)
LEMMA SignalEffect ==
  ASSUME NEW p \in [Threads -> Pcs], NEW q \in SignalCommand(p)
  PROVE  /\ q \in [Threads -> Pcs]
         /\ \A t \in Threads : q[t] = p[t] \/ (t \in Clients /\ p[t] = "respWait" /\ q[t] = "respWake")
<1>1. CASE {c \in Clients : p[c] = "respWait"} = {}
  BY <1>1 DEF SignalCommand
<1>2. CASE {c \in Clients : p[c] = "respWait"} # {}
  <2>1. PICK c \in Clients : p[c] = "respWait" /\ q = [p EXCEPT ![c] = "respWake"]
    BY <1>2 DEF SignalCommand
  <2>2. "respWake" \in Pcs /\ c \in Threads
    BY DEF Pcs, ClientPcs, Threads
  <2>3. QED
    BY <2>1, <2>2
<1>3. QED
  BY <1>1, <1>2

(* A broadcast moves the waiters of requestcond and nobody else.            *)
LEMMA BroadcastEffect ==
  ASSUME NEW p \in [Threads -> Pcs]
  PROVE  /\ BroadcastRequest(p) \in [Threads -> Pcs]
         /\ \A t \in Threads :
              \/ BroadcastRequest(p)[t] = p[t]
              \/ p[t] = "reqWait" /\ BroadcastRequest(p)[t] = "reqWake"
BY DEF BroadcastRequest, Pcs, ClientPcs

(* The control points at_send_command_full_nolock may return to. *)
LEMMA AfterAttemptRange ==
  ASSUME NEW c, NEW code
  PROVE  AfterAttempt(c, code) \in {"drain", "try", "close1", "timeout", "idle"}
BY DEF AfterAttempt

(* Every wrapper asks for one of the five response types. *)
LEMMA TypeOfRange ==
  ASSUME NEW o \in AllOps \cup {"handshake"}
  PROVE  TypeOf(o) \in ResultTypes
BY DEF TypeOf, AllOps, ResultTypes

LEMMA EmptyInfo == <<>> \in Seq(Lines)
  OBVIOUS

LEMMA NoResponseType == NoResponse \in Responses /\ NoLine \in Lines
<1>1. NoLine \in Lines
  BY DEF NoLine, Line, Lines, LineKinds
<1>2. QED
  BY <1>1, EmptyInfo DEF NoResponse, Responses, ResultTypes

(* What a return of at_send_command_full_nolock does to the types. *)
LEMMA FinishType ==
  ASSUME TypeOK, NEW c \in Clients, NEW code \in Codes, NEW answer \in Responses,
         Finish(c, code, answer), cmd' \in [Clients -> Nat]
  PROVE  /\ pc' \in [Threads -> Pcs]
         /\ pc'[Reader] \in ReaderPcs
         /\ \A d \in Clients : pc'[d] \in ClientPcs
         /\ response' \in Responses /\ smsPDU' = 0
         /\ reqMutex' = None /\ cmdMutex' \in Threads \cup {None}
         /\ tries' \in Nat
         /\ outcome' \in [Clients -> Outcomes]
<1> DEFINE p == [pc EXCEPT ![c] = AfterAttempt(c, code)]
<1>0. c \in Threads /\ Reader \in Threads /\ c # Reader /\ Clients \subseteq Threads
  BY ThreadsAssumption DEF Threads
<1>1. p \in [Threads -> Pcs] /\ p[c] \in ClientPcs
      /\ \A t \in Threads : t # c => p[t] = pc[t]
  BY <1>0, AfterAttemptRange DEF TypeOK, Pcs, ClientPcs
<1>2. pc' = BroadcastRequest(p)
  BY DEF Finish
<1> HIDE DEF p
<1>3. /\ pc' \in [Threads -> Pcs]
      /\ \A t \in Threads : pc'[t] = p[t] \/ (p[t] = "reqWait" /\ pc'[t] = "reqWake")
  BY <1>1, <1>2, BroadcastEffect
<1>4. pc'[Reader] \in ReaderPcs
  BY <1>0, <1>1, <1>3 DEF TypeOK, ReaderPcs
<1>5. \A d \in Clients : pc'[d] \in ClientPcs
  BY <1>0, <1>1, <1>3 DEF TypeOK, ClientPcs
<1>6. response' \in Responses /\ smsPDU' = 0 /\ reqMutex' = None
  BY NoResponseType DEF Finish
<1>7. cmdMutex' \in Threads \cup {None} /\ tries' \in Nat
  BY <1>0 DEF Finish, TypeOK
<1>8. outcome' \in [Clients -> Outcomes]
  BY DEF Finish, TypeOK, Outcomes, Responses
<1>9. QED
  BY <1>3, <1>4, <1>5, <1>6, <1>7, <1>8

LEMMA NoOutcomeType == NoOutcome \in Outcomes
BY NoResponseType DEF NoOutcome, Outcomes, Codes, NoResponse, Responses

LEMMA LineType ==
  ASSUME NEW k \in LineKinds, NEW id \in Nat
  PROVE  Line(k, id) \in Lines
BY DEF Line, Lines

(* The control points after a thread has moved and signalled commandcond.   *)
LEMMA SignalType ==
  ASSUME TypeOK, NEW t \in Threads, NEW s \in Pcs,
         pc' \in SignalCommand([pc EXCEPT ![t] = s]),
         t = Reader => s \in ReaderPcs, t # Reader => s \in ClientPcs
  PROVE  /\ pc' \in [Threads -> Pcs]
         /\ pc'[Reader] \in ReaderPcs
         /\ \A d \in Clients : pc'[d] \in ClientPcs
<1> DEFINE p == [pc EXCEPT ![t] = s]
<1>0. Reader \in Threads /\ Reader \notin Clients /\ Clients \subseteq Threads
  BY ThreadsAssumption DEF Threads
<1>1. p \in [Threads -> Pcs] /\ p[t] = s /\ \A u \in Threads : u # t => p[u] = pc[u]
  BY DEF TypeOK, Pcs
<1> HIDE DEF p
<1>2. /\ pc' \in [Threads -> Pcs]
      /\ \A u \in Threads : pc'[u] = p[u] \/ (u \in Clients /\ pc'[u] = "respWake")
  BY <1>1, SignalEffect DEF p
<1>3. pc'[Reader] \in ReaderPcs
  BY <1>0, <1>1, <1>2 DEF TypeOK
<1>4. \A d \in Clients : p[d] \in ClientPcs
  BY <1>0, <1>1 DEF TypeOK
<1>5. "respWake" \in ClientPcs
  BY DEF ClientPcs
<1>6. QED
  BY <1>0, <1>2, <1>3, <1>4, <1>5

(* The queue of the modem keeps its type when its head advances.            *)
LEMMA HeadOfModem ==
  ASSUME modem \in Seq(Commands), modem # <<>>
  PROVE  /\ Head(modem) \in Commands /\ Head(modem) = modem[1] /\ 1 \in DOMAIN modem
         /\ Tail(modem) \in Seq(Commands)
OBVIOUS

LEMMA StageType ==
  ASSUME modem \in Seq(Commands), modem # <<>>,
         NEW s \in {"new", "informed", "prompted", "pdu"}
  PROVE  [modem EXCEPT ![1].stage = s] \in Seq(Commands)
<1>1. [modem[1] EXCEPT !.stage = s] \in Commands
  BY HeadOfModem DEF Commands
<1>2. QED
  BY <1>1, HeadOfModem

(* Type correctness of every step. *)
LEMMA TypeStep == TypeOK /\ [Next]_vars => TypeOK'
<1> SUFFICES ASSUME TypeOK, [Next]_vars PROVE TypeOK'
  OBVIOUS
<1>0. /\ Clients \subseteq Threads /\ Reader \in Threads /\ Runner \in Clients
      /\ Reader \notin Clients
  BY ThreadsAssumption DEF Threads, Clients
<1> USE <1>0 DEF clientVars, channelVars, modemVars, mutexVars, linkVars, ghostVars, ClientPcs, ReaderPcs
<1>1. CASE SetCallbacks
  BY <1>1 DEF SetCallbacks, TypeOK
<1>2. CASE HandshakeDone
  BY <1>2 DEF HandshakeDone, TypeOK
<1>3. CASE Serve
  BY <1>3 DEF Serve, TypeOK
<1>4. CASE LeaveLoop
  BY <1>4 DEF LeaveLoop, TypeOK
<1>5. CASE ReadLine
  BY <1>5 DEF ReadLine, TypeOK
<1>6. CASE ReadFails
  BY <1>6 DEF ReadFails, TypeOK
<1>7. CASE ProcessUnsolicited
  BY <1>7 DEF ProcessUnsolicited, TypeOK
<1>8. CASE TestClosed
  BY <1>8 DEF TestClosed, TypeOK
<1>9. CASE OnReaderClosed
  BY <1>9 DEF OnReaderClosed, TypeOK
<1>10. CASE ModemDrops
  BY <1>10 DEF ModemDrops, TypeOK
<1>11. CASE HangUp
  BY <1>11 DEF HangUp, TypeOK
<1>12. CASE Quiescent
  BY <1>12 DEF Quiescent, TypeOK, vars
<1>13. ASSUME NEW c \in Clients, Lock(c) PROVE TypeOK'
  BY <1>13 DEF Lock, TypeOK
<1>14. ASSUME NEW c \in Clients, TryBusy(c) PROVE TypeOK'
  BY <1>14 DEF TryBusy, TypeOK
<1>15. ASSUME NEW c \in Clients, RequestRelock(c) PROVE TypeOK'
  BY <1>15 DEF RequestRelock, TypeOK
<1>16. ASSUME NEW c \in Clients, TryAcquire(c) PROVE TypeOK'
  BY <1>16 DEF TryAcquire, TypeOK
<1>17. ASSUME NEW c \in Clients, Deadline(c) PROVE TypeOK'
  BY <1>17 DEF Deadline, TypeOK
<1>18. ASSUME NEW c \in Clients, WaitAgain(c) PROVE TypeOK'
  BY <1>18 DEF WaitAgain, TypeOK
<1>19. ASSUME NEW c \in Clients, OnTimeout(c) PROVE TypeOK'
  BY <1>19 DEF OnTimeout, TypeOK
<1>20. ASSUME NEW c \in Clients, TryRefused(c) PROVE TypeOK'
  BY <1>20, FinishType, NoResponseType DEF TryRefused, TypeOK, Finish, Codes, Pcs
<1>21. ASSUME NEW c \in Clients, WriteFails(c) PROVE TypeOK'
  BY <1>21, FinishType, NoResponseType DEF WriteFails, TypeOK, Finish, Codes, Pcs
<1>22. ASSUME NEW c \in Clients, GiveUp(c) PROVE TypeOK'
  BY <1>22, FinishType, NoResponseType DEF GiveUp, TypeOK, Finish, Codes, Pcs
<1>23. ASSUME NEW c \in Clients, ReturnClosed(c) PROVE TypeOK'
  BY <1>23, FinishType, NoResponseType DEF ReturnClosed, TypeOK, Finish, Codes, Pcs
<1>24. ASSUME NEW c \in Clients, SpuriousWakeup(c) PROVE TypeOK'
  <2>1. spurious' \in 0 .. MaxSpurious
    BY <1>24, BoundsAssumption DEF SpuriousWakeup, TypeOK
  <2>2. CASE pc' = [pc EXCEPT ![c] = "respWake"]
    BY <1>24, <2>1, <2>2 DEF SpuriousWakeup, TypeOK
  <2>3. CASE pc' = [pc EXCEPT ![c] = "reqWake"]
    BY <1>24, <2>1, <2>3 DEF SpuriousWakeup, TypeOK
  <2>4. QED
    BY <1>24, <2>2, <2>3 DEF SpuriousWakeup
<1>25. ASSUME NEW c \in Clients, ReturnAnswer(c) PROVE TypeOK'
  <2>1. CASE Finish(c, "INVALID_RESPONSE", NoResponse)
    BY <1>25, <2>1, FinishType, NoResponseType DEF ReturnAnswer, TypeOK, Finish, Codes, Pcs
  <2>2. CASE Finish(c, "OK", response)
    BY <1>25, <2>2, FinishType DEF ReturnAnswer, TypeOK, Finish, Codes, Pcs
  <2>3. QED
    BY <1>25, <2>1, <2>2 DEF ReturnAnswer
<1>26. ASSUME NEW c \in Clients, NEW o \in Ops, Call(c, o) PROVE TypeOK'
  BY <1>26, BoundsAssumption, NoOutcomeType DEF Call, TypeOK
<1>27. ASSUME NEW c \in Clients, Write(c) PROVE TypeOK'
  <2>1. op[c] \in AllOps \cup {"handshake"} /\ sent \in Nat
    BY DEF TypeOK
  <2>2. TypeOf(op[c]) \in ResultTypes
    BY <2>1, TypeOfRange
  <2>3. response' \in Responses
    BY <1>27, <2>1, <2>2, NoResponseType, EmptyInfo DEF Write, Responses
  <2>4. [of |-> sent + 1, op |-> op[c], stage |-> "new"] \in Commands
    BY <2>1 DEF Commands
  <2>5. modem' \in Seq(Commands)
    BY <1>27, <2>4 DEF Write, TypeOK
  <2>6. cmd' \in [Clients -> Nat] /\ sent' \in Nat /\ smsPDU' \in Nat
    BY <1>27, <2>1 DEF Write, TypeOK
  <2>7. /\ pc' \in [Threads -> ClientPcs \cup ReaderPcs]
        /\ pc'[Reader] \in ReaderPcs /\ \A d \in Clients : pc'[d] \in ClientPcs
    BY <1>27 DEF Write, TypeOK
  <2>8. QED
    BY <1>27, <2>3, <2>5, <2>6, <2>7 DEF Write, TypeOK
<1>28. ASSUME NEW t \in Threads, CloseFd(t) PROVE TypeOK'
  BY <1>28 DEF CloseFd, TypeOK, Threads
<1>29. ASSUME NEW t \in Threads, ForgetFd(t) PROVE TypeOK'
  BY <1>29 DEF ForgetFd, TypeOK, Threads
<1>30. ASSUME NEW t \in Threads, CloseSignal(t) PROVE TypeOK'
  BY <1>30, SignalType DEF CloseSignal, TypeOK, Pcs, Threads
<1>31. CASE ProcessFinal
  <2>1. /\ pc' \in [Threads -> Pcs] /\ pc'[Reader] \in ReaderPcs
        /\ \A d \in Clients : pc'[d] \in ClientPcs
    BY <1>31, SignalType DEF ProcessFinal, Pcs
  <2>2. response' \in Responses
    BY <1>31 DEF ProcessFinal, TypeOK, Responses
  <2>3. QED
    BY <1>31, <2>1, <2>2 DEF ProcessFinal, TypeOK, Pcs
<1>32. CASE MarkClosed
  <2>1. /\ pc' \in [Threads -> Pcs] /\ pc'[Reader] \in ReaderPcs
        /\ \A d \in Clients : pc'[d] \in ClientPcs
    BY <1>32, SignalType DEF MarkClosed, Pcs
  <2>3. QED
    BY <1>32, <2>1 DEF MarkClosed, TypeOK, Pcs
<1>33. CASE ProcessPrompt
  <2>1. modem' \in Seq(Commands)
    <3>1. CASE fd = "open" /\ ~readerClosed
      <4> DEFINE f(i) == IF i = 1 /\ modem[i].stage = "prompted"
                         THEN [modem[i] EXCEPT !.stage = "pdu"] ELSE modem[i]
      <4>0. DOMAIN modem = 1 .. Len(modem) /\ \A i \in 1 .. Len(modem) : modem[i] \in Commands
        BY DEF TypeOK
      <4>1. modem' = [i \in 1 .. Len(modem) |-> f(i)]
        BY <1>33, <3>1, <4>0 DEF ProcessPrompt
      <4>2. \A i \in 1 .. Len(modem) : f(i) \in Commands
        <5> TAKE i \in 1 .. Len(modem)
        <5>1. [modem[i] EXCEPT !.stage = "pdu"] \in Commands
          BY <4>0 DEF Commands
        <5>2. QED
          BY <4>0, <5>1
      <4> HIDE DEF f
      <4>3. QED
        BY <4>1, <4>2 DEF TypeOK
    <3>2. QED
      BY <1>33, <3>1 DEF ProcessPrompt, TypeOK
  <2>2. QED
    BY <1>33, <2>1 DEF ProcessPrompt, TypeOK
<1>34. CASE ProcessInfo
  <2>0. Append(response.info, line) \in Seq(Lines)
    BY DEF TypeOK, Responses
  <2>1. response' \in Responses
    BY <1>34, <2>0 DEF ProcessInfo, TypeOK, Responses
  <2>2. QED
    BY <1>34, <2>1 DEF ProcessInfo, TypeOK
<1>35. CASE ModemInfo
  <2>1. Line(InfoKind(Head(modem).op), Head(modem).of) \in Lines
    BY <1>35, LineType, HeadOfModem DEF ModemInfo, TypeOK, LineKinds, Commands, InfoKind
  <2>2. [modem EXCEPT ![1].stage = "informed"] \in Seq(Commands)
    BY <1>35, StageType DEF ModemInfo, TypeOK
  <2> DEFINE l == Line(InfoKind(Head(modem).op), Head(modem).of)
  <2>3. wire' = Append(wire, l) /\ modem' = [modem EXCEPT ![1].stage = "informed"]
    BY <1>35 DEF ModemInfo
  <2>4. l \in Lines
    BY <2>1
  <2> HIDE DEF l
  <2>5. wire' \in Seq(Lines) /\ modem' \in Seq(Commands)
    BY <2>2, <2>3, <2>4 DEF TypeOK
  <2>6. /\ UNCHANGED <<pc, clientVars, mutexVars, channelVars, linkVars>>
        /\ UNCHANGED <<hungup, strays, ghostVars>>
    BY <1>35 DEF ModemInfo
  <2>7. QED
    BY <2>5, <2>6 DEF TypeOK
<1>36. CASE ModemPrompt
  <2>1. Line("> ", Head(modem).of) \in Lines
    BY <1>36, LineType, HeadOfModem DEF ModemPrompt, TypeOK, LineKinds, Commands, InfoKind
  <2>2. [modem EXCEPT ![1].stage = "prompted"] \in Seq(Commands)
    BY <1>36, StageType DEF ModemPrompt, TypeOK
  <2> DEFINE l == Line("> ", Head(modem).of)
  <2>3. wire' = Append(wire, l) /\ modem' = [modem EXCEPT ![1].stage = "prompted"]
    BY <1>36 DEF ModemPrompt
  <2>4. l \in Lines
    BY <2>1
  <2> HIDE DEF l
  <2>5. wire' \in Seq(Lines) /\ modem' \in Seq(Commands)
    BY <2>2, <2>3, <2>4 DEF TypeOK
  <2>6. /\ UNCHANGED <<pc, clientVars, mutexVars, channelVars, linkVars>>
        /\ UNCHANGED <<hungup, strays, ghostVars>>
    BY <1>36 DEF ModemPrompt
  <2>7. QED
    BY <2>5, <2>6 DEF TypeOK
<1>37. ASSUME NEW k \in Finals, ModemFinal(k) PROVE TypeOK'
  <2>1. Line(k, Head(modem).of) \in Lines
    BY <1>37, LineType, HeadOfModem, BoundsAssumption DEF ModemFinal, TypeOK, LineKinds, Commands
  <2>2. QED
    BY <1>37, <2>1, HeadOfModem DEF ModemFinal, TypeOK
<1>38. ASSUME NEW k \in Strays, ModemStray(k) PROVE TypeOK'
  <2>1. /\ Line("sms", 0) \in Lines /\ Line("smsbody", 0) \in Lines
        /\ Line(k, 0) \in Lines
    BY LineType, BoundsAssumption DEF LineKinds, AllStrays
  <2>2. wire' \in Seq(Lines)
    BY <1>38, <2>1 DEF ModemStray, TypeOK
  <2>3. QED
    BY <1>38, <2>2, BoundsAssumption DEF ModemStray, TypeOK
<1>39. CASE UNCHANGED vars
  BY <1>39 DEF vars, TypeOK
<1>40. QED
  BY <1>1, <1>2, <1>3, <1>4, <1>5, <1>6, <1>7, <1>8, <1>9, <1>10, <1>11, <1>12, <1>13,
     <1>14, <1>15, <1>16, <1>17, <1>18, <1>19, <1>20, <1>21, <1>22, <1>23, <1>24, <1>25,
     <1>26, <1>27, <1>28, <1>29, <1>30, <1>31, <1>32, <1>33, <1>34, <1>35, <1>36, <1>37,
     <1>38, <1>39
     DEF Next, RunnerSteps, ClientSteps, Locking, Waiting, ReaderSteps, Closing, ModemSteps

-----------------------------------------------------------------------------

Owning == {"try", "write", "drain"}
Requesting == {"write"} \cup InFlight

OwnerInv == CommandHolder /\ RequestHolder /\ SlotOfWaiter /\ ResponseOwned /\ NeverCommandPending

(* A step that moves no thread across the points where the mutexes change   *)
(* hands and leaves the number of the pending command alone.                *)
LEMMA QuietStep ==
  ASSUME TypeOK, OwnerInv,
         \A c \in Clients : /\ pc'[c] \in Owning <=> pc[c] \in Owning
                            /\ pc'[c] \in Requesting <=> pc[c] \in Requesting
                            /\ pc'[c] \in InFlight <=> pc[c] \in InFlight
                            /\ cmd'[c] = cmd[c]
                            /\ outcome'[c].code # "COMMAND_PENDING",
         cmdMutex' = cmdMutex, reqMutex' = reqMutex,
         response'.of = response.of, smsPDU' \in {smsPDU, 0}
  PROVE  OwnerInv'
<1>1. CommandHolder'
  BY DEF OwnerInv, CommandHolder, Owning
<1>2. RequestHolder'
  BY DEF OwnerInv, RequestHolder, Requesting
<1>3. SlotOfWaiter'
  BY DEF OwnerInv, SlotOfWaiter, Pending
<1>4. ResponseOwned'
  BY DEF OwnerInv, ResponseOwned, Pending
<1>5. NeverCommandPending'
  BY DEF NeverCommandPending
<1>6. QED
  BY <1>1, <1>2, <1>3, <1>4, <1>5 DEF OwnerInv

(* A return of at_send_command_full_nolock by the thread that holds         *)
(* commandmutex, or has just taken it, and requestmutex, if anyone does.    *)
LEMMA FinishStep ==
  ASSUME TypeOK, OwnerInv, NEW c \in Clients, NEW code, NEW answer,
         Finish(c, code, answer), code # "COMMAND_PENDING",
         cmdMutex \in {None, c}, reqMutex \in {None, c}
  PROVE  OwnerInv'
<1> DEFINE p == [pc EXCEPT ![c] = AfterAttempt(c, code)]
<1>0. c \in Threads /\ Clients \subseteq Threads /\ None \notin Threads /\ Reader \notin Clients
  BY ThreadsAssumption DEF Threads
<1>1. p \in [Threads -> Pcs] /\ p[c] = AfterAttempt(c, code)
      /\ \A t \in Threads : t # c => p[t] = pc[t]
  BY <1>0, AfterAttemptRange DEF TypeOK, Pcs, ClientPcs
<1>2. pc' = BroadcastRequest(p)
  BY DEF Finish
<1> HIDE DEF p
<1>3. /\ pc'[c] = AfterAttempt(c, code)
      /\ \A d \in Clients \ {c} : pc'[d] = pc[d] \/ (pc[d] = "reqWait" /\ pc'[d] = "reqWake")
  BY <1>0, <1>1, <1>2, BroadcastEffect, AfterAttemptRange
<1>4. ~Pending' /\ smsPDU' = 0 /\ reqMutex' = None
  BY DEF Finish, Pending, NoResponse
<1>5. CommandHolder'
  <2>1. cmdMutex' = IF pc'[c] \in {"try", "drain"} THEN c ELSE None
    BY <1>3 DEF Finish
  <2>2. \A d \in Clients \ {c} : pc[d] \notin Owning
    BY <1>0 DEF OwnerInv, CommandHolder, Owning
  <2>3. \A d \in Clients \ {c} : pc'[d] \notin Owning
    BY <1>3, <2>2 DEF Owning
  <2>4. pc'[c] \in Owning <=> pc'[c] \in {"try", "drain"}
    BY <1>3, AfterAttemptRange DEF Owning
  <2>5. cmdMutex' # Reader
    BY <1>0, <2>1, ThreadsAssumption DEF Threads
  <2>6. \A d \in Clients : cmdMutex' = d <=> pc'[d] \in Owning
    BY <1>0, <2>1, <2>3, <2>4
  <2>7. QED
    BY <2>5, <2>6 DEF CommandHolder, Owning
<1>6. \A d \in Clients : pc'[d] \notin Requesting
  <2>1. \A d \in Clients \ {c} : pc[d] \notin Requesting
    BY <1>0 DEF OwnerInv, RequestHolder, Requesting
  <2>2. QED
    BY <1>3, <2>1, AfterAttemptRange DEF Requesting, InFlight
<1>7. RequestHolder' /\ SlotOfWaiter'
  BY <1>0, <1>4, <1>6 DEF RequestHolder, SlotOfWaiter, Requesting
<1>8. ResponseOwned'
  BY <1>4 DEF ResponseOwned
<1>9. NeverCommandPending'
  BY DEF Finish, TypeOK, OwnerInv, NeverCommandPending
<1>10. QED
  BY <1>5, <1>7, <1>8, <1>9 DEF OwnerInv

(* Who owns the slot, over every step. *)
LEMMA OwnerStep == TypeOK /\ OwnerInv /\ [Next]_vars => OwnerInv'
<1> SUFFICES ASSUME TypeOK, OwnerInv, [Next]_vars PROVE OwnerInv'
  OBVIOUS
<1>0. /\ Clients \subseteq Threads /\ Reader \in Threads /\ Runner \in Clients
      /\ Reader \notin Clients /\ None \notin Threads
  BY ThreadsAssumption DEF Threads, Clients
<1> USE <1>0 DEF clientVars, channelVars, modemVars, mutexVars, linkVars, ghostVars
<1>1. CASE SetCallbacks
  BY <1>1, QuietStep DEF SetCallbacks, TypeOK, OwnerInv, NeverCommandPending, Owning,
     Requesting, InFlight
<1>2. CASE Serve
  BY <1>2, QuietStep DEF Serve, TypeOK, OwnerInv, NeverCommandPending, Owning, Requesting, InFlight
<1>3. CASE LeaveLoop
  BY <1>3, QuietStep DEF LeaveLoop, TypeOK, OwnerInv, NeverCommandPending, Owning, Requesting, InFlight
<1>4. CASE ReadLine
  BY <1>4, QuietStep DEF ReadLine, TypeOK, OwnerInv, NeverCommandPending, Owning, Requesting, InFlight
<1>5. CASE ReadFails
  BY <1>5, QuietStep DEF ReadFails, TypeOK, OwnerInv, NeverCommandPending, Owning, Requesting, InFlight
<1>6. CASE ProcessUnsolicited
  BY <1>6, QuietStep DEF ProcessUnsolicited, TypeOK, OwnerInv, NeverCommandPending, Owning, Requesting, InFlight
<1>7. CASE TestClosed
  BY <1>7, QuietStep DEF TestClosed, TypeOK, OwnerInv, NeverCommandPending, Owning, Requesting, InFlight
<1>8. CASE OnReaderClosed
  BY <1>8, QuietStep DEF OnReaderClosed, TypeOK, OwnerInv, NeverCommandPending, Owning, Requesting, InFlight
<1>9. CASE ModemDrops
  BY <1>9, QuietStep DEF ModemDrops, TypeOK, OwnerInv, NeverCommandPending, Owning, Requesting, InFlight
<1>10. CASE HangUp
  BY <1>10, QuietStep DEF HangUp, TypeOK, OwnerInv, NeverCommandPending, Owning, Requesting, InFlight
<1>11. CASE Quiescent
  BY <1>11, QuietStep DEF Quiescent, TypeOK, OwnerInv, NeverCommandPending, Owning, Requesting, InFlight, vars
<1>12. CASE ProcessPrompt
  BY <1>12, QuietStep DEF ProcessPrompt, TypeOK, OwnerInv, NeverCommandPending, Owning, Requesting, InFlight
<1>13. CASE ProcessInfo
  BY <1>13, QuietStep DEF ProcessInfo, TypeOK, OwnerInv, NeverCommandPending, Owning, Requesting, InFlight, Responses
<1>14. CASE ModemInfo
  BY <1>14, QuietStep DEF ModemInfo, TypeOK, OwnerInv, NeverCommandPending, Owning, Requesting, InFlight
<1>15. CASE ModemPrompt
  BY <1>15, QuietStep DEF ModemPrompt, TypeOK, OwnerInv, NeverCommandPending, Owning, Requesting, InFlight
<1>16. ASSUME NEW c \in Clients, Deadline(c) PROVE OwnerInv'
  BY <1>16, QuietStep DEF Deadline, TypeOK, OwnerInv, NeverCommandPending, Owning, Requesting, InFlight
<1>17. ASSUME NEW c \in Clients, SpuriousWakeup(c) PROVE OwnerInv'
  BY <1>17, QuietStep DEF SpuriousWakeup, TypeOK, OwnerInv, NeverCommandPending, Owning, Requesting, InFlight
<1>18. ASSUME NEW c \in Clients, WaitAgain(c) PROVE OwnerInv'
  BY <1>18, QuietStep DEF WaitAgain, TypeOK, OwnerInv, NeverCommandPending, Owning, Requesting, InFlight
<1>19. ASSUME NEW c \in Clients, OnTimeout(c) PROVE OwnerInv'
  BY <1>19, QuietStep DEF OnTimeout, TypeOK, OwnerInv, NeverCommandPending, Owning, Requesting, InFlight
<1>20. ASSUME NEW c \in Clients, NEW o \in Ops, Call(c, o) PROVE OwnerInv'
  BY <1>20, QuietStep DEF Call, NoOutcome, TypeOK, OwnerInv, NeverCommandPending, Owning, Requesting, InFlight
<1>21. ASSUME NEW t \in Threads, CloseFd(t) PROVE OwnerInv'
  BY <1>21, QuietStep DEF CloseFd, Threads, TypeOK, OwnerInv, NeverCommandPending, Owning, Requesting, InFlight
<1>22. ASSUME NEW t \in Threads, ForgetFd(t) PROVE OwnerInv'
  BY <1>22, QuietStep DEF ForgetFd, Threads, TypeOK, OwnerInv, NeverCommandPending, Owning, Requesting, InFlight
<1>23. ASSUME NEW t \in Threads, CloseSignal(t) PROVE OwnerInv'
  <2> DEFINE p == [pc EXCEPT ![t] = "done"]
  <2>1. p \in [Threads -> Pcs] /\ \A d \in Clients : d # t => p[d] = pc[d]
    BY DEF TypeOK, Pcs, ReaderPcs
  <2>2. p[t] = "done" /\ pc' \in SignalCommand(p)
    BY <1>23 DEF CloseSignal, TypeOK
  <2> HIDE DEF p
  <2>3. \A d \in Clients : pc'[d] = p[d] \/ (p[d] = "respWait" /\ pc'[d] = "respWake")
    BY <2>1, <2>2, SignalEffect
  <2>4. /\ cmd' = cmd /\ outcome' = outcome /\ cmdMutex' = cmdMutex /\ reqMutex' = reqMutex
        /\ response'.of = response.of /\ smsPDU' = smsPDU
    BY <1>23 DEF CloseSignal, TypeOK, Responses
  <2>5. \A d \in Clients : /\ pc'[d] \in Owning <=> pc[d] \in Owning
                           /\ pc'[d] \in Requesting <=> pc[d] \in Requesting
                           /\ pc'[d] \in InFlight <=> pc[d] \in InFlight
    BY <1>23, <2>1, <2>2, <2>3 DEF CloseSignal, Owning, Requesting, InFlight
  <2>6. \A d \in Clients : outcome'[d].code # "COMMAND_PENDING"
    BY <2>4 DEF OwnerInv, NeverCommandPending
  <2>7. QED
    BY <2>4, <2>5, <2>6, QuietStep
<1>24. CASE ProcessFinal
  <2> DEFINE p == [pc EXCEPT ![Reader] = "read"]
  <2>1. p \in [Threads -> Pcs] /\ \A d \in Clients : d # Reader => p[d] = pc[d]
    BY DEF TypeOK, Pcs, ReaderPcs
  <2>2. p[Reader] = "read" /\ pc' \in SignalCommand(p)
    BY <1>24 DEF ProcessFinal, TypeOK
  <2> HIDE DEF p
  <2>3. \A d \in Clients : pc'[d] = p[d] \/ (p[d] = "respWait" /\ pc'[d] = "respWake")
    BY <2>1, <2>2, SignalEffect
  <2>4. /\ cmd' = cmd /\ outcome' = outcome /\ cmdMutex' = cmdMutex /\ reqMutex' = reqMutex
        /\ response'.of = response.of /\ smsPDU' = smsPDU
    BY <1>24 DEF ProcessFinal, TypeOK, Responses
  <2>5. \A d \in Clients : /\ pc'[d] \in Owning <=> pc[d] \in Owning
                           /\ pc'[d] \in Requesting <=> pc[d] \in Requesting
                           /\ pc'[d] \in InFlight <=> pc[d] \in InFlight
    BY <1>24, <2>1, <2>2, <2>3 DEF ProcessFinal, Owning, Requesting, InFlight
  <2>6. \A d \in Clients : outcome'[d].code # "COMMAND_PENDING"
    BY <2>4 DEF OwnerInv, NeverCommandPending
  <2>7. QED
    BY <2>4, <2>5, <2>6, QuietStep
<1>25. CASE MarkClosed
  <2> DEFINE p == [pc EXCEPT ![Reader] = "callback"]
  <2>1. p \in [Threads -> Pcs] /\ \A d \in Clients : d # Reader => p[d] = pc[d]
    BY DEF TypeOK, Pcs, ReaderPcs
  <2>2. p[Reader] = "callback" /\ pc' \in SignalCommand(p)
    BY <1>25 DEF MarkClosed, TypeOK
  <2> HIDE DEF p
  <2>3. \A d \in Clients : pc'[d] = p[d] \/ (p[d] = "respWait" /\ pc'[d] = "respWake")
    BY <2>1, <2>2, SignalEffect
  <2>4. /\ cmd' = cmd /\ outcome' = outcome /\ cmdMutex' = cmdMutex /\ reqMutex' = reqMutex
        /\ response'.of = response.of /\ smsPDU' = smsPDU
    BY <1>25 DEF MarkClosed, TypeOK, Responses
  <2>5. \A d \in Clients : /\ pc'[d] \in Owning <=> pc[d] \in Owning
                           /\ pc'[d] \in Requesting <=> pc[d] \in Requesting
                           /\ pc'[d] \in InFlight <=> pc[d] \in InFlight
    BY <1>25, <2>1, <2>2, <2>3 DEF MarkClosed, Owning, Requesting, InFlight
  <2>6. \A d \in Clients : outcome'[d].code # "COMMAND_PENDING"
    BY <2>4 DEF OwnerInv, NeverCommandPending
  <2>7. QED
    BY <2>4, <2>5, <2>6, QuietStep
<1>26. ASSUME NEW k \in Finals, ModemFinal(k) PROVE OwnerInv'
  BY <1>26, QuietStep DEF ModemFinal, TypeOK, OwnerInv, NeverCommandPending, Owning, Requesting, InFlight
<1>27. ASSUME NEW k \in Strays, ModemStray(k) PROVE OwnerInv'
  BY <1>27, QuietStep DEF ModemStray, TypeOK, OwnerInv, NeverCommandPending, Owning, Requesting, InFlight
<1>28. CASE UNCHANGED vars
  BY <1>28, QuietStep DEF vars, TypeOK, OwnerInv, NeverCommandPending, Owning, Requesting, InFlight
<1>29. ASSUME NEW c \in Clients, Lock(c) PROVE OwnerInv'
  BY <1>29 DEF Lock,
     TypeOK, OwnerInv, CommandHolder, RequestHolder, SlotOfWaiter, ResponseOwned, NeverCommandPending, InFlight, Pending
<1>30. ASSUME NEW c \in Clients, TryBusy(c) PROVE OwnerInv'
  BY <1>30 DEF TryBusy,
     TypeOK, OwnerInv, CommandHolder, RequestHolder, SlotOfWaiter, ResponseOwned, NeverCommandPending, InFlight, Pending
<1>31. ASSUME NEW c \in Clients, RequestRelock(c) PROVE OwnerInv'
  BY <1>31 DEF RequestRelock,
     TypeOK, OwnerInv, CommandHolder, RequestHolder, SlotOfWaiter, ResponseOwned, NeverCommandPending, InFlight, Pending
<1>32. ASSUME NEW c \in Clients, TryAcquire(c) PROVE OwnerInv'
  BY <1>32 DEF TryAcquire,
     TypeOK, OwnerInv, CommandHolder, RequestHolder, SlotOfWaiter, ResponseOwned, NeverCommandPending, InFlight, Pending
<1>33. ASSUME NEW c \in Clients, Write(c) PROVE OwnerInv'
  BY <1>33 DEF Write,
     TypeOK, OwnerInv, CommandHolder, RequestHolder, SlotOfWaiter, ResponseOwned, NeverCommandPending, InFlight, Pending
<1>34. CASE HandshakeDone
  BY <1>34 DEF HandshakeDone,
     TypeOK, OwnerInv, CommandHolder, RequestHolder, SlotOfWaiter, ResponseOwned, NeverCommandPending, InFlight, Pending
<1>35. ASSUME NEW c \in Clients, TryRefused(c) PROVE OwnerInv'
  <2>1. cmdMutex \in {None, c} /\ reqMutex \in {None, c} /\ ~Pending
    BY <1>35 DEF TryRefused, OwnerInv, CommandHolder, RequestHolder, InFlight, ResponseOwned
  <2>2. QED
    BY <1>35, <2>1, FinishStep DEF TryRefused
<1>36. ASSUME NEW c \in Clients, WriteFails(c) PROVE OwnerInv'
  <2>1. cmdMutex \in {None, c} /\ reqMutex \in {None, c}
    BY <1>36 DEF WriteFails, OwnerInv, CommandHolder, RequestHolder, InFlight
  <2>2. QED
    BY <1>36, <2>1, FinishStep DEF WriteFails
<1>37. ASSUME NEW c \in Clients, GiveUp(c) PROVE OwnerInv'
  <2>1. cmdMutex \in {None, c} /\ reqMutex \in {None, c}
    BY <1>37 DEF GiveUp, OwnerInv, CommandHolder, RequestHolder, InFlight
  <2>2. QED
    BY <1>37, <2>1, FinishStep DEF GiveUp
<1>38. ASSUME NEW c \in Clients, ReturnClosed(c) PROVE OwnerInv'
  <2>1. cmdMutex \in {None, c} /\ reqMutex \in {None, c}
    BY <1>38 DEF ReturnClosed, OwnerInv, CommandHolder, RequestHolder, InFlight
  <2>2. QED
    BY <1>38, <2>1, FinishStep DEF ReturnClosed
<1>39. ASSUME NEW c \in Clients, ReturnAnswer(c) PROVE OwnerInv'
  <2>1. cmdMutex \in {None, c} /\ reqMutex \in {None, c}
    BY <1>39 DEF ReturnAnswer, OwnerInv, CommandHolder, RequestHolder, InFlight
  <2>2. QED
    BY <1>39, <2>1, FinishStep DEF ReturnAnswer
<1>40. QED
  BY <1>1, <1>2, <1>3, <1>4, <1>5, <1>6, <1>7, <1>8, <1>9, <1>10, <1>11, <1>12, <1>13,
     <1>14, <1>15, <1>16, <1>17, <1>18, <1>19, <1>20, <1>21, <1>22, <1>23, <1>24, <1>25,
     <1>26, <1>27, <1>28, <1>29, <1>30, <1>31, <1>32, <1>33, <1>34, <1>35, <1>36, <1>37,
     <1>38, <1>39
     DEF Next, RunnerSteps, ClientSteps, Locking, Waiting, ReaderSteps, Closing, ModemSteps

-----------------------------------------------------------------------------

(* The invariant holds initially and is kept by every step. *)
THEOREM AtChannelInvariant == Spec => []AtChannelInv
<1>1. Init => AtChannelInv
  <2> SUFFICES ASSUME Init PROVE AtChannelInv
    OBVIOUS
  <2>1. Runner \in Clients /\ Reader \in Threads /\ Reader \notin Clients
        /\ Clients \subseteq Threads /\ Runner # Reader
    BY ThreadsAssumption DEF Threads, Clients
  <2>2. /\ pc \in [Threads -> ClientPcs \cup ReaderPcs]
        /\ pc[Reader] \in ReaderPcs /\ \A c \in Clients : pc[c] \in ClientPcs
    BY <2>1 DEF Init, ClientPcs, ReaderPcs
  <2>3. /\ op \in [Clients -> AllOps \cup {"handshake"}] /\ cmd \in [Clients -> Nat]
        /\ outcome \in [Clients -> Outcomes]
    BY NoOutcomeType DEF Init, AllOps
  <2>4. /\ calls \in [Clients -> Nat] /\ strays \in 0 .. MaxStrays
        /\ spurious \in 0 .. MaxSpurious
    BY BoundsAssumption DEF Init
  <2>5. wire \in Seq(Lines) /\ modem \in Seq(Commands)
    BY DEF Init
  <2>6. response \in Responses /\ line \in Lines
    BY NoResponseType DEF Init
  <2>7. /\ cmdMutex \in Threads \cup {None} /\ reqMutex \in Clients \cup {None}
         /\ phase \in {"setup", "init", "serve"} /\ fd \in {"open", "closed", "none"}
         /\ queueClosed \in 0 .. 2 /\ tries \in Nat /\ smsPDU \in Nat /\ sent \in Nat
         /\ abandoned \subseteq Nat
    BY DEF Init
  <2>8. readerClosed \in BOOLEAN /\ callbacks \in BOOLEAN /\ hungup \in BOOLEAN
    BY DEF Init
  <2>9. TypeOK
    BY <2>2, <2>3, <2>4, <2>5, <2>6, <2>7, <2>8 DEF TypeOK
  <2>10. CommandHolder /\ RequestHolder /\ SlotOfWaiter
    BY ThreadsAssumption
       DEF Init, CommandHolder, RequestHolder, SlotOfWaiter, InFlight, Threads, Clients
  <2>11. ResponseOwned /\ NeverCommandPending
    BY DEF Init, ResponseOwned, NeverCommandPending, Pending, NoResponse, NoOutcome
  <2>12. QED
    BY <2>9, <2>10, <2>11 DEF AtChannelInv
<1>2. AtChannelInv /\ [Next]_vars => AtChannelInv'
  BY TypeStep, OwnerStep DEF AtChannelInv, OwnerInv
<1>3. QED
  BY <1>1, <1>2, PTL DEF Spec

(* The fields of the AT context always hold values of their C types. *)
THEOREM AtChannelTypeCorrect == Spec => []TypeOK
<1>1. AtChannelInv => TypeOK
  BY DEF AtChannelInv
<1>2. QED
  BY <1>1, AtChannelInvariant, PTL

(* The pending slot belongs to the holder of requestmutex, in its wait. *)
THEOREM PendingSlotOwned == Spec => []ResponseOwned
<1>1. AtChannelInv => ResponseOwned
  BY DEF AtChannelInv
<1>2. QED
  BY <1>1, AtChannelInvariant, PTL

(* No caller ever finds a pending command behind a free requestmutex. *)
THEOREM CommandPendingUnreachable == Spec => []NeverCommandPending
<1>1. AtChannelInv => NeverCommandPending
  BY DEF AtChannelInv
<1>2. QED
  BY <1>1, AtChannelInvariant, PTL

=============================================================================
