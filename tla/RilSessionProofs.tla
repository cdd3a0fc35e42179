--------------------------- MODULE RilSessionProofs ---------------------------
(***************************************************************************)
(* Theorems about RilSession, for any number of requests, sessions, other  *)
(* threads and timeouts.                                                   *)
(*                                                                         *)
(* The refinement of RequestService rests on one fact about the runner:    *)
(* wherever it is about to look at its queue, also on the far side of a    *)
(* setRadioState or of the callback of a timeout, it handles no request.   *)
(***************************************************************************)
EXTENDS RilSession, TLAPS

AllPcs == RunnerPcs \cup ReaderPcs \cup OtherPcs

LEMMA RunnerIsNoReader == Runner \in Threads /\ Runner \notin Sessions
  BY SessionThreads DEF Threads

LEMMA AfterType ==
  ASSUME NEW l \in Commanding, NEW answer
  PROVE  After(l, answer) \in RunnerPcs
  BY DEF After, AfterEvent, Commanding, RunnerPcs, Setting

LEMMA StatesAreRadioStates ==
  /\ NotReady \in RadioStates /\ Ready \in RadioStates /\ Locked \in RadioStates
  BY DEF NotReady, Ready, Locked, RadioStates

LEMMA GotoType ==
  ASSUME TypeOK, NEW t \in Threads, NEW l \in AllPcs, Goto(t, l)
  PROVE  pc' \in [Threads -> AllPcs]
  BY DEF TypeOK, Goto, AllPcs

LEMMA SetRadioStateType ==
  ASSUME TypeOK, NEW t \in Threads, NEW state \in RadioStates, NEW l \in AllPcs,
         SetRadioState(t, state, l)
  PROVE  /\ pc' \in [Threads -> AllPcs]
         /\ want' \in [Threads -> RadioStates]
         /\ back' \in [Threads -> AllPcs]
  BY GotoType DEF TypeOK, SetRadioState, AllPcs, RunnerPcs, Shared

LEMMA TimeOutType ==
  ASSUME TypeOK, NEW t \in Threads, NEW l \in AllPcs, TimeOut(t, l)
  PROVE  /\ pc' \in [Threads -> AllPcs]
         /\ want' \in [Threads -> RadioStates]
         /\ back' \in [Threads -> AllPcs]
         /\ resume' \in [Threads -> AllPcs]
         /\ timeouts' \in 0 .. MaxTimeouts
<1>1. "UNAVAILABLE" \in RadioStates /\ "signal" \in AllPcs
  BY DEF RadioStates, AllPcs, RunnerPcs, Shared
<1>2. resume' \in [Threads -> AllPcs] /\ timeouts' \in 0 .. MaxTimeouts
  BY SessionBounds DEF TypeOK, TimeOut, AllPcs
<1> QED
  BY <1>1, <1>2, SetRadioStateType DEF TimeOut

LEMMA TypeInit == Init => TypeOK
<1> SUFFICES ASSUME Init PROVE TypeOK
  OBVIOUS
<1>1. pc \in [Threads -> AllPcs]
  BY DEF Init, AllPcs, RunnerPcs, ReaderPcs, OtherPcs
<1>2. back \in [Threads -> AllPcs] /\ resume \in [Threads -> AllPcs]
  BY <1>1 DEF Init
<1>3. want \in [Threads -> RadioStates] /\ old \in [Threads -> RadioStates]
  BY DEF Init, RadioStates
<1>4. sState \in RadioStates /\ view \in RadioStates
  BY DEF Init, RadioStates
<1>5. /\ requestList \in Seq(Requests) /\ eventList \in [Events -> Nat]
      /\ current \in Requests \cup {None} /\ progress \in [Requests -> Progress]
  BY DEF Init, Progress
<1>6. /\ closed \in 0 .. 2 /\ session \in 0 .. MaxSessions
      /\ failcount \in Nat /\ timeouts \in 0 .. MaxTimeouts
  BY SessionBounds DEF Init
<1>7. /\ fd \in BOOLEAN /\ readerClosed \in BOOLEAN /\ hungup \in BOOLEAN
      /\ default \in BOOLEAN /\ fatalerr \in BOOLEAN
  BY DEF Init
<1> QED
  BY <1>1, <1>2, <1>3, <1>4, <1>5, <1>6, <1>7 DEF TypeOK, AllPcs

LEMMA TypeStep == TypeOK /\ [Next]_vars => TypeOK'
<1> SUFFICES ASSUME TypeOK, [Next]_vars PROVE TypeOK'
  OBVIOUS
<1> USE RunnerIsNoReader DEF TypeOK, AllPcs, radioVars, queueVars, requestVars, channelVars, faultVars
<1>1. CASE Top
  <2>1. failcount' \in Nat
    BY <1>1 DEF Top
  <2>2. pc' \in [Threads -> AllPcs]
    BY <1>1, GotoType DEF Top, RunnerPcs
  <2> QED
    BY <1>1, <2>1, <2>2 DEF Top
<1>2. CASE NotFound
  BY <1>2, GotoType DEF NotFound, RunnerPcs
<1>3. CASE Found
  BY <1>3, GotoType DEF Found, RunnerPcs
<1>4. CASE Open
  <2>1. session' \in 0 .. MaxSessions /\ session + 1 \in Sessions
    BY <1>4, SessionBounds DEF Open, Sessions
  <2>2. pc' \in [Threads -> AllPcs]
    BY <1>4, <2>1 DEF Open, RunnerPcs, ReaderPcs, Threads
  <2> QED
    BY <1>4, <2>1, <2>2 DEF Open
<1>5. CASE ResetState
  BY <1>5, SetRadioStateType, StatesAreRadioStates DEF ResetState, RunnerPcs, RadioStates
<1>6. CASE Handshake
  BY <1>6, GotoType DEF Handshake, RunnerPcs, Commanding
<1>7. CASE HandshakeFails
  BY <1>7, SetRadioStateType, StatesAreRadioStates DEF HandshakeFails, RunnerPcs,
       RadioStates
<1>8. CASE Failed
  BY <1>8, GotoType DEF Failed, RunnerPcs
<1>9. CASE Serve
  BY <1>9, GotoType DEF Serve, RunnerPcs
<1>10. CASE LeaveLoop
  BY <1>10, GotoType DEF LeaveLoop, RunnerPcs
<1>11. CASE Leave
  <2>1. failcount' \in Nat /\ fatalerr' \in BOOLEAN
    <3>1. CASE closed = 2
      BY <1>11, <3>1 DEF Leave
    <3>2. CASE closed # 2
      <4>1. failcount' = failcount + 1 /\ fatalerr' = fatalerr
        BY <1>11, <3>2 DEF Leave
      <4> QED
        BY <4>1
    <3> QED
      BY <3>1, <3>2
  <2>2. pc' \in [Threads -> AllPcs]
    BY <1>11, GotoType DEF Leave, RunnerPcs
  <2> QED
    BY <1>11, <2>1, <2>2 DEF Leave
<1>12. CASE Close(Runner)
  BY <1>12, GotoType DEF Close, RunnerPcs
<1>13. CASE Poll
  BY <1>13, GotoType DEF Poll, RunnerPcs, Commanding, AfterEvent
<1>14. CASE Process
  <2>1. pc' \in [Threads -> AllPcs]
    BY <1>14 DEF Process, Goto, RunnerPcs, Commanding
  <2>2. current' \in Requests \cup {None} /\ progress' \in [Requests -> Progress]
    BY <1>14 DEF Process, Progress
  <2> QED
    BY <1>14, <2>1, <2>2 DEF Process
<1>15. CASE PowerOn
  BY <1>15, GotoType DEF PowerOn, RunnerPcs, Commanding
<1>16. CASE PowerOff
  BY <1>16, GotoType DEF PowerOff, RunnerPcs, Commanding
<1>17. CASE Complete
  BY <1>17, GotoType DEF Complete, RunnerPcs, Commanding, Progress
<1>18. CASE SetState
  BY <1>18, SetRadioStateType, StatesAreRadioStates DEF SetState, RunnerPcs, RadioStates,
       Setting, AfterEvent
<1>19. CASE Answered
  BY <1>19, AfterType, GotoType DEF Answered
<1>20. CASE Refused
  BY <1>20, AfterType, GotoType DEF Refused
<1>21. CASE Silent
  <2>1. PICK l \in AllPcs : TimeOut(Runner, l)
    BY <1>21, AfterType DEF Silent
  <2> QED
    BY <1>21, <2>1, TimeOutType DEF Silent
<1>22. CASE PollLater
  BY <1>22, GotoType DEF PollLater, RunnerPcs, AfterEvent, Events
<1>23. ASSUME NEW e \in Events \cup {"none"}, Take(e) PROVE TypeOK'
  <2>1. pc' \in [Threads -> AllPcs]
    BY <1>23, GotoType DEF Take, RunnerPcs, Commanding
  <2>2. eventList' \in [Events -> Nat]
    BY <1>23 DEF Take, Events
  <2>3. /\ requestList' \in Seq(Requests) /\ current' \in Requests \cup {None}
        /\ progress' \in [Requests -> Progress]
    <3>1. CASE requestList = <<>>
      BY <1>23, <3>1 DEF Take
    <3>2. CASE requestList # <<>>
      <4>1. Head(requestList) \in Requests /\ Tail(requestList) \in Seq(Requests)
        BY <3>2
      <4>2. /\ current' = Head(requestList) /\ requestList' = Tail(requestList)
            /\ progress' = [progress EXCEPT ![Head(requestList)] = "handled"]
        BY <1>23, <3>2 DEF Take
      <4> QED
        BY <4>1, <4>2 DEF Progress
    <3> QED
      BY <3>1, <3>2
  <2> QED
    BY <1>23, <2>1, <2>2, <2>3 DEF Take
<1>24. ASSUME NEW t \in Threads, Assign(t) PROVE TypeOK'
  BY <1>24 DEF Assign, Goto, RunnerPcs, Shared
<1>25. ASSUME NEW t \in Threads, Compare(t) PROVE TypeOK'
  BY <1>25 DEF Compare, Goto, RunnerPcs, Shared
<1>26. ASSUME NEW t \in Threads, Notify(t) PROVE TypeOK'
  BY <1>26 DEF Notify, Goto, RunnerPcs, Shared
<1>27. ASSUME NEW t \in Threads, Enqueue(t) PROVE TypeOK'
  BY <1>27 DEF Enqueue, Goto, Events
<1>28. ASSUME NEW t \in Threads, Signal(t) PROVE TypeOK'
  BY <1>28 DEF Signal, Goto, ReaderPcs
<1>29. ASSUME NEW g \in Sessions, EndOfFile(g) PROVE TypeOK'
  BY <1>29 DEF EndOfFile, Goto, ReaderPcs, Threads
<1>30. ASSUME NEW g \in Sessions, TestClosed(g) PROVE TypeOK'
  BY <1>30 DEF TestClosed, Goto, ReaderPcs, Threads
<1>31. ASSUME NEW g \in Sessions, MarkClosed(g) PROVE TypeOK'
  BY <1>31, SetRadioStateType DEF MarkClosed, RadioStates, RunnerPcs, Shared, Threads
<1>32. ASSUME NEW g \in Sessions, Close(g) PROVE TypeOK'
  BY <1>32 DEF Close, Goto, RunnerPcs, ReaderPcs, Threads
<1>33. ASSUME NEW o \in Others, OtherSilent(o) PROVE TypeOK'
  <2>1. o \in Threads /\ "idle" \in AllPcs
    BY DEF Threads, OtherPcs
  <2> QED
    BY <1>33, <2>1, TimeOutType DEF OtherSilent
<1>34. ASSUME NEW r \in Requests, Issue(r) PROVE TypeOK'
  BY <1>34 DEF Issue, Progress
<1>35. ASSUME NEW r \in Requests, Reject(r) PROVE TypeOK'
  BY <1>35 DEF Reject, Progress
<1>36. ASSUME NEW r \in Requests, Accept(r) PROVE TypeOK'
  BY <1>36 DEF Accept, Progress
<1>37. CASE HangUp
  BY <1>37 DEF HangUp
<1>38. CASE UNCHANGED vars
  BY <1>38 DEF vars
<1> QED
  BY <1>1, <1>2, <1>3, <1>4, <1>5, <1>6, <1>7, <1>8, <1>9, <1>10, <1>11, <1>12, <1>13,
       <1>14, <1>15, <1>16, <1>17, <1>18, <1>19, <1>20, <1>21, <1>22, <1>23, <1>24, <1>25,
       <1>26, <1>27, <1>28, <1>29, <1>30, <1>31, <1>32, <1>33, <1>34, <1>35, <1>36, <1>37,
       <1>38
  DEF Next, RunnerSteps, StateSteps, ReaderSteps, FrameworkSteps

(* The runner, the queue and the radio state keep values of their types.    *)
THEOREM RilSessionTypeCorrect == Spec => []TypeOK
  BY TypeInit, TypeStep, PTL DEF Spec

-----------------------------------------------------------------------------

(* Where the runner handles no request.                                     *)
Idle == {"top", "search", "open", "reset", "handshake", "failed", "init", "serve", "loop",
         "leave", "close", "pinInit", "setPinReady"}

FreeAt(l) == l \in Idle => current = None

RunnerFree ==
  /\ FreeAt(pc[Runner])
  /\ pc[Runner] \in Shared \ {"signal"} => FreeAt(back[Runner])
  /\ pc[Runner] = "signal" \/ (pc[Runner] \in Shared /\ back[Runner] = "signal")
       => resume[Runner] \notin Shared /\ FreeAt(resume[Runner])

HandledIsCurrent == \A r \in Requests : progress[r] = "handled" <=> r = current

ServiceInv == TypeOK /\ RunnerFree /\ HandledIsCurrent

LEMMA AfterFree ==
  ASSUME NEW l \in Commanding, NEW answer, FreeAt(l)
  PROVE  After(l, answer) \notin Shared /\ FreeAt(After(l, answer))
  BY DEF After, AfterEvent, Commanding, Idle, FreeAt, Shared

LEMMA GotoFree ==
  ASSUME TypeOK, NEW l, Goto(Runner, l), l \notin Shared, l \in Idle => current' = None
  PROVE  RunnerFree'
<1>1. pc'[Runner] = l
  BY RunnerIsNoReader DEF TypeOK, Goto
<1> QED
  BY <1>1 DEF RunnerFree, FreeAt, Shared

LEMMA SetRadioStateFree ==
  ASSUME TypeOK, NEW s, NEW l, SetRadioState(Runner, s, l), l # "signal",
         l \in Idle => current' = None
  PROVE  RunnerFree'
<1>1. pc'[Runner] = "set" /\ back'[Runner] = l
  BY RunnerIsNoReader DEF TypeOK, SetRadioState, Goto
<1> QED
  BY <1>1 DEF RunnerFree, FreeAt, Idle

LEMMA TimeOutFree ==
  ASSUME TypeOK, NEW l, TimeOut(Runner, l), l \notin Shared, l \in Idle => current' = None
  PROVE  RunnerFree'
<1>1. pc'[Runner] = "set" /\ back'[Runner] = "signal" /\ resume'[Runner] = l
  BY RunnerIsNoReader DEF TypeOK, TimeOut, SetRadioState, Goto
<1> QED
  BY <1>1 DEF RunnerFree, FreeAt, Idle, Shared

(* What other threads do leaves the runner where it is.                     *)
LEMMA StillFree ==
  ASSUME RunnerFree, current' = current, pc'[Runner] = pc[Runner],
         back'[Runner] = back[Runner], resume'[Runner] = resume[Runner]
  PROVE  RunnerFree'
  BY DEF RunnerFree, FreeAt

LEMMA StateStepFree ==
  ASSUME TypeOK, RunnerFree, NEW t \in Threads, StateSteps(t)
  PROVE  RunnerFree'
<1> USE RunnerIsNoReader
<1>1. current' = current /\ back' = back /\ resume' = resume
  BY DEF StateSteps, Assign, Compare, Notify, Enqueue, Signal, radioVars, requestVars
<1>2. CASE t # Runner
  <2>1. pc'[Runner] = pc[Runner]
    BY <1>2 DEF StateSteps, Assign, Compare, Notify, Enqueue, Signal, Goto, TypeOK
  <2> QED
    BY <1>1, <2>1, StillFree
<1>3. CASE t = Runner
  <2>1. CASE Assign(t)
    <3>1. pc[Runner] = "set" /\ pc'[Runner] = "compare"
      BY <1>3, <2>1 DEF Assign, Goto, TypeOK
    <3> QED
      BY <1>1, <3>1 DEF RunnerFree, FreeAt, Shared, Idle
  <2>2. CASE Compare(t)
    <3>1. pc[Runner] = "compare" /\ pc'[Runner] \in {"notify", back[Runner]}
      BY <1>3, <2>2 DEF Compare, Goto, TypeOK
    <3> QED
      BY <1>1, <3>1 DEF RunnerFree, FreeAt, Shared, Idle
  <2>3. CASE Notify(t)
    <3>1. pc[Runner] = "notify" /\ pc'[Runner] = "enqueue"
      BY <1>3, <2>3 DEF Notify, Goto, TypeOK
    <3> QED
      BY <1>1, <3>1 DEF RunnerFree, FreeAt, Shared, Idle
  <2>4. CASE Enqueue(t)
    <3>1. pc[Runner] = "enqueue" /\ pc'[Runner] = back[Runner]
      BY <1>3, <2>4 DEF Enqueue, Goto, TypeOK
    <3> QED
      BY <1>1, <3>1 DEF RunnerFree, FreeAt, Shared, Idle
  <2>5. CASE Signal(t)
    <3>1. pc[Runner] = "signal" /\ pc'[Runner] = resume[Runner]
      BY <1>3, <2>5 DEF Signal, Goto, TypeOK
    <3> QED
      BY <1>1, <3>1 DEF RunnerFree, FreeAt, Shared, Idle
  <2> QED
    BY <2>1, <2>2, <2>3, <2>4, <2>5 DEF StateSteps
<1> QED
  BY <1>2, <1>3

LEMMA RunnerFreeStep == ServiceInv /\ [Next]_vars => RunnerFree'
<1> SUFFICES ASSUME ServiceInv, [Next]_vars PROVE RunnerFree'
  OBVIOUS
<1> USE RunnerIsNoReader DEF ServiceInv, radioVars, requestVars
<1>0. FreeAt(pc[Runner])
  BY DEF RunnerFree
<1>1. CASE Top
  BY <1>0, <1>1, GotoFree DEF Top, FreeAt, Idle, Shared
<1>2. CASE NotFound
  BY <1>0, <1>2, GotoFree DEF NotFound, FreeAt, Idle, Shared
<1>3. CASE Found
  BY <1>0, <1>3, GotoFree DEF Found, FreeAt, Idle, Shared
<1>4. CASE Open
  <2>1. pc'[Runner] = "reset" /\ current' = current /\ current = None
    BY <1>0, <1>4, SessionBounds DEF Open, TypeOK, Sessions, FreeAt, Idle
  <2> QED
    BY <2>1 DEF RunnerFree, FreeAt, Shared
<1>5. CASE ResetState
  BY <1>0, <1>5, SetRadioStateFree DEF ResetState, FreeAt, Idle
<1>6. CASE Handshake
  BY <1>0, <1>6, GotoFree DEF Handshake, FreeAt, Idle, Shared
<1>7. CASE HandshakeFails
  BY <1>0, <1>7, SetRadioStateFree DEF HandshakeFails, FreeAt, Idle
<1>8. CASE Failed
  BY <1>0, <1>8, GotoFree DEF Failed, FreeAt, Idle, Shared
<1>9. CASE Serve
  BY <1>0, <1>9, GotoFree DEF Serve, FreeAt, Idle, Shared
<1>10. CASE LeaveLoop
  BY <1>0, <1>10, GotoFree DEF LeaveLoop, FreeAt, Idle, Shared
<1>11. CASE Leave
  BY <1>0, <1>11, GotoFree DEF Leave, FreeAt, Idle, Shared
<1>12. CASE Close(Runner)
  BY <1>0, <1>12, GotoFree DEF Close, FreeAt, Idle, Shared
<1>13. CASE Poll
  BY <1>0, <1>13, GotoFree DEF Poll, FreeAt, Idle, Shared, AfterEvent
<1>14. CASE Process
  BY <1>0, <1>14, GotoFree DEF Process, FreeAt, Idle, Shared, AfterEvent
<1>15. CASE PowerOn
  BY <1>0, <1>15, GotoFree DEF PowerOn, FreeAt, Idle, Shared, AfterEvent
<1>16. CASE PowerOff
  BY <1>0, <1>16, GotoFree DEF PowerOff, FreeAt, Idle, Shared, AfterEvent
<1>17. CASE Complete
  BY <1>0, <1>17, GotoFree DEF Complete, FreeAt, Idle, Shared, AfterEvent
<1>18. CASE SetState
  BY <1>0, <1>18, SetRadioStateFree DEF SetState, FreeAt, Idle, Setting, AfterEvent
<1>19. CASE Answered
  <2>1. PICK answer : Goto(Runner, After(pc[Runner], answer))
    BY <1>19 DEF Answered
  <2>2. pc[Runner] \in Commanding /\ current' = current
    BY <1>19 DEF Answered
  <2>3. After(pc[Runner], answer) \notin Shared /\ FreeAt(After(pc[Runner], answer))
    BY <1>0, <2>2, AfterFree
  <2> QED
    BY <2>1, <2>2, <2>3, GotoFree DEF FreeAt
<1>20. CASE Refused
  <2>1. PICK answer : Goto(Runner, After(pc[Runner], answer))
    BY <1>20 DEF Refused
  <2>2. pc[Runner] \in Commanding /\ current' = current
    BY <1>20 DEF Refused
  <2>3. After(pc[Runner], answer) \notin Shared /\ FreeAt(After(pc[Runner], answer))
    BY <1>0, <2>2, AfterFree
  <2> QED
    BY <2>1, <2>2, <2>3, GotoFree DEF FreeAt
<1>21. CASE Silent
  <2>1. pc[Runner] \in Commanding /\ current' = current
    BY <1>21 DEF Silent
  <2>2. After(pc[Runner], "timeout") \notin Shared /\ FreeAt(After(pc[Runner], "timeout"))
    BY <1>0, <2>1, AfterFree
  <2> QED
    BY <1>21, <2>1, <2>2, TimeOutFree DEF Silent, FreeAt
<1>22. CASE PollLater
  BY <1>0, <1>22, GotoFree DEF PollLater, FreeAt, Idle, Shared, AfterEvent
<1>23. ASSUME NEW e \in Events \cup {"none"}, Take(e) PROVE RunnerFree'
  <2>1. PICK l \in {"poll", "simReady", "process"} : Goto(Runner, l)
    BY <1>23 DEF Take
  <2> QED
    BY <2>1, GotoFree DEF Idle, Shared
<1>24. ASSUME NEW t \in Threads, StateSteps(t) PROVE RunnerFree'
  BY <1>24, StateStepFree
<1>25. ASSUME NEW g \in Sessions, ReaderSteps(g) PROVE RunnerFree'
  <2>1. /\ current' = current /\ pc'[Runner] = pc[Runner]
        /\ back'[Runner] = back[Runner] /\ resume' = resume
    BY <1>25 DEF ReaderSteps, EndOfFile, TestClosed, MarkClosed, Close, SetRadioState, Goto, TypeOK
  <2> QED
    BY <2>1, StillFree
<1>26. ASSUME NEW o \in Others, OtherSilent(o) PROVE RunnerFree'
  <2>1. /\ current' = current /\ pc'[Runner] = pc[Runner]
        /\ back'[Runner] = back[Runner] /\ resume'[Runner] = resume[Runner]
    BY <1>26, SessionThreads DEF OtherSilent, TimeOut, SetRadioState, Goto, TypeOK
  <2> QED
    BY <2>1, StillFree
<1>27. ASSUME NEW r \in Requests, FrameworkSteps(r) PROVE RunnerFree'
  BY <1>27, StillFree DEF FrameworkSteps, Issue, Reject, Accept
<1>28. CASE HangUp
  BY <1>28, StillFree DEF HangUp
<1>29. CASE UNCHANGED vars
  BY <1>29, StillFree DEF vars
<1> QED
  BY <1>1, <1>2, <1>3, <1>4, <1>5, <1>6, <1>7, <1>8, <1>9, <1>10, <1>11, <1>12, <1>13,
       <1>14, <1>15, <1>16, <1>17, <1>18, <1>19, <1>20, <1>21, <1>22, <1>23, <1>24, <1>25,
       <1>26, <1>27, <1>28, <1>29 DEF Next, RunnerSteps

(* The steps that touch the requests or their queue.                        *)
LEMMA UnservingSteps ==
  ASSUME [Next]_vars
  PROVE  \/ Process \/ Complete
         \/ UNCHANGED <<current, progress, requestList>>
         \/ \E e \in Events \cup {"none"} : Take(e)
         \/ \E r \in Requests : FrameworkSteps(r)
<1> USE DEF requestVars, queueVars
<1>1. CASE \/ Top \/ NotFound \/ Found \/ Open \/ ResetState \/ Handshake \/ HandshakeFails
           \/ Failed \/ Serve \/ LeaveLoop \/ Leave \/ Close(Runner) \/ Poll
  BY <1>1 DEF Top, NotFound, Found, Open, ResetState, Handshake, HandshakeFails, Failed,
              Serve, LeaveLoop, Leave, Close, Poll
<1>2. CASE \/ PowerOn \/ PowerOff \/ SetState \/ Answered \/ Refused \/ Silent \/ PollLater
  BY <1>2 DEF PowerOn, PowerOff, SetState, Answered, Refused, Silent, PollLater
<1>3. ASSUME NEW t \in Threads, StateSteps(t)
      PROVE  UNCHANGED <<current, progress, requestList>>
  BY <1>3 DEF StateSteps, Assign, Compare, Notify, Enqueue, Signal
<1>4. ASSUME NEW g \in Sessions, ReaderSteps(g)
      PROVE  UNCHANGED <<current, progress, requestList>>
  BY <1>4 DEF ReaderSteps, EndOfFile, TestClosed, MarkClosed, Close
<1>5. ASSUME NEW o \in Others, OtherSilent(o)
      PROVE  UNCHANGED <<current, progress, requestList>>
  BY <1>5 DEF OtherSilent
<1>6. CASE HangUp \/ UNCHANGED vars
  BY <1>6 DEF HangUp, vars
<1> QED
  BY <1>1, <1>2, <1>3, <1>4, <1>5, <1>6 DEF Next, RunnerSteps

LEMMA HandledStep == ServiceInv /\ [Next]_vars => HandledIsCurrent'
<1> SUFFICES ASSUME ServiceInv, [Next]_vars PROVE HandledIsCurrent'
  OBVIOUS
<1> USE SessionBounds DEF ServiceInv, TypeOK, HandledIsCurrent
<1>1. ASSUME NEW e \in Events \cup {"none"}, Take(e) PROVE HandledIsCurrent'
  <2>1. CASE requestList = <<>>
    BY <1>1, <2>1 DEF Take, requestVars
  <2>2. CASE requestList # <<>>
    <3>1. current = None
      BY <1>1 DEF Take, RunnerFree, FreeAt, Idle
    <3>2. Head(requestList) \in Requests
      BY <2>2
    <3>3. /\ current' = Head(requestList)
          /\ progress' = [progress EXCEPT ![Head(requestList)] = "handled"]
      BY <1>1, <2>2 DEF Take
    <3> QED
      BY <3>1, <3>2, <3>3
  <2> QED
    BY <2>1, <2>2
<1>2. ASSUME progress' = [progress EXCEPT ![current] = "answered"], current' = None
      PROVE  HandledIsCurrent'
  BY <1>2
<1>3. CASE Process
  BY <1>2, <1>3 DEF Process, requestVars
<1>4. CASE Complete
  BY <1>2, <1>4 DEF Complete
<1>5. ASSUME NEW r \in Requests, FrameworkSteps(r) PROVE HandledIsCurrent'
  <2>1. PICK p \in Progress \ {"handled"} : progress' = [progress EXCEPT ![r] = p]
    BY <1>5 DEF FrameworkSteps, Issue, Reject, Accept, Progress
  <2>2. progress[r] # "handled" /\ current' = current
    BY <1>5 DEF FrameworkSteps, Issue, Reject, Accept
  <2> QED
    BY <2>1, <2>2
<1>6. ASSUME UNCHANGED <<current, progress>> PROVE HandledIsCurrent'
  BY <1>6
<1>7. \/ Process \/ Complete \/ UNCHANGED <<current, progress, requestList>>
      \/ \E e \in Events \cup {"none"} : Take(e)
      \/ \E r \in Requests : FrameworkSteps(r)
  BY UnservingSteps
<1> QED
  BY <1>1, <1>3, <1>4, <1>5, <1>6, <1>7

(* The inductive invariant behind the refinement.                           *)
THEOREM ServiceInvariant == Spec => []ServiceInv
<1>1. Init => ServiceInv
  <2> SUFFICES ASSUME Init PROVE ServiceInv
    OBVIOUS
  <2>1. pc[Runner] = "top" /\ current = None
    BY RunnerIsNoReader DEF Init
  <2>2. HandledIsCurrent
    BY SessionBounds DEF Init, HandledIsCurrent
  <2> QED
    BY <2>1, <2>2, TypeInit DEF ServiceInv, RunnerFree, FreeAt, Shared
<1>2. ServiceInv /\ [Next]_vars => ServiceInv'
  BY TypeStep, RunnerFreeStep, HandledStep DEF ServiceInv
<1> QED
  BY <1>1, <1>2, PTL DEF Spec

-----------------------------------------------------------------------------

LEMMA StageUpdate ==
  ASSUME TypeOK, NEW r \in Requests, NEW p, progress' = [progress EXCEPT ![r] = p]
  PROVE  ServiceProgress' = [ServiceProgress EXCEPT ![r] = Stage(p)]
  BY DEF TypeOK, ServiceProgress

LEMMA ServiceInit == Init => Service!Init
  BY DEF Init, Service!Init, ServiceProgress, Stage

LEMMA ServiceStep ==
  ServiceInv /\ [Next]_vars => [Service!Next]_<<ServiceProgress, requestList>>
<1> SUFFICES ASSUME ServiceInv, [Next]_vars
             PROVE  [Service!Next]_<<ServiceProgress, requestList>>
  OBVIOUS
<1> USE SessionBounds DEF ServiceInv
<1>1. ASSUME NEW e \in Events \cup {"none"}, Take(e)
      PROVE  [Service!Next]_<<ServiceProgress, requestList>>
  <2>1. CASE requestList = <<>>
    BY <1>1, <2>1 DEF Take, requestVars, ServiceProgress
  <2>2. CASE requestList # <<>>
    <3>1. current = None
      BY <1>1 DEF Take, RunnerFree, FreeAt, Idle
    <3>2. \A r \in Requests : ServiceProgress[r] # "served"
      <4>1. \A p \in Progress : Stage(p) = "served" => p = "handled"
        BY DEF Stage, Progress
      <4> QED
        BY <3>1, <4>1 DEF HandledIsCurrent, ServiceProgress, TypeOK
    <3>3. Head(requestList) \in Requests
      BY <2>2 DEF TypeOK
    <3>4. /\ requestList' = Tail(requestList)
          /\ progress' = [progress EXCEPT ![Head(requestList)] = "handled"]
      BY <1>1, <2>2 DEF Take
    <3>5. ServiceProgress' = [ServiceProgress EXCEPT ![Head(requestList)] = "served"]
      BY <3>3, <3>4, StageUpdate DEF Stage
    <3> QED
      BY <2>2, <3>2, <3>4, <3>5 DEF Service!Next, Service!Serve
  <2> QED
    BY <2>1, <2>2
<1>2. ASSUME progress' = [progress EXCEPT ![current] = "answered"],
             UNCHANGED requestList
      PROVE  [Service!Next]_<<ServiceProgress, requestList>>
  <2>1. CASE current \in Requests
    <3>1. ServiceProgress[current] = "served"
      BY <2>1 DEF HandledIsCurrent, ServiceProgress, Stage
    <3>2. ServiceProgress' = [ServiceProgress EXCEPT ![current] = "answered"]
      BY <1>2, <2>1, StageUpdate DEF Stage
    <3> QED
      BY <1>2, <2>1, <3>1, <3>2 DEF Service!Next, Service!Answer
  <2>2. CASE current = None
    BY <1>2, <2>2 DEF ServiceProgress, TypeOK
  <2> QED
    BY <2>1, <2>2 DEF TypeOK
<1>3. CASE Process
  <2>1. CASE UNCHANGED requestVars
    BY <1>3, <2>1 DEF Process, queueVars, requestVars, ServiceProgress
  <2>2. CASE progress' = [progress EXCEPT ![current] = "answered"]
    BY <1>2, <1>3, <2>2 DEF Process, queueVars
  <2> QED
    BY <1>3, <2>1, <2>2 DEF Process
<1>4. CASE Complete
  BY <1>2, <1>4 DEF Complete, queueVars
<1>5. ASSUME NEW r \in Requests, FrameworkSteps(r)
      PROVE  [Service!Next]_<<ServiceProgress, requestList>>
  <2>1. CASE Issue(r)
    <3>1. PICK p \in {"rejecting", "accepting"} : progress' = [progress EXCEPT ![r] = p]
      BY <2>1 DEF Issue
    <3>2. progress[r] = "unissued" /\ requestList' = requestList
      BY <2>1 DEF Issue, queueVars
    <3>3. ServiceProgress' = ServiceProgress
      BY <3>1, <3>2 DEF ServiceProgress, Stage, TypeOK
    <3> QED
      BY <3>2, <3>3
  <2>2. CASE Reject(r)
    <3>1. PICK p \in {"dropped", "answered"} : progress' = [progress EXCEPT ![r] = p]
      BY <2>2 DEF Reject
    <3>2. ServiceProgress[r] = "new" /\ requestList' = requestList
      BY <2>2 DEF Reject, ServiceProgress, Stage, queueVars
    <3>3. ServiceProgress' = [ServiceProgress EXCEPT ![r] = p]
      <4>1. Stage(p) = p
        BY DEF Stage
      <4> QED
        BY <3>1, <4>1, StageUpdate
    <3> QED
      BY <3>2, <3>3 DEF Service!Next, Service!Drop, Service!Refuse
  <2>3. CASE Accept(r)
    <3>1. ServiceProgress[r] = "new" /\ requestList' = Append(requestList, r)
      BY <2>3 DEF Accept, ServiceProgress, Stage
    <3>2. ServiceProgress' = [ServiceProgress EXCEPT ![r] = "waiting"]
      BY <2>3, StageUpdate DEF Accept, Stage
    <3> QED
      BY <3>1, <3>2 DEF Service!Next, Service!Accept
  <2> QED
    BY <1>5, <2>1, <2>2, <2>3 DEF FrameworkSteps
<1>6. CASE UNCHANGED <<progress, requestList>>
  BY <1>6 DEF ServiceProgress
<1> QED
  BY <1>1, <1>3, <1>4, <1>5, <1>6, UnservingSteps

(* What onRequest accepts is handled one at a time and in order, and is     *)
(* answered once: RilSession implements RequestService.                     *)
THEOREM RunnerProvidesService == Spec => ServiceSpec
  BY ServiceInvariant, ServiceInit, ServiceStep, PTL DEF Spec, ServiceSpec, Service!Spec

-----------------------------------------------------------------------------
(* While the runner waits for work, a SIM that is not ready is polled.      *)
(*                                                                          *)
(* setRadioState reads the radio state again after it has released the      *)
(* mutex, and every thread calls it: the invariant names who is going to    *)
(* see to the poll while the event list holds none.                         *)

(* On the way from AT+CFUN=1 to the state that is not ready.                *)
Raising == {"cfunOn", "radioOn", "onInit", "setNotReady"}

OnlyRunnerRaises == \A t \in Threads \ {Runner} : want[t] = "UNAVAILABLE"

(* The state is not set twice, so that it is seen to change.                *)
RaisedFromElsewhere ==
  \/ pc[Runner] \in Raising
  \/ pc[Runner] = "set" /\ want[Runner] = NotReady
  \/ pc[Runner] \in Shared /\ back[Runner] = "signal" /\ resume[Runner] \in Raising
  \/ pc[Runner] = "signal" /\ resume[Runner] \in Raising
  => sState # NotReady

ReturnPlaces ==
  pc[Runner] \in Shared \ {"signal"} =>
    /\ back[Runner] \notin Raising \cup (Shared \ {"signal"})
    /\ want[Runner] = NotReady => back[Runner] = "complete"

Responsible ==
  \/ eventList["poll"] > 0
  \/ pc[Runner] \in {"poll", "cpin", "pollLater", "setReady", "setLocked", "set"}
  \/ pc[Runner] \in {"notify", "enqueue"} /\ want[Runner] = NotReady
  \/ pc[Runner] = "compare" /\ want[Runner] = NotReady /\ old[Runner] # NotReady

PolledInv == sState = NotReady => Responsible

PollInv == OnlyRunnerRaises /\ RaisedFromElsewhere /\ ReturnPlaces /\ PolledInv

LEMMA DistinctStates ==
  /\ NotReady \notin {"OFF", "UNAVAILABLE", "SIM_READY"}
  /\ NotReady # Ready /\ NotReady # Locked
  BY SessionBounds DEF NotReady, Ready, Locked

LEMMA AfterRaising ==
  ASSUME NEW l \in Commanding, NEW answer
  PROVE  /\ After(l, answer) \in Raising => l \in Raising
         /\ After(l, answer) \notin Shared
         /\ l = "cpin" => After(l, answer) \in {"pollLater", "setReady", "setLocked"}
  BY DEF After, AfterEvent, Commanding, Raising, Shared

LEMMA PollGoto ==
  ASSUME TypeOK, PollInv, NEW l, Goto(Runner, l), l \notin Shared,
         want' = want, sState' = sState, l \in Raising => sState # NotReady,
         sState = NotReady =>
           eventList'["poll"] > 0 \/ l \in {"poll", "cpin", "pollLater", "setReady", "setLocked"}
  PROVE  PollInv'
<1>1. pc'[Runner] = l
  BY RunnerIsNoReader DEF TypeOK, Goto
<1>2. NotReady' = NotReady
  BY DEF NotReady
<1> QED
  BY <1>1, <1>2 DEF PollInv, OnlyRunnerRaises, RaisedFromElsewhere, ReturnPlaces, PolledInv,
                    Responsible, Shared, Raising

LEMMA PollSet ==
  ASSUME TypeOK, PollInv, NEW s, NEW l, SetRadioState(Runner, s, l),
         s = NotReady => sState' # NotReady /\ l = "complete",
         l \notin Raising \cup Shared
  PROVE  PollInv'
<1>1. pc'[Runner] = "set" /\ want'[Runner] = s /\ back'[Runner] = l
  BY RunnerIsNoReader DEF TypeOK, SetRadioState, Goto
<1>2. OnlyRunnerRaises'
  BY DEF PollInv, OnlyRunnerRaises, SetRadioState, TypeOK
<1>3. l # "signal" /\ "set" \notin Raising
  BY DEF Shared, Raising
<1> QED
  BY <1>1, <1>2, <1>3 DEF PollInv, RaisedFromElsewhere, ReturnPlaces, PolledInv, Responsible, NotReady

LEMMA PollTimeOut ==
  ASSUME TypeOK, PollInv, NEW l, TimeOut(Runner, l), sState' = sState,
         l \in Raising => sState # NotReady
  PROVE  PollInv'
<1>1. /\ pc'[Runner] = "set" /\ want'[Runner] = "UNAVAILABLE"
      /\ back'[Runner] = "signal" /\ resume'[Runner] = l
  BY RunnerIsNoReader DEF TypeOK, TimeOut, SetRadioState, Goto
<1>2. OnlyRunnerRaises'
  BY DEF PollInv, OnlyRunnerRaises, TimeOut, SetRadioState, TypeOK
<1> QED
  BY <1>1, <1>2, DistinctStates
  DEF PollInv, RaisedFromElsewhere, ReturnPlaces, PolledInv, Responsible, NotReady, Raising, Shared

(* What leaves the runner, the radio state and the polls alone.             *)
LEMMA PollStill ==
  ASSUME PollInv, OnlyRunnerRaises', sState' = sState, eventList'["poll"] >= eventList["poll"],
         eventList["poll"] \in Nat, eventList'["poll"] \in Nat,
         pc'[Runner] = pc[Runner], want'[Runner] = want[Runner], old'[Runner] = old[Runner],
         back'[Runner] = back[Runner], resume'[Runner] = resume[Runner]
  PROVE  PollInv'
<1>1. eventList["poll"] > 0 => eventList'["poll"] > 0
  OBVIOUS
<1> QED
  BY <1>1 DEF PollInv, RaisedFromElsewhere, ReturnPlaces, PolledInv, Responsible, NotReady

LEMMA PollCount == TypeOK => eventList["poll"] \in Nat
  BY DEF TypeOK, Events

LEMMA PollOtherState ==
  ASSUME TypeOK, TypeOK', PollInv, NEW t \in Threads, t # Runner, StateSteps(t)
  PROVE  PollInv'
<1> USE RunnerIsNoReader, PollCount DEF radioVars, queueVars
<1>1. /\ pc'[Runner] = pc[Runner] /\ want' = want /\ old'[Runner] = old[Runner]
      /\ back' = back /\ resume' = resume
  BY DEF StateSteps, Assign, Compare, Notify, Enqueue, Signal, Goto, TypeOK
<1>2. OnlyRunnerRaises'
  BY <1>1 DEF PollInv, OnlyRunnerRaises
<1>3. CASE Assign(t)
  <2>1. sState' = "UNAVAILABLE" /\ eventList' = eventList
    BY <1>3 DEF Assign, PollInv, OnlyRunnerRaises
  <2>2. sState' # NotReady'
    BY <2>1, DistinctStates DEF NotReady
  <2> QED
    BY <1>1, <1>2, <2>2 DEF PollInv, RaisedFromElsewhere, ReturnPlaces, PolledInv, NotReady
<1>4. CASE Compare(t) \/ Notify(t) \/ Signal(t)
  <2>1. sState' = sState /\ eventList' = eventList
    BY <1>4 DEF Compare, Notify, Signal
  <2> QED
    BY <1>1, <1>2, <2>1, PollStill
<1>5. CASE Enqueue(t)
  <2>1. sState' = sState
    BY <1>5 DEF Enqueue
  <2>2. eventList'["poll"] >= eventList["poll"]
    BY <1>5 DEF Enqueue, Events
  <2>3. eventList["poll"] \in Nat /\ eventList'["poll"] \in Nat
    BY PollCount DEF TypeOK, Events
  <2> QED
    BY <1>1, <1>2, <2>1, <2>2, <2>3, PollStill
<1> QED
  BY <1>3, <1>4, <1>5 DEF StateSteps

LEMMA PollRunnerState ==
  ASSUME TypeOK, TypeOK', RunnerFree, PollInv, StateSteps(Runner)
  PROVE  PollInv'
<1> USE RunnerIsNoReader, PollCount DEF radioVars, queueVars
<1>1. want' = want /\ back' = back /\ resume' = resume /\ NotReady' = NotReady
  BY DEF StateSteps, Assign, Compare, Notify, Enqueue, Signal, NotReady
<1>2. OnlyRunnerRaises'
  BY <1>1 DEF PollInv, OnlyRunnerRaises
<1>3. CASE Assign(Runner)
  <2>1. /\ pc[Runner] = "set" /\ pc'[Runner] = "compare"
        /\ sState' = want[Runner] /\ old'[Runner] = sState
    BY <1>3 DEF Assign, Goto, TypeOK
  <2> QED
    BY <1>1, <1>2, <2>1
    DEF PollInv, RaisedFromElsewhere, ReturnPlaces, PolledInv, Responsible, Shared, Raising
<1>4. CASE Compare(Runner)
  <2>1. /\ pc[Runner] = "compare" /\ sState' = sState /\ eventList' = eventList
        /\ pc'[Runner] = IF sState # old[Runner] THEN "notify" ELSE back[Runner]
    BY <1>4 DEF Compare, Goto, TypeOK
  <2> QED
    BY <1>1, <1>2, <2>1
    DEF PollInv, RaisedFromElsewhere, ReturnPlaces, PolledInv, Responsible, Shared, Raising
<1>5. CASE Notify(Runner)
  <2>1. /\ pc[Runner] = "notify" /\ sState' = sState /\ eventList' = eventList
        /\ pc'[Runner] = "enqueue"
    BY <1>5 DEF Notify, Goto, TypeOK
  <2> QED
    BY <1>1, <1>2, <2>1
    DEF PollInv, RaisedFromElsewhere, ReturnPlaces, PolledInv, Responsible, Shared, Raising
<1>6. CASE Enqueue(Runner)
  <2>1. pc[Runner] = "enqueue" /\ sState' = sState /\ pc'[Runner] = back[Runner]
    BY <1>6 DEF Enqueue, Goto, TypeOK
  <2>2. sState = NotReady => eventList'["poll"] > 0
    BY <1>6 DEF Enqueue, Events
  <2> QED
    BY <1>1, <1>2, <2>1, <2>2
    DEF PollInv, RaisedFromElsewhere, ReturnPlaces, PolledInv, Responsible, Shared, Raising
<1>7. CASE Signal(Runner)
  <2>1. /\ pc[Runner] = "signal" /\ sState' = sState /\ eventList' = eventList
        /\ pc'[Runner] = resume[Runner] /\ resume[Runner] \notin Shared
    BY <1>7 DEF Signal, Goto, TypeOK, RunnerFree
  <2> QED
    BY <1>1, <1>2, <2>1
    DEF PollInv, RaisedFromElsewhere, ReturnPlaces, PolledInv, Responsible, Shared, Raising
<1> QED
  BY <1>3, <1>4, <1>5, <1>6, <1>7 DEF StateSteps

LEMMA PollStep ==
  TypeOK /\ TypeOK' /\ RunnerFree /\ PollInv /\ [Next]_vars => PollInv'
<1> SUFFICES ASSUME TypeOK, TypeOK', RunnerFree, PollInv, [Next]_vars PROVE PollInv'
  OBVIOUS
<1> USE RunnerIsNoReader, PollCount DEF radioVars, queueVars
<1>0. sState = NotReady => Responsible
  BY DEF PollInv, PolledInv
<1>1. CASE Top
  BY <1>0, <1>1, PollGoto DEF Top, Responsible, Shared, Raising
<1>2. CASE NotFound
  BY <1>0, <1>2, PollGoto DEF NotFound, Responsible, Shared, Raising
<1>3. CASE Found
  BY <1>0, <1>3, PollGoto DEF Found, Responsible, Shared, Raising
<1>4. CASE Open
  <2>1. /\ pc'[Runner] = "reset" /\ want' = want /\ sState' = sState
        /\ eventList' = eventList /\ pc[Runner] = "open"
    BY <1>4, SessionBounds DEF Open, TypeOK, Sessions
  <2> QED
    BY <1>0, <2>1 DEF PollInv, OnlyRunnerRaises, RaisedFromElsewhere, ReturnPlaces, PolledInv,
                      Responsible, Shared, Raising, NotReady
<1>5. CASE ResetState
  BY <1>5, PollSet, DistinctStates DEF ResetState, Raising, Shared
<1>6. CASE Handshake
  BY <1>0, <1>6, PollGoto DEF Handshake, Responsible, Shared, Raising
<1>7. CASE HandshakeFails
  BY <1>7, PollSet, DistinctStates DEF HandshakeFails, Raising, Shared
<1>8. CASE Failed
  BY <1>0, <1>8, PollGoto DEF Failed, Responsible, Shared, Raising
<1>9. CASE Serve
  BY <1>0, <1>9, PollGoto DEF Serve, Responsible, Shared, Raising
<1>10. CASE LeaveLoop
  BY <1>0, <1>10, PollGoto DEF LeaveLoop, Responsible, Shared, Raising
<1>11. CASE Leave
  BY <1>0, <1>11, PollGoto DEF Leave, Responsible, Shared, Raising
<1>12. CASE Close(Runner)
  BY <1>0, <1>12, PollGoto DEF Close, Responsible, Shared, Raising
<1>13. CASE Poll
  <2>1. pc[Runner] = "poll" /\ want' = want /\ sState' = sState /\ eventList' = eventList
    BY <1>13 DEF Poll
  <2>2. CASE sState \in {NotReady, Locked}
    <3>1. Goto(Runner, "cpin")
      BY <1>13, <2>2 DEF Poll
    <3> QED
      BY <2>1, <3>1, PollGoto DEF Shared, Raising
  <2>3. CASE sState \notin {NotReady, Locked}
    <3>1. Goto(Runner, AfterEvent)
      BY <1>13, <2>3 DEF Poll
    <3> QED
      BY <2>1, <2>3, <3>1, PollGoto DEF Shared, Raising, AfterEvent
  <2> QED
    BY <2>2, <2>3
<1>14. CASE Process
  BY <1>0, <1>14, PollGoto DEF Process, Responsible, Shared, Raising, AfterEvent
<1>15. CASE PowerOn
  BY <1>0, <1>15, PollGoto, DistinctStates DEF PowerOn, Responsible, Shared, Raising
<1>16. CASE PowerOff
  BY <1>0, <1>16, PollGoto DEF PowerOff, Responsible, Shared, Raising, AfterEvent
<1>17. CASE Complete
  BY <1>0, <1>17, PollGoto DEF Complete, Responsible, Shared, Raising, AfterEvent
<1>18. CASE SetState
  <2>1. pc[Runner] \in Setting /\ sState' = sState
    BY <1>18 DEF SetState
  <2>2. CASE pc[Runner] = "setNotReady"
    <3>1. SetRadioState(Runner, NotReady, "complete") /\ sState # NotReady
      BY <1>18, <2>2 DEF SetState, PollInv, RaisedFromElsewhere, Raising
    <3> QED
      BY <2>1, <3>1, PollSet DEF Raising, Shared
  <2>3. CASE pc[Runner] # "setNotReady"
    <3>1. PICK s \in {"OFF", Ready, Locked, "SIM_READY"}, l \in {"complete", AfterEvent, "loop"} :
            SetRadioState(Runner, s, l)
      BY <1>18, <2>3 DEF SetState, Setting
    <3> QED
      BY <3>1, PollSet, DistinctStates DEF Raising, Shared, AfterEvent
  <2> QED
    BY <2>2, <2>3
<1>19. CASE Answered
  <2>1. PICK answer : Goto(Runner, After(pc[Runner], answer))
    BY <1>19 DEF Answered
  <2>2. /\ pc[Runner] \in Commanding
        /\ want' = want /\ sState' = sState /\ eventList' = eventList
    BY <1>19 DEF Answered
  <2>3. pc[Runner] \in Raising => sState # NotReady
    BY DEF PollInv, RaisedFromElsewhere
  <2>4. sState = NotReady => eventList["poll"] > 0 \/ pc[Runner] = "cpin"
    BY <1>0, <2>2 DEF Responsible, Commanding
  <2> QED
    BY <2>1, <2>2, <2>3, <2>4, AfterRaising, PollGoto
<1>20. CASE Refused
  <2>1. PICK answer : Goto(Runner, After(pc[Runner], answer))
    BY <1>20 DEF Refused
  <2>2. /\ pc[Runner] \in Commanding
        /\ want' = want /\ sState' = sState /\ eventList' = eventList
    BY <1>20 DEF Refused
  <2>3. pc[Runner] \in Raising => sState # NotReady
    BY DEF PollInv, RaisedFromElsewhere
  <2>4. sState = NotReady => eventList["poll"] > 0 \/ pc[Runner] = "cpin"
    BY <1>0, <2>2 DEF Responsible, Commanding
  <2> QED
    BY <2>1, <2>2, <2>3, <2>4, AfterRaising, PollGoto
<1>21. CASE Silent
  <2>1. pc[Runner] \in Commanding /\ sState' = sState
    BY <1>21 DEF Silent
  <2>2. pc[Runner] \in Raising => sState # NotReady
    BY DEF PollInv, RaisedFromElsewhere
  <2> QED
    BY <1>21, <2>1, <2>2, AfterRaising, PollTimeOut DEF Silent
<1>22. CASE PollLater
  <2>1. Goto(Runner, AfterEvent) /\ want' = want /\ sState' = sState
    BY <1>22 DEF PollLater
  <2>2. eventList'["poll"] > 0
    BY <1>22 DEF PollLater, TypeOK, Events
  <2> QED
    BY <2>1, <2>2, PollGoto DEF AfterEvent, Shared, Raising
<1>23. ASSUME NEW e \in Events \cup {"none"}, Take(e) PROVE PollInv'
  <2>1. pc[Runner] = "loop" /\ want' = want /\ sState' = sState
    BY <1>23 DEF Take
  <2>2. CASE e = "poll"
    <3>1. Goto(Runner, "poll")
      BY <1>23, <2>2 DEF Take
    <3> QED
      BY <2>1, <3>1, PollGoto DEF Shared, Raising
  <2>3. CASE e # "poll"
    <3>1. PICK l \in {"simReady", "process"} : Goto(Runner, l)
      BY <1>23, <2>3 DEF Take
    <3>2. eventList'["poll"] = eventList["poll"]
      BY <1>23, <2>3 DEF Take, TypeOK, Events
    <3> QED
      BY <1>0, <2>1, <3>1, <3>2, PollGoto DEF Responsible, Shared, Raising
  <2> QED
    BY <2>2, <2>3
<1>24. ASSUME NEW t \in Threads, StateSteps(t) PROVE PollInv'
  BY <1>24, PollOtherState, PollRunnerState
<1>25. ASSUME NEW g \in Sessions, ReaderSteps(g) PROVE PollInv'
  <2>1. /\ pc'[Runner] = pc[Runner] /\ want'[Runner] = want[Runner] /\ old' = old
        /\ back'[Runner] = back[Runner] /\ resume' = resume
        /\ sState' = sState /\ eventList' = eventList
    BY <1>25 DEF ReaderSteps, EndOfFile, TestClosed, MarkClosed, Close, SetRadioState, Goto, TypeOK
  <2>2. OnlyRunnerRaises'
    BY <1>25 DEF ReaderSteps, EndOfFile, TestClosed, MarkClosed, Close, SetRadioState, TypeOK,
                  PollInv, OnlyRunnerRaises
  <2> QED
    BY <2>1, <2>2, PollStill
<1>26. ASSUME NEW o \in Others, OtherSilent(o) PROVE PollInv'
  <2>1. /\ pc'[Runner] = pc[Runner] /\ want'[Runner] = want[Runner] /\ old' = old
        /\ back'[Runner] = back[Runner] /\ resume'[Runner] = resume[Runner]
        /\ sState' = sState /\ eventList' = eventList
    BY <1>26, SessionThreads DEF OtherSilent, TimeOut, SetRadioState, Goto, TypeOK
  <2>2. OnlyRunnerRaises'
    BY <1>26 DEF OtherSilent, TimeOut, SetRadioState, TypeOK, PollInv, OnlyRunnerRaises
  <2> QED
    BY <2>1, <2>2, PollStill
<1>27. ASSUME NEW r \in Requests, FrameworkSteps(r) PROVE PollInv'
  <2>1. UNCHANGED <<pc, radioVars, eventList>>
    BY <1>27 DEF FrameworkSteps, Issue, Reject, Accept
  <2> QED
    BY <2>1, PollStill DEF PollInv, OnlyRunnerRaises
<1>28. CASE HangUp
  <2>1. UNCHANGED <<pc, radioVars, eventList>>
    BY <1>28 DEF HangUp, vars
  <2> QED
    BY <2>1, PollStill DEF PollInv, OnlyRunnerRaises
<1>29. CASE UNCHANGED vars
  <2>1. UNCHANGED <<pc, radioVars, eventList>>
    BY <1>29 DEF HangUp, vars
  <2> QED
    BY <2>1, PollStill DEF PollInv, OnlyRunnerRaises
<1> QED
  BY <1>1, <1>2, <1>3, <1>4, <1>5, <1>6, <1>7, <1>8, <1>9, <1>10, <1>11, <1>12, <1>13,
       <1>14, <1>15, <1>16, <1>17, <1>18, <1>19, <1>20, <1>21, <1>22, <1>23, <1>24, <1>25,
       <1>26, <1>27, <1>28, <1>29 DEF Next, RunnerSteps

(* A SIM that is not ready keeps being polled: whenever the runner waits    *)
(* for work its event list holds a poll, whatever the interleaving of       *)
(* setRadioState on its threads, timeouts, closes and reopenings.           *)
THEOREM NotReadyKeepsPolling == Spec => []NotReadyIsPolled
<1>1. Init => PollInv
  <2> SUFFICES ASSUME Init PROVE PollInv
    OBVIOUS
  <2>1. /\ pc[Runner] = "top" /\ sState = "UNAVAILABLE"
        /\ want = [t \in Threads |-> "UNAVAILABLE"]
    BY RunnerIsNoReader DEF Init
  <2> QED
    BY <2>1, DistinctStates
    DEF PollInv, OnlyRunnerRaises, RaisedFromElsewhere, ReturnPlaces, PolledInv, Shared, Raising
<1>2. ServiceInv /\ ServiceInv' /\ PollInv /\ [Next]_vars => PollInv'
  BY PollStep DEF ServiceInv
<1>3. PollInv => NotReadyIsPolled
  BY DEF PollInv, PolledInv, Responsible, NotReadyIsPolled
<1> QED
  BY <1>1, <1>2, <1>3, ServiceInvariant, PTL DEF Spec
=============================================================================
