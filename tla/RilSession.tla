------------------------------ MODULE RilSession ------------------------------
(***************************************************************************)
(* The queue runner of libril (src/libril/ril-core.c) over the sessions of *)
(* its AT channel, with the radio state (ril-network.c) and the SIM poll   *)
(* (ril-sim.c):                                                            *)
(*                                                                         *)
(*   - the runner finds the modem, opens the channel, initialises it and   *)
(*     serves the request queue until the queue is closed, for ever;       *)
(*   - each session has a reader thread, which may outlive its session;    *)
(*   - Others, threads that use the runner's channel as the default one;   *)
(*   - the framework's thread, which issues requests one after the other;  *)
(*   - the modem, which answers, fails, falls silent or hangs up.          *)
(*                                                                         *)
(* A step is what a thread does between two accesses to the state the      *)
(* threads share.  The AT channel is abstracted to the outcome of each     *)
(* command (AtChannel has its inside) and time to choice: an event of the  *)
(* event list may be found due whenever the runner looks.                  *)
(***************************************************************************)
EXTENDS Naturals, Sequences, RequestFilter

CONSTANTS
  Runner,        \* the queue runner's thread
  Others,        \* further threads that issue commands on the default channel
  None,          \* no request
  Requests,      \* the requests the framework issues
  KindOf,        \* what each of them asks for
  Card,          \* "SIM" or "RUIM": the kind of modem rilhw_found reports
  ResetLimit,    \* TIMEOUT_MODEM_POWER_PATCH
  MaxSessions,   \* bound: successful calls of at_open
  MaxTimeouts    \* bound: commands that time out

Sessions == 1 .. MaxSessions
Threads  == {Runner} \cup Others \cup Sessions

Kinds == {"power on", "power off", "pin", "imei", "other"}

ASSUME SessionThreads ==
  /\ Runner \notin Others
  /\ ({Runner} \cup Others) \cap Sessions = {}

ASSUME SessionBounds ==
  /\ None \notin Requests
  /\ KindOf \in [Requests -> Kinds]
  /\ Card \in {"SIM", "RUIM"}
  /\ ResetLimit \in Nat /\ MaxSessions \in Nat /\ MaxTimeouts \in Nat

NameOf(r) == [k \in Kinds |-> CASE k \in {"power on", "power off"} -> "RADIO_POWER"
                                [] k = "pin"  -> "ENTER_SIM_PIN"
                                [] k = "imei" -> "GET_IMEI"
                                [] OTHER      -> "OTHER"][KindOf[r]]

(* radio_state_not_ready, radio_state_ready and radio_state_locked_or_absent. *)
NotReady == IF Card = "SIM" THEN "SIM_NOT_READY" ELSE "RUIM_NOT_READY"
Ready    == IF Card = "SIM" THEN "SIM_READY" ELSE "RUIM_READY"
Locked   == IF Card = "SIM" THEN "SIM_LOCKED_OR_ABSENT" ELSE "RUIM_LOCKED_OR_ABSENT"

Events   == {"poll", "ready"}      \* pollSIMState and onSIMReady
Progress == {"unissued", "rejecting", "accepting", "dropped", "queued", "handled", "answered"}

(* Where the runner waits for the outcome of a command. *)
Commanding == {"init", "cpin", "simReady", "query", "cfunOff", "cfunOn", "radioOn",
               "onInit", "pin", "pinInit"}
Setting    == {"setOff", "setNotReady", "setPinReady", "setReady", "setLocked"}
(* setRadioState and the end of onATTimeout and onATReaderClosed. *)
Shared     == {"set", "compare", "notify", "enqueue", "signal"}
RunnerPcs  == {"top", "search", "open", "reset", "handshake", "failed", "serve", "loop",
               "leave", "close", "poll", "pollLater", "process", "on", "off", "pinDone", "complete"}
              \cup Commanding \cup Setting \cup Shared
ReaderPcs  == {"unborn", "read", "eof", "mark", "close", "done"} \cup Shared
OtherPcs   == {"idle"} \cup Shared

VARIABLES
  pc,            \* where each thread is
  want,          \* setRadioState's newState, for each thread
  old,           \* setRadioState's oldState
  back,          \* where a thread goes after setRadioState
  resume,        \* where a thread goes after onATTimeout
  sState,        \* the radio state
  view,          \* the radio state the framework knows of
  closed,        \* the queue's closed flag
  requestList,   \* the queue's requests, oldest first
  eventList,     \* how many events of each kind the queue holds
  current,       \* the request the runner handles, or None
  progress,      \* of each request
  session,       \* number of successful calls of at_open
  fd,            \* is ac->fd open?
  readerClosed,  \* ac->readerClosed
  default,       \* at_make_default_channel has been called
  hungup,        \* the stream of the latest session is gone
  failcount,     \* queueRunner's counter of failures
  fatalerr,      \* queueRunner's mark of a timeout
  timeouts       \* number of commands that have timed out

radioVars   == <<want, old, back, resume, sState, view>>
queueVars   == <<closed, requestList, eventList>>
requestVars == <<current, progress>>
channelVars == <<session, fd, readerClosed, hungup, default>>
faultVars   == <<failcount, fatalerr>>
vars == <<pc, radioVars, queueVars, requestVars, channelVars, faultVars, timeouts>>

Init ==
  /\ pc = [t \in Threads |-> IF t = Runner THEN "top" ELSE IF t \in Others THEN "idle" ELSE "unborn"]
  /\ want = [t \in Threads |-> "UNAVAILABLE"] /\ old = [t \in Threads |-> "UNAVAILABLE"]
  /\ back = [t \in Threads |-> pc[t]] /\ resume = [t \in Threads |-> pc[t]]
  /\ sState = "UNAVAILABLE" /\ view = "UNAVAILABLE"
  /\ closed = 1 /\ requestList = <<>> /\ eventList = [e \in Events |-> 0]
  /\ current = None /\ progress = [r \in Requests |-> "unissued"]
  /\ session = 0 /\ fd = FALSE /\ readerClosed = FALSE /\ hungup = FALSE /\ default = FALSE
  /\ failcount = 0 /\ fatalerr = FALSE /\ timeouts = 0

Goto(t, l) == pc' = [pc EXCEPT ![t] = l]

-----------------------------------------------------------------------------
(* setRadioState, on any thread.                                            *)

(* The caller is about to lock s_state_mutex. *)
SetRadioState(t, state, l) ==
  /\ Goto(t, "set")
  /\ want' = [want EXCEPT ![t] = state]
  /\ back' = [back EXCEPT ![t] = l]

(* s_closed is never set, so that its two tests change nothing. *)
Assign(t) ==
  /\ pc[t] = "set"
  /\ old' = [old EXCEPT ![t] = sState]
  /\ sState' = want[t]
  /\ Goto(t, "compare")
  /\ UNCHANGED <<want, back, resume, view, queueVars, requestVars, channelVars, faultVars, timeouts>>

(* sState is read again without the mutex. *)
Compare(t) ==
  /\ pc[t] = "compare"
  /\ Goto(t, IF sState # old[t] THEN "notify" ELSE back[t])
  /\ UNCHANGED <<radioVars, queueVars, requestVars, channelVars, faultVars, timeouts>>

(* Mutation: the notification carries the caller's state. *)
NotifyWanted(t) ==
  /\ pc[t] = "notify"
  /\ view' = want[t]
  /\ Goto(t, "enqueue")
  /\ UNCHANGED <<want, old, back, resume, sState, queueVars, requestVars, channelVars, faultVars, timeouts>>

(* RIL_UNSOL_RESPONSE_RADIO_STATE_CHANGED: the framework calls onStateRequest. *)
Notify(t) ==
  /\ pc[t] = "notify"
  /\ view' = sState
  /\ Goto(t, "enqueue")
  /\ UNCHANGED <<want, old, back, resume, sState, queueVars, requestVars, channelVars, faultVars, timeouts>>

Enqueue(t) ==
  /\ pc[t] = "enqueue"
  /\ eventList' = [e \in Events |->
                     IF (e = "ready" /\ sState = Ready) \/ (e = "poll" /\ sState = NotReady)
                     THEN eventList[e] + 1 ELSE eventList[e]]
  /\ Goto(t, back[t])
  /\ UNCHANGED <<radioVars, closed, requestList, requestVars, channelVars, faultVars, timeouts>>

(* Mutation: the flags of a hangup and of a timeout are combined. *)
SignalAdds(t) ==
  /\ pc[t] = "signal"
  /\ closed' = closed + (IF t \in Sessions THEN 1 ELSE 2)
  /\ Goto(t, IF t \in Sessions THEN "close" ELSE resume[t])
  /\ UNCHANGED <<radioVars, requestList, eventList, requestVars, channelVars, faultVars, timeouts>>

(* signalCloseQueues; the reader goes on to at_close, a command thread back *)
(* to the caller of the command that timed out.                             *)
Signal(t) ==
  /\ pc[t] = "signal"
  /\ closed' = IF t \in Sessions THEN 1 ELSE 2
  /\ Goto(t, IF t \in Sessions THEN "close" ELSE resume[t])
  /\ UNCHANGED <<radioVars, requestList, eventList, requestVars, channelVars, faultVars, timeouts>>

(* onATTimeout, after its escape. *)
TimeOut(t, l) ==
  /\ timeouts < MaxTimeouts
  /\ timeouts' = timeouts + 1
  /\ SetRadioState(t, "UNAVAILABLE", "signal")
  /\ resume' = [resume EXCEPT ![t] = l]

-----------------------------------------------------------------------------
(* The runner between two sessions.                                         *)

(* The failure counter leads to a power cycle of the modem; so does a modem *)
(* that has been switched off.                                              *)
Top ==
  /\ pc[Runner] = "top"
  /\ failcount' \in IF failcount > ResetLimit \/ fatalerr THEN {0} ELSE {failcount, 0}
  /\ fatalerr' = FALSE
  /\ Goto(Runner, "search")
  /\ UNCHANGED <<radioVars, queueVars, requestVars, channelVars, timeouts>>

(* rilhw_found finds no modem, or open() or at_open fails. *)
NotFound ==
  /\ pc[Runner] \in {"search", "open"}
  /\ failcount' = failcount + 1
  /\ Goto(Runner, "top")
  /\ UNCHANGED <<radioVars, queueVars, requestVars, channelVars, fatalerr, timeouts>>

Found ==
  /\ pc[Runner] = "search"
  /\ Goto(Runner, "open")
  /\ UNCHANGED <<radioVars, queueVars, requestVars, channelVars, faultVars, timeouts>>

(* open() and at_open: readerClosed is reset, and a reader starts. *)
Open ==
  /\ pc[Runner] = "open"
  /\ session < MaxSessions
  /\ session' = session + 1
  /\ fd' = TRUE /\ readerClosed' = FALSE /\ hungup' = FALSE
  /\ pc' = [pc EXCEPT ![Runner] = "reset", ![session + 1] = "read"]
  /\ UNCHANGED <<radioVars, queueVars, requestVars, default, faultVars, timeouts>>

(* initializeCommon assigns sState directly, so that OFF is a change. *)
ResetState ==
  /\ pc[Runner] = "reset"
  /\ sState' = "UNAVAILABLE"
  /\ SetRadioState(Runner, "OFF", "handshake")
  /\ UNCHANGED <<old, resume, view, queueVars, requestVars, channelVars, faultVars, timeouts>>

Handshake ==
  /\ pc[Runner] = "handshake"
  /\ fd /\ ~readerClosed /\ ~hungup
  /\ Goto(Runner, "init")
  /\ UNCHANGED <<radioVars, queueVars, requestVars, channelVars, faultVars, timeouts>>

(* at_handshake does not call onTimeout. *)
HandshakeFails ==
  /\ pc[Runner] = "handshake"
  /\ SetRadioState(Runner, "UNAVAILABLE", "failed")
  /\ UNCHANGED <<old, resume, sState, view, queueVars, requestVars, channelVars, faultVars, timeouts>>

Failed ==
  /\ pc[Runner] = "failed"
  /\ failcount' = failcount + 1
  /\ Goto(Runner, "close")
  /\ UNCHANGED <<radioVars, queueVars, requestVars, channelVars, fatalerr, timeouts>>

(* The queue's flag is reset without its mutex. *)
Serve ==
  /\ pc[Runner] = "serve"
  /\ failcount' = 0
  /\ closed' = 0
  /\ default' = TRUE
  /\ Goto(Runner, "loop")
  /\ UNCHANGED <<radioVars, requestList, eventList, requestVars, session, fd, readerClosed, hungup,
                 fatalerr, timeouts>>

LeaveLoop ==
  /\ pc[Runner] = "loop"
  /\ closed # 0
  /\ Goto(Runner, "leave")
  /\ UNCHANGED <<radioVars, queueVars, requestVars, channelVars, faultVars, timeouts>>

(* closed is read again after the mutex has been released. *)
Leave ==
  /\ pc[Runner] = "leave"
  /\ IF closed = 2 THEN fatalerr' = TRUE /\ UNCHANGED failcount
                   ELSE failcount' = failcount + 1 /\ UNCHANGED fatalerr
  /\ Goto(Runner, "close")
  /\ UNCHANGED <<radioVars, queueVars, requestVars, channelVars, timeouts>>

(* at_close, by the runner or by the reader's callback. *)
Close(t) ==
  /\ pc[t] = "close"
  /\ fd' = FALSE
  /\ readerClosed' = TRUE
  /\ Goto(t, IF t = Runner THEN "top" ELSE "done")
  /\ UNCHANGED <<radioVars, queueVars, requestVars, session, hungup, default, faultVars, timeouts>>

-----------------------------------------------------------------------------
(* The runner's inner loop.                                                 *)

AfterEvent == IF current # None THEN "process" ELSE "loop"

(* Mutation: an event taken together with a request is not handled. *)
TakeLosesEvent(e) ==
  /\ pc[Runner] = "loop"
  /\ closed = 0
  /\ e # "none" \/ requestList # <<>>
  /\ e # "none" => eventList[e] > 0
  /\ eventList' = IF e = "none" THEN eventList ELSE [eventList EXCEPT ![e] = @ - 1]
  /\ IF requestList = <<>>
     THEN /\ Goto(Runner, IF e = "poll" THEN "poll" ELSE "simReady")
          /\ UNCHANGED <<requestList, requestVars>>
     ELSE /\ Goto(Runner, "process")
          /\ current' = Head(requestList)
          /\ requestList' = Tail(requestList)
          /\ progress' = [progress EXCEPT ![Head(requestList)] = "handled"]
  /\ UNCHANGED <<radioVars, closed, channelVars, faultVars, timeouts>>

(* Mutation: a request waits for as long as there is an event. *)
TakeEventFirst(e) ==
  /\ pc[Runner] = "loop"
  /\ closed = 0
  /\ IF \E d \in Events : eventList[d] > 0
     THEN /\ e # "none" /\ eventList[e] > 0
          /\ eventList' = [eventList EXCEPT ![e] = @ - 1]
          /\ Goto(Runner, IF e = "poll" THEN "poll" ELSE "simReady")
          /\ UNCHANGED <<requestList, requestVars>>
     ELSE /\ e = "none" /\ requestList # <<>>
          /\ Goto(Runner, "process")
          /\ current' = Head(requestList)
          /\ requestList' = Tail(requestList)
          /\ progress' = [progress EXCEPT ![Head(requestList)] = "handled"]
          /\ UNCHANGED eventList
  /\ UNCHANGED <<radioVars, closed, channelVars, faultVars, timeouts>>

(* One due event and the oldest request are taken together. *)
Take(e) ==
  /\ pc[Runner] = "loop"
  /\ closed = 0
  /\ e # "none" \/ requestList # <<>>
  /\ e # "none" => eventList[e] > 0
  /\ eventList' = IF e = "none" THEN eventList ELSE [eventList EXCEPT ![e] = @ - 1]
  /\ IF requestList = <<>>
     THEN UNCHANGED <<requestList, requestVars>>
     ELSE /\ current' = Head(requestList)
          /\ requestList' = Tail(requestList)
          /\ progress' = [progress EXCEPT ![Head(requestList)] = "handled"]
  /\ Goto(Runner, IF e = "poll" THEN "poll" ELSE IF e = "ready" THEN "simReady" ELSE "process")
  /\ UNCHANGED <<radioVars, closed, channelVars, faultVars, timeouts>>

(* pollSIMState: no longer valid to poll? *)
Poll ==
  /\ pc[Runner] = "poll"
  /\ Goto(Runner, IF sState \in {NotReady, Locked} THEN "cpin" ELSE AfterEvent)
  /\ UNCHANGED <<radioVars, queueVars, requestVars, channelVars, faultVars, timeouts>>

(* requestStateFilter, then the dispatch of processRequest. *)
Process ==
  /\ pc[Runner] = "process"
  /\ IF Passes(NameOf(current), sState)
     THEN /\ Goto(Runner, CASE KindOf[current] = "power on"  -> "on"
                            [] KindOf[current] = "power off" -> "off"
                            [] KindOf[current] = "pin"       -> "pin"
                            [] OTHER                         -> "query")
          /\ UNCHANGED requestVars
     ELSE /\ Goto(Runner, "loop")
          /\ progress' = [progress EXCEPT ![current] = "answered"]
          /\ current' = None
  /\ UNCHANGED <<radioVars, queueVars, channelVars, faultVars, timeouts>>

(* requestRadioPower reads the radio state to see whether to act. *)
PowerOn ==
  /\ pc[Runner] = "on"
  /\ Goto(Runner, IF sState = "OFF" THEN "cfunOn" ELSE "complete")
  /\ UNCHANGED <<radioVars, queueVars, requestVars, channelVars, faultVars, timeouts>>

PowerOff ==
  /\ pc[Runner] = "off"
  /\ Goto(Runner, IF sState # "OFF" THEN "cfunOff" ELSE "complete")
  /\ UNCHANGED <<radioVars, queueVars, requestVars, channelVars, faultVars, timeouts>>

(* RIL_onRequestComplete; after the right PIN the handler goes on. *)
Complete ==
  /\ pc[Runner] \in {"complete", "pinDone"}
  /\ progress' = [progress EXCEPT ![current] = "answered"]
  /\ current' = None
  /\ Goto(Runner, IF pc[Runner] = "pinDone" THEN "pinInit" ELSE "loop")
  /\ UNCHANGED <<radioVars, queueVars, channelVars, faultVars, timeouts>>

(* The state a handler goes on to set, and what follows it. *)
SetState ==
  /\ pc[Runner] \in Setting
  /\ LET l == pc[Runner]
     IN SetRadioState(Runner,
          CASE l = "setOff" -> "OFF"      [] l = "setNotReady" -> NotReady
            [] l = "setReady" -> Ready    [] l = "setLocked" -> Locked
            [] l = "setPinReady" -> "SIM_READY",
          CASE l \in {"setOff", "setNotReady"} -> "complete"
            [] l \in {"setReady", "setLocked"} -> AfterEvent
            [] l = "setPinReady" -> "loop")
  /\ UNCHANGED <<old, resume, sState, view, queueVars, requestVars, channelVars, faultVars, timeouts>>

-----------------------------------------------------------------------------
(* Commands.                                                                *)

(* What the runner does after each command.  modem_init and onSIMReady send *)
(* many commands and heed none of the answers.                              *)
After(l, answer) ==
  CASE l = "init"     -> IF answer = "timeout" THEN "init" ELSE "serve"
    [] l = "simReady" -> IF answer = "timeout" THEN "simReady" ELSE AfterEvent
    [] l = "onInit"   -> IF answer = "timeout" THEN "onInit" ELSE "setNotReady"
    [] l = "pinInit"  -> IF answer = "timeout" THEN "pinInit" ELSE "setPinReady"
    [] l = "query"    -> "complete"
    [] l = "cfunOff"  -> "setOff"
    [] l = "cfunOn"   -> IF answer = "ok" THEN "onInit" ELSE "radioOn"
    [] l = "radioOn"  -> IF answer = "ok" THEN "onInit" ELSE "complete"
    [] l = "pin"      -> IF answer = "ok" THEN "pinDone" ELSE "complete"
    [] l = "cpin"     -> IF answer = "ready" THEN "setReady"
                         ELSE IF answer \in {"locked", "ERROR"} THEN "setLocked" ELSE "pollLater"

(* For AT+CPIN? a +CME error other than those that name a lock is "not ready". *)
Answers(l) == IF l = "cpin" THEN {"ready", "locked", "not ready", "ERROR"} ELSE {"ok", "error"}

Unpowered == sState \in {"OFF", "UNAVAILABLE"}

Answered ==
  /\ pc[Runner] \in Commanding
  /\ pc[Runner] = "cpin" => ~Unpowered
  /\ fd /\ ~readerClosed /\ ~hungup
  /\ \E answer \in Answers(pc[Runner]) : Goto(Runner, After(pc[Runner], answer))
  /\ UNCHANGED <<radioVars, queueVars, requestVars, channelVars, faultVars, timeouts>>

(* No command is sent: the channel is closed, or getSIMStatus sees no need. *)
Refused ==
  /\ pc[Runner] \in Commanding
  /\ readerClosed \/ (pc[Runner] = "cpin" /\ Unpowered)
  /\ Goto(Runner, After(pc[Runner], "closed"))
  /\ UNCHANGED <<radioVars, queueVars, requestVars, channelVars, faultVars, timeouts>>

(* No answer in time, or the write fails on a stream that has gone. *)
Silent ==
  /\ pc[Runner] \in Commanding
  /\ pc[Runner] = "cpin" => ~Unpowered
  /\ fd /\ ~readerClosed
  /\ TimeOut(Runner, After(pc[Runner], "timeout"))
  /\ UNCHANGED <<old, sState, view, queueVars, requestVars, channelVars, faultVars>>

(* pollSIMState schedules itself again. *)
PollLater ==
  /\ pc[Runner] = "pollLater"
  /\ eventList' = [eventList EXCEPT !["poll"] = @ + 1]
  /\ Goto(Runner, AfterEvent)
  /\ UNCHANGED <<radioVars, closed, requestList, requestVars, channelVars, faultVars, timeouts>>

(* A command of another thread on the default channel times out. *)
OtherSilent(o) ==
  /\ pc[o] = "idle"
  /\ default /\ fd /\ ~readerClosed
  /\ TimeOut(o, "idle")
  /\ UNCHANGED <<old, sState, view, queueVars, requestVars, channelVars, faultVars>>

-----------------------------------------------------------------------------
(* The readers.  One that blocks in read() when its session ends stays      *)
(* there, and looks at the fields of the session that follows when it wakes. *)

EndOfFile(g) ==
  /\ pc[g] = "read"
  /\ g < session \/ hungup \/ ~fd
  /\ Goto(g, "eof")
  /\ UNCHANGED <<radioVars, queueVars, requestVars, channelVars, faultVars, timeouts>>

TestClosed(g) ==
  /\ pc[g] = "eof"
  /\ Goto(g, IF readerClosed THEN "done" ELSE "mark")
  /\ UNCHANGED <<radioVars, queueVars, requestVars, channelVars, faultVars, timeouts>>

(* onReaderClosed marks the channel and calls onATReaderClosed. *)
MarkClosed(g) ==
  /\ pc[g] = "mark"
  /\ readerClosed' = TRUE
  /\ SetRadioState(g, "UNAVAILABLE", "signal")
  /\ UNCHANGED <<old, resume, sState, view, queueVars, requestVars, session, fd, hungup, default,
                 faultVars, timeouts>>

HangUp ==
  /\ fd /\ ~hungup
  /\ hungup' = TRUE
  /\ UNCHANGED <<pc, radioVars, queueVars, requestVars, session, fd, readerClosed, default,
                 faultVars, timeouts>>

-----------------------------------------------------------------------------
(* The framework's thread in onRequest.                                     *)

Issue(r) ==
  /\ progress[r] = "unissued"
  /\ \A q \in Requests : progress[q] \notin {"rejecting", "accepting"}
  /\ progress' = [progress EXCEPT ![r] = IF sState = "UNAVAILABLE" THEN "rejecting" ELSE "accepting"]
  /\ UNCHANGED <<pc, radioVars, queueVars, current, channelVars, faultVars, timeouts>>

(* requestStateFilter reads the radio state once more; its verdict is ignored. *)
Reject(r) ==
  /\ progress[r] = "rejecting"
  /\ progress' = [progress EXCEPT ![r] = IF Passes(NameOf(r), sState) THEN "dropped" ELSE "answered"]
  /\ UNCHANGED <<pc, radioVars, queueVars, current, channelVars, faultVars, timeouts>>

(* Mutation: the newest request first. *)
AcceptFirst(r) ==
  /\ progress[r] = "accepting"
  /\ requestList' = <<r>> \o requestList
  /\ progress' = [progress EXCEPT ![r] = "queued"]
  /\ UNCHANGED <<pc, radioVars, closed, eventList, current, channelVars, faultVars, timeouts>>

Accept(r) ==
  /\ progress[r] = "accepting"
  /\ requestList' = Append(requestList, r)
  /\ progress' = [progress EXCEPT ![r] = "queued"]
  /\ UNCHANGED <<pc, radioVars, closed, eventList, current, channelVars, faultVars, timeouts>>

-----------------------------------------------------------------------------

StateSteps(t) == Assign(t) \/ Compare(t) \/ Notify(t) \/ Enqueue(t) \/ Signal(t)

RunnerSteps ==
  \/ Top \/ NotFound \/ Found \/ Open \/ ResetState \/ Handshake \/ HandshakeFails \/ Failed
  \/ Serve \/ LeaveLoop \/ Leave \/ Close(Runner) \/ Poll \/ Process \/ PowerOn \/ PowerOff
  \/ Complete \/ SetState \/ Answered \/ Refused \/ Silent \/ PollLater
  \/ \E e \in Events \cup {"none"} : Take(e)

ReaderSteps(g) == EndOfFile(g) \/ TestClosed(g) \/ MarkClosed(g) \/ Close(g)

FrameworkSteps(r) == Issue(r) \/ Reject(r) \/ Accept(r)

Next ==
  \/ RunnerSteps
  \/ \E t \in Threads : StateSteps(t)
  \/ \E g \in Sessions : ReaderSteps(g)
  \/ \E o \in Others : OtherSilent(o)
  \/ \E r \in Requests : FrameworkSteps(r)
  \/ HangUp

Spec == Init /\ [][Next]_vars

(* Every thread that can run does.  A reader is woken by the hangup of its  *)
(* own stream, the modem is found again or not, and nobody has to issue a   *)
(* request.                                                                 *)
Fairness ==
  /\ WF_vars(RunnerSteps \/ StateSteps(Runner))
  /\ \A o \in Others : WF_vars(StateSteps(o))
  /\ \A g \in Sessions : WF_vars(StateSteps(g) \/ TestClosed(g) \/ MarkClosed(g) \/ Close(g)
                                 \/ (g = session /\ hungup /\ EndOfFile(g)))
  /\ \A r \in Requests : WF_vars(Reject(r) \/ Accept(r))

FairSpec == Spec /\ Fairness

-----------------------------------------------------------------------------
(* Properties.                                                              *)

(* The runner, the queue and the radio state hold values of their types. *)
TypeOK ==
  /\ pc \in [Threads -> RunnerPcs \cup ReaderPcs \cup OtherPcs]
  /\ want \in [Threads -> RadioStates] /\ old \in [Threads -> RadioStates]
  /\ back \in [Threads -> RunnerPcs \cup ReaderPcs \cup OtherPcs]
  /\ resume \in [Threads -> RunnerPcs \cup ReaderPcs \cup OtherPcs]
  /\ sState \in RadioStates /\ view \in RadioStates
  /\ closed \in 0 .. 2
  /\ requestList \in Seq(Requests)
  /\ eventList \in [Events -> Nat]
  /\ current \in Requests \cup {None}
  /\ progress \in [Requests -> Progress]
  /\ session \in 0 .. MaxSessions
  /\ fd \in BOOLEAN /\ readerClosed \in BOOLEAN /\ hungup \in BOOLEAN /\ default \in BOOLEAN
  /\ failcount \in Nat /\ fatalerr \in BOOLEAN
  /\ timeouts \in 0 .. MaxTimeouts

(* While the runner waits for work a SIM that is not ready is being polled: *)
(* no race of setRadioState, timeout or reopening loses the poll.           *)
NotReadyIsPolled == (pc[Runner] = "loop" /\ sState = NotReady) => eventList["poll"] > 0

(* The framework learns of the last change of the radio state, although the *)
(* notification is sent without the mutex, from several threads.            *)
ViewConverges == (view # sState) ~> (view = sState)

(* A queued request is answered, or the session ends before its turn. *)
QueuedAnswered ==
  \A r \in Requests :
    (progress[r] = "queued") ~> (progress[r] = "answered" \/ pc[Runner] = "top")

(* The framework's requests as RequestService sees them.                    *)
Stage(p) == CASE p \in {"unissued", "rejecting", "accepting"} -> "new"
              [] p = "queued"  -> "waiting"
              [] p = "handled" -> "served"
              [] OTHER         -> p

ServiceProgress == [r \in Requests |-> Stage(progress[r])]

Service == INSTANCE RequestService WITH progress <- ServiceProgress, line <- requestList

(* The queue runner provides the service of RequestService: what onRequest  *)
(* accepts is handled one at a time and in order, and answered once.        *)
ServiceSpec == Service!Spec

(* Refuted, see README: "Must be completed with a call to                   *)
(* RIL_onRequestComplete()."                                                *)
NoRequestDropped == \A r \in Requests : progress[r] # "dropped"

(* Refuted, see README: once the channel has closed under the runner, the   *)
(* only reasonable state is UNAVAILABLE.                                    *)
Serving == pc[Runner] \in {"loop", "process", "query", "complete", "leave"}
UnavailableAfterClose == (Serving /\ closed # 0) => sState = "UNAVAILABLE"

(* Refuted, see README: the callback belongs to a stream that closes before *)
(* at_close is called.                                                      *)
OwnReaderOnly ==
  [][\A g \in Sessions : (pc[g] = "mark" /\ pc'[g] # "mark") => g = session]_vars

=============================================================================
