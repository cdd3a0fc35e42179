------------------------------ MODULE DataCall ------------------------------
(***************************************************************************)
(* Data calls of src/libril/ril-pdp.c.  requestSetupDataCall takes an entry *)
(* of the table dcs, sets the context up with AT commands and starts a      *)
(* thread, pdp_manager, that dials, answers the request, watches the ppp    *)
(* daemon and gives the entry back.  The queue runner and the managers      *)
(* share the entries without a lock, and talk through the event set of the  *)
(* entry.  The one ppp daemon is a service of init that all calls share: a  *)
(* call that starts stops the daemon of another first, waiting for as long  *)
(* as that takes, and a watchdog sees that some daemon runs, not whose.     *)
(*                                                                          *)
(* A setup request r names what it brings to life: its manager and the      *)
(* event set that getdc allocates for it.  ping is 0 for ever in the code,  *)
(* so that EVENT_DISCONNECTED and EVENT_PING are never set.                 *)
(***************************************************************************)
EXTENDS EventSet

CONSTANTS
    N,                 \* entries of dcs: MAX_DATA_CALL_COUNT
    Setups,            \* the setup requests
    Retries,           \* PDP_DIALING_RETRY
    Nets,              \* the values that cdma starts with
    MaxDeactivations,  \* bound on RIL_REQUEST_DEACTIVATE_DATA_CALL
    MaxChecks          \* bound on OnPDPListCheck, which a resume enqueues

ASSUME DataCallAssumption ==
    /\ N \in Nat \ {0} /\ Retries \in Nat
    /\ MaxDeactivations \in Nat /\ MaxChecks \in Nat
    /\ Nets \subseteq BOOLEAN
    /\ MaxEvents > 5

EVENT_START   == 2
EVENT_STOP    == 3
EVENT_RESTART == 5
Events        == {EVENT_START, EVENT_STOP, EVENT_RESTART}

Entries == 1 .. N
None    == "none"
INACTIVE == 0
DOWN     == 1
UP       == 2

ASSUME NoneAssumption == None \notin Setups

VARIABLES
    cdma,          \* rilhw->prefer_net is CDMA: no context to set up
    entry,         \* dcs
    sig, live,     \* the bits of the event sets, and the sets not destroyed
    manager,       \* the threads pdp_manager and their locals
    runner,        \* what the queue runner is in the middle of
    daemon,        \* the setup init.svc.ppp_daemon is "running" for, or None
    asked,         \* the setup requests that were made
    answers,       \* how often RIL_onRequestComplete was called
    refused,       \* setup requests whose AT+CGDCONT failed
    view,          \* what the framework was told last of a call
    raced,         \* an entry was taken while its last manager was in freedc
    crashed,       \* an event set was used after it was destroyed
    deactivations, checks

dataVars == <<entry, sig, live, manager, runner, daemon, asked, answers, refused,
              view, raced, crashed, deactivations, checks>>
vars == <<cdma, dataVars>>

Loop    == {"wait", "replace", "launch", "dial", "report", "stop", "restart", "exit"}
Freeing == {"free", "destroy", "reset"}
Idle    == [at |-> "idle", req |-> None, event |-> 0, dc |-> 0, left |-> {}]

EntryType   == [used : BOOLEAN, cid : BOOLEAN, active : {INACTIVE, DOWN, UP},
                token : Setups \cup {None}, set : Setups \cup {None}]
ManagerType == [at : Loop \cup Freeing \cup {"none", "done"}, dc : Entries \cup {0},
                watchdog : BOOLEAN, restart : 0 .. Retries]
RunnerType  == [at : {"idle", "setup", "signal", "check"}, req : Setups \cup {None},
                event : Events \cup {0}, dc : Entries \cup {0}, left : SUBSET Entries]

\* The entries, the threads and the requests have values of their types.
TypeOK ==
    /\ cdma \in BOOLEAN
    /\ entry \in [Entries -> EntryType]
    /\ sig \in [Setups -> SUBSET Events]
    /\ live \in SUBSET Setups
    /\ manager \in [Setups -> ManagerType]
    /\ runner \in RunnerType
    /\ daemon \in Setups \cup {None}
    /\ asked \in SUBSET Setups
    /\ answers \in [Setups -> Nat]
    /\ refused \in SUBSET Setups
    /\ view \in [Entries -> {"none", "up", "down"}]
    /\ raced \in BOOLEAN /\ crashed \in BOOLEAN
    /\ deactivations \in 0 .. MaxDeactivations /\ checks \in 0 .. MaxChecks

Init ==
    /\ cdma \in Nets
    /\ entry = [i \in Entries |-> [used |-> FALSE, cid |-> FALSE, active |-> INACTIVE,
                                   token |-> None, set |-> None]]
    /\ sig = [r \in Setups |-> {}] /\ live = {}
    /\ manager = [r \in Setups |-> [at |-> "none", dc |-> 0, watchdog |-> FALSE, restart |-> 0]]
    /\ runner = Idle /\ daemon = None
    /\ asked = {} /\ answers = [r \in Setups |-> 0] /\ refused = {}
    /\ view = [i \in Entries |-> "none"]
    /\ raced = FALSE /\ crashed = FALSE
    /\ deactivations = 0 /\ checks = 0

At(r, at)    == manager[r].at = at
Become(r, m) == manager' = [manager EXCEPT ![r] = m]
Dc(r)        == manager[r].dc
Enter(i, e)  == entry' = [entry EXCEPT ![i] = e]
Complete(r)  == answers' = [answers EXCEPT ![r] = @ + 1]

\* eventset_set, on whatever set the entry points to now
Signal(i, e) ==
    IF entry[i].set \in live
    THEN /\ sig' = [sig EXCEPT ![entry[i].set] = SetBit(@, e)]
         /\ UNCHANGED crashed
    ELSE crashed' = TRUE /\ UNCHANGED sig

(***************************************************************************)
(* The queue runner                                                         *)
(***************************************************************************)
FirstUnused(i) == ~entry[i].used /\ \A j \in 1 .. i - 1 : entry[j].used

\* requestSetupDataCall without an access point name, or with the table full
SetupFails(r) ==
    /\ runner = Idle /\ r \notin asked
    /\ asked' = asked \cup {r} /\ Complete(r)
    /\ UNCHANGED <<cdma, entry, sig, live, manager, runner, daemon, refused, view, raced,
                   crashed, deactivations, checks>>

\* getdc, and the copies of the request's strings
Getdc(r, i) ==
    /\ runner = Idle /\ r \notin asked /\ FirstUnused(i)
    /\ asked' = asked \cup {r}
    /\ live' = live \cup {r}
    /\ Enter(i, [entry[i] EXCEPT !.used = TRUE, !.cid = TRUE, !.set = r, !.active = INACTIVE])
    /\ runner' = [Idle EXCEPT !.at = "setup", !.req = r, !.dc = i]
    /\ raced' = (raced \/ \E s \in Setups : manager[s].dc = i /\ manager[s].at \in Freeing)
    /\ UNCHANGED <<cdma, sig, manager, daemon, answers, refused, view, crashed,
                   deactivations, checks>>

\* freedc by the runner: nothing, unless the entry is in use
Freedc(i) ==
    IF entry[i].used
    THEN /\ IF entry[i].set \in live THEN live' = live \ {entry[i].set} /\ UNCHANGED crashed
            ELSE crashed' = TRUE /\ UNCHANGED live
         /\ Enter(i, [entry[i] EXCEPT !.used = FALSE, !.cid = FALSE, !.active = INACTIVE])
    ELSE UNCHANGED <<live, entry, crashed>>

\* a mutant: goes on after freedc as if the context had been accepted
ContextRefusedGoesOn ==
    /\ runner.at = "setup" /\ ~cdma /\ entry[runner.dc].used
    /\ refused' = refused \cup {runner.req}
    /\ Freedc(runner.dc)
    /\ UNCHANGED <<cdma, sig, manager, runner, daemon, asked, answers, view, raced,
                   deactivations, checks>>

\* a mutant: the entry is not given back
ContextRefusedKeepsEntry ==
    /\ runner.at = "setup" /\ ~cdma
    /\ refused' = refused \cup {runner.req}
    /\ runner' = Idle
    /\ UNCHANGED <<cdma, entry, sig, live, manager, daemon, asked, answers, view, raced, crashed,
                   deactivations, checks>>

\* AT+CGDCONT fails: freedc, and the request is never answered
ContextRefused ==
    /\ runner.at = "setup" /\ ~cdma
    /\ refused' = refused \cup {runner.req}
    /\ Freedc(runner.dc)
    /\ runner' = Idle
    /\ UNCHANGED <<cdma, sig, manager, daemon, asked, answers, view, raced, deactivations, checks>>

\* a mutant: the thread is created and not told to dial
StartManagerSilent ==
    LET i == runner.dc IN
    /\ runner.at = "setup"
    /\ Enter(i, [entry[i] EXCEPT !.token = runner.req, !.active = DOWN])
    /\ Become(runner.req, [at |-> "wait", dc |-> i, watchdog |-> FALSE, restart |-> 0])
    /\ runner' = Idle
    /\ UNCHANGED <<cdma, sig, live, daemon, asked, answers, refused, view, raced, crashed,
                   deactivations, checks>>

\* the thread is created and told to dial
StartManager ==
    LET i == runner.dc IN
    /\ runner.at = "setup"
    /\ Enter(i, [entry[i] EXCEPT !.token = runner.req, !.active = DOWN])
    /\ Become(runner.req, [at |-> "wait", dc |-> i, watchdog |-> FALSE, restart |-> 0])
    /\ Signal(i, EVENT_START)
    /\ runner' = Idle
    /\ UNCHANGED <<cdma, live, daemon, asked, answers, refused, view, raced, deactivations, checks>>

\* requestDeactivateDataCall: the entry is looked up, then a command is sent
Deactivate(i) ==
    /\ runner = Idle /\ entry[i].cid /\ deactivations < MaxDeactivations
    /\ deactivations' = deactivations + 1
    /\ runner' = [Idle EXCEPT !.at = "signal", !.event = EVENT_STOP, !.dc = i]
    /\ UNCHANGED <<cdma, entry, sig, live, manager, daemon, asked, answers, refused, view,
                   raced, crashed, checks>>

\* OnPDPListCheck goes through the calls one by one
Check ==
    /\ runner = Idle /\ checks < MaxChecks
    /\ checks' = checks + 1
    /\ runner' = [Idle EXCEPT !.at = "check", !.left = Entries]
    /\ UNCHANGED <<cdma, entry, sig, live, manager, daemon, asked, answers, refused, view,
                   raced, crashed, deactivations>>

\* the next call is restarted: of a CDMA modem every call, in their order,
\* and otherwise each that the modem lists in another state than the call's
\* (it knows inactive and up)
CheckLook(i) ==
    /\ runner.at = "check" /\ i \in runner.left
    /\ cdma => \A j \in runner.left : i <= j
    /\ \E there \in {INACTIVE, UP} :
          runner' = IF entry[i].cid /\ IF cdma THEN entry[i].used ELSE there # entry[i].active
                    THEN [Idle EXCEPT !.at = "signal", !.event = EVENT_RESTART, !.dc = i,
                                      !.left = runner.left \ {i}]
                    ELSE [Idle EXCEPT !.at = "check", !.left = runner.left \ {i}]
    /\ UNCHANGED <<cdma, entry, sig, live, manager, daemon, asked, answers, refused, view,
                   raced, crashed, deactivations, checks>>

\* all were seen; or the modem lists no more, or a line that is no answer
CheckEnds ==
    /\ runner.at = "check" /\ (cdma => runner.left = {})
    /\ runner' = Idle
    /\ UNCHANGED <<cdma, entry, sig, live, manager, daemon, asked, answers, refused, view,
                   raced, crashed, deactivations, checks>>

\* send_pdp_command, and back to the check it was sent by
SendCommand ==
    /\ runner.at = "signal"
    /\ Signal(runner.dc, runner.event)
    /\ runner' = IF crashed' THEN runner
                 ELSE IF runner.event = EVENT_RESTART
                      THEN [Idle EXCEPT !.at = "check", !.left = runner.left]
                      ELSE Idle
    /\ UNCHANGED <<cdma, entry, live, manager, daemon, asked, answers, refused, view, raced,
                   deactivations, checks>>

Runner == \/ \E r \in Setups : SetupFails(r) \/ \E i \in Entries : Getdc(r, i)
          \/ ContextRefused \/ StartManager
          \/ \E i \in Entries : Deactivate(i) \/ CheckLook(i)
          \/ Check \/ CheckEnds \/ SendCommand

(***************************************************************************)
(* pdp_manager                                                              *)
(***************************************************************************)
\* the wait ends with the lowest event
Take(r, e) ==
    LET i == Dc(r)
        s == entry[i].set
    IN  /\ At(r, "wait") /\ s \in live /\ ~TimedOut(sig[s]) /\ e = FindFirstBit(sig[s])
        /\ sig' = [sig EXCEPT ![s] = ClearBit(@, e)]

\* a mutant: the retries are not counted
StartKeepsRetries(r) ==
    /\ Take(r, EVENT_START)
    /\ Become(r, [manager[r] EXCEPT !.at = "replace"])
    /\ UNCHANGED <<cdma, entry, live, runner, daemon, asked, answers, refused, view, raced,
                   crashed, deactivations, checks>>

\* a mutant: pdp_restart is counted down without a test
StartCountsDown(r) ==
    /\ Take(r, EVENT_START)
    /\ Become(r, [manager[r] EXCEPT !.at = "replace", !.restart = @ - 1])
    /\ UNCHANGED <<cdma, entry, live, runner, daemon, asked, answers, refused, view, raced,
                   crashed, deactivations, checks>>

\* EVENT_START: one retry less, and start_pppd
Start(r) ==
    /\ Take(r, EVENT_START)
    /\ Become(r, [manager[r] EXCEPT !.at = "replace", !.restart = IF @ > 0 THEN @ - 1 ELSE @])
    /\ UNCHANGED <<cdma, entry, live, runner, daemon, asked, answers, refused, view, raced,
                   crashed, deactivations, checks>>

\* init has stopped the daemon, whosever it is, that start_pppd or stop_pppd
\* asks it to stop
CtlStop(r) ==
    /\ manager[r].at \in {"replace", "stop", "restart"} /\ daemon # None
    /\ daemon' = None
    /\ UNCHANGED <<cdma, entry, sig, live, manager, runner, asked, answers, refused, view,
                   raced, crashed, deactivations, checks>>

\* start_pppd saw that no daemon runs
Replaced(r) ==
    /\ At(r, "replace") /\ daemon = None
    /\ Become(r, [manager[r] EXCEPT !.at = "launch"])
    /\ UNCHANGED <<cdma, entry, sig, live, runner, daemon, asked, answers, refused, view,
                   raced, crashed, deactivations, checks>>

\* ctl.start: init starts the daemon or does not, and does nothing for a
\* service that runs since another call has started it
Launch(r) ==
    /\ At(r, "launch")
    /\ Become(r, [manager[r] EXCEPT !.at = "dial"])
    /\ daemon' \in IF daemon = None THEN {r, None} ELSE {daemon}
    /\ UNCHANGED <<cdma, entry, sig, live, runner, asked, answers, refused, view, raced,
                   crashed, deactivations, checks>>

\* a mutant: the watchdog is not started
ConnectedUnwatched(r) ==
    /\ At(r, "dial") /\ daemon # None
    /\ Become(r, [manager[r] EXCEPT !.at = "report"])
    /\ Enter(Dc(r), [entry[Dc(r)] EXCEPT !.active = UP])
    /\ UNCHANGED <<cdma, sig, live, runner, daemon, asked, answers, refused, view, raced,
                   crashed, deactivations, checks>>

\* checkPPPConnection found the interface up
Connected(r) ==
    /\ At(r, "dial") /\ daemon # None
    /\ Become(r, [manager[r] EXCEPT !.at = "report", !.watchdog = TRUE])
    /\ Enter(Dc(r), [entry[Dc(r)] EXCEPT !.active = UP])
    /\ UNCHANGED <<cdma, sig, live, runner, daemon, asked, answers, refused, view, raced,
                   crashed, deactivations, checks>>

\* it did not, or the files of the daemon could not be written: the call
\* goes down, or is dialled again while it restarts
DialFails(r) ==
    /\ manager[r].at \in {"launch", "dial"} /\ manager[r].restart = 0
    /\ Become(r, [manager[r] EXCEPT !.at = "report"])
    /\ Enter(Dc(r), [entry[Dc(r)] EXCEPT !.active = DOWN])
    /\ UNCHANGED <<cdma, sig, live, runner, daemon, asked, answers, refused, view, raced,
                   crashed, deactivations, checks>>

DialAgain(r) ==
    /\ manager[r].at \in {"launch", "dial"} /\ manager[r].restart > 0
    /\ Become(r, [manager[r] EXCEPT !.at = "wait"])
    /\ Signal(Dc(r), EVENT_START)
    /\ UNCHANGED <<cdma, entry, live, runner, daemon, asked, answers, refused, view, raced,
                   deactivations, checks>>

\* EVENT_STOP: the watchdog is off, and stop_pppd
Stop(r) ==
    /\ Take(r, EVENT_STOP)
    /\ Become(r, [manager[r] EXCEPT !.at = "stop", !.watchdog = FALSE])
    /\ UNCHANGED <<cdma, entry, live, runner, daemon, asked, answers, refused, view, raced,
                   crashed, deactivations, checks>>

\* stop_pppd ends, after five seconds with the daemon still there
StopEnds(r) ==
    /\ At(r, "stop")
    /\ Become(r, [manager[r] EXCEPT !.at = "exit"])
    /\ Enter(Dc(r), [entry[Dc(r)] EXCEPT !.active = INACTIVE])
    /\ UNCHANGED <<cdma, sig, live, runner, daemon, asked, answers, refused, view, raced,
                   crashed, deactivations, checks>>

\* EVENT_RESTART: the retries are set, and stop_pppd
Restart(r) ==
    /\ Take(r, EVENT_RESTART)
    /\ Become(r, [manager[r] EXCEPT !.at = "restart", !.restart = Retries])
    /\ UNCHANGED <<cdma, entry, live, runner, daemon, asked, answers, refused, view, raced,
                   crashed, deactivations, checks>>

\* the manager wants to dial again
RestartEnds(r) ==
    /\ At(r, "restart")
    /\ Become(r, [manager[r] EXCEPT !.at = "wait"])
    /\ Signal(Dc(r), EVENT_START)
    /\ UNCHANGED <<cdma, entry, live, runner, daemon, asked, answers, refused, view, raced,
                   deactivations, checks>>

\* the watchdog: when no daemon runs the call ends, unless it restarts
TimeOut(r) ==
    LET s == entry[Dc(r)].set
    IN  /\ At(r, "wait") /\ s \in live /\ TimedOut(sig[s])
        /\ manager[r].watchdog /\ daemon = None /\ manager[r].restart = 0
        /\ sig' = [sig EXCEPT ![s] = SetBit(@, EVENT_STOP)]
        /\ UNCHANGED <<cdma, entry, live, manager, runner, daemon, asked, answers, refused,
                       view, raced, crashed, deactivations, checks>>

\* the thread waits on a set that was destroyed
WaitOnNothing(r) ==
    /\ At(r, "wait") /\ entry[Dc(r)].set \notin live
    /\ crashed' = TRUE
    /\ UNCHANGED <<cdma, entry, sig, live, manager, runner, daemon, asked, answers, refused,
                   view, raced, deactivations, checks>>

\* reportDataCallStatus, in the loop or after it
ReportDataCallStatus(i) ==
    LET t == entry[i].token IN
    /\ IF entry[i].active # INACTIVE /\ t # None
       THEN Complete(t) /\ Enter(i, [entry[i] EXCEPT !.token = None])
       ELSE UNCHANGED <<answers, entry>>
    /\ view' = CASE entry[i].active = UP       -> [view EXCEPT ![i] = "up"]
                 [] entry[i].active = INACTIVE -> [view EXCEPT ![i] = "down"]
                 [] OTHER                      -> view
    /\ IF entry[i].active = DOWN THEN Signal(i, EVENT_STOP) ELSE UNCHANGED <<sig, crashed>>

\* a mutant: nothing is reported when the manager ends
ReportNotLast(r) ==
    \/ /\ At(r, "report") /\ Become(r, [manager[r] EXCEPT !.at = "wait"])
       /\ ReportDataCallStatus(Dc(r))
       /\ UNCHANGED <<cdma, live, runner, daemon, asked, refused, raced, deactivations, checks>>
    \/ /\ At(r, "exit") /\ Become(r, [manager[r] EXCEPT !.at = "free"])
       /\ UNCHANGED <<cdma, entry, sig, live, runner, daemon, asked, answers, refused, view,
                      raced, crashed, deactivations, checks>>

Report(r) ==
    /\ \/ At(r, "report") /\ Become(r, [manager[r] EXCEPT !.at = "wait"])
       \/ At(r, "exit") /\ Become(r, [manager[r] EXCEPT !.at = "free"])
    /\ ReportDataCallStatus(Dc(r))
    /\ UNCHANGED <<cdma, live, runner, daemon, asked, refused, raced, deactivations, checks>>

\* freedc, of an entry in use: the strings and the state, the event set,
\* then active
FreeEntry(r) ==
    LET i == Dc(r) IN
    /\ At(r, "free")
    /\ IF entry[i].used
       THEN /\ Enter(i, [entry[i] EXCEPT !.cid = FALSE, !.used = FALSE])
            /\ Become(r, [manager[r] EXCEPT !.at = "destroy"])
       ELSE UNCHANGED entry /\ Become(r, [manager[r] EXCEPT !.at = "done"])
    /\ UNCHANGED <<cdma, sig, live, runner, daemon, asked, answers, refused, view, raced,
                   crashed, deactivations, checks>>

DestroySet(r) ==
    LET s == entry[Dc(r)].set IN
    /\ At(r, "destroy")
    /\ IF s \in live THEN live' = live \ {s} /\ UNCHANGED crashed
       ELSE crashed' = TRUE /\ UNCHANGED live
    /\ Become(r, [manager[r] EXCEPT !.at = "reset"])
    /\ UNCHANGED <<cdma, entry, sig, runner, daemon, asked, answers, refused, view, raced,
                   deactivations, checks>>

ResetActive(r) ==
    /\ At(r, "reset")
    /\ Enter(Dc(r), [entry[Dc(r)] EXCEPT !.active = INACTIVE])
    /\ Become(r, [manager[r] EXCEPT !.at = "done"])
    /\ UNCHANGED <<cdma, sig, live, runner, daemon, asked, answers, refused, view, raced,
                   crashed, deactivations, checks>>

Manager(r) == \/ Start(r) \/ CtlStop(r) \/ Replaced(r) \/ Launch(r)
              \/ Connected(r) \/ DialFails(r) \/ DialAgain(r)
              \/ Stop(r) \/ StopEnds(r) \/ Restart(r) \/ RestartEnds(r)
              \/ TimeOut(r) \/ WaitOnNothing(r)
              \/ Report(r) \/ FreeEntry(r) \/ DestroySet(r) \/ ResetActive(r)

\* the link is lost, or the daemon dies
DaemonExits ==
    /\ daemon # None /\ daemon' = None
    /\ UNCHANGED <<cdma, entry, sig, live, manager, runner, asked, answers, refused, view,
                   raced, crashed, deactivations, checks>>

Next == ~crashed /\ (Runner \/ DaemonExits \/ \E r \in Setups : Manager(r))
Spec == Init /\ [][Next]_vars

\* Both threads go on running: the runner's commands and the dialling have
\* timeouts, a wait of eventset_wait_timeout ends, and init stops a service at
\* last that it is asked to stop: start_pppd waits for that without a limit,
\* and the daemon of a call that has ended was asked by stop_pppd.
Continue == ContextRefused \/ StartManager \/ SendCommand \/ CheckEnds
            \/ \E i \in Entries : CheckLook(i)
Orphaned == daemon # None /\ manager[daemon].at \in {"exit"} \cup Freeing \cup {"done"}
FairSpec == /\ Spec
            /\ WF_vars(~crashed /\ Continue)
            /\ \A r \in Setups : WF_vars(~crashed /\ Manager(r))
            /\ WF_vars(~crashed /\ Orphaned /\ DaemonExits)

(***************************************************************************)
(* Properties                                                               *)
(***************************************************************************)
Ended(r) == manager[r].at \in Freeing \cup {"done"}

\* A request to set a call up is answered once at the most, and a manager
\* that has ended has answered its own: EVENT_START, which leads to the
\* answer, is always taken before an EVENT_STOP that came in with it.
SetupAnsweredOnce ==
    \A r \in Setups : answers[r] <= 1 /\ (Ended(r) => answers[r] = 1 \/ raced)

\* An entry in use has one manager, or the runner is about to start it: no
\* entry is leaked, and no two threads drive one call.
EntryManaged ==
    \A i \in Entries : entry[i].used =>
        \/ runner.at = "setup" /\ runner.dc = i
        \/ \E r \in Setups : /\ Dc(r) = i /\ manager[r].at \in Loop \cup {"free"}
                             /\ \A s \in Setups \ {r} :
                                   Dc(s) = i => manager[s].at \notin Loop \cup {"free"}

\* A call the framework believes to be up has a manager in its loop, which
\* reports the call down before it leaves it.  (Whether the link is still that
\* of the call is not asked here.)
ReportedUpIsManaged ==
    \A i \in Entries : view[i] = "up" =>
        raced \/ \E r \in Setups : Dc(r) = i /\ manager[r].at \in Loop

\* An event set is used after its destruction in two ways only: the entry was
\* taken by a new call while the last one was still in freedc, or the manager
\* ended while the runner was between looking the entry up and signalling it.
NoFreedSetUsed ==
    crashed => raced \/ (runner.at = "signal" /\ ~entry[runner.dc].used)

\* Every request is answered, but for one whose context the modem refuses,
\* however late: no time is counted.
SetupAnswered ==
    \A r \in Setups : r \in asked ~> answers[r] = 1 \/ r \in refused \/ raced \/ crashed

\* A call that is up, and waits; and what is to become of it when the daemon
\* that runs is not its own: it gets its link back, or is reported down.
Waiting(r) == At(r, "wait") /\ entry[Dc(r)].active = UP
LinkBackOrDown(r) ==
    \/ daemon = r \/ \A i \in Entries : view[i] = "up" => Dc(r) # i
    \/ Ended(r) \/ raced \/ crashed

\* A call without its link gets it back or is reported down.  Two things keep
\* the watchdog from it, and only by lasting for ever: the daemon of another
\* call, which it takes for its own, and what a restart has left of
\* pdp_restart.  When the other daemon ends as well, the loss is noticed.
\* (Both are defects of the code: without them the property does not hold.)
DeadLinkNoticed ==
    \A r \in Setups :
        (Waiting(r) /\ daemon # r) ~> \/ LinkBackOrDown(r)
                                      \/ [](daemon \notin {r, None})
                                      \/ [](manager[r].restart > 0)

\* A call that is told to stop ends, whatever restarts come in between.
StopIsFinal ==
    \A r \in Setups : EVENT_STOP \in sig[r] ~> Ended(r) \/ raced \/ crashed
=============================================================================
