------------------------------- MODULE PttLog -------------------------------
(***************************************************************************)
(* The log of push to talk, src/libril/ptt.c: ptt_log_start creates an      *)
(* event set and a thread that copies a port to a file, ptt_log_stop tells  *)
(* the thread to end, sleeps for a second, and destroys the set.  Requests  *)
(* of the queue runner start and stop it, and so does ^GLD: on the reader   *)
(* of the AT channel; nothing locks pttlog_init or ptt_es.                  *)
(*                                                                          *)
(* Time is left out but for this: in the second of ptt_log_stop a log       *)
(* thread that is not held up by a read, which waits for four kilobytes,    *)
(* has taken its events.                                                    *)
(***************************************************************************)
EXTENDS EventSet, FiniteSets

CONSTANTS
    Threads,       \* those that start and stop the log
    MaxSets        \* bound on the event sets, and on the log threads

PttLogAssumption == MaxSets \in Nat

eventLogStart   == 1
eventLogStop    == 2
eventLogTrigger == 3

VARIABLES
    pttlog_init,
    ptt_es,        \* the event set, 0 for NULL
    set,           \* the memory of event sets: alive, and its bits
    log,           \* the log threads, the n-th created together with set n
    caller,        \* where a thread is in ptt_log_start or ptt_log_stop
    fault,         \* a set has been used, or destroyed, after it was destroyed
    spoilt         \* what has happened that the code does not guard against

vars == <<pttlog_init, ptt_es, set, log, caller, fault, spoilt>>

Ids == 1 .. MaxSets

\* Sets, threads and callers have values of their types.
TypeOK ==
    /\ pttlog_init \in -1 .. 2 /\ ptt_es \in 0 .. MaxSets
    /\ set \in [Ids -> [alive : BOOLEAN, sig : SUBSET {eventLogStart, eventLogStop, eventLogTrigger}]]
    /\ log \in [Ids -> [at : {"none", "loop", "wait", "read", "ended"}, on : 0 .. MaxSets,
                        trigger : BOOLEAN, open : BOOLEAN]]
    /\ caller \in [Threads -> {"idle", "asking", "sleep"}]
    /\ fault \in BOOLEAN /\ spoilt \subseteq {"overlap", "stopped", "held up"}

Init ==
    /\ pttlog_init = 0 /\ ptt_es = 0
    /\ set = [i \in Ids |-> [alive |-> FALSE, sig |-> {}]]
    /\ log = [i \in Ids |-> [at |-> "none", on |-> 0, trigger |-> FALSE, open |-> FALSE]]
    /\ caller = [t \in Threads |-> "idle"]
    /\ fault = FALSE /\ spoilt = {}

Created     == {i \in Ids : log[i].at # "none"}
Busy(t)     == \E u \in Threads \ {t} : caller[u] # "idle"
Spoil(S)    == spoilt' = spoilt \cup S
Freed(i)    == i # 0 /\ ~set[i].alive
With(i, e)  == IF i # 0 /\ set[i].alive THEN [set EXCEPT ![i].sig = SetBit(@, e)] ELSE set

(***************************************************************************)
(* The threads that start and stop the log                                  *)
(***************************************************************************)
\* the set and the thread are created, unless they are there; then e is set
Signal(e) ==
    IF pttlog_init # 0
    THEN /\ set' = With(ptt_es, e) /\ fault' = (fault \/ Freed(ptt_es))
         /\ UNCHANGED <<pttlog_init, ptt_es, log>>
    ELSE \E n \in Ids \ Created :
            /\ \A m \in 1 .. n - 1 : m \in Created
            /\ pttlog_init' = 1 /\ ptt_es' = n
            /\ set' = [set EXCEPT ![n] = [alive |-> TRUE, sig |-> {e}]]
            /\ log' = [log EXCEPT ![n].at = "loop"]
            /\ UNCHANGED fault

\* ptt_log_start up to its command
Start(t) ==
    /\ caller[t] = "idle"
    /\ caller' = [caller EXCEPT ![t] = "asking"]
    /\ Signal(eventLogStart)
    /\ Spoil({s \in {"overlap"} : Busy(t)})

\* the modem has data to log: ptt_log_trigger
Trigger(t) ==
    /\ caller[t] = "asking"
    /\ caller' = [caller EXCEPT ![t] = "idle"]
    /\ Signal(eventLogTrigger)
    /\ Spoil({})

\* ptt_log_stop, called by a request, by ^GLD: or when the modem has no data
Stop(t) ==
    /\ caller[t] \in {"idle", "asking"}
    /\ caller' = [caller EXCEPT ![t] = "sleep"]
    /\ set' = With(ptt_es, eventLogStop)
    /\ fault' = (fault \/ Freed(ptt_es))
    /\ Spoil({s \in {"overlap"} : Busy(t)} \cup {s \in {"stopped"} : pttlog_init = 0})
    /\ UNCHANGED <<pttlog_init, ptt_es, log>>

Destroy(t) ==
    /\ caller' = [caller EXCEPT ![t] = "idle"]
    /\ Spoil({s \in {"held up"} : \E i \in Ids : log[i].at = "read"})
    /\ IF pttlog_init = 0 THEN UNCHANGED <<pttlog_init, set, fault>>
       ELSE /\ pttlog_init' = pttlog_init - 1
            /\ set' = IF ptt_es = 0 THEN set ELSE [set EXCEPT ![ptt_es].alive = FALSE]
            /\ fault' = (fault \/ Freed(ptt_es)
                                \/ \E i \in Ids : log[i].at = "wait" /\ log[i].on = ptt_es)
    /\ UNCHANGED <<ptt_es, log>>

\* a mutant: the second is not waited for
AwakeAtOnce(t) == caller[t] = "sleep" /\ Destroy(t)

\* its second is over
Awake(t) ==
    /\ caller[t] = "sleep"
    /\ \A i \in Ids :
          \/ log[i].at \in {"none", "read", "ended"}
          \/ log[i].at = "wait" /\ TimedOut(set[log[i].on].sig)
    /\ Destroy(t)

(***************************************************************************)
(* ptt_log_reader                                                           *)
(***************************************************************************)
Wait(i) ==
    /\ log[i].at = "loop"
    /\ log' = [log EXCEPT ![i].at = "wait", ![i].on = ptt_es]
    /\ fault' = (fault \/ Freed(ptt_es))
    /\ UNCHANGED <<pttlog_init, ptt_es, set, caller, spoilt>>

\* a wait on a set that is gone does not end in any way one could rely on
Take(i) ==
    LET on == log[i].on
        e  == FindFirstBit(set[on].sig)
    IN  /\ log[i].at = "wait" /\ set[on].alive /\ ~TimedOut(set[on].sig)
        /\ set' = [set EXCEPT ![on].sig = ClearBit(@, e)]
        /\ log' = CASE e = eventLogStart -> [log EXCEPT ![i].at = "loop", ![i].open = TRUE]
                    [] e = eventLogStop  -> [log EXCEPT ![i].at = "ended", ![i].open = FALSE]
                    [] OTHER             -> [log EXCEPT ![i].at = "loop", ![i].trigger = TRUE]
        /\ UNCHANGED <<pttlog_init, ptt_es, caller, fault, spoilt>>

TimeOut(i) ==
    /\ log[i].at = "wait" /\ set[log[i].on].alive /\ TimedOut(set[log[i].on].sig)
    /\ log' = [log EXCEPT ![i].at = IF log[i].trigger THEN "read" ELSE "loop"]
    /\ UNCHANGED <<pttlog_init, ptt_es, set, caller, fault, spoilt>>

\* safe_read returns, with 4096 bytes or an error
ReadDone(i) ==
    /\ log[i].at = "read"
    /\ log' = [log EXCEPT ![i].at = "loop"]
    /\ UNCHANGED <<pttlog_init, ptt_es, set, caller, fault, spoilt>>

Next ==
    \/ \E t \in Threads : Start(t) \/ Trigger(t) \/ Stop(t) \/ Awake(t)
    \/ \E i \in Ids : Wait(i) \/ Take(i) \/ TimeOut(i) \/ ReadDone(i)
Spec == Init /\ [][Next]_vars

\* The event set is not used after it was destroyed, as long as starting and
\* stopping do not overlap, a log that is not running is not stopped, and the
\* log thread is not held up by a read for longer than ptt_log_stop sleeps.
LogSetAlive == fault => spoilt # {}
=============================================================================
