--------------------------- MODULE DataCallProofs ---------------------------
(***************************************************************************)
(* Proofs of the invariants of DataCall, for any number of entries, setup   *)
(* requests, retries, deactivations and checks.                             *)
(***************************************************************************)
EXTENDS DataCall, TLAPS

(***************************************************************************)
(* The inductive invariant                                                  *)
(***************************************************************************)
\* the manager of an entry in use
Owner(r) == manager[r].at \in Loop \cup {"free"}
Setup    == runner.at = "setup"

\* The threads that are at work point to entries and requests.
Pointers ==
    /\ runner.at \in {"setup", "signal"} => runner.dc \in Entries
    /\ Setup => runner.req \in Setups
    /\ runner.at = "signal" => runner.event \in Events
    /\ \A r \in Setups : manager[r].at # "none" => Dc(r) \in Entries

\* Entries in use, their managers, and the runner in the middle of a setup.
UsedOwned ==
    \A i \in Entries : entry[i].used =>
        (Setup /\ runner.dc = i) \/ \E r \in Setups : Owner(r) /\ Dc(r) = i
OwnersDiffer == \A r, s \in Setups : Owner(r) /\ Owner(s) /\ Dc(r) = Dc(s) => r = s
OwnersUsed   == \A r \in Setups : Owner(r) => entry[Dc(r)].used
StartedAsked == \A r \in Setups : manager[r].at # "none" => r \in asked
SetupReady   ==
    Setup => /\ entry[runner.dc].used
             /\ \A r \in Setups : Owner(r) => Dc(r) # runner.dc
             /\ runner.req \in asked
             /\ manager[runner.req].at = "none"
Owned == UsedOwned /\ OwnersDiffer /\ OwnersUsed /\ StartedAsked /\ SetupReady

\* While no entry was taken from under a manager in freedc, every manager has
\* the set of its own request until it destroys it.
ManagersLive == \A r \in Setups : Owner(r) \/ manager[r].at = "destroy" =>
                    entry[Dc(r)].set = r /\ r \in live
FreedUnused  == \A r \in Setups : manager[r].at \in {"destroy", "reset"} => ~entry[Dc(r)].used
SetupLive    == Setup => entry[runner.dc].set = runner.req /\ runner.req \in live
CrashIsLate  == crashed => runner.at = "signal" /\ ~entry[runner.dc].used
OwnSets      == ManagersLive /\ FreedUnused /\ SetupLive /\ CrashIsLate

\* A token in the table is of a request that was not answered, and is there once.
Tokens ==
    /\ \A i \in Entries : entry[i].token # None =>
          entry[i].token \in asked /\ answers[entry[i].token] = 0
    /\ \A i, j \in Entries : entry[i].token # None /\ entry[i].token = entry[j].token => i = j
    /\ \A r \in Setups : answers[r] <= 1 /\ (r \notin asked => answers[r] = 0)
    /\ Setup => answers[runner.req] = 0 /\ \A i \in Entries : entry[i].token # runner.req

\* A manager that has not answered its request has its token, and an
\* EVENT_START before it when it waits.
Answering(r) ==
    /\ Owner(r) => answers[r] = 1 \/ entry[Dc(r)].token = r
    /\ manager[r].at = "wait" => answers[r] = 1 \/ EVENT_START \in sig[r]
    /\ manager[r].at \in {"stop", "restart"} => answers[r] = 1
    /\ manager[r].at = "report" => entry[Dc(r)].active # INACTIVE
    /\ manager[r].at = "exit" => entry[Dc(r)].active = INACTIVE
    /\ manager[r].at \in {"exit"} \cup Freeing \cup {"done"} => answers[r] = 1

Alive   == raced \/ OwnSets
Replies == raced \/ \A r \in Setups : Answering(r)

\* The inductive invariant: types and pointers, owners, sets, answers, reports.
IInv == TypeOK /\ Pointers /\ Owned /\ Alive /\ Tokens /\ Replies /\ ReportedUpIsManaged

(***************************************************************************)
(* What a step does to an entry, a manager and the event sets               *)
(***************************************************************************)
EntryBecomes(i, used, active, token, set) ==
    /\ entry' \in [Entries -> EntryType]
    /\ entry'[i].used = used /\ entry'[i].active = active
    /\ entry'[i].token = token /\ entry'[i].set = set
    /\ \A j \in Entries : j # i => entry'[j] = entry[j]

ManagerBecomes(r, at, i) ==
    /\ manager' \in [Setups -> ManagerType]
    /\ manager'[r].at = at /\ manager'[r].dc = i
    /\ \A s \in Setups : s # r => manager'[s] = manager[s]

\* An entry that is assigned a value of its type.
LEMMA Entering ==
  ASSUME entry \in [Entries -> EntryType], NEW i \in Entries, NEW e \in EntryType, Enter(i, e)
  PROVE  EntryBecomes(i, e.used, e.active, e.token, e.set)
BY DEF Enter, EntryBecomes

\* getdc takes an entry, with a new set, and leaves the token.
LEMMA EntryTaken ==
  ASSUME entry \in [Entries -> EntryType], NEW i \in Entries, NEW r \in Setups,
         Enter(i, [entry[i] EXCEPT !.used = TRUE, !.cid = TRUE, !.set = r, !.active = INACTIVE])
  PROVE  EntryBecomes(i, TRUE, INACTIVE, entry[i].token, r)
<1> DEFINE old == entry[i]
           e   == [old EXCEPT !.used = TRUE, !.cid = TRUE, !.set = r, !.active = INACTIVE]
<1>1. old \in EntryType
  OBVIOUS
<1> HIDE DEF old
<1>2. e \in EntryType
  BY <1>1 DEF EntryType
<1>3. e.used = TRUE /\ e.active = INACTIVE /\ e.token = old.token /\ e.set = r
  BY <1>1 DEF EntryType
<1>4. Enter(i, e)
  BY DEF old
<1> HIDE DEF e
<1> QED
  BY <1>2, <1>3, <1>4, Entering DEF old

\* freedc after a refused context.
LEMMA EntryRefused ==
  ASSUME entry \in [Entries -> EntryType], NEW i \in Entries,
         Enter(i, [entry[i] EXCEPT !.used = FALSE, !.cid = FALSE, !.active = INACTIVE])
  PROVE  EntryBecomes(i, FALSE, INACTIVE, entry[i].token, entry[i].set)
<1> DEFINE old == entry[i]
           e   == [old EXCEPT !.used = FALSE, !.cid = FALSE, !.active = INACTIVE]
<1>1. old \in EntryType
  OBVIOUS
<1> HIDE DEF old
<1>2. e \in EntryType
  BY <1>1 DEF EntryType
<1>3. e.used = FALSE /\ e.active = INACTIVE /\ e.token = old.token /\ e.set = old.set
  BY <1>1 DEF EntryType
<1>4. Enter(i, e)
  BY DEF old
<1> HIDE DEF e
<1> QED
  BY <1>2, <1>3, <1>4, Entering DEF old

\* The entry gets the token of its request and is down.
LEMMA EntryStarted ==
  ASSUME entry \in [Entries -> EntryType], NEW i \in Entries, NEW r \in Setups,
         Enter(i, [entry[i] EXCEPT !.token = r, !.active = DOWN])
  PROVE  EntryBecomes(i, entry[i].used, DOWN, r, entry[i].set)
<1> DEFINE old == entry[i]
           e   == [old EXCEPT !.token = r, !.active = DOWN]
<1>1. old \in EntryType
  OBVIOUS
<1> HIDE DEF old
<1>2. e \in EntryType
  BY <1>1 DEF EntryType
<1>3. e.used = old.used /\ e.active = DOWN /\ e.token = r /\ e.set = old.set
  BY <1>1 DEF EntryType
<1>4. Enter(i, e)
  BY DEF old
<1> HIDE DEF e
<1> QED
  BY <1>2, <1>3, <1>4, Entering DEF old

\* Only the state of the call changes.
LEMMA EntryActive ==
  ASSUME entry \in [Entries -> EntryType], NEW i \in Entries, NEW a \in {INACTIVE, DOWN, UP},
         Enter(i, [entry[i] EXCEPT !.active = a])
  PROVE  EntryBecomes(i, entry[i].used, a, entry[i].token, entry[i].set)
<1> DEFINE old == entry[i]
           e   == [old EXCEPT !.active = a]
<1>1. old \in EntryType
  OBVIOUS
<1> HIDE DEF old
<1>2. e \in EntryType
  BY <1>1 DEF EntryType
<1>3. e.used = old.used /\ e.active = a /\ e.token = old.token /\ e.set = old.set
  BY <1>1 DEF EntryType
<1>4. Enter(i, e)
  BY DEF old
<1> HIDE DEF e
<1> QED
  BY <1>2, <1>3, <1>4, Entering DEF old

\* The token is taken out of the entry.
LEMMA EntryAnswered ==
  ASSUME entry \in [Entries -> EntryType], NEW i \in Entries,
         Enter(i, [entry[i] EXCEPT !.token = None])
  PROVE  EntryBecomes(i, entry[i].used, entry[i].active, None, entry[i].set)
<1> DEFINE old == entry[i]
           e   == [old EXCEPT !.token = None]
<1>1. old \in EntryType
  OBVIOUS
<1> HIDE DEF old
<1>2. e \in EntryType
  BY <1>1 DEF EntryType
<1>3. e.used = old.used /\ e.active = old.active /\ e.token = None /\ e.set = old.set
  BY <1>1 DEF EntryType
<1>4. Enter(i, e)
  BY DEF old
<1> HIDE DEF e
<1> QED
  BY <1>2, <1>3, <1>4, Entering DEF old

\* The first part of freedc.
LEMMA EntryFreed ==
  ASSUME entry \in [Entries -> EntryType], NEW i \in Entries,
         Enter(i, [entry[i] EXCEPT !.cid = FALSE, !.used = FALSE])
  PROVE  EntryBecomes(i, FALSE, entry[i].active, entry[i].token, entry[i].set)
<1> DEFINE old == entry[i]
           e   == [old EXCEPT !.cid = FALSE, !.used = FALSE]
<1>1. old \in EntryType
  OBVIOUS
<1> HIDE DEF old
<1>2. e \in EntryType
  BY <1>1 DEF EntryType
<1>3. e.used = FALSE /\ e.active = old.active /\ e.token = old.token /\ e.set = old.set
  BY <1>1 DEF EntryType
<1>4. Enter(i, e)
  BY DEF old
<1> HIDE DEF e
<1> QED
  BY <1>2, <1>3, <1>4, Entering DEF old

\* A manager that is assigned a value of its type.
LEMMA Becoming ==
  ASSUME manager \in [Setups -> ManagerType], NEW r \in Setups, NEW m \in ManagerType, Become(r, m)
  PROVE  ManagerBecomes(r, m.at, m.dc)
BY DEF Become, ManagerBecomes

\* A manager goes on to another place of its loop.
LEMMA ManagerAt ==
  ASSUME manager \in [Setups -> ManagerType], NEW r \in Setups,
         NEW at \in Loop \cup Freeing \cup {"done"}, Become(r, [manager[r] EXCEPT !.at = at])
  PROVE  ManagerBecomes(r, at, Dc(r))
<1> DEFINE old == manager[r]
           m   == [old EXCEPT !.at = at]
<1>1. old \in ManagerType
  OBVIOUS
<1> HIDE DEF old
<1>2. m \in ManagerType /\ m.at = at /\ m.dc = old.dc
  BY <1>1 DEF ManagerType
<1>3. Become(r, m)
  BY DEF old
<1> HIDE DEF m
<1> QED
  BY <1>2, <1>3, Becoming DEF old, Dc

\* The same, and the watchdog is switched.
LEMMA ManagerWatched ==
  ASSUME manager \in [Setups -> ManagerType], NEW r \in Setups,
         NEW at \in Loop \cup Freeing \cup {"done"}, NEW w \in BOOLEAN,
         Become(r, [manager[r] EXCEPT !.at = at, !.watchdog = w])
  PROVE  ManagerBecomes(r, at, Dc(r))
<1> DEFINE old == manager[r]
           m   == [old EXCEPT !.at = at, !.watchdog = w]
<1>1. old \in ManagerType
  OBVIOUS
<1> HIDE DEF old
<1>2. m \in ManagerType /\ m.at = at /\ m.dc = old.dc
  BY <1>1 DEF ManagerType
<1>3. Become(r, m)
  BY DEF old
<1> HIDE DEF m
<1> QED
  BY <1>2, <1>3, Becoming DEF old, Dc

\* The same, and the retries are set.
LEMMA ManagerCounts ==
  ASSUME manager \in [Setups -> ManagerType], NEW r \in Setups,
         NEW at \in Loop \cup Freeing \cup {"done"}, NEW n \in 0 .. Retries,
         Become(r, [manager[r] EXCEPT !.at = at, !.restart = n])
  PROVE  ManagerBecomes(r, at, Dc(r))
<1> DEFINE old == manager[r]
           m   == [old EXCEPT !.at = at, !.restart = n]
<1>1. old \in ManagerType
  OBVIOUS
<1> HIDE DEF old
<1>2. m \in ManagerType /\ m.at = at /\ m.dc = old.dc
  BY <1>1 DEF ManagerType
<1>3. Become(r, m)
  BY DEF old
<1> HIDE DEF m
<1> QED
  BY <1>2, <1>3, Becoming DEF old, Dc

\* A set of events that is not empty has a lowest one.
LEMMA FirstBit ==
  ASSUME NEW S \in SUBSET Events, S # {}
  PROVE  FindFirstBit(S) \in S /\ \A e \in S : FindFirstBit(S) <= e
<1>1. \E e \in S : \A f \in S : e <= f
  <2>1. CASE EVENT_START \in S
    BY <2>1 DEF Events, EVENT_START, EVENT_STOP, EVENT_RESTART
  <2>2. CASE EVENT_START \notin S /\ EVENT_STOP \in S
    BY <2>2 DEF Events, EVENT_START, EVENT_STOP, EVENT_RESTART
  <2>3. CASE S = {EVENT_RESTART}
    BY <2>3 DEF EVENT_RESTART
  <2> QED
    BY <2>1, <2>2, <2>3 DEF Events
<1> QED
  BY <1>1 DEF FindFirstBit

\* eventset_set adds an event; on a set that is not destroyed nothing crashes.
LEMMA Signalling ==
  ASSUME TypeOK, NEW i \in Entries, NEW e \in Events, Signal(i, e)
  PROVE  /\ sig' \in [Setups -> SUBSET Events] /\ crashed' \in BOOLEAN
         /\ \A r \in Setups : sig[r] \subseteq sig'[r]
         /\ entry[i].set \in live => e \in sig'[entry[i].set] /\ crashed' = crashed
<1>1. CASE entry[i].set \in live
  <2> DEFINE s == entry[i].set
             S == SetBit(sig[s], e)
  <2>1. s \in Setups /\ S \in SUBSET Events /\ sig[s] \subseteq S /\ e \in S
    BY <1>1 DEF TypeOK, SetBit
  <2>2. sig' = [sig EXCEPT ![s] = S] /\ crashed' = crashed
    BY <1>1 DEF Signal
  <2> HIDE DEF s, S
  <2>3. /\ sig' \in [Setups -> SUBSET Events] /\ crashed' \in BOOLEAN
        /\ sig'[s] = S /\ \A r \in Setups : r # s => sig'[r] = sig[r]
    BY <2>1, <2>2 DEF TypeOK
  <2> QED
    BY <2>1, <2>2, <2>3 DEF s
<1>2. CASE entry[i].set \notin live
  BY <1>2 DEF Signal, TypeOK
<1> QED
  BY <1>1, <1>2

\* A wait that ends takes the lowest event of the set the entry points to.
LEMMA Taking ==
  ASSUME TypeOK, NEW r \in Setups, NEW e \in Events, Take(r, e)
  PROVE  /\ manager[r].at = "wait"
         /\ sig' \in [Setups -> SUBSET Events]
         /\ entry[Dc(r)].set \in live /\ e \in sig[entry[Dc(r)].set]
         /\ \A f \in sig[entry[Dc(r)].set] : e <= f
         /\ \A s \in Setups : s # entry[Dc(r)].set => sig'[s] = sig[s]
<1>1. sig[entry[Dc(r)].set] \in SUBSET Events /\ sig[entry[Dc(r)].set] # {}
  BY DEF Take, TypeOK, TimedOut
<1> QED
  BY <1>1, FirstBit DEF Take, TypeOK, At, ClearBit

\* reportDataCallStatus answers the token of the entry, if there is one, clears it, and
\* tells the framework that the call is up only when it is.
LEMMA Reporting ==
  ASSUME TypeOK, NEW i \in Entries, ReportDataCallStatus(i)
  PROVE  /\ EntryBecomes(i, entry[i].used, entry[i].active,
                         IF entry[i].active = INACTIVE THEN entry[i].token ELSE None,
                         entry[i].set)
         /\ answers' = IF entry[i].active # INACTIVE /\ entry[i].token # None
                       THEN [answers EXCEPT ![entry[i].token] = @ + 1] ELSE answers
         /\ view' \in [Entries -> {"none", "up", "down"}]
         /\ view'[i] = "up" => entry[i].active = UP \/ (entry[i].active = DOWN /\ view[i] = "up")
         /\ \A j \in Entries : j # i => view'[j] = view[j]
         /\ sig' \in [Setups -> SUBSET Events] /\ crashed' \in BOOLEAN
         /\ \A r \in Setups : sig[r] \subseteq sig'[r]
         /\ entry[i].set \in live => crashed' = crashed
<1> DEFINE e == entry[i]
           Entry == EntryBecomes(i, e.used, e.active,
                       IF e.active = INACTIVE THEN e.token ELSE None, e.set)
           Counted == answers' = IF e.active # INACTIVE /\ e.token # None
                       THEN [answers EXCEPT ![e.token] = @ + 1] ELSE answers
           Set == /\ sig' \in [Setups -> SUBSET Events] /\ crashed' \in BOOLEAN
                  /\ \A r \in Setups : sig[r] \subseteq sig'[r]
                  /\ e.set \in live => crashed' = crashed
<1>1. EVENT_STOP \in Events
  BY DEF Events
<1>2. ASSUME e.active # INACTIVE, e.token # None PROVE Entry /\ Counted
  <2>1. Enter(i, [entry[i] EXCEPT !.token = None]) /\ Complete(e.token)
    BY <1>2 DEF ReportDataCallStatus
  <2>2. EntryBecomes(i, e.used, e.active, None, e.set)
    BY <2>1, EntryAnswered DEF TypeOK
  <2> QED
    BY <1>2, <2>1, <2>2 DEF Complete
<1>3. ASSUME ~(e.active # INACTIVE /\ e.token # None) PROVE Entry /\ Counted
  <2>1. answers' = answers /\ entry' = entry
    BY <1>3 DEF ReportDataCallStatus
  <2>2. entry \in [Entries -> EntryType]
    BY DEF TypeOK
  <2>3. EntryBecomes(i, e.used, e.active, e.token, e.set)
    BY <2>1, <2>2 DEF EntryBecomes
  <2>4. e.token = IF e.active = INACTIVE THEN e.token ELSE None
    BY <1>3
  <2> QED
    BY <1>3, <2>1, <2>3, <2>4
<1>4. ASSUME e.active = DOWN PROVE Set
  <2>1. Signal(i, EVENT_STOP)
    BY <1>4 DEF ReportDataCallStatus
  <2> QED
    BY <1>1, <2>1, Signalling
<1>5. ASSUME e.active # DOWN PROVE Set
  BY <1>5 DEF ReportDataCallStatus, TypeOK
<1>6. /\ view' \in [Entries -> {"none", "up", "down"}]
      /\ view'[i] = "up" => e.active = UP \/ (e.active = DOWN /\ view[i] = "up")
      /\ \A j \in Entries : j # i => view'[j] = view[j]
  BY DEF ReportDataCallStatus, TypeOK, EntryType
<1>7. Entry /\ Counted
  BY <1>2, <1>3
<1>8. Set
  BY <1>4, <1>5
<1> QED
  BY <1>6, <1>7, <1>8

\* The steps of the runner and of the managers, in terms of the lemmas above.
LEMMA GetdcEffect ==
  ASSUME TypeOK, Pointers, NEW r \in Setups, NEW i \in Entries, Getdc(r, i)
  PROVE  EntryBecomes(i, TRUE, INACTIVE, entry[i].token, r)
BY EntryTaken DEF Getdc, TypeOK

\* What ContextRefused does to the entry and its set.
LEMMA ContextRefusedEffect ==
  ASSUME TypeOK, Pointers, Owned, ContextRefused
  PROVE  /\ runner.dc \in Entries /\ runner.req \in Setups
         /\ EntryBecomes(runner.dc, FALSE, INACTIVE, entry[runner.dc].token, entry[runner.dc].set)
         /\ \/ entry[runner.dc].set \in live /\ live' = live \ {entry[runner.dc].set}
               /\ crashed' = crashed
            \/ entry[runner.dc].set \notin live /\ live' = live /\ crashed' = TRUE
<1>1. runner.dc \in Entries /\ runner.req \in Setups /\ entry[runner.dc].used
  BY DEF ContextRefused, Pointers, Owned, SetupReady, Setup
<1>2. /\ Enter(runner.dc, [entry[runner.dc] EXCEPT !.used = FALSE, !.cid = FALSE, !.active = INACTIVE])
      /\ \/ entry[runner.dc].set \in live /\ live' = live \ {entry[runner.dc].set}
            /\ crashed' = crashed
         \/ entry[runner.dc].set \notin live /\ live' = live /\ crashed' = TRUE
  BY <1>1 DEF ContextRefused, Freedc
<1> QED
  BY <1>1, <1>2, EntryRefused DEF TypeOK

\* What StartManager does to the entry and the manager.
LEMMA StartManagerEffect ==
  ASSUME TypeOK, Pointers, StartManager
  PROVE  /\ runner.dc \in Entries /\ runner.req \in Setups
         /\ EntryBecomes(runner.dc, entry[runner.dc].used, DOWN, runner.req, entry[runner.dc].set)
         /\ ManagerBecomes(runner.req, "wait", runner.dc)
<1> DEFINE m == [at |-> "wait", dc |-> runner.dc, watchdog |-> FALSE, restart |-> 0]
<1>1. runner.dc \in Entries /\ runner.req \in Setups
  BY DEF StartManager, Pointers, Setup
<1>2. m \in ManagerType /\ m.at = "wait" /\ m.dc = runner.dc
  BY <1>1, DataCallAssumption DEF ManagerType, Loop
<1>3. Become(runner.req, m)
  BY DEF StartManager
<1> HIDE DEF m
<1>4. ManagerBecomes(runner.req, "wait", runner.dc)
  BY <1>1, <1>2, <1>3, Becoming DEF TypeOK
<1>5. EntryBecomes(runner.dc, entry[runner.dc].used, DOWN, runner.req, entry[runner.dc].set)
  BY <1>1, EntryStarted DEF StartManager, TypeOK
<1> QED
  BY <1>1, <1>4, <1>5

\* What Start does to the entry and the manager.
LEMMA StartEffect ==
  ASSUME TypeOK, Pointers, NEW r \in Setups, Start(r)
  PROVE  /\ Dc(r) \in Entries
         /\ ManagerBecomes(r, "replace", Dc(r))
<1> DEFINE n == IF manager[r].restart > 0 THEN manager[r].restart - 1 ELSE manager[r].restart
<1>1. manager[r].at = "wait" /\ Dc(r) \in Entries
  BY DEF Start, Take, At, Pointers
<1>2. manager[r].restart \in 0 .. Retries
  BY DEF TypeOK, ManagerType
<1>3. n \in 0 .. Retries
  BY <1>2, DataCallAssumption
<1>4. Become(r, [manager[r] EXCEPT !.at = "replace", !.restart = n])
  BY DEF Start
<1> HIDE DEF n
<1> QED
  BY <1>1, <1>3, <1>4, ManagerCounts DEF TypeOK, Loop

\* What Replaced does to the manager.
LEMMA ReplacedEffect ==
  ASSUME TypeOK, Pointers, NEW r \in Setups, Replaced(r)
  PROVE  /\ Dc(r) \in Entries
         /\ ManagerBecomes(r, "launch", Dc(r))
<1>1. Dc(r) \in Entries
  BY DEF Replaced, Pointers, At
<1>2. ManagerBecomes(r, "launch", Dc(r))
  <2>1. Become(r, [manager[r] EXCEPT !.at = "launch"])
    BY DEF Replaced
  <2>2. "launch" \in Loop \cup Freeing \cup {"done"} /\ manager \in [Setups -> ManagerType]
    BY DEF Loop, Freeing, TypeOK
  <2> QED
    BY <2>1, <2>2, ManagerAt
<1> QED
  BY <1>1, <1>2

\* What Launch does to the manager.
LEMMA LaunchEffect ==
  ASSUME TypeOK, Pointers, NEW r \in Setups, Launch(r)
  PROVE  /\ Dc(r) \in Entries
         /\ ManagerBecomes(r, "dial", Dc(r))
<1>1. Dc(r) \in Entries
  BY DEF Launch, Pointers, At
<1>2. ManagerBecomes(r, "dial", Dc(r))
  <2>1. Become(r, [manager[r] EXCEPT !.at = "dial"])
    BY DEF Launch
  <2>2. "dial" \in Loop \cup Freeing \cup {"done"} /\ manager \in [Setups -> ManagerType]
    BY DEF Loop, Freeing, TypeOK
  <2> QED
    BY <2>1, <2>2, ManagerAt
<1> QED
  BY <1>1, <1>2

\* What Connected does to the entry and the manager.
LEMMA ConnectedEffect ==
  ASSUME TypeOK, Pointers, NEW r \in Setups, Connected(r)
  PROVE  /\ Dc(r) \in Entries
         /\ ManagerBecomes(r, "report", Dc(r))
         /\ EntryBecomes(Dc(r), entry[Dc(r)].used, UP, entry[Dc(r)].token, entry[Dc(r)].set)
<1>1. Dc(r) \in Entries
  BY DEF Connected, Pointers, At
<1>2. ManagerBecomes(r, "report", Dc(r))
  <2>1. Become(r, [manager[r] EXCEPT !.at = "report", !.watchdog = TRUE])
    BY DEF Connected
  <2>2. "report" \in Loop \cup Freeing \cup {"done"} /\ manager \in [Setups -> ManagerType]
    BY DEF Loop, Freeing, TypeOK
  <2> QED
    BY <2>1, <2>2, ManagerWatched
<1>3. EntryBecomes(Dc(r), entry[Dc(r)].used, UP, entry[Dc(r)].token, entry[Dc(r)].set)
  <2>1. Enter(Dc(r), [entry[Dc(r)] EXCEPT !.active = UP])
    BY DEF Connected
  <2> QED
    BY <1>1, <2>1, EntryActive DEF TypeOK
<1> QED
  BY <1>1, <1>2, <1>3

\* What DialFails does to the entry and the manager.
LEMMA DialFailsEffect ==
  ASSUME TypeOK, Pointers, NEW r \in Setups, DialFails(r)
  PROVE  /\ Dc(r) \in Entries
         /\ ManagerBecomes(r, "report", Dc(r))
         /\ EntryBecomes(Dc(r), entry[Dc(r)].used, DOWN, entry[Dc(r)].token, entry[Dc(r)].set)
<1>1. Dc(r) \in Entries
  BY DEF DialFails, Pointers, At
<1>2. ManagerBecomes(r, "report", Dc(r))
  <2>1. Become(r, [manager[r] EXCEPT !.at = "report"])
    BY DEF DialFails
  <2>2. "report" \in Loop \cup Freeing \cup {"done"} /\ manager \in [Setups -> ManagerType]
    BY DEF Loop, Freeing, TypeOK
  <2> QED
    BY <2>1, <2>2, ManagerAt
<1>3. EntryBecomes(Dc(r), entry[Dc(r)].used, DOWN, entry[Dc(r)].token, entry[Dc(r)].set)
  <2>1. Enter(Dc(r), [entry[Dc(r)] EXCEPT !.active = DOWN])
    BY DEF DialFails
  <2> QED
    BY <1>1, <2>1, EntryActive DEF TypeOK
<1> QED
  BY <1>1, <1>2, <1>3

\* What DialAgain does to the entry and the manager.
LEMMA DialAgainEffect ==
  ASSUME TypeOK, Pointers, NEW r \in Setups, DialAgain(r)
  PROVE  /\ Dc(r) \in Entries
         /\ ManagerBecomes(r, "wait", Dc(r))
<1>1. Dc(r) \in Entries
  BY DEF DialAgain, Pointers, At
<1>2. ManagerBecomes(r, "wait", Dc(r))
  <2>1. Become(r, [manager[r] EXCEPT !.at = "wait"])
    BY DEF DialAgain
  <2>2. "wait" \in Loop \cup Freeing \cup {"done"} /\ manager \in [Setups -> ManagerType]
    BY DEF Loop, Freeing, TypeOK
  <2> QED
    BY <2>1, <2>2, ManagerAt
<1> QED
  BY <1>1, <1>2

\* What Stop does to the manager.
LEMMA StopEffect ==
  ASSUME TypeOK, Pointers, NEW r \in Setups, Stop(r)
  PROVE  /\ Dc(r) \in Entries
         /\ ManagerBecomes(r, "stop", Dc(r))
<1>1. Dc(r) \in Entries
  BY DEF Stop, Pointers, Take, At
<1>2. Become(r, [manager[r] EXCEPT !.at = "stop", !.watchdog = FALSE])
  BY DEF Stop
<1>3. "stop" \in Loop \cup Freeing \cup {"done"} /\ manager \in [Setups -> ManagerType]
  BY DEF Loop, Freeing, TypeOK
<1> QED
  BY <1>1, <1>2, <1>3, ManagerWatched

\* What StopEnds does to the entry and the manager.
LEMMA StopEndsEffect ==
  ASSUME TypeOK, Pointers, NEW r \in Setups, StopEnds(r)
  PROVE  /\ Dc(r) \in Entries
         /\ ManagerBecomes(r, "exit", Dc(r))
         /\ EntryBecomes(Dc(r), entry[Dc(r)].used, INACTIVE, entry[Dc(r)].token, entry[Dc(r)].set)
<1>1. Dc(r) \in Entries
  BY DEF StopEnds, Pointers, At
<1>2. ManagerBecomes(r, "exit", Dc(r))
  <2>1. Become(r, [manager[r] EXCEPT !.at = "exit"])
    BY DEF StopEnds
  <2>2. "exit" \in Loop \cup Freeing \cup {"done"} /\ manager \in [Setups -> ManagerType]
    BY DEF Loop, Freeing, TypeOK
  <2> QED
    BY <2>1, <2>2, ManagerAt
<1>3. EntryBecomes(Dc(r), entry[Dc(r)].used, INACTIVE, entry[Dc(r)].token, entry[Dc(r)].set)
  <2>1. Enter(Dc(r), [entry[Dc(r)] EXCEPT !.active = INACTIVE])
    BY DEF StopEnds
  <2> QED
    BY <1>1, <2>1, EntryActive DEF TypeOK
<1> QED
  BY <1>1, <1>2, <1>3

\* What Restart does to the manager.
LEMMA RestartEffect ==
  ASSUME TypeOK, Pointers, NEW r \in Setups, Restart(r)
  PROVE  /\ Dc(r) \in Entries
         /\ ManagerBecomes(r, "restart", Dc(r))
<1>1. Dc(r) \in Entries
  BY DEF Restart, Pointers, Take, At
<1>2. Become(r, [manager[r] EXCEPT !.at = "restart", !.restart = Retries])
  BY DEF Restart
<1>3. /\ "restart" \in Loop \cup Freeing \cup {"done"} /\ manager \in [Setups -> ManagerType]
      /\ Retries \in 0 .. Retries
  BY DataCallAssumption DEF Loop, Freeing, TypeOK
<1> QED
  BY <1>1, <1>2, <1>3, ManagerCounts

\* What RestartEnds does to the manager.
LEMMA RestartEndsEffect ==
  ASSUME TypeOK, Pointers, NEW r \in Setups, RestartEnds(r)
  PROVE  /\ Dc(r) \in Entries
         /\ ManagerBecomes(r, "wait", Dc(r))
<1>1. Dc(r) \in Entries
  BY DEF RestartEnds, Pointers, At
<1>2. ManagerBecomes(r, "wait", Dc(r))
  <2>1. Become(r, [manager[r] EXCEPT !.at = "wait"])
    BY DEF RestartEnds
  <2>2. "wait" \in Loop \cup Freeing \cup {"done"} /\ manager \in [Setups -> ManagerType]
    BY DEF Loop, Freeing, TypeOK
  <2> QED
    BY <2>1, <2>2, ManagerAt
<1> QED
  BY <1>1, <1>2

\* What Report does to the entry and the manager.
LEMMA ReportEffect ==
  ASSUME TypeOK, Pointers, NEW r \in Setups, Report(r)
  PROVE  /\ Dc(r) \in Entries
         /\ \/ manager[r].at = "report" /\ ManagerBecomes(r, "wait", Dc(r))
            \/ manager[r].at = "exit" /\ ManagerBecomes(r, "free", Dc(r))
<1>1. Dc(r) \in Entries /\ manager \in [Setups -> ManagerType]
  BY DEF Report, TypeOK, Pointers, At
<1>2. CASE manager[r].at = "report" /\ Become(r, [manager[r] EXCEPT !.at = "wait"])
  <2>1. "wait" \in Loop \cup Freeing \cup {"done"}
    BY DEF Loop
  <2>2. ManagerBecomes(r, "wait", Dc(r))
    BY <1>1, <1>2, <2>1, ManagerAt
  <2> QED
    BY <1>1, <1>2, <2>2
<1>3. CASE manager[r].at = "exit" /\ Become(r, [manager[r] EXCEPT !.at = "free"])
  <2>1. "free" \in Loop \cup Freeing \cup {"done"}
    BY DEF Freeing
  <2>2. ManagerBecomes(r, "free", Dc(r))
    BY <1>1, <1>3, <2>1, ManagerAt
  <2> QED
    BY <1>1, <1>3, <2>2
<1> QED
  BY <1>2, <1>3 DEF Report, At

\* What FreeEntry does to the entry and the manager.
LEMMA FreeEntryEffect ==
  ASSUME TypeOK, Pointers, Owned, NEW r \in Setups, FreeEntry(r)
  PROVE  /\ Dc(r) \in Entries
         /\ ManagerBecomes(r, "destroy", Dc(r))
         /\ EntryBecomes(Dc(r), FALSE, entry[Dc(r)].active, entry[Dc(r)].token, entry[Dc(r)].set)
<1>1. Dc(r) \in Entries /\ entry[Dc(r)].used
  BY DEF FreeEntry, Pointers, At, Owned, OwnersUsed, Owner
<1>2. ManagerBecomes(r, "destroy", Dc(r))
  <2>1. Become(r, [manager[r] EXCEPT !.at = "destroy"])
    BY <1>1 DEF FreeEntry
  <2>2. "destroy" \in Loop \cup Freeing \cup {"done"} /\ manager \in [Setups -> ManagerType]
    BY DEF Loop, Freeing, TypeOK
  <2> QED
    BY <2>1, <2>2, ManagerAt
<1>3. EntryBecomes(Dc(r), FALSE, entry[Dc(r)].active, entry[Dc(r)].token, entry[Dc(r)].set)
  <2>1. Enter(Dc(r), [entry[Dc(r)] EXCEPT !.cid = FALSE, !.used = FALSE])
    BY <1>1 DEF FreeEntry
  <2> QED
    BY <1>1, <2>1, EntryFreed DEF TypeOK
<1> QED
  BY <1>1, <1>2, <1>3

\* What DestroySet does to the entry and the manager.
LEMMA DestroySetEffect ==
  ASSUME TypeOK, Pointers, NEW r \in Setups, DestroySet(r)
  PROVE  /\ Dc(r) \in Entries
         /\ ManagerBecomes(r, "reset", Dc(r))
<1>1. Dc(r) \in Entries
  BY DEF DestroySet, Pointers, At
<1>2. ManagerBecomes(r, "reset", Dc(r))
  <2>1. Become(r, [manager[r] EXCEPT !.at = "reset"])
    BY DEF DestroySet
  <2>2. "reset" \in Loop \cup Freeing \cup {"done"} /\ manager \in [Setups -> ManagerType]
    BY DEF Loop, Freeing, TypeOK
  <2> QED
    BY <2>1, <2>2, ManagerAt
<1> QED
  BY <1>1, <1>2

\* What ResetActive does to the entry and the manager.
LEMMA ResetActiveEffect ==
  ASSUME TypeOK, Pointers, NEW r \in Setups, ResetActive(r)
  PROVE  /\ Dc(r) \in Entries
         /\ ManagerBecomes(r, "done", Dc(r))
         /\ EntryBecomes(Dc(r), entry[Dc(r)].used, INACTIVE, entry[Dc(r)].token, entry[Dc(r)].set)
<1>1. Dc(r) \in Entries
  BY DEF ResetActive, Pointers, At
<1>2. ManagerBecomes(r, "done", Dc(r))
  <2>1. Become(r, [manager[r] EXCEPT !.at = "done"])
    BY DEF ResetActive
  <2>2. "done" \in Loop \cup Freeing \cup {"done"} /\ manager \in [Setups -> ManagerType]
    BY DEF Loop, Freeing, TypeOK
  <2> QED
    BY <2>1, <2>2, ManagerAt
<1>3. EntryBecomes(Dc(r), entry[Dc(r)].used, INACTIVE, entry[Dc(r)].token, entry[Dc(r)].set)
  <2>1. Enter(Dc(r), [entry[Dc(r)] EXCEPT !.active = INACTIVE])
    BY DEF ResetActive
  <2> QED
    BY <1>1, <2>1, EntryActive DEF TypeOK
<1> QED
  BY <1>1, <1>2, <1>3

\* No step breaks the types.
LEMMA TypeStep ==
  ASSUME TypeOK, Pointers, Owned, Next
  PROVE  TypeOK'
<1>1. ASSUME NEW r \in Setups, SetupFails(r) PROVE TypeOK'
  <2>1. entry' \in [Entries -> EntryType] /\ manager' \in [Setups -> ManagerType]
    BY <1>1 DEF SetupFails, TypeOK, EntryBecomes, ManagerBecomes
  <2>2. sig' \in [Setups -> SUBSET Events] /\ crashed' \in BOOLEAN
    BY <1>1 DEF SetupFails, TypeOK
  <2>3. runner' \in RunnerType
    BY <1>1, NoneAssumption DEF SetupFails, TypeOK, RunnerType, Idle, Events
  <2>4. /\ cdma' \in BOOLEAN /\ live' \in SUBSET Setups /\ daemon' \in Setups \cup {None}
        /\ asked' \in SUBSET Setups /\ refused' \in SUBSET Setups /\ raced' \in BOOLEAN
        /\ deactivations' \in 0 .. MaxDeactivations /\ checks' \in 0 .. MaxChecks
    BY <1>1, DataCallAssumption DEF SetupFails, TypeOK, RunnerType
  <2>5. answers' \in [Setups -> Nat] /\ view' \in [Entries -> {"none", "up", "down"}]
    BY <1>1 DEF SetupFails, TypeOK, Complete, EntryType
  <2> QED
    BY <2>1, <2>2, <2>3, <2>4, <2>5 DEF TypeOK
<1>2. ASSUME NEW r \in Setups, NEW i \in Entries, Getdc(r, i) PROVE TypeOK'
  <2>1. entry' \in [Entries -> EntryType] /\ manager' \in [Setups -> ManagerType]
    BY <1>2, GetdcEffect DEF Getdc, TypeOK, EntryBecomes, ManagerBecomes
  <2>2. sig' \in [Setups -> SUBSET Events] /\ crashed' \in BOOLEAN
    BY <1>2 DEF Getdc, TypeOK
  <2>3. runner' \in RunnerType
    BY <1>2, NoneAssumption DEF Getdc, TypeOK, RunnerType, Idle, Events
  <2>4. /\ cdma' \in BOOLEAN /\ live' \in SUBSET Setups /\ daemon' \in Setups \cup {None}
        /\ asked' \in SUBSET Setups /\ refused' \in SUBSET Setups /\ raced' \in BOOLEAN
        /\ deactivations' \in 0 .. MaxDeactivations /\ checks' \in 0 .. MaxChecks
    BY <1>2, DataCallAssumption DEF Getdc, TypeOK, RunnerType
  <2>5. answers' \in [Setups -> Nat] /\ view' \in [Entries -> {"none", "up", "down"}]
    BY <1>2 DEF Getdc, TypeOK, Complete, EntryType
  <2> QED
    BY <2>1, <2>2, <2>3, <2>4, <2>5 DEF TypeOK
<1>3. ASSUME ContextRefused PROVE TypeOK'
  <2>1. entry' \in [Entries -> EntryType] /\ manager' \in [Setups -> ManagerType]
    BY <1>3, ContextRefusedEffect DEF ContextRefused, TypeOK, EntryBecomes, ManagerBecomes
  <2>2. sig' \in [Setups -> SUBSET Events] /\ crashed' \in BOOLEAN
    BY <1>3, ContextRefusedEffect DEF ContextRefused, TypeOK
  <2>3. runner' \in RunnerType
    BY <1>3, NoneAssumption DEF ContextRefused, TypeOK, RunnerType, Idle, Events
  <2>4. /\ cdma' \in BOOLEAN /\ live' \in SUBSET Setups /\ daemon' \in Setups \cup {None}
        /\ asked' \in SUBSET Setups /\ refused' \in SUBSET Setups /\ raced' \in BOOLEAN
        /\ deactivations' \in 0 .. MaxDeactivations /\ checks' \in 0 .. MaxChecks
    <3>1. live' = live \/ live' = live \ {entry[runner.dc].set}
      BY <1>3, ContextRefusedEffect
    <3>2. refused' = refused \cup {runner.req} /\ runner.req \in Setups
      BY <1>3, ContextRefusedEffect DEF ContextRefused
    <3>3. UNCHANGED <<cdma, daemon, asked, raced, deactivations, checks>>
      BY <1>3 DEF ContextRefused
    <3> QED
      BY <3>1, <3>2, <3>3 DEF TypeOK
  <2>5. answers' \in [Setups -> Nat] /\ view' \in [Entries -> {"none", "up", "down"}]
    BY <1>3 DEF ContextRefused, TypeOK, Complete, EntryType
  <2> QED
    BY <2>1, <2>2, <2>3, <2>4, <2>5 DEF TypeOK
<1>4. ASSUME StartManager PROVE TypeOK'
  <2>1. entry' \in [Entries -> EntryType] /\ manager' \in [Setups -> ManagerType]
    BY <1>4, StartManagerEffect DEF StartManager, TypeOK, EntryBecomes, ManagerBecomes
  <2>2. sig' \in [Setups -> SUBSET Events] /\ crashed' \in BOOLEAN
    BY <1>4, Signalling, StartManagerEffect DEF StartManager, Events, Pointers, At
  <2>3. runner' \in RunnerType
    BY <1>4, NoneAssumption DEF StartManager, TypeOK, RunnerType, Idle, Events
  <2>4. /\ cdma' \in BOOLEAN /\ live' \in SUBSET Setups /\ daemon' \in Setups \cup {None}
        /\ asked' \in SUBSET Setups /\ refused' \in SUBSET Setups /\ raced' \in BOOLEAN
        /\ deactivations' \in 0 .. MaxDeactivations /\ checks' \in 0 .. MaxChecks
    BY <1>4, DataCallAssumption DEF StartManager, TypeOK, RunnerType
  <2>5. answers' \in [Setups -> Nat] /\ view' \in [Entries -> {"none", "up", "down"}]
    BY <1>4 DEF StartManager, TypeOK, Complete, EntryType
  <2> QED
    BY <2>1, <2>2, <2>3, <2>4, <2>5 DEF TypeOK
<1>5. ASSUME NEW i \in Entries, Deactivate(i) PROVE TypeOK'
  <2>1. entry' \in [Entries -> EntryType] /\ manager' \in [Setups -> ManagerType]
    BY <1>5 DEF Deactivate, TypeOK, EntryBecomes, ManagerBecomes
  <2>2. sig' \in [Setups -> SUBSET Events] /\ crashed' \in BOOLEAN
    BY <1>5 DEF Deactivate, TypeOK
  <2>3. runner' \in RunnerType
    BY <1>5, NoneAssumption DEF Deactivate, TypeOK, RunnerType, Idle, Events
  <2>4. /\ cdma' \in BOOLEAN /\ live' \in SUBSET Setups /\ daemon' \in Setups \cup {None}
        /\ asked' \in SUBSET Setups /\ refused' \in SUBSET Setups /\ raced' \in BOOLEAN
        /\ deactivations' \in 0 .. MaxDeactivations /\ checks' \in 0 .. MaxChecks
    BY <1>5, DataCallAssumption DEF Deactivate, TypeOK, RunnerType
  <2>5. answers' \in [Setups -> Nat] /\ view' \in [Entries -> {"none", "up", "down"}]
    BY <1>5 DEF Deactivate, TypeOK, Complete, EntryType
  <2> QED
    BY <2>1, <2>2, <2>3, <2>4, <2>5 DEF TypeOK
<1>6. ASSUME Check PROVE TypeOK'
  <2>1. entry' \in [Entries -> EntryType] /\ manager' \in [Setups -> ManagerType]
    BY <1>6 DEF Check, TypeOK, EntryBecomes, ManagerBecomes
  <2>2. sig' \in [Setups -> SUBSET Events] /\ crashed' \in BOOLEAN
    BY <1>6 DEF Check, TypeOK
  <2>3. runner' \in RunnerType
    BY <1>6, NoneAssumption DEF Check, TypeOK, RunnerType, Idle, Events
  <2>4. /\ cdma' \in BOOLEAN /\ live' \in SUBSET Setups /\ daemon' \in Setups \cup {None}
        /\ asked' \in SUBSET Setups /\ refused' \in SUBSET Setups /\ raced' \in BOOLEAN
        /\ deactivations' \in 0 .. MaxDeactivations /\ checks' \in 0 .. MaxChecks
    BY <1>6, DataCallAssumption DEF Check, TypeOK, RunnerType
  <2>5. answers' \in [Setups -> Nat] /\ view' \in [Entries -> {"none", "up", "down"}]
    BY <1>6 DEF Check, TypeOK, Complete, EntryType
  <2> QED
    BY <2>1, <2>2, <2>3, <2>4, <2>5 DEF TypeOK
<1>7. ASSUME NEW i \in Entries, CheckLook(i) PROVE TypeOK'
  <2>1. entry' \in [Entries -> EntryType] /\ manager' \in [Setups -> ManagerType]
    BY <1>7 DEF CheckLook, TypeOK, EntryBecomes, ManagerBecomes
  <2>2. sig' \in [Setups -> SUBSET Events] /\ crashed' \in BOOLEAN
    BY <1>7 DEF CheckLook, TypeOK
  <2>3. runner' \in RunnerType
    <3> DEFINE left == runner.left \ {i}
    <3>1. left \in SUBSET Entries
      BY DEF TypeOK, RunnerType
    <3>2. runner' \in {[Idle EXCEPT !.at = "signal", !.event = EVENT_RESTART, !.dc = i, !.left = left],
                       [Idle EXCEPT !.at = "check", !.left = left]}
      BY <1>7 DEF CheckLook
    <3> HIDE DEF left
    <3> QED
      BY <3>1, <3>2, NoneAssumption DEF RunnerType, Idle, Events
  <2>4. /\ cdma' \in BOOLEAN /\ live' \in SUBSET Setups /\ daemon' \in Setups \cup {None}
        /\ asked' \in SUBSET Setups /\ refused' \in SUBSET Setups /\ raced' \in BOOLEAN
        /\ deactivations' \in 0 .. MaxDeactivations /\ checks' \in 0 .. MaxChecks
    BY <1>7, DataCallAssumption DEF CheckLook, TypeOK, RunnerType
  <2>5. answers' \in [Setups -> Nat] /\ view' \in [Entries -> {"none", "up", "down"}]
    BY <1>7 DEF CheckLook, TypeOK, Complete, EntryType
  <2> QED
    BY <2>1, <2>2, <2>3, <2>4, <2>5 DEF TypeOK
<1>8. ASSUME CheckEnds PROVE TypeOK'
  <2>1. entry' \in [Entries -> EntryType] /\ manager' \in [Setups -> ManagerType]
    BY <1>8 DEF CheckEnds, TypeOK, EntryBecomes, ManagerBecomes
  <2>2. sig' \in [Setups -> SUBSET Events] /\ crashed' \in BOOLEAN
    BY <1>8 DEF CheckEnds, TypeOK
  <2>3. runner' \in RunnerType
    BY <1>8, NoneAssumption DEF CheckEnds, TypeOK, RunnerType, Idle, Events
  <2>4. /\ cdma' \in BOOLEAN /\ live' \in SUBSET Setups /\ daemon' \in Setups \cup {None}
        /\ asked' \in SUBSET Setups /\ refused' \in SUBSET Setups /\ raced' \in BOOLEAN
        /\ deactivations' \in 0 .. MaxDeactivations /\ checks' \in 0 .. MaxChecks
    BY <1>8, DataCallAssumption DEF CheckEnds, TypeOK, RunnerType
  <2>5. answers' \in [Setups -> Nat] /\ view' \in [Entries -> {"none", "up", "down"}]
    BY <1>8 DEF CheckEnds, TypeOK, Complete, EntryType
  <2> QED
    BY <2>1, <2>2, <2>3, <2>4, <2>5 DEF TypeOK
<1>9. ASSUME SendCommand PROVE TypeOK'
  <2>1. entry' \in [Entries -> EntryType] /\ manager' \in [Setups -> ManagerType]
    BY <1>9 DEF SendCommand, TypeOK, EntryBecomes, ManagerBecomes
  <2>2. sig' \in [Setups -> SUBSET Events] /\ crashed' \in BOOLEAN
    BY <1>9, Signalling DEF SendCommand, Events, Pointers, At
  <2>3. runner' \in RunnerType
    <3>1. runner' \in {runner, Idle, [Idle EXCEPT !.at = "check", !.left = runner.left]}
      BY <1>9 DEF SendCommand
    <3>2. runner \in RunnerType /\ runner.left \in SUBSET Entries
      BY DEF TypeOK, RunnerType
    <3>3. Idle \in RunnerType
      BY DEF RunnerType, Idle
    <3> DEFINE left == runner.left
               back == [Idle EXCEPT !.at = "check", !.left = left]
    <3>4. back \in RunnerType
      <4>1. left \in SUBSET Entries
        BY <3>2
      <4> HIDE DEF left
      <4> QED
        BY <4>1, NoneAssumption DEF RunnerType, Idle
    <3> HIDE DEF back
    <3>5. runner' \in {runner, Idle, back}
      BY <3>1 DEF back
    <3> QED
      BY <3>2, <3>3, <3>4, <3>5
  <2>4. /\ cdma' \in BOOLEAN /\ live' \in SUBSET Setups /\ daemon' \in Setups \cup {None}
        /\ asked' \in SUBSET Setups /\ refused' \in SUBSET Setups /\ raced' \in BOOLEAN
        /\ deactivations' \in 0 .. MaxDeactivations /\ checks' \in 0 .. MaxChecks
    BY <1>9, DataCallAssumption DEF SendCommand, TypeOK, RunnerType
  <2>5. answers' \in [Setups -> Nat] /\ view' \in [Entries -> {"none", "up", "down"}]
    BY <1>9 DEF SendCommand, TypeOK, Complete, EntryType
  <2> QED
    BY <2>1, <2>2, <2>3, <2>4, <2>5 DEF TypeOK
<1>10. ASSUME NEW r \in Setups, Start(r) PROVE TypeOK'
  <2>1. entry' \in [Entries -> EntryType] /\ manager' \in [Setups -> ManagerType]
    BY <1>10, StartEffect DEF Start, TypeOK, EntryBecomes, ManagerBecomes
  <2>2. sig' \in [Setups -> SUBSET Events] /\ crashed' \in BOOLEAN
    BY <1>10, Taking DEF Start, Events, TypeOK
  <2>3. runner' \in RunnerType
    BY <1>10, NoneAssumption DEF Start, TypeOK, RunnerType, Idle, Events
  <2>4. /\ cdma' \in BOOLEAN /\ live' \in SUBSET Setups /\ daemon' \in Setups \cup {None}
        /\ asked' \in SUBSET Setups /\ refused' \in SUBSET Setups /\ raced' \in BOOLEAN
        /\ deactivations' \in 0 .. MaxDeactivations /\ checks' \in 0 .. MaxChecks
    BY <1>10, DataCallAssumption DEF Start, TypeOK, RunnerType
  <2>5. answers' \in [Setups -> Nat] /\ view' \in [Entries -> {"none", "up", "down"}]
    BY <1>10 DEF Start, TypeOK, Complete, EntryType
  <2> QED
    BY <2>1, <2>2, <2>3, <2>4, <2>5 DEF TypeOK
<1>11. ASSUME NEW r \in Setups, CtlStop(r) PROVE TypeOK'
  <2>1. entry' \in [Entries -> EntryType] /\ manager' \in [Setups -> ManagerType]
    BY <1>11 DEF CtlStop, TypeOK, EntryBecomes, ManagerBecomes
  <2>2. sig' \in [Setups -> SUBSET Events] /\ crashed' \in BOOLEAN
    BY <1>11 DEF CtlStop, TypeOK
  <2>3. runner' \in RunnerType
    BY <1>11, NoneAssumption DEF CtlStop, TypeOK, RunnerType, Idle, Events
  <2>4. /\ cdma' \in BOOLEAN /\ live' \in SUBSET Setups /\ daemon' \in Setups \cup {None}
        /\ asked' \in SUBSET Setups /\ refused' \in SUBSET Setups /\ raced' \in BOOLEAN
        /\ deactivations' \in 0 .. MaxDeactivations /\ checks' \in 0 .. MaxChecks
    BY <1>11, DataCallAssumption DEF CtlStop, TypeOK, RunnerType
  <2>5. answers' \in [Setups -> Nat] /\ view' \in [Entries -> {"none", "up", "down"}]
    BY <1>11 DEF CtlStop, TypeOK, Complete, EntryType
  <2> QED
    BY <2>1, <2>2, <2>3, <2>4, <2>5 DEF TypeOK
<1>12. ASSUME NEW r \in Setups, Replaced(r) PROVE TypeOK'
  <2>1. entry' \in [Entries -> EntryType] /\ manager' \in [Setups -> ManagerType]
    BY <1>12, ReplacedEffect DEF Replaced, TypeOK, EntryBecomes, ManagerBecomes
  <2>2. sig' \in [Setups -> SUBSET Events] /\ crashed' \in BOOLEAN
    BY <1>12 DEF Replaced, TypeOK
  <2>3. runner' \in RunnerType
    BY <1>12, NoneAssumption DEF Replaced, TypeOK, RunnerType, Idle, Events
  <2>4. /\ cdma' \in BOOLEAN /\ live' \in SUBSET Setups /\ daemon' \in Setups \cup {None}
        /\ asked' \in SUBSET Setups /\ refused' \in SUBSET Setups /\ raced' \in BOOLEAN
        /\ deactivations' \in 0 .. MaxDeactivations /\ checks' \in 0 .. MaxChecks
    BY <1>12, DataCallAssumption DEF Replaced, TypeOK, RunnerType
  <2>5. answers' \in [Setups -> Nat] /\ view' \in [Entries -> {"none", "up", "down"}]
    BY <1>12 DEF Replaced, TypeOK, Complete, EntryType
  <2> QED
    BY <2>1, <2>2, <2>3, <2>4, <2>5 DEF TypeOK
<1>13. ASSUME NEW r \in Setups, Launch(r) PROVE TypeOK'
  <2>1. entry' \in [Entries -> EntryType] /\ manager' \in [Setups -> ManagerType]
    BY <1>13, LaunchEffect DEF Launch, TypeOK, EntryBecomes, ManagerBecomes
  <2>2. sig' \in [Setups -> SUBSET Events] /\ crashed' \in BOOLEAN
    BY <1>13 DEF Launch, TypeOK
  <2>3. runner' \in RunnerType
    BY <1>13, NoneAssumption DEF Launch, TypeOK, RunnerType, Idle, Events
  <2>4. /\ cdma' \in BOOLEAN /\ live' \in SUBSET Setups /\ daemon' \in Setups \cup {None}
        /\ asked' \in SUBSET Setups /\ refused' \in SUBSET Setups /\ raced' \in BOOLEAN
        /\ deactivations' \in 0 .. MaxDeactivations /\ checks' \in 0 .. MaxChecks
    BY <1>13, DataCallAssumption DEF Launch, TypeOK, RunnerType
  <2>5. answers' \in [Setups -> Nat] /\ view' \in [Entries -> {"none", "up", "down"}]
    BY <1>13 DEF Launch, TypeOK, Complete, EntryType
  <2> QED
    BY <2>1, <2>2, <2>3, <2>4, <2>5 DEF TypeOK
<1>14. ASSUME NEW r \in Setups, Connected(r) PROVE TypeOK'
  <2>1. entry' \in [Entries -> EntryType] /\ manager' \in [Setups -> ManagerType]
    BY <1>14, ConnectedEffect DEF Connected, TypeOK, EntryBecomes, ManagerBecomes
  <2>2. sig' \in [Setups -> SUBSET Events] /\ crashed' \in BOOLEAN
    BY <1>14 DEF Connected, TypeOK
  <2>3. runner' \in RunnerType
    BY <1>14, NoneAssumption DEF Connected, TypeOK, RunnerType, Idle, Events
  <2>4. /\ cdma' \in BOOLEAN /\ live' \in SUBSET Setups /\ daemon' \in Setups \cup {None}
        /\ asked' \in SUBSET Setups /\ refused' \in SUBSET Setups /\ raced' \in BOOLEAN
        /\ deactivations' \in 0 .. MaxDeactivations /\ checks' \in 0 .. MaxChecks
    BY <1>14, DataCallAssumption DEF Connected, TypeOK, RunnerType
  <2>5. answers' \in [Setups -> Nat] /\ view' \in [Entries -> {"none", "up", "down"}]
    BY <1>14 DEF Connected, TypeOK, Complete, EntryType
  <2> QED
    BY <2>1, <2>2, <2>3, <2>4, <2>5 DEF TypeOK
<1>15. ASSUME NEW r \in Setups, DialFails(r) PROVE TypeOK'
  <2>1. entry' \in [Entries -> EntryType] /\ manager' \in [Setups -> ManagerType]
    BY <1>15, DialFailsEffect DEF DialFails, TypeOK, EntryBecomes, ManagerBecomes
  <2>2. sig' \in [Setups -> SUBSET Events] /\ crashed' \in BOOLEAN
    BY <1>15 DEF DialFails, TypeOK
  <2>3. runner' \in RunnerType
    BY <1>15, NoneAssumption DEF DialFails, TypeOK, RunnerType, Idle, Events
  <2>4. /\ cdma' \in BOOLEAN /\ live' \in SUBSET Setups /\ daemon' \in Setups \cup {None}
        /\ asked' \in SUBSET Setups /\ refused' \in SUBSET Setups /\ raced' \in BOOLEAN
        /\ deactivations' \in 0 .. MaxDeactivations /\ checks' \in 0 .. MaxChecks
    BY <1>15, DataCallAssumption DEF DialFails, TypeOK, RunnerType
  <2>5. answers' \in [Setups -> Nat] /\ view' \in [Entries -> {"none", "up", "down"}]
    BY <1>15 DEF DialFails, TypeOK, Complete, EntryType
  <2> QED
    BY <2>1, <2>2, <2>3, <2>4, <2>5 DEF TypeOK
<1>16. ASSUME NEW r \in Setups, DialAgain(r) PROVE TypeOK'
  <2>1. entry' \in [Entries -> EntryType] /\ manager' \in [Setups -> ManagerType]
    BY <1>16, DialAgainEffect DEF DialAgain, TypeOK, EntryBecomes, ManagerBecomes
  <2>2. sig' \in [Setups -> SUBSET Events] /\ crashed' \in BOOLEAN
    BY <1>16, Signalling, DialAgainEffect DEF DialAgain, Events, Pointers, At
  <2>3. runner' \in RunnerType
    BY <1>16, NoneAssumption DEF DialAgain, TypeOK, RunnerType, Idle, Events
  <2>4. /\ cdma' \in BOOLEAN /\ live' \in SUBSET Setups /\ daemon' \in Setups \cup {None}
        /\ asked' \in SUBSET Setups /\ refused' \in SUBSET Setups /\ raced' \in BOOLEAN
        /\ deactivations' \in 0 .. MaxDeactivations /\ checks' \in 0 .. MaxChecks
    BY <1>16, DataCallAssumption DEF DialAgain, TypeOK, RunnerType
  <2>5. answers' \in [Setups -> Nat] /\ view' \in [Entries -> {"none", "up", "down"}]
    BY <1>16 DEF DialAgain, TypeOK, Complete, EntryType
  <2> QED
    BY <2>1, <2>2, <2>3, <2>4, <2>5 DEF TypeOK
<1>17. ASSUME NEW r \in Setups, Stop(r) PROVE TypeOK'
  <2>1. entry' \in [Entries -> EntryType] /\ manager' \in [Setups -> ManagerType]
    BY <1>17, StopEffect DEF Stop, TypeOK, EntryBecomes, ManagerBecomes
  <2>2. sig' \in [Setups -> SUBSET Events] /\ crashed' \in BOOLEAN
    BY <1>17, Taking DEF Stop, Events, TypeOK
  <2>3. runner' \in RunnerType
    BY <1>17, NoneAssumption DEF Stop, TypeOK, RunnerType, Idle, Events
  <2>4. /\ cdma' \in BOOLEAN /\ live' \in SUBSET Setups /\ daemon' \in Setups \cup {None}
        /\ asked' \in SUBSET Setups /\ refused' \in SUBSET Setups /\ raced' \in BOOLEAN
        /\ deactivations' \in 0 .. MaxDeactivations /\ checks' \in 0 .. MaxChecks
    BY <1>17, DataCallAssumption DEF Stop, TypeOK, RunnerType
  <2>5. answers' \in [Setups -> Nat] /\ view' \in [Entries -> {"none", "up", "down"}]
    BY <1>17 DEF Stop, TypeOK, Complete, EntryType
  <2> QED
    BY <2>1, <2>2, <2>3, <2>4, <2>5 DEF TypeOK
<1>18. ASSUME NEW r \in Setups, StopEnds(r) PROVE TypeOK'
  <2>1. entry' \in [Entries -> EntryType] /\ manager' \in [Setups -> ManagerType]
    BY <1>18, StopEndsEffect DEF StopEnds, TypeOK, EntryBecomes, ManagerBecomes
  <2>2. sig' \in [Setups -> SUBSET Events] /\ crashed' \in BOOLEAN
    BY <1>18 DEF StopEnds, TypeOK
  <2>3. runner' \in RunnerType
    BY <1>18, NoneAssumption DEF StopEnds, TypeOK, RunnerType, Idle, Events
  <2>4. /\ cdma' \in BOOLEAN /\ live' \in SUBSET Setups /\ daemon' \in Setups \cup {None}
        /\ asked' \in SUBSET Setups /\ refused' \in SUBSET Setups /\ raced' \in BOOLEAN
        /\ deactivations' \in 0 .. MaxDeactivations /\ checks' \in 0 .. MaxChecks
    BY <1>18, DataCallAssumption DEF StopEnds, TypeOK, RunnerType
  <2>5. answers' \in [Setups -> Nat] /\ view' \in [Entries -> {"none", "up", "down"}]
    BY <1>18 DEF StopEnds, TypeOK, Complete, EntryType
  <2> QED
    BY <2>1, <2>2, <2>3, <2>4, <2>5 DEF TypeOK
<1>19. ASSUME NEW r \in Setups, Restart(r) PROVE TypeOK'
  <2>1. entry' \in [Entries -> EntryType] /\ manager' \in [Setups -> ManagerType]
    BY <1>19, RestartEffect DEF Restart, TypeOK, EntryBecomes, ManagerBecomes
  <2>2. sig' \in [Setups -> SUBSET Events] /\ crashed' \in BOOLEAN
    BY <1>19, Taking DEF Restart, Events, TypeOK
  <2>3. runner' \in RunnerType
    BY <1>19, NoneAssumption DEF Restart, TypeOK, RunnerType, Idle, Events
  <2>4. /\ cdma' \in BOOLEAN /\ live' \in SUBSET Setups /\ daemon' \in Setups \cup {None}
        /\ asked' \in SUBSET Setups /\ refused' \in SUBSET Setups /\ raced' \in BOOLEAN
        /\ deactivations' \in 0 .. MaxDeactivations /\ checks' \in 0 .. MaxChecks
    BY <1>19, DataCallAssumption DEF Restart, TypeOK, RunnerType
  <2>5. answers' \in [Setups -> Nat] /\ view' \in [Entries -> {"none", "up", "down"}]
    BY <1>19 DEF Restart, TypeOK, Complete, EntryType
  <2> QED
    BY <2>1, <2>2, <2>3, <2>4, <2>5 DEF TypeOK
<1>20. ASSUME NEW r \in Setups, RestartEnds(r) PROVE TypeOK'
  <2>1. entry' \in [Entries -> EntryType] /\ manager' \in [Setups -> ManagerType]
    BY <1>20, RestartEndsEffect DEF RestartEnds, TypeOK, EntryBecomes, ManagerBecomes
  <2>2. sig' \in [Setups -> SUBSET Events] /\ crashed' \in BOOLEAN
    BY <1>20, Signalling, RestartEndsEffect DEF RestartEnds, Events, Pointers, At
  <2>3. runner' \in RunnerType
    BY <1>20, NoneAssumption DEF RestartEnds, TypeOK, RunnerType, Idle, Events
  <2>4. /\ cdma' \in BOOLEAN /\ live' \in SUBSET Setups /\ daemon' \in Setups \cup {None}
        /\ asked' \in SUBSET Setups /\ refused' \in SUBSET Setups /\ raced' \in BOOLEAN
        /\ deactivations' \in 0 .. MaxDeactivations /\ checks' \in 0 .. MaxChecks
    BY <1>20, DataCallAssumption DEF RestartEnds, TypeOK, RunnerType
  <2>5. answers' \in [Setups -> Nat] /\ view' \in [Entries -> {"none", "up", "down"}]
    BY <1>20 DEF RestartEnds, TypeOK, Complete, EntryType
  <2> QED
    BY <2>1, <2>2, <2>3, <2>4, <2>5 DEF TypeOK
<1>21. ASSUME NEW r \in Setups, TimeOut(r) PROVE TypeOK'
  <2>1. entry' \in [Entries -> EntryType] /\ manager' \in [Setups -> ManagerType]
    BY <1>21 DEF TimeOut, TypeOK, EntryBecomes, ManagerBecomes
  <2>2. sig' \in [Setups -> SUBSET Events] /\ crashed' \in BOOLEAN
    BY <1>21 DEF TimeOut, TypeOK, SetBit, ClearBit, Events
  <2>3. runner' \in RunnerType
    BY <1>21, NoneAssumption DEF TimeOut, TypeOK, RunnerType, Idle, Events
  <2>4. /\ cdma' \in BOOLEAN /\ live' \in SUBSET Setups /\ daemon' \in Setups \cup {None}
        /\ asked' \in SUBSET Setups /\ refused' \in SUBSET Setups /\ raced' \in BOOLEAN
        /\ deactivations' \in 0 .. MaxDeactivations /\ checks' \in 0 .. MaxChecks
    BY <1>21, DataCallAssumption DEF TimeOut, TypeOK, RunnerType
  <2>5. answers' \in [Setups -> Nat] /\ view' \in [Entries -> {"none", "up", "down"}]
    BY <1>21 DEF TimeOut, TypeOK, Complete, EntryType
  <2> QED
    BY <2>1, <2>2, <2>3, <2>4, <2>5 DEF TypeOK
<1>22. ASSUME NEW r \in Setups, WaitOnNothing(r) PROVE TypeOK'
  <2>1. entry' \in [Entries -> EntryType] /\ manager' \in [Setups -> ManagerType]
    BY <1>22 DEF WaitOnNothing, TypeOK, EntryBecomes, ManagerBecomes
  <2>2. sig' \in [Setups -> SUBSET Events] /\ crashed' \in BOOLEAN
    BY <1>22 DEF WaitOnNothing, TypeOK
  <2>3. runner' \in RunnerType
    BY <1>22, NoneAssumption DEF WaitOnNothing, TypeOK, RunnerType, Idle, Events
  <2>4. /\ cdma' \in BOOLEAN /\ live' \in SUBSET Setups /\ daemon' \in Setups \cup {None}
        /\ asked' \in SUBSET Setups /\ refused' \in SUBSET Setups /\ raced' \in BOOLEAN
        /\ deactivations' \in 0 .. MaxDeactivations /\ checks' \in 0 .. MaxChecks
    BY <1>22, DataCallAssumption DEF WaitOnNothing, TypeOK, RunnerType
  <2>5. answers' \in [Setups -> Nat] /\ view' \in [Entries -> {"none", "up", "down"}]
    BY <1>22 DEF WaitOnNothing, TypeOK, Complete, EntryType
  <2> QED
    BY <2>1, <2>2, <2>3, <2>4, <2>5 DEF TypeOK
<1>23. ASSUME NEW r \in Setups, Report(r) PROVE TypeOK'
  <2>1. entry' \in [Entries -> EntryType] /\ manager' \in [Setups -> ManagerType]
    BY <1>23, ReportEffect, Reporting DEF Report, TypeOK, EntryBecomes, ManagerBecomes
  <2>2. sig' \in [Setups -> SUBSET Events] /\ crashed' \in BOOLEAN
    BY <1>23, Reporting, ReportEffect DEF Report
  <2>3. runner' \in RunnerType
    BY <1>23, NoneAssumption DEF Report, TypeOK, RunnerType, Idle, Events
  <2>4. /\ cdma' \in BOOLEAN /\ live' \in SUBSET Setups /\ daemon' \in Setups \cup {None}
        /\ asked' \in SUBSET Setups /\ refused' \in SUBSET Setups /\ raced' \in BOOLEAN
        /\ deactivations' \in 0 .. MaxDeactivations /\ checks' \in 0 .. MaxChecks
    BY <1>23, DataCallAssumption DEF Report, TypeOK, RunnerType
  <2>5. answers' \in [Setups -> Nat] /\ view' \in [Entries -> {"none", "up", "down"}]
    <3>1. Dc(r) \in Entries /\ ReportDataCallStatus(Dc(r))
      BY <1>23, ReportEffect DEF Report
    <3>2. answers \in [Setups -> Nat] /\ entry[Dc(r)].token \in Setups \cup {None}
      BY <3>1 DEF TypeOK, EntryType
    <3>3. CASE answers' = answers
      BY <3>1, <3>2, <3>3, Reporting
    <3>4. CASE entry[Dc(r)].token # None /\ answers' = [answers EXCEPT ![entry[Dc(r)].token] = @ + 1]
      BY <3>1, <3>2, <3>4, Reporting
    <3> QED
      BY <3>1, <3>3, <3>4, Reporting
  <2> QED
    BY <2>1, <2>2, <2>3, <2>4, <2>5 DEF TypeOK
<1>24. ASSUME NEW r \in Setups, FreeEntry(r) PROVE TypeOK'
  <2>1. entry' \in [Entries -> EntryType] /\ manager' \in [Setups -> ManagerType]
    BY <1>24, FreeEntryEffect DEF FreeEntry, TypeOK, EntryBecomes, ManagerBecomes
  <2>2. sig' \in [Setups -> SUBSET Events] /\ crashed' \in BOOLEAN
    BY <1>24 DEF FreeEntry, TypeOK
  <2>3. runner' \in RunnerType
    BY <1>24, NoneAssumption DEF FreeEntry, TypeOK, RunnerType, Idle, Events
  <2>4. /\ cdma' \in BOOLEAN /\ live' \in SUBSET Setups /\ daemon' \in Setups \cup {None}
        /\ asked' \in SUBSET Setups /\ refused' \in SUBSET Setups /\ raced' \in BOOLEAN
        /\ deactivations' \in 0 .. MaxDeactivations /\ checks' \in 0 .. MaxChecks
    BY <1>24, DataCallAssumption DEF FreeEntry, TypeOK, RunnerType
  <2>5. answers' \in [Setups -> Nat] /\ view' \in [Entries -> {"none", "up", "down"}]
    BY <1>24 DEF FreeEntry, TypeOK, Complete, EntryType
  <2> QED
    BY <2>1, <2>2, <2>3, <2>4, <2>5 DEF TypeOK
<1>25. ASSUME NEW r \in Setups, DestroySet(r) PROVE TypeOK'
  <2>1. entry' \in [Entries -> EntryType] /\ manager' \in [Setups -> ManagerType]
    BY <1>25, DestroySetEffect DEF DestroySet, TypeOK, EntryBecomes, ManagerBecomes
  <2>2. sig' \in [Setups -> SUBSET Events] /\ crashed' \in BOOLEAN
    BY <1>25 DEF DestroySet, TypeOK
  <2>3. runner' \in RunnerType
    BY <1>25, NoneAssumption DEF DestroySet, TypeOK, RunnerType, Idle, Events
  <2>4. /\ cdma' \in BOOLEAN /\ live' \in SUBSET Setups /\ daemon' \in Setups \cup {None}
        /\ asked' \in SUBSET Setups /\ refused' \in SUBSET Setups /\ raced' \in BOOLEAN
        /\ deactivations' \in 0 .. MaxDeactivations /\ checks' \in 0 .. MaxChecks
    BY <1>25, DataCallAssumption DEF DestroySet, TypeOK, RunnerType
  <2>5. answers' \in [Setups -> Nat] /\ view' \in [Entries -> {"none", "up", "down"}]
    BY <1>25 DEF DestroySet, TypeOK, Complete, EntryType
  <2> QED
    BY <2>1, <2>2, <2>3, <2>4, <2>5 DEF TypeOK
<1>26. ASSUME NEW r \in Setups, ResetActive(r) PROVE TypeOK'
  <2>1. entry' \in [Entries -> EntryType] /\ manager' \in [Setups -> ManagerType]
    BY <1>26, ResetActiveEffect DEF ResetActive, TypeOK, EntryBecomes, ManagerBecomes
  <2>2. sig' \in [Setups -> SUBSET Events] /\ crashed' \in BOOLEAN
    BY <1>26 DEF ResetActive, TypeOK
  <2>3. runner' \in RunnerType
    BY <1>26, NoneAssumption DEF ResetActive, TypeOK, RunnerType, Idle, Events
  <2>4. /\ cdma' \in BOOLEAN /\ live' \in SUBSET Setups /\ daemon' \in Setups \cup {None}
        /\ asked' \in SUBSET Setups /\ refused' \in SUBSET Setups /\ raced' \in BOOLEAN
        /\ deactivations' \in 0 .. MaxDeactivations /\ checks' \in 0 .. MaxChecks
    BY <1>26, DataCallAssumption DEF ResetActive, TypeOK, RunnerType
  <2>5. answers' \in [Setups -> Nat] /\ view' \in [Entries -> {"none", "up", "down"}]
    BY <1>26 DEF ResetActive, TypeOK, Complete, EntryType
  <2> QED
    BY <2>1, <2>2, <2>3, <2>4, <2>5 DEF TypeOK
<1>27. ASSUME DaemonExits PROVE TypeOK'
  <2>1. entry' \in [Entries -> EntryType] /\ manager' \in [Setups -> ManagerType]
    BY <1>27 DEF DaemonExits, TypeOK, EntryBecomes, ManagerBecomes
  <2>2. sig' \in [Setups -> SUBSET Events] /\ crashed' \in BOOLEAN
    BY <1>27 DEF DaemonExits, TypeOK
  <2>3. runner' \in RunnerType
    BY <1>27, NoneAssumption DEF DaemonExits, TypeOK, RunnerType, Idle, Events
  <2>4. /\ cdma' \in BOOLEAN /\ live' \in SUBSET Setups /\ daemon' \in Setups \cup {None}
        /\ asked' \in SUBSET Setups /\ refused' \in SUBSET Setups /\ raced' \in BOOLEAN
        /\ deactivations' \in 0 .. MaxDeactivations /\ checks' \in 0 .. MaxChecks
    BY <1>27, DataCallAssumption DEF DaemonExits, TypeOK, RunnerType
  <2>5. answers' \in [Setups -> Nat] /\ view' \in [Entries -> {"none", "up", "down"}]
    BY <1>27 DEF DaemonExits, TypeOK, Complete, EntryType
  <2> QED
    BY <2>1, <2>2, <2>3, <2>4, <2>5 DEF TypeOK
<1> QED
  BY <1>1, <1>2, <1>3, <1>4, <1>5, <1>6, <1>7, <1>8, <1>9, <1>10, <1>11, <1>12, <1>13, <1>14,
     <1>15, <1>16, <1>17, <1>18, <1>19, <1>20, <1>21, <1>22, <1>23, <1>24, <1>25, <1>26,
     <1>27 DEF Next, Runner, Manager

\* No step makes a thread point to nothing.
LEMMA PointersStep ==
  ASSUME TypeOK, Pointers, Owned, Next
  PROVE  Pointers'
<1>1. ASSUME NEW r \in Setups, SetupFails(r) PROVE Pointers'
  BY <1>1 DEF SetupFails, Pointers, Setup, Dc
<1>2. ASSUME NEW r \in Setups, NEW i \in Entries, Getdc(r, i) PROVE Pointers'
  BY <1>2 DEF Getdc, Pointers, Setup, Dc, Idle
<1>3. ASSUME ContextRefused PROVE Pointers'
  BY <1>3 DEF ContextRefused, Pointers, Setup, Dc, Idle
<1>4. ASSUME StartManager PROVE Pointers'
  BY <1>4, StartManagerEffect DEF StartManager, Pointers, Setup, Dc, Idle, ManagerBecomes
<1>5. ASSUME NEW i \in Entries, Deactivate(i) PROVE Pointers'
  BY <1>5 DEF Deactivate, Pointers, Setup, Dc, Events, Idle
<1>6. ASSUME Check PROVE Pointers'
  BY <1>6 DEF Check, Pointers, Setup, Dc, Events, Idle
<1>7. ASSUME NEW i \in Entries, CheckLook(i) PROVE Pointers'
  BY <1>7 DEF CheckLook, Pointers, Setup, Dc, Events, Idle
<1>8. ASSUME CheckEnds PROVE Pointers'
  BY <1>8 DEF CheckEnds, Pointers, Setup, Dc, Events, Idle
<1>9. ASSUME SendCommand PROVE Pointers'
  BY <1>9 DEF SendCommand, Pointers, Setup, Dc, Idle
<1>10. ASSUME NEW r \in Setups, Start(r) PROVE Pointers'
  BY <1>10, StartEffect DEF Start, Pointers, Setup, Dc, ManagerBecomes
<1>11. ASSUME NEW r \in Setups, CtlStop(r) PROVE Pointers'
  BY <1>11 DEF CtlStop, Pointers, Setup, Dc
<1>12. ASSUME NEW r \in Setups, Replaced(r) PROVE Pointers'
  BY <1>12, ReplacedEffect DEF Replaced, Pointers, Setup, Dc, ManagerBecomes
<1>13. ASSUME NEW r \in Setups, Launch(r) PROVE Pointers'
  BY <1>13, LaunchEffect DEF Launch, Pointers, Setup, Dc, ManagerBecomes
<1>14. ASSUME NEW r \in Setups, Connected(r) PROVE Pointers'
  BY <1>14, ConnectedEffect DEF Connected, Pointers, Setup, Dc, ManagerBecomes
<1>15. ASSUME NEW r \in Setups, DialFails(r) PROVE Pointers'
  BY <1>15, DialFailsEffect DEF DialFails, Pointers, Setup, Dc, ManagerBecomes
<1>16. ASSUME NEW r \in Setups, DialAgain(r) PROVE Pointers'
  BY <1>16, DialAgainEffect DEF DialAgain, Pointers, Setup, Dc, ManagerBecomes
<1>17. ASSUME NEW r \in Setups, Stop(r) PROVE Pointers'
  BY <1>17, StopEffect DEF Stop, Pointers, Setup, Dc, ManagerBecomes
<1>18. ASSUME NEW r \in Setups, StopEnds(r) PROVE Pointers'
  BY <1>18, StopEndsEffect DEF StopEnds, Pointers, Setup, Dc, ManagerBecomes
<1>19. ASSUME NEW r \in Setups, Restart(r) PROVE Pointers'
  BY <1>19, RestartEffect DEF Restart, Pointers, Setup, Dc, ManagerBecomes
<1>20. ASSUME NEW r \in Setups, RestartEnds(r) PROVE Pointers'
  BY <1>20, RestartEndsEffect DEF RestartEnds, Pointers, Setup, Dc, ManagerBecomes
<1>21. ASSUME NEW r \in Setups, TimeOut(r) PROVE Pointers'
  BY <1>21 DEF TimeOut, Pointers, Setup, Dc
<1>22. ASSUME NEW r \in Setups, WaitOnNothing(r) PROVE Pointers'
  BY <1>22 DEF WaitOnNothing, Pointers, Setup, Dc
<1>23. ASSUME NEW r \in Setups, Report(r) PROVE Pointers'
  BY <1>23, ReportEffect DEF Report, Pointers, Setup, Dc, ManagerBecomes
<1>24. ASSUME NEW r \in Setups, FreeEntry(r) PROVE Pointers'
  BY <1>24, FreeEntryEffect DEF FreeEntry, Pointers, Setup, Dc, ManagerBecomes
<1>25. ASSUME NEW r \in Setups, DestroySet(r) PROVE Pointers'
  BY <1>25, DestroySetEffect DEF DestroySet, Pointers, Setup, Dc, ManagerBecomes
<1>26. ASSUME NEW r \in Setups, ResetActive(r) PROVE Pointers'
  BY <1>26, ResetActiveEffect DEF ResetActive, Pointers, Setup, Dc, ManagerBecomes
<1>27. ASSUME DaemonExits PROVE Pointers'
  BY <1>27 DEF DaemonExits, Pointers, Setup, Dc
<1> QED
  BY <1>1, <1>2, <1>3, <1>4, <1>5, <1>6, <1>7, <1>8, <1>9, <1>10, <1>11, <1>12, <1>13, <1>14,
     <1>15, <1>16, <1>17, <1>18, <1>19, <1>20, <1>21, <1>22, <1>23, <1>24, <1>25, <1>26,
     <1>27 DEF Next, Runner, Manager

\* What keeps the owners of the entries as they are.
LEMMA OwnedKept ==
  ASSUME Pointers, Owned, Setup' <=> Setup, Setup => runner' = runner, asked \subseteq asked',
         \A s \in Setups : /\ Owner(s)' <=> Owner(s)
                           /\ Dc(s)' = Dc(s)
                           /\ manager'[s].at = "none" <=> manager[s].at = "none",
         \A s \in Setups : manager'[s].at # "none" => s \in asked',
         \A i \in Entries : entry'[i].used = entry[i].used
  PROVE  Owned'
<1>1. UsedOwned'
  BY DEF Owned, UsedOwned
<1>2. OwnersDiffer'
  BY DEF Owned, OwnersDiffer
<1>3. \A s \in Setups : Owner(s) => Dc(s) \in Entries
  BY DEF Pointers, Owner, Loop
<1>4. OwnersUsed'
  BY <1>3 DEF Owned, OwnersUsed
<1>5. StartedAsked'
  BY DEF StartedAsked
<1>6. SetupReady'
  BY DEF Owned, SetupReady, Pointers, Setup
<1> QED
  BY <1>1, <1>2, <1>4, <1>5, <1>6 DEF Owned

\* No step leaves an entry without a manager, or gives it two.
LEMMA OwnedStep ==
  ASSUME TypeOK, Pointers, Owned, Next
  PROVE  Owned'
<1>1. ASSUME NEW r \in Setups, SetupFails(r) PROVE Owned'
  <2>1. manager' = manager /\ entry' = entry /\ asked \subseteq asked' /\ ~Setup' /\ ~Setup
    BY <1>1 DEF SetupFails, Setup, Idle
  <2> QED
    BY <2>1, OwnedKept DEF Owner, Dc, Setup, Owned, StartedAsked
<1>2. ASSUME NEW r \in Setups, NEW i \in Entries, Getdc(r, i) PROVE Owned'
  <2>1. /\ ~Setup /\ ~entry[i].used /\ r \notin asked /\ asked' = asked \cup {r}
        /\ manager' = manager
        /\ Setup' /\ runner'.dc = i /\ runner'.req = r
    BY <1>2 DEF Getdc, Setup, Idle, FirstUnused
  <2>2. entry'[i].used = TRUE /\ \A j \in Entries : j # i => entry'[j].used = entry[j].used
    <3>1. EntryBecomes(i, TRUE, INACTIVE, entry[i].token, r)
      BY <1>2, GetdcEffect
    <3> QED
      BY <3>1 DEF EntryBecomes
  <2>3. \A s \in Setups :
           /\ Owner(s)' = Owner(s) /\ Dc(s)' = Dc(s)
           /\ (Owner(s) => Dc(s) # i /\ Dc(s) \in Entries)
    BY <2>1 DEF Owner, Dc, Owned, OwnersUsed, Pointers, Loop
  <2>4. UsedOwned'
    BY <2>1, <2>2, <2>3 DEF Owned, UsedOwned
  <2>5. OwnersDiffer'
    BY <2>3 DEF Owned, OwnersDiffer
  <2>6. OwnersUsed'
    BY <2>2, <2>3 DEF Owned, OwnersUsed
  <2>7. StartedAsked'
    BY <2>1 DEF Owned, StartedAsked
  <2>8. SetupReady'
    BY <2>1, <2>2, <2>3 DEF Owned, SetupReady, StartedAsked
  <2> QED
    BY <2>4, <2>5, <2>6, <2>7, <2>8 DEF Owned
<1>3. ASSUME ContextRefused PROVE Owned'
  <2>1. Setup /\ ~Setup' /\ asked' = asked /\ manager' = manager
    BY <1>3 DEF ContextRefused, Setup, Idle
  <2>2. /\ runner.dc \in Entries /\ ~entry'[runner.dc].used
        /\ \A j \in Entries : j # runner.dc => entry'[j].used = entry[j].used
    BY <1>3, ContextRefusedEffect DEF EntryBecomes
  <2>3. \A s \in Setups :
           /\ Owner(s)' = Owner(s) /\ Dc(s)' = Dc(s)
           /\ (Owner(s) => Dc(s) # runner.dc /\ Dc(s) \in Entries)
    BY <2>1 DEF Owner, Dc, Owned, SetupReady, Pointers, Loop
  <2>4. UsedOwned'
    BY <2>1, <2>2, <2>3 DEF Owned, UsedOwned
  <2>5. OwnersDiffer'
    BY <2>3 DEF Owned, OwnersDiffer
  <2>6. OwnersUsed'
    BY <2>2, <2>3 DEF Owned, OwnersUsed
  <2>7. StartedAsked' /\ SetupReady'
    BY <2>1 DEF Owned, StartedAsked, SetupReady
  <2> QED
    BY <2>4, <2>5, <2>6, <2>7 DEF Owned
<1>4. ASSUME StartManager PROVE Owned'
  <2> PICK q \in Setups : q = runner.req
    BY <1>4, StartManagerEffect
  <2>1. Setup /\ ~Setup' /\ asked' = asked
    BY <1>4 DEF StartManager, Setup, Idle
  <2>2. runner.dc \in Entries /\ \A j \in Entries : entry'[j].used = entry[j].used
    BY <1>4, StartManagerEffect DEF EntryBecomes
  <2>3. /\ Owner(q)' /\ Dc(q)' = runner.dc
        /\ \A s \in Setups \ {q} : manager'[s] = manager[s]
    BY <1>4, StartManagerEffect DEF ManagerBecomes, Owner, Dc, Loop
  <2>4. \A s \in Setups \ {q} : Owner(s)' = Owner(s) /\ Dc(s)' = Dc(s)
        /\ (Owner(s) => Dc(s) # runner.dc /\ Dc(s) \in Entries)
    BY <2>1, <2>3 DEF Owner, Dc, Owned, SetupReady, Pointers, Loop
  <2>5. ~Owner(q)
    BY <2>1 DEF Owner, Loop, Owned, SetupReady
  <2>6. UsedOwned'
    BY <2>1, <2>2, <2>3, <2>4, <2>5 DEF Owned, UsedOwned
  <2>7. OwnersDiffer'
    BY <2>3, <2>4 DEF Owned, OwnersDiffer
  <2>8. OwnersUsed'
    BY <2>1, <2>2, <2>3, <2>4 DEF Owned, OwnersUsed, SetupReady
  <2>9. StartedAsked' /\ SetupReady'
    BY <2>1, <2>3 DEF Owned, StartedAsked, SetupReady
  <2> QED
    BY <2>6, <2>7, <2>8, <2>9 DEF Owned
<1>5. ASSUME NEW i \in Entries, Deactivate(i) PROVE Owned'
  <2>1. manager' = manager /\ entry' = entry /\ asked \subseteq asked' /\ ~Setup' /\ ~Setup
    BY <1>5 DEF Deactivate, Setup, Idle
  <2> QED
    BY <2>1, OwnedKept DEF Owner, Dc, Setup, Owned, StartedAsked
<1>6. ASSUME Check PROVE Owned'
  <2>1. manager' = manager /\ entry' = entry /\ asked \subseteq asked' /\ ~Setup' /\ ~Setup
    BY <1>6 DEF Check, Setup, Idle
  <2> QED
    BY <2>1, OwnedKept DEF Owner, Dc, Setup, Owned, StartedAsked
<1>7. ASSUME NEW i \in Entries, CheckLook(i) PROVE Owned'
  <2>1. manager' = manager /\ entry' = entry /\ asked \subseteq asked' /\ ~Setup' /\ ~Setup
    BY <1>7 DEF CheckLook, Setup, Idle
  <2> QED
    BY <2>1, OwnedKept DEF Owner, Dc, Setup, Owned, StartedAsked
<1>8. ASSUME CheckEnds PROVE Owned'
  <2>1. manager' = manager /\ entry' = entry /\ asked \subseteq asked' /\ ~Setup' /\ ~Setup
    BY <1>8 DEF CheckEnds, Setup, Idle
  <2> QED
    BY <2>1, OwnedKept DEF Owner, Dc, Setup, Owned, StartedAsked
<1>9. ASSUME SendCommand PROVE Owned'
  <2>1. manager' = manager /\ entry' = entry /\ asked \subseteq asked' /\ ~Setup' /\ ~Setup
    BY <1>9 DEF SendCommand, Setup, Idle
  <2> QED
    BY <2>1, OwnedKept DEF Owner, Dc, Setup, Owned, StartedAsked
<1>10. ASSUME NEW r \in Setups, Start(r) PROVE Owned'
  <2>1. manager[r].at = "wait" /\ manager'[r].at = "replace" /\ Dc(r)' = Dc(r) /\ Dc(r) \in Entries
        /\ \A s \in Setups \ {r} : manager'[s] = manager[s]
    BY <1>10, StartEffect DEF Start, Take, At, ManagerBecomes, Dc
  <2>2. runner' = runner /\ asked' = asked
    BY <1>10 DEF Start
  <2>3. \A j \in Entries : entry'[j].used = entry[j].used
    BY <1>10 DEF Start, EntryBecomes
  <2>4. \A s \in Setups : /\ Owner(s)' <=> Owner(s)
                          /\ Dc(s)' = Dc(s)
                          /\ manager'[s].at = "none" <=> manager[s].at = "none"
    BY <2>1 DEF Owner, Dc, Loop
  <2> QED
    BY <2>2, <2>3, <2>4, OwnedKept DEF Owned, StartedAsked, Setup
<1>11. ASSUME NEW r \in Setups, CtlStop(r) PROVE Owned'
  <2>1. manager' = manager /\ entry' = entry /\ asked \subseteq asked' /\ runner' = runner
    BY <1>11 DEF CtlStop
  <2> QED
    BY <2>1, OwnedKept DEF Owner, Dc, Setup, Owned, StartedAsked
<1>12. ASSUME NEW r \in Setups, Replaced(r) PROVE Owned'
  <2>1. manager[r].at = "replace" /\ manager'[r].at = "launch" /\ Dc(r)' = Dc(r) /\ Dc(r) \in Entries
        /\ \A s \in Setups \ {r} : manager'[s] = manager[s]
    BY <1>12, ReplacedEffect DEF Replaced, Take, At, ManagerBecomes, Dc
  <2>2. runner' = runner /\ asked' = asked
    BY <1>12 DEF Replaced
  <2>3. \A j \in Entries : entry'[j].used = entry[j].used
    BY <1>12 DEF Replaced, EntryBecomes
  <2>4. \A s \in Setups : /\ Owner(s)' <=> Owner(s)
                          /\ Dc(s)' = Dc(s)
                          /\ manager'[s].at = "none" <=> manager[s].at = "none"
    BY <2>1 DEF Owner, Dc, Loop
  <2> QED
    BY <2>2, <2>3, <2>4, OwnedKept DEF Owned, StartedAsked, Setup
<1>13. ASSUME NEW r \in Setups, Launch(r) PROVE Owned'
  <2>1. manager[r].at = "launch" /\ manager'[r].at = "dial" /\ Dc(r)' = Dc(r) /\ Dc(r) \in Entries
        /\ \A s \in Setups \ {r} : manager'[s] = manager[s]
    BY <1>13, LaunchEffect DEF Launch, Take, At, ManagerBecomes, Dc
  <2>2. runner' = runner /\ asked' = asked
    BY <1>13 DEF Launch
  <2>3. \A j \in Entries : entry'[j].used = entry[j].used
    BY <1>13 DEF Launch, EntryBecomes
  <2>4. \A s \in Setups : /\ Owner(s)' <=> Owner(s)
                          /\ Dc(s)' = Dc(s)
                          /\ manager'[s].at = "none" <=> manager[s].at = "none"
    BY <2>1 DEF Owner, Dc, Loop
  <2> QED
    BY <2>2, <2>3, <2>4, OwnedKept DEF Owned, StartedAsked, Setup
<1>14. ASSUME NEW r \in Setups, Connected(r) PROVE Owned'
  <2>1. manager[r].at = "dial" /\ manager'[r].at = "report" /\ Dc(r)' = Dc(r) /\ Dc(r) \in Entries
        /\ \A s \in Setups \ {r} : manager'[s] = manager[s]
    BY <1>14, ConnectedEffect DEF Connected, Take, At, ManagerBecomes, Dc
  <2>2. runner' = runner /\ asked' = asked
    BY <1>14 DEF Connected
  <2>3. \A j \in Entries : entry'[j].used = entry[j].used
    BY <1>14, ConnectedEffect DEF Connected, EntryBecomes
  <2>4. \A s \in Setups : /\ Owner(s)' <=> Owner(s)
                          /\ Dc(s)' = Dc(s)
                          /\ manager'[s].at = "none" <=> manager[s].at = "none"
    BY <2>1 DEF Owner, Dc, Loop
  <2> QED
    BY <2>2, <2>3, <2>4, OwnedKept DEF Owned, StartedAsked, Setup
<1>15. ASSUME NEW r \in Setups, DialFails(r) PROVE Owned'
  <2>1. manager[r].at \in {"launch", "dial"} /\ manager'[r].at = "report" /\ Dc(r)' = Dc(r) /\ Dc(r) \in Entries
        /\ \A s \in Setups \ {r} : manager'[s] = manager[s]
    BY <1>15, DialFailsEffect DEF DialFails, Take, At, ManagerBecomes, Dc
  <2>2. runner' = runner /\ asked' = asked
    BY <1>15 DEF DialFails
  <2>3. \A j \in Entries : entry'[j].used = entry[j].used
    BY <1>15, DialFailsEffect DEF DialFails, EntryBecomes
  <2>4. \A s \in Setups : /\ Owner(s)' <=> Owner(s)
                          /\ Dc(s)' = Dc(s)
                          /\ manager'[s].at = "none" <=> manager[s].at = "none"
    BY <2>1 DEF Owner, Dc, Loop
  <2> QED
    BY <2>2, <2>3, <2>4, OwnedKept DEF Owned, StartedAsked, Setup
<1>16. ASSUME NEW r \in Setups, DialAgain(r) PROVE Owned'
  <2>1. manager[r].at \in {"launch", "dial"} /\ manager'[r].at = "wait" /\ Dc(r)' = Dc(r) /\ Dc(r) \in Entries
        /\ \A s \in Setups \ {r} : manager'[s] = manager[s]
    BY <1>16, DialAgainEffect DEF DialAgain, Take, At, ManagerBecomes, Dc
  <2>2. runner' = runner /\ asked' = asked
    BY <1>16 DEF DialAgain
  <2>3. \A j \in Entries : entry'[j].used = entry[j].used
    BY <1>16 DEF DialAgain, EntryBecomes
  <2>4. \A s \in Setups : /\ Owner(s)' <=> Owner(s)
                          /\ Dc(s)' = Dc(s)
                          /\ manager'[s].at = "none" <=> manager[s].at = "none"
    BY <2>1 DEF Owner, Dc, Loop
  <2> QED
    BY <2>2, <2>3, <2>4, OwnedKept DEF Owned, StartedAsked, Setup
<1>17. ASSUME NEW r \in Setups, Stop(r) PROVE Owned'
  <2>1. manager[r].at = "wait" /\ manager'[r].at = "stop" /\ Dc(r)' = Dc(r) /\ Dc(r) \in Entries
        /\ \A s \in Setups \ {r} : manager'[s] = manager[s]
    BY <1>17, StopEffect DEF Stop, Take, At, ManagerBecomes, Dc
  <2>2. runner' = runner /\ asked' = asked
    BY <1>17 DEF Stop
  <2>3. \A j \in Entries : entry'[j].used = entry[j].used
    BY <1>17 DEF Stop, EntryBecomes
  <2>4. \A s \in Setups : /\ Owner(s)' <=> Owner(s)
                          /\ Dc(s)' = Dc(s)
                          /\ manager'[s].at = "none" <=> manager[s].at = "none"
    BY <2>1 DEF Owner, Dc, Loop
  <2> QED
    BY <2>2, <2>3, <2>4, OwnedKept DEF Owned, StartedAsked, Setup
<1>18. ASSUME NEW r \in Setups, StopEnds(r) PROVE Owned'
  <2>1. manager[r].at = "stop" /\ manager'[r].at = "exit" /\ Dc(r)' = Dc(r) /\ Dc(r) \in Entries
        /\ \A s \in Setups \ {r} : manager'[s] = manager[s]
    BY <1>18, StopEndsEffect DEF StopEnds, Take, At, ManagerBecomes, Dc
  <2>2. runner' = runner /\ asked' = asked
    BY <1>18 DEF StopEnds
  <2>3. \A j \in Entries : entry'[j].used = entry[j].used
    BY <1>18, StopEndsEffect DEF StopEnds, EntryBecomes
  <2>4. \A s \in Setups : /\ Owner(s)' <=> Owner(s)
                          /\ Dc(s)' = Dc(s)
                          /\ manager'[s].at = "none" <=> manager[s].at = "none"
    BY <2>1 DEF Owner, Dc, Loop
  <2> QED
    BY <2>2, <2>3, <2>4, OwnedKept DEF Owned, StartedAsked, Setup
<1>19. ASSUME NEW r \in Setups, Restart(r) PROVE Owned'
  <2>1. manager[r].at = "wait" /\ manager'[r].at = "restart" /\ Dc(r)' = Dc(r) /\ Dc(r) \in Entries
        /\ \A s \in Setups \ {r} : manager'[s] = manager[s]
    BY <1>19, RestartEffect DEF Restart, Take, At, ManagerBecomes, Dc
  <2>2. runner' = runner /\ asked' = asked
    BY <1>19 DEF Restart
  <2>3. \A j \in Entries : entry'[j].used = entry[j].used
    BY <1>19 DEF Restart, EntryBecomes
  <2>4. \A s \in Setups : /\ Owner(s)' <=> Owner(s)
                          /\ Dc(s)' = Dc(s)
                          /\ manager'[s].at = "none" <=> manager[s].at = "none"
    BY <2>1 DEF Owner, Dc, Loop
  <2> QED
    BY <2>2, <2>3, <2>4, OwnedKept DEF Owned, StartedAsked, Setup
<1>20. ASSUME NEW r \in Setups, RestartEnds(r) PROVE Owned'
  <2>1. manager[r].at = "restart" /\ manager'[r].at = "wait" /\ Dc(r)' = Dc(r) /\ Dc(r) \in Entries
        /\ \A s \in Setups \ {r} : manager'[s] = manager[s]
    BY <1>20, RestartEndsEffect DEF RestartEnds, Take, At, ManagerBecomes, Dc
  <2>2. runner' = runner /\ asked' = asked
    BY <1>20 DEF RestartEnds
  <2>3. \A j \in Entries : entry'[j].used = entry[j].used
    BY <1>20 DEF RestartEnds, EntryBecomes
  <2>4. \A s \in Setups : /\ Owner(s)' <=> Owner(s)
                          /\ Dc(s)' = Dc(s)
                          /\ manager'[s].at = "none" <=> manager[s].at = "none"
    BY <2>1 DEF Owner, Dc, Loop
  <2> QED
    BY <2>2, <2>3, <2>4, OwnedKept DEF Owned, StartedAsked, Setup
<1>21. ASSUME NEW r \in Setups, TimeOut(r) PROVE Owned'
  <2>1. manager' = manager /\ entry' = entry /\ asked \subseteq asked' /\ runner' = runner
    BY <1>21 DEF TimeOut
  <2> QED
    BY <2>1, OwnedKept DEF Owner, Dc, Setup, Owned, StartedAsked
<1>22. ASSUME NEW r \in Setups, WaitOnNothing(r) PROVE Owned'
  <2>1. manager' = manager /\ entry' = entry /\ asked \subseteq asked' /\ runner' = runner
    BY <1>22 DEF WaitOnNothing
  <2> QED
    BY <2>1, OwnedKept DEF Owner, Dc, Setup, Owned, StartedAsked
<1>23. ASSUME NEW r \in Setups, Report(r) PROVE Owned'
  <2>1. /\ manager[r].at \in {"report", "exit"} /\ manager'[r].at \in {"wait", "free"}
        /\ Dc(r)' = Dc(r) /\ Dc(r) \in Entries
        /\ \A s \in Setups \ {r} : manager'[s] = manager[s]
    BY <1>23, ReportEffect DEF ManagerBecomes, Dc
  <2>2. runner' = runner /\ asked' = asked
    BY <1>23 DEF Report
  <2>3. \A j \in Entries : entry'[j].used = entry[j].used
    BY <1>23, <2>1, Reporting DEF Report, EntryBecomes
  <2>4. \A s \in Setups : /\ Owner(s)' <=> Owner(s)
                          /\ Dc(s)' = Dc(s)
                          /\ manager'[s].at = "none" <=> manager[s].at = "none"
    BY <2>1 DEF Owner, Dc, Loop
  <2> QED
    BY <2>2, <2>3, <2>4, OwnedKept DEF Owned, StartedAsked, Setup
<1>24. ASSUME NEW r \in Setups, FreeEntry(r) PROVE Owned'
  <2>1. manager[r].at = "free" /\ manager'[r].at = "destroy" /\ Dc(r)' = Dc(r) /\ Dc(r) \in Entries
        /\ \A s \in Setups \ {r} : manager'[s] = manager[s]
    BY <1>24, FreeEntryEffect DEF FreeEntry, Take, At, ManagerBecomes, Dc
  <2>2. runner' = runner /\ asked' = asked
    BY <1>24 DEF FreeEntry
  <2>3. /\ ~entry'[Dc(r)].used
        /\ \A j \in Entries : j # Dc(r) => entry'[j].used = entry[j].used
    BY <1>24, FreeEntryEffect DEF EntryBecomes
  <2>4. Owner(r) /\ ~Owner(r)'
    BY <2>1 DEF Owner, Loop
  <2>5. \A s \in Setups \ {r} : Owner(s)' = Owner(s) /\ Dc(s)' = Dc(s)
        /\ (Owner(s) => Dc(s) # Dc(r) /\ Dc(s) \in Entries)
    BY <2>1, <2>4 DEF Owner, Dc, Owned, OwnersDiffer, Pointers, Loop
  <2>6. UsedOwned'
    BY <2>1, <2>2, <2>3, <2>4, <2>5 DEF Owned, UsedOwned, Setup
  <2>7. OwnersDiffer'
    BY <2>4, <2>5 DEF Owned, OwnersDiffer
  <2>8. OwnersUsed'
    BY <2>3, <2>4, <2>5 DEF Owned, OwnersUsed
  <2>9. StartedAsked'
    BY <2>1, <2>2 DEF Owned, StartedAsked
  <2>10. SetupReady'
    <3>1. ASSUME Setup PROVE runner.dc # Dc(r) /\ runner.dc \in Entries /\ runner.req # r /\ runner.req \in Setups
      BY <3>1, <2>1, <2>4 DEF Owned, SetupReady, Pointers, Setup
    <3> QED
      BY <2>1, <2>2, <2>3, <2>4, <2>5, <3>1 DEF Owned, SetupReady, Setup
  <2> QED
    BY <2>6, <2>7, <2>8, <2>9, <2>10 DEF Owned
<1>25. ASSUME NEW r \in Setups, DestroySet(r) PROVE Owned'
  <2>1. manager[r].at = "destroy" /\ manager'[r].at = "reset" /\ Dc(r)' = Dc(r) /\ Dc(r) \in Entries
        /\ \A s \in Setups \ {r} : manager'[s] = manager[s]
    BY <1>25, DestroySetEffect DEF DestroySet, Take, At, ManagerBecomes, Dc
  <2>2. runner' = runner /\ asked' = asked
    BY <1>25 DEF DestroySet
  <2>3. \A j \in Entries : entry'[j].used = entry[j].used
    BY <1>25 DEF DestroySet, EntryBecomes
  <2>4. \A s \in Setups : /\ Owner(s)' <=> Owner(s)
                          /\ Dc(s)' = Dc(s)
                          /\ manager'[s].at = "none" <=> manager[s].at = "none"
    BY <2>1 DEF Owner, Dc, Loop
  <2> QED
    BY <2>2, <2>3, <2>4, OwnedKept DEF Owned, StartedAsked, Setup
<1>26. ASSUME NEW r \in Setups, ResetActive(r) PROVE Owned'
  <2>1. manager[r].at = "reset" /\ manager'[r].at = "done" /\ Dc(r)' = Dc(r) /\ Dc(r) \in Entries
        /\ \A s \in Setups \ {r} : manager'[s] = manager[s]
    BY <1>26, ResetActiveEffect DEF ResetActive, Take, At, ManagerBecomes, Dc
  <2>2. runner' = runner /\ asked' = asked
    BY <1>26 DEF ResetActive
  <2>3. \A j \in Entries : entry'[j].used = entry[j].used
    BY <1>26, ResetActiveEffect DEF ResetActive, EntryBecomes
  <2>4. \A s \in Setups : /\ Owner(s)' <=> Owner(s)
                          /\ Dc(s)' = Dc(s)
                          /\ manager'[s].at = "none" <=> manager[s].at = "none"
    BY <2>1 DEF Owner, Dc, Loop
  <2> QED
    BY <2>2, <2>3, <2>4, OwnedKept DEF Owned, StartedAsked, Setup
<1>27. ASSUME DaemonExits PROVE Owned'
  <2>1. manager' = manager /\ entry' = entry /\ asked \subseteq asked' /\ runner' = runner
    BY <1>27 DEF DaemonExits
  <2> QED
    BY <2>1, OwnedKept DEF Owner, Dc, Setup, Owned, StartedAsked
<1> QED
  BY <1>1, <1>2, <1>3, <1>4, <1>5, <1>6, <1>7, <1>8, <1>9, <1>10, <1>11, <1>12, <1>13, <1>14,
     <1>15, <1>16, <1>17, <1>18, <1>19, <1>20, <1>21, <1>22, <1>23, <1>24, <1>25, <1>26,
     <1>27 DEF Next, Runner, Manager

\* What keeps the sets of the entries as they are.
LEMMA SetsKept ==
  ASSUME Pointers, OwnSets, ~crashed', live \subseteq live', Setup' => Setup /\ runner' = runner,
         \A s \in Setups :
            /\ Dc(s)' = Dc(s)
            /\ (Owner(s) \/ manager[s].at = "destroy")' => Owner(s) \/ manager[s].at = "destroy"
            /\ manager'[s].at \in {"destroy", "reset"} => manager[s].at \in {"destroy", "reset"},
         \A i \in Entries : entry'[i].set = entry[i].set /\ (entry'[i].used => entry[i].used)
  PROVE  OwnSets'
<1>1. \A s \in Setups : Owner(s) \/ manager[s].at \in {"destroy", "reset"} => Dc(s) \in Entries
  BY DEF Pointers, Owner, Loop
<1>2. ManagersLive'
  BY <1>1 DEF OwnSets, ManagersLive
<1>3. FreedUnused'
  BY <1>1 DEF OwnSets, FreedUnused
<1>4. SetupLive'
  BY DEF OwnSets, SetupLive, Pointers, Setup
<1>5. CrashIsLate'
  BY DEF CrashIsLate
<1> QED
  BY <1>2, <1>3, <1>4, <1>5 DEF OwnSets

\* Until an entry is taken too early, no step takes its set from a manager.
LEMMA SetsStep ==
  ASSUME TypeOK, Pointers, Owned, OwnSets, ~crashed, ~raced', Next
  PROVE  OwnSets'
<1>1. ASSUME NEW r \in Setups, SetupFails(r) PROVE OwnSets'
  <2>1. /\ manager' = manager /\ entry' = entry /\ live' = live /\ ~Setup'
        /\ crashed' = crashed
    BY <1>1 DEF SetupFails, Setup, Idle
  <2> QED
    BY <2>1, SetsKept DEF Owner, Dc, Setup
<1>2. ASSUME NEW r \in Setups, NEW i \in Entries, Getdc(r, i) PROVE OwnSets'
  <2>1. /\ ~Setup /\ ~entry[i].used /\ r \notin asked /\ manager' = manager
        /\ Setup' /\ runner'.dc = i /\ runner'.req = r
        /\ live' = live \cup {r} /\ crashed' = crashed
    BY <1>2 DEF Getdc, Setup, Idle, FirstUnused
  <2>2. /\ entry'[i].set = r
        /\ \A j \in Entries : j # i => entry'[j] = entry[j]
    BY <1>2, GetdcEffect DEF EntryBecomes
  <2>3. \A s \in Setups : Owner(s) \/ manager[s].at \in {"destroy", "reset"} => Dc(s) # i /\ Dc(s) \in Entries
    <3>1. \A s \in Setups : manager[s].at \in Freeing => Dc(s) # i
      BY <1>2 DEF Getdc, Dc
    <3> QED
      BY <2>1, <3>1 DEF Owner, Loop, Freeing, Owned, OwnersUsed, Pointers
  <2>4. \A s \in Setups : Owner(s)' = Owner(s) /\ Dc(s)' = Dc(s)
    BY <2>1 DEF Owner, Dc
  <2>5. ManagersLive'
    BY <2>1, <2>2, <2>3, <2>4 DEF OwnSets, ManagersLive
  <2>6. FreedUnused'
    BY <2>1, <2>2, <2>3, <2>4 DEF OwnSets, FreedUnused
  <2>7. SetupLive' /\ CrashIsLate'
    BY <2>1, <2>2 DEF SetupLive, CrashIsLate
  <2> QED
    BY <2>5, <2>6, <2>7 DEF OwnSets
<1>3. ASSUME ContextRefused PROVE OwnSets'
  <2>1. Setup /\ ~Setup' /\ manager' = manager
    BY <1>3 DEF ContextRefused, Setup, Idle
  <2>2. live' = live \ {runner.req} /\ crashed' = crashed
    BY <1>3, <2>1, ContextRefusedEffect DEF OwnSets, SetupLive
  <2>3. runner.dc \in Entries /\ runner.req \in Setups
    BY <2>1 DEF Pointers, Setup
  <2>4. \A j \in Entries : entry'[j].set = entry[j].set /\ (entry'[j].used => entry[j].used)
    BY <1>3, ContextRefusedEffect DEF EntryBecomes
  <2>5. \A s \in Setups : Owner(s)' = Owner(s) /\ Dc(s)' = Dc(s)
    BY <2>1 DEF Owner, Dc
  <2>6. \A s \in Setups : Owner(s) \/ manager[s].at \in {"destroy", "reset"} =>
                             s # runner.req /\ Dc(s) \in Entries
    BY <2>1 DEF Owner, Loop, Owned, SetupReady, Pointers
  <2>7. ManagersLive'
    BY <2>1, <2>2, <2>4, <2>5, <2>6 DEF OwnSets, ManagersLive
  <2>8. FreedUnused'
    BY <2>1, <2>4, <2>5, <2>6 DEF OwnSets, FreedUnused
  <2>9. SetupLive' /\ CrashIsLate'
    BY <2>1, <2>2 DEF SetupLive, CrashIsLate
  <2> QED
    BY <2>7, <2>8, <2>9 DEF OwnSets
<1>4. ASSUME StartManager PROVE OwnSets'
  <2> PICK q \in Setups : q = runner.req
    BY <1>4, StartManagerEffect
  <2>1. Setup /\ ~Setup' /\ live' = live
    BY <1>4 DEF StartManager, Setup, Idle
  <2>2. /\ runner.dc \in Entries
        /\ \A j \in Entries : entry'[j].used = entry[j].used /\ entry'[j].set = entry[j].set
    BY <1>4, StartManagerEffect DEF EntryBecomes
  <2>3. /\ manager'[q].at = "wait" /\ Dc(q)' = runner.dc
        /\ \A s \in Setups \ {q} : manager'[s] = manager[s]
    BY <1>4, StartManagerEffect DEF ManagerBecomes, Dc
  <2>4. entry[runner.dc].set = q /\ q \in live
    BY <2>1 DEF OwnSets, SetupLive
  <2>5. ~crashed'
    BY <1>4, <2>2, <2>4, Signalling DEF StartManager, Events
  <2>6. \A s \in Setups \ {q} :
        /\ Owner(s)' = Owner(s) /\ Dc(s)' = Dc(s)
        /\ Owner(s) \/ manager[s].at \in {"destroy", "reset"} => Dc(s) \in Entries
    <3> TAKE s \in Setups \ {q}
    <3>1. manager'[s] = manager[s]
      BY <2>3
    <3>2. manager[s].at # "none" => Dc(s) \in Entries
      BY DEF Pointers
    <3> QED
      BY <3>1, <3>2 DEF Owner, Dc, Loop
  <2>7. ManagersLive'
    <3> SUFFICES ASSUME NEW s \in Setups, (Owner(s) \/ manager[s].at = "destroy")'
                PROVE  entry'[Dc(s)'].set = s /\ s \in live'
      BY DEF ManagersLive
    <3>1. CASE s = q
      BY <2>1, <2>2, <2>3, <2>4, <3>1
    <3>2. CASE s # q
      <4>1. Owner(s) \/ manager[s].at = "destroy"
        BY <2>3, <2>6, <3>2
      <4> QED
        BY <4>1, <2>1, <2>2, <2>6, <3>2 DEF OwnSets, ManagersLive
    <3> QED
      BY <3>1, <3>2
  <2>8. FreedUnused'
    <3> SUFFICES ASSUME NEW s \in Setups, manager'[s].at \in {"destroy", "reset"}
                PROVE  ~entry'[Dc(s)'].used
      BY DEF FreedUnused
    <3> QED
      BY <2>2, <2>3, <2>6 DEF OwnSets, FreedUnused
  <2>9. SetupLive' /\ CrashIsLate'
    BY <2>1, <2>5 DEF SetupLive, CrashIsLate
  <2> QED
    BY <2>7, <2>8, <2>9 DEF OwnSets
<1>5. ASSUME NEW i \in Entries, Deactivate(i) PROVE OwnSets'
  <2>1. /\ manager' = manager /\ entry' = entry /\ live' = live /\ ~Setup'
        /\ crashed' = crashed
    BY <1>5 DEF Deactivate, Setup, Idle
  <2> QED
    BY <2>1, SetsKept DEF Owner, Dc, Setup
<1>6. ASSUME Check PROVE OwnSets'
  <2>1. /\ manager' = manager /\ entry' = entry /\ live' = live /\ ~Setup'
        /\ crashed' = crashed
    BY <1>6 DEF Check, Setup, Idle
  <2> QED
    BY <2>1, SetsKept DEF Owner, Dc, Setup
<1>7. ASSUME NEW i \in Entries, CheckLook(i) PROVE OwnSets'
  <2>1. /\ manager' = manager /\ entry' = entry /\ live' = live /\ ~Setup'
        /\ crashed' = crashed
    BY <1>7 DEF CheckLook, Setup, Idle
  <2> QED
    BY <2>1, SetsKept DEF Owner, Dc, Setup
<1>8. ASSUME CheckEnds PROVE OwnSets'
  <2>1. /\ manager' = manager /\ entry' = entry /\ live' = live /\ ~Setup'
        /\ crashed' = crashed
    BY <1>8 DEF CheckEnds, Setup, Idle
  <2> QED
    BY <2>1, SetsKept DEF Owner, Dc, Setup
<1>9. ASSUME SendCommand PROVE OwnSets'
  <2>1. /\ manager' = manager /\ entry' = entry /\ live' = live /\ runner.at = "signal"
        /\ (crashed' => runner' = runner) /\ runner.dc \in Entries
        /\ ~Setup /\ ~Setup'
    BY <1>9 DEF SendCommand, Pointers, Setup, Idle
  <2>2. CASE ~crashed'
    BY <2>1, <2>2, SetsKept DEF Owner, Dc
  <2>3. CASE crashed'
    <3>1. entry[runner.dc].set \notin live
      BY <1>9, <2>1, <2>3, Signalling DEF SendCommand, Pointers
    <3>2. ~entry[runner.dc].used
      BY <2>1, <3>1 DEF Owned, UsedOwned, OwnSets, ManagersLive
    <3>3. runner' = runner
      BY <2>1, <2>3
    <3> QED
      BY <2>1, <3>2, <3>3 DEF OwnSets, ManagersLive, FreedUnused, SetupLive, CrashIsLate,
         Owner, Dc
  <2> QED
    BY <2>2, <2>3
<1>10. ASSUME NEW r \in Setups, Start(r) PROVE OwnSets'
  <2>1. manager[r].at = "wait" /\ manager'[r].at = "replace" /\ Dc(r)' = Dc(r) /\ Dc(r) \in Entries
        /\ \A s \in Setups \ {r} : manager'[s] = manager[s]
    BY <1>10, StartEffect DEF Start, Take, At, ManagerBecomes, Dc
  <2>2. runner' = runner /\ asked' = asked
    BY <1>10 DEF Start
  <2>3. /\ live' = live
        /\ \A j \in Entries : entry'[j].used = entry[j].used /\ entry'[j].set = entry[j].set
    BY <1>10 DEF Start, EntryBecomes
  <2>5. ~crashed'
    BY <1>10 DEF Start
  <2>6. \A s \in Setups :
            /\ Dc(s)' = Dc(s)
            /\ (Owner(s) \/ manager[s].at = "destroy")' => Owner(s) \/ manager[s].at = "destroy"
            /\ manager'[s].at \in {"destroy", "reset"} => manager[s].at \in {"destroy", "reset"}
    BY <2>1 DEF Owner, Dc, Loop
  <2> QED
    BY <2>2, <2>3, <2>5, <2>6, SetsKept DEF Setup
<1>11. ASSUME NEW r \in Setups, CtlStop(r) PROVE OwnSets'
  <2>1. /\ manager' = manager /\ entry' = entry /\ live' = live /\ runner' = runner
        /\ crashed' = crashed
    BY <1>11 DEF CtlStop
  <2> QED
    BY <2>1, SetsKept DEF Owner, Dc, Setup
<1>12. ASSUME NEW r \in Setups, Replaced(r) PROVE OwnSets'
  <2>1. manager[r].at = "replace" /\ manager'[r].at = "launch" /\ Dc(r)' = Dc(r) /\ Dc(r) \in Entries
        /\ \A s \in Setups \ {r} : manager'[s] = manager[s]
    BY <1>12, ReplacedEffect DEF Replaced, Take, At, ManagerBecomes, Dc
  <2>2. runner' = runner /\ asked' = asked
    BY <1>12 DEF Replaced
  <2>3. /\ live' = live
        /\ \A j \in Entries : entry'[j].used = entry[j].used /\ entry'[j].set = entry[j].set
    BY <1>12 DEF Replaced, EntryBecomes
  <2>5. ~crashed'
    BY <1>12 DEF Replaced
  <2>6. \A s \in Setups :
            /\ Dc(s)' = Dc(s)
            /\ (Owner(s) \/ manager[s].at = "destroy")' => Owner(s) \/ manager[s].at = "destroy"
            /\ manager'[s].at \in {"destroy", "reset"} => manager[s].at \in {"destroy", "reset"}
    BY <2>1 DEF Owner, Dc, Loop
  <2> QED
    BY <2>2, <2>3, <2>5, <2>6, SetsKept DEF Setup
<1>13. ASSUME NEW r \in Setups, Launch(r) PROVE OwnSets'
  <2>1. manager[r].at = "launch" /\ manager'[r].at = "dial" /\ Dc(r)' = Dc(r) /\ Dc(r) \in Entries
        /\ \A s \in Setups \ {r} : manager'[s] = manager[s]
    BY <1>13, LaunchEffect DEF Launch, Take, At, ManagerBecomes, Dc
  <2>2. runner' = runner /\ asked' = asked
    BY <1>13 DEF Launch
  <2>3. /\ live' = live
        /\ \A j \in Entries : entry'[j].used = entry[j].used /\ entry'[j].set = entry[j].set
    BY <1>13 DEF Launch, EntryBecomes
  <2>5. ~crashed'
    BY <1>13 DEF Launch
  <2>6. \A s \in Setups :
            /\ Dc(s)' = Dc(s)
            /\ (Owner(s) \/ manager[s].at = "destroy")' => Owner(s) \/ manager[s].at = "destroy"
            /\ manager'[s].at \in {"destroy", "reset"} => manager[s].at \in {"destroy", "reset"}
    BY <2>1 DEF Owner, Dc, Loop
  <2> QED
    BY <2>2, <2>3, <2>5, <2>6, SetsKept DEF Setup
<1>14. ASSUME NEW r \in Setups, Connected(r) PROVE OwnSets'
  <2>1. manager[r].at = "dial" /\ manager'[r].at = "report" /\ Dc(r)' = Dc(r) /\ Dc(r) \in Entries
        /\ \A s \in Setups \ {r} : manager'[s] = manager[s]
    BY <1>14, ConnectedEffect DEF Connected, Take, At, ManagerBecomes, Dc
  <2>2. runner' = runner /\ asked' = asked
    BY <1>14 DEF Connected
  <2>3. /\ live' = live
        /\ \A j \in Entries : entry'[j].used = entry[j].used /\ entry'[j].set = entry[j].set
    BY <1>14, ConnectedEffect DEF Connected, EntryBecomes
  <2>5. ~crashed'
    BY <1>14 DEF Connected
  <2>6. \A s \in Setups :
            /\ Dc(s)' = Dc(s)
            /\ (Owner(s) \/ manager[s].at = "destroy")' => Owner(s) \/ manager[s].at = "destroy"
            /\ manager'[s].at \in {"destroy", "reset"} => manager[s].at \in {"destroy", "reset"}
    BY <2>1 DEF Owner, Dc, Loop
  <2> QED
    BY <2>2, <2>3, <2>5, <2>6, SetsKept DEF Setup
<1>15. ASSUME NEW r \in Setups, DialFails(r) PROVE OwnSets'
  <2>1. manager[r].at \in {"launch", "dial"} /\ manager'[r].at = "report" /\ Dc(r)' = Dc(r) /\ Dc(r) \in Entries
        /\ \A s \in Setups \ {r} : manager'[s] = manager[s]
    BY <1>15, DialFailsEffect DEF DialFails, Take, At, ManagerBecomes, Dc
  <2>2. runner' = runner /\ asked' = asked
    BY <1>15 DEF DialFails
  <2>3. /\ live' = live
        /\ \A j \in Entries : entry'[j].used = entry[j].used /\ entry'[j].set = entry[j].set
    BY <1>15, DialFailsEffect DEF DialFails, EntryBecomes
  <2>5. ~crashed'
    BY <1>15 DEF DialFails
  <2>6. \A s \in Setups :
            /\ Dc(s)' = Dc(s)
            /\ (Owner(s) \/ manager[s].at = "destroy")' => Owner(s) \/ manager[s].at = "destroy"
            /\ manager'[s].at \in {"destroy", "reset"} => manager[s].at \in {"destroy", "reset"}
    BY <2>1 DEF Owner, Dc, Loop
  <2> QED
    BY <2>2, <2>3, <2>5, <2>6, SetsKept DEF Setup
<1>16. ASSUME NEW r \in Setups, DialAgain(r) PROVE OwnSets'
  <2>1. manager[r].at \in {"launch", "dial"} /\ manager'[r].at = "wait" /\ Dc(r)' = Dc(r) /\ Dc(r) \in Entries
        /\ \A s \in Setups \ {r} : manager'[s] = manager[s]
    BY <1>16, DialAgainEffect DEF DialAgain, Take, At, ManagerBecomes, Dc
  <2>2. runner' = runner /\ asked' = asked
    BY <1>16 DEF DialAgain
  <2>3. /\ live' = live
        /\ \A j \in Entries : entry'[j].used = entry[j].used /\ entry'[j].set = entry[j].set
    BY <1>16 DEF DialAgain, EntryBecomes
  <2>4. entry[Dc(r)].set \in live
    BY <2>1 DEF OwnSets, ManagersLive, Owner, Loop
  <2>5. ~crashed'
    BY <1>16, <2>1, <2>4, Signalling DEF DialAgain, Events
  <2>6. \A s \in Setups :
            /\ Dc(s)' = Dc(s)
            /\ (Owner(s) \/ manager[s].at = "destroy")' => Owner(s) \/ manager[s].at = "destroy"
            /\ manager'[s].at \in {"destroy", "reset"} => manager[s].at \in {"destroy", "reset"}
    BY <2>1 DEF Owner, Dc, Loop
  <2> QED
    BY <2>2, <2>3, <2>5, <2>6, SetsKept DEF Setup
<1>17. ASSUME NEW r \in Setups, Stop(r) PROVE OwnSets'
  <2>1. manager[r].at = "wait" /\ manager'[r].at = "stop" /\ Dc(r)' = Dc(r) /\ Dc(r) \in Entries
        /\ \A s \in Setups \ {r} : manager'[s] = manager[s]
    BY <1>17, StopEffect DEF Stop, Take, At, ManagerBecomes, Dc
  <2>2. runner' = runner /\ asked' = asked
    BY <1>17 DEF Stop
  <2>3. /\ live' = live
        /\ \A j \in Entries : entry'[j].used = entry[j].used /\ entry'[j].set = entry[j].set
    BY <1>17 DEF Stop, EntryBecomes
  <2>5. ~crashed'
    BY <1>17 DEF Stop
  <2>6. \A s \in Setups :
            /\ Dc(s)' = Dc(s)
            /\ (Owner(s) \/ manager[s].at = "destroy")' => Owner(s) \/ manager[s].at = "destroy"
            /\ manager'[s].at \in {"destroy", "reset"} => manager[s].at \in {"destroy", "reset"}
    BY <2>1 DEF Owner, Dc, Loop
  <2> QED
    BY <2>2, <2>3, <2>5, <2>6, SetsKept DEF Setup
<1>18. ASSUME NEW r \in Setups, StopEnds(r) PROVE OwnSets'
  <2>1. manager[r].at = "stop" /\ manager'[r].at = "exit" /\ Dc(r)' = Dc(r) /\ Dc(r) \in Entries
        /\ \A s \in Setups \ {r} : manager'[s] = manager[s]
    BY <1>18, StopEndsEffect DEF StopEnds, Take, At, ManagerBecomes, Dc
  <2>2. runner' = runner /\ asked' = asked
    BY <1>18 DEF StopEnds
  <2>3. /\ live' = live
        /\ \A j \in Entries : entry'[j].used = entry[j].used /\ entry'[j].set = entry[j].set
    BY <1>18, StopEndsEffect DEF StopEnds, EntryBecomes
  <2>5. ~crashed'
    BY <1>18 DEF StopEnds
  <2>6. \A s \in Setups :
            /\ Dc(s)' = Dc(s)
            /\ (Owner(s) \/ manager[s].at = "destroy")' => Owner(s) \/ manager[s].at = "destroy"
            /\ manager'[s].at \in {"destroy", "reset"} => manager[s].at \in {"destroy", "reset"}
    BY <2>1 DEF Owner, Dc, Loop
  <2> QED
    BY <2>2, <2>3, <2>5, <2>6, SetsKept DEF Setup
<1>19. ASSUME NEW r \in Setups, Restart(r) PROVE OwnSets'
  <2>1. manager[r].at = "wait" /\ manager'[r].at = "restart" /\ Dc(r)' = Dc(r) /\ Dc(r) \in Entries
        /\ \A s \in Setups \ {r} : manager'[s] = manager[s]
    BY <1>19, RestartEffect DEF Restart, Take, At, ManagerBecomes, Dc
  <2>2. runner' = runner /\ asked' = asked
    BY <1>19 DEF Restart
  <2>3. /\ live' = live
        /\ \A j \in Entries : entry'[j].used = entry[j].used /\ entry'[j].set = entry[j].set
    BY <1>19 DEF Restart, EntryBecomes
  <2>5. ~crashed'
    BY <1>19 DEF Restart
  <2>6. \A s \in Setups :
            /\ Dc(s)' = Dc(s)
            /\ (Owner(s) \/ manager[s].at = "destroy")' => Owner(s) \/ manager[s].at = "destroy"
            /\ manager'[s].at \in {"destroy", "reset"} => manager[s].at \in {"destroy", "reset"}
    BY <2>1 DEF Owner, Dc, Loop
  <2> QED
    BY <2>2, <2>3, <2>5, <2>6, SetsKept DEF Setup
<1>20. ASSUME NEW r \in Setups, RestartEnds(r) PROVE OwnSets'
  <2>1. manager[r].at = "restart" /\ manager'[r].at = "wait" /\ Dc(r)' = Dc(r) /\ Dc(r) \in Entries
        /\ \A s \in Setups \ {r} : manager'[s] = manager[s]
    BY <1>20, RestartEndsEffect DEF RestartEnds, Take, At, ManagerBecomes, Dc
  <2>2. runner' = runner /\ asked' = asked
    BY <1>20 DEF RestartEnds
  <2>3. /\ live' = live
        /\ \A j \in Entries : entry'[j].used = entry[j].used /\ entry'[j].set = entry[j].set
    BY <1>20 DEF RestartEnds, EntryBecomes
  <2>4. entry[Dc(r)].set \in live
    BY <2>1 DEF OwnSets, ManagersLive, Owner, Loop
  <2>5. ~crashed'
    BY <1>20, <2>1, <2>4, Signalling DEF RestartEnds, Events
  <2>6. \A s \in Setups :
            /\ Dc(s)' = Dc(s)
            /\ (Owner(s) \/ manager[s].at = "destroy")' => Owner(s) \/ manager[s].at = "destroy"
            /\ manager'[s].at \in {"destroy", "reset"} => manager[s].at \in {"destroy", "reset"}
    BY <2>1 DEF Owner, Dc, Loop
  <2> QED
    BY <2>2, <2>3, <2>5, <2>6, SetsKept DEF Setup
<1>21. ASSUME NEW r \in Setups, TimeOut(r) PROVE OwnSets'
  <2>1. /\ manager' = manager /\ entry' = entry /\ live' = live /\ runner' = runner
        /\ crashed' = crashed
    BY <1>21 DEF TimeOut
  <2> QED
    BY <2>1, SetsKept DEF Owner, Dc, Setup
<1>22. ASSUME NEW r \in Setups, WaitOnNothing(r) PROVE OwnSets'
  <2>1. Owner(r)
    BY <1>22 DEF WaitOnNothing, At, Owner, Loop
  <2> QED
    BY <1>22, <2>1 DEF WaitOnNothing, OwnSets, ManagersLive
<1>23. ASSUME NEW r \in Setups, Report(r) PROVE OwnSets'
  <2>1. /\ manager[r].at \in {"report", "exit"} /\ manager'[r].at \in {"wait", "free"}
        /\ Dc(r)' = Dc(r) /\ Dc(r) \in Entries
        /\ \A s \in Setups \ {r} : manager'[s] = manager[s]
    BY <1>23, ReportEffect DEF ManagerBecomes, Dc
  <2>2. runner' = runner /\ live' = live
    BY <1>23 DEF Report
  <2>3. \A j \in Entries : entry'[j].used = entry[j].used /\ entry'[j].set = entry[j].set
    BY <1>23, <2>1, Reporting DEF Report, EntryBecomes
  <2>4. entry[Dc(r)].set \in live
    BY <2>1 DEF OwnSets, ManagersLive, Owner, Loop
  <2>5. ~crashed'
    BY <1>23, <2>1, <2>4, Reporting DEF Report
  <2>6. \A s \in Setups :
            /\ Dc(s)' = Dc(s)
            /\ (Owner(s) \/ manager[s].at = "destroy")' => Owner(s) \/ manager[s].at = "destroy"
            /\ manager'[s].at \in {"destroy", "reset"} => manager[s].at \in {"destroy", "reset"}
    BY <2>1 DEF Owner, Dc, Loop
  <2> QED
    BY <2>2, <2>3, <2>5, <2>6, SetsKept DEF Setup
<1>24. ASSUME NEW r \in Setups, FreeEntry(r) PROVE OwnSets'
  <2>1. manager[r].at = "free" /\ manager'[r].at = "destroy" /\ Dc(r)' = Dc(r) /\ Dc(r) \in Entries
        /\ \A s \in Setups \ {r} : manager'[s] = manager[s]
    BY <1>24, FreeEntryEffect DEF FreeEntry, Take, At, ManagerBecomes, Dc
  <2>2. runner' = runner /\ asked' = asked
    BY <1>24 DEF FreeEntry
  <2>3. /\ ~entry'[Dc(r)].used /\ live' = live /\ crashed' = crashed
        /\ \A j \in Entries : entry'[j].set = entry[j].set /\ (entry'[j].used => entry[j].used)
    BY <1>24, FreeEntryEffect DEF FreeEntry, EntryBecomes
  <2>4. \A s \in Setups :
        /\ Dc(s)' = Dc(s)
        /\ (Owner(s) \/ manager[s].at = "destroy")' => Owner(s) \/ manager[s].at = "destroy"
    BY <2>1 DEF Owner, Dc, Loop
  <2>5. \A s \in Setups : Owner(s) \/ manager[s].at \in {"destroy", "reset"} => Dc(s) \in Entries
    BY DEF Pointers, Owner, Loop
  <2>6. ManagersLive'
    <3> SUFFICES ASSUME NEW s \in Setups, (Owner(s) \/ manager[s].at = "destroy")'
                PROVE  entry'[Dc(s)'].set = s /\ s \in live'
      BY DEF ManagersLive
    <3>1. Owner(s) \/ manager[s].at = "destroy"
      BY <2>4
    <3>2. entry[Dc(s)].set = s /\ s \in live
      BY <3>1 DEF OwnSets, ManagersLive
    <3> QED
      BY <3>1, <3>2, <2>3, <2>4, <2>5
  <2>7. FreedUnused'
    <3> SUFFICES ASSUME NEW s \in Setups, manager'[s].at \in {"destroy", "reset"}
                PROVE  ~entry'[Dc(s)'].used
      BY DEF FreedUnused
    <3> QED
      BY <2>1, <2>3, <2>4, <2>5 DEF OwnSets, FreedUnused
  <2>8. SetupLive'
    BY <2>2, <2>3 DEF OwnSets, SetupLive, Pointers, Setup
  <2>9. CrashIsLate'
    BY <2>3 DEF CrashIsLate
  <2> QED
    BY <2>6, <2>7, <2>8, <2>9 DEF OwnSets
<1>25. ASSUME NEW r \in Setups, DestroySet(r) PROVE OwnSets'
  <2>1. manager[r].at = "destroy" /\ manager'[r].at = "reset" /\ Dc(r)' = Dc(r) /\ Dc(r) \in Entries
        /\ \A s \in Setups \ {r} : manager'[s] = manager[s]
    BY <1>25, DestroySetEffect DEF DestroySet, Take, At, ManagerBecomes, Dc
  <2>2. runner' = runner /\ asked' = asked
    BY <1>25 DEF DestroySet
  <2>3. entry' = entry /\ live' = live \ {r} /\ crashed' = crashed
    BY <1>25, <2>1 DEF DestroySet, OwnSets, ManagersLive
  <2>4. \A s \in Setups :
        /\ Dc(s)' = Dc(s)
        /\ (Owner(s) \/ manager[s].at = "destroy")' => s # r /\ (Owner(s) \/ manager[s].at = "destroy")
        /\ manager'[s].at \in {"destroy", "reset"} => manager[s].at \in {"destroy", "reset"}
    BY <2>1 DEF Owner, Dc, Loop
  <2>5. ManagersLive'
    <3> SUFFICES ASSUME NEW s \in Setups, (Owner(s) \/ manager[s].at = "destroy")'
                PROVE  entry'[Dc(s)'].set = s /\ s \in live'
      BY DEF ManagersLive
    <3>1. Owner(s) \/ manager[s].at = "destroy"
      BY <2>4
    <3>2. entry[Dc(s)].set = s /\ s \in live
      BY <3>1 DEF OwnSets, ManagersLive
    <3> QED
      BY <3>1, <3>2, <2>3, <2>4
  <2>6. FreedUnused'
    <3> SUFFICES ASSUME NEW s \in Setups, manager'[s].at \in {"destroy", "reset"}
                PROVE  ~entry'[Dc(s)'].used
      BY DEF FreedUnused
    <3> QED
      BY <2>3, <2>4 DEF OwnSets, FreedUnused
  <2>7. Setup => runner.req # r
    BY <2>1 DEF Owned, SetupReady
  <2>8. SetupLive' /\ CrashIsLate'
    BY <2>2, <2>3, <2>7 DEF OwnSets, SetupLive, CrashIsLate, Setup
  <2> QED
    BY <2>5, <2>6, <2>8 DEF OwnSets
<1>26. ASSUME NEW r \in Setups, ResetActive(r) PROVE OwnSets'
  <2>1. manager[r].at = "reset" /\ manager'[r].at = "done" /\ Dc(r)' = Dc(r) /\ Dc(r) \in Entries
        /\ \A s \in Setups \ {r} : manager'[s] = manager[s]
    BY <1>26, ResetActiveEffect DEF ResetActive, Take, At, ManagerBecomes, Dc
  <2>2. runner' = runner /\ asked' = asked
    BY <1>26 DEF ResetActive
  <2>3. /\ live' = live
        /\ \A j \in Entries : entry'[j].used = entry[j].used /\ entry'[j].set = entry[j].set
    BY <1>26, ResetActiveEffect DEF ResetActive, EntryBecomes
  <2>5. ~crashed'
    BY <1>26 DEF ResetActive
  <2>6. \A s \in Setups :
            /\ Dc(s)' = Dc(s)
            /\ (Owner(s) \/ manager[s].at = "destroy")' => Owner(s) \/ manager[s].at = "destroy"
            /\ manager'[s].at \in {"destroy", "reset"} => manager[s].at \in {"destroy", "reset"}
    BY <2>1 DEF Owner, Dc, Loop
  <2> QED
    BY <2>2, <2>3, <2>5, <2>6, SetsKept DEF Setup
<1>27. ASSUME DaemonExits PROVE OwnSets'
  <2>1. /\ manager' = manager /\ entry' = entry /\ live' = live /\ runner' = runner
        /\ crashed' = crashed
    BY <1>27 DEF DaemonExits
  <2> QED
    BY <2>1, SetsKept DEF Owner, Dc, Setup
<1> QED
  BY <1>1, <1>2, <1>3, <1>4, <1>5, <1>6, <1>7, <1>8, <1>9, <1>10, <1>11, <1>12, <1>13, <1>14,
     <1>15, <1>16, <1>17, <1>18, <1>19, <1>20, <1>21, <1>22, <1>23, <1>24, <1>25, <1>26,
     <1>27 DEF Next, Runner, Manager

\* raced stays true once an entry was taken too early.
LEMMA RacedForEver ==
  ASSUME Next, raced
  PROVE  raced'
BY DEF Next, Runner, Manager, SetupFails, Getdc, ContextRefused, StartManager, Deactivate, Check,
       CheckLook, CheckEnds, SendCommand, Start, CtlStop, Replaced, Launch, Connected, DialFails,
       DialAgain, Stop, StopEnds, Restart, RestartEnds, TimeOut, WaitOnNothing, Report, FreeEntry,
       DestroySet, ResetActive, DaemonExits

\* The same, whether or not an entry was taken too early.
LEMMA AliveStep ==
  ASSUME TypeOK, Pointers, Owned, Alive, Next
  PROVE  Alive'
<1>1. ~crashed
  BY DEF Next
<1>2. CASE raced
  BY <1>2, RacedForEver DEF Alive
<1>3. CASE ~raced /\ ~raced'
  BY <1>1, <1>3, SetsStep DEF Alive
<1>4. CASE raced'
  BY <1>4 DEF Alive
<1> QED
  BY <1>2, <1>3, <1>4

\* What keeps the tokens as they are.
LEMMA TokensKept ==
  ASSUME Tokens, Pointers, answers' = answers, asked \subseteq asked',
         Setup' => Setup /\ runner' = runner, \A i \in Entries : entry'[i].token = entry[i].token,
         asked' \subseteq asked
  PROVE  Tokens'
BY DEF Tokens, Pointers, Setup

\* No step answers a request whose token is still in the table, or brings a token twice.
LEMMA TokensStep ==
  ASSUME TypeOK, Pointers, Owned, Tokens, Next
  PROVE  Tokens'
<1>1. ASSUME NEW r \in Setups, SetupFails(r) PROVE Tokens'
  <2>1. /\ r \notin asked /\ asked' = asked \cup {r} /\ entry' = entry /\ ~Setup'
        /\ answers'[r] = answers[r] + 1 /\ \A s \in Setups \ {r} : answers'[s] = answers[s]
    BY <1>1 DEF SetupFails, Setup, Idle, Complete, TypeOK
  <2>2. \A i \in Entries : entry[i].token # None => entry[i].token \in Setups \ {r}
    BY <2>1 DEF Tokens, TypeOK, EntryType
  <2> QED
    BY <2>1, <2>2 DEF Tokens
<1>2. ASSUME NEW r \in Setups, NEW i \in Entries, Getdc(r, i) PROVE Tokens'
  <2>1. /\ r \notin asked /\ asked' = asked \cup {r} /\ answers' = answers
        /\ runner'.req = r
    BY <1>2 DEF Getdc
  <2>2. \A j \in Entries : entry'[j].token = entry[j].token
    BY <1>2, GetdcEffect DEF EntryBecomes
  <2> QED
    BY <2>1, <2>2, NoneAssumption DEF Tokens, TypeOK
<1>3. ASSUME ContextRefused PROVE Tokens'
  <2>1. \A i \in Entries : entry'[i].token = entry[i].token
    BY <1>3, ContextRefusedEffect DEF EntryBecomes
  <2> QED
    BY <1>3, <2>1, TokensKept DEF ContextRefused, Setup, Idle
<1>4. ASSUME StartManager PROVE Tokens'
  <2> PICK i \in Entries : i = runner.dc
    BY <1>4, StartManagerEffect
  <2>1. /\ Setup /\ ~Setup' /\ answers' = answers /\ asked' = asked
        /\ runner.req \in asked /\ runner.req # None
    BY <1>4, NoneAssumption DEF StartManager, Setup, Idle, Owned, SetupReady, Pointers
  <2>2. entry'[i].token = runner.req /\ \A j \in Entries : j # i => entry'[j].token = entry[j].token
    BY <1>4, StartManagerEffect DEF EntryBecomes
  <2> QED
    BY <2>1, <2>2 DEF Tokens
<1>5. ASSUME NEW i \in Entries, Deactivate(i) PROVE Tokens'
  BY <1>5, TokensKept DEF Deactivate, Setup, Idle
<1>6. ASSUME Check PROVE Tokens'
  BY <1>6, TokensKept DEF Check, Setup, Idle
<1>7. ASSUME NEW i \in Entries, CheckLook(i) PROVE Tokens'
  BY <1>7, TokensKept DEF CheckLook, Setup, Idle
<1>8. ASSUME CheckEnds PROVE Tokens'
  BY <1>8, TokensKept DEF CheckEnds, Setup, Idle
<1>9. ASSUME SendCommand PROVE Tokens'
  BY <1>9, TokensKept DEF SendCommand, Setup, Idle
<1>10. ASSUME NEW r \in Setups, Start(r) PROVE Tokens'
  BY <1>10, TokensKept DEF Start, Setup, Idle
<1>11. ASSUME NEW r \in Setups, CtlStop(r) PROVE Tokens'
  BY <1>11, TokensKept DEF CtlStop, Setup, Idle
<1>12. ASSUME NEW r \in Setups, Replaced(r) PROVE Tokens'
  BY <1>12, TokensKept DEF Replaced, Setup, Idle
<1>13. ASSUME NEW r \in Setups, Launch(r) PROVE Tokens'
  BY <1>13, TokensKept DEF Launch, Setup, Idle
<1>14. ASSUME NEW r \in Setups, Connected(r) PROVE Tokens'
  <2>1. \A i \in Entries : entry'[i].token = entry[i].token
    BY <1>14, ConnectedEffect DEF EntryBecomes
  <2> QED
    BY <1>14, <2>1, TokensKept DEF Connected, Setup, Idle
<1>15. ASSUME NEW r \in Setups, DialFails(r) PROVE Tokens'
  <2>1. \A i \in Entries : entry'[i].token = entry[i].token
    BY <1>15, DialFailsEffect DEF EntryBecomes
  <2> QED
    BY <1>15, <2>1, TokensKept DEF DialFails, Setup, Idle
<1>16. ASSUME NEW r \in Setups, DialAgain(r) PROVE Tokens'
  BY <1>16, TokensKept DEF DialAgain, Setup, Idle
<1>17. ASSUME NEW r \in Setups, Stop(r) PROVE Tokens'
  BY <1>17, TokensKept DEF Stop, Setup, Idle
<1>18. ASSUME NEW r \in Setups, StopEnds(r) PROVE Tokens'
  <2>1. \A i \in Entries : entry'[i].token = entry[i].token
    BY <1>18, StopEndsEffect DEF EntryBecomes
  <2> QED
    BY <1>18, <2>1, TokensKept DEF StopEnds, Setup, Idle
<1>19. ASSUME NEW r \in Setups, Restart(r) PROVE Tokens'
  BY <1>19, TokensKept DEF Restart, Setup, Idle
<1>20. ASSUME NEW r \in Setups, RestartEnds(r) PROVE Tokens'
  BY <1>20, TokensKept DEF RestartEnds, Setup, Idle
<1>21. ASSUME NEW r \in Setups, TimeOut(r) PROVE Tokens'
  BY <1>21, TokensKept DEF TimeOut, Setup, Idle
<1>22. ASSUME NEW r \in Setups, WaitOnNothing(r) PROVE Tokens'
  BY <1>22, TokensKept DEF WaitOnNothing, Setup, Idle
<1>23. ASSUME NEW r \in Setups, Report(r) PROVE Tokens'
  <2>1. Dc(r) \in Entries /\ ReportDataCallStatus(Dc(r)) /\ asked' = asked /\ runner' = runner
    BY <1>23, ReportEffect DEF Report
  <2> DEFINE i == Dc(r)
             t == entry[i].token
  <2>2. /\ entry'[i].token = (IF entry[i].active = INACTIVE THEN t ELSE None)
        /\ \A j \in Entries : j # i => entry'[j].token = entry[j].token
        /\ answers' = IF entry[i].active # INACTIVE /\ t # None
                      THEN [answers EXCEPT ![t] = @ + 1] ELSE answers
    BY <2>1, Reporting DEF EntryBecomes
  <2>3. i \in Entries /\ t \in Setups \cup {None}
    BY <2>1 DEF TypeOK, EntryType
  <2>4. Setup => Setup /\ runner' = runner
    BY <2>1
  <2> HIDE DEF i
  <2>5. CASE entry[i].active = INACTIVE
    <3>1. \A j \in Entries : entry'[j].token = entry[j].token
      BY <2>2, <2>3, <2>5
    <3> QED
      BY <2>1, <2>2, <2>5, <3>1, TokensKept DEF Setup
  <2>6. CASE entry[i].active # INACTIVE /\ t = None
    <3>1. \A j \in Entries : entry'[j].token = entry[j].token
      BY <2>2, <2>3, <2>6
    <3> QED
      BY <2>1, <2>2, <2>6, <3>1, TokensKept DEF Setup
  <2>7. CASE entry[i].active # INACTIVE /\ t # None
    <3>1. /\ t \in Setups /\ answers[t] = 0 /\ t \in asked
          /\ \A j \in Entries : j # i => entry[j].token # t
          /\ Setup => t # runner.req
      BY <2>3, <2>7 DEF Tokens
    <3>2. answers'[t] = 1 /\ \A s \in Setups \ {t} : answers'[s] = answers[s]
      BY <2>2, <2>7, <3>1 DEF TypeOK
    <3>3. entry'[i].token = None
      BY <2>2, <2>7
    <3> HIDE DEF t
    <3>4. \A j \in Entries : entry'[j].token # None =>
             j # i /\ entry'[j].token = entry[j].token /\ entry[j].token # t
      BY <2>2, <3>1, <3>3
    <3>5. \A j \in Entries : entry[j].token # None => entry[j].token \in Setups
      BY DEF TypeOK, EntryType
    <3>6. Setup => runner.req \in Setups /\ runner.req # None
      BY NoneAssumption DEF Pointers
    <3> QED
      BY <2>1, <2>3, <3>1, <3>2, <3>4, <3>5, <3>6 DEF Tokens, Setup
  <2> QED
    BY <2>5, <2>6, <2>7
<1>24. ASSUME NEW r \in Setups, FreeEntry(r) PROVE Tokens'
  <2>1. \A i \in Entries : entry'[i].token = entry[i].token
    BY <1>24, FreeEntryEffect DEF EntryBecomes
  <2> QED
    BY <1>24, <2>1, TokensKept DEF FreeEntry, Setup, Idle
<1>25. ASSUME NEW r \in Setups, DestroySet(r) PROVE Tokens'
  BY <1>25, TokensKept DEF DestroySet, Setup, Idle
<1>26. ASSUME NEW r \in Setups, ResetActive(r) PROVE Tokens'
  <2>1. \A i \in Entries : entry'[i].token = entry[i].token
    BY <1>26, ResetActiveEffect DEF EntryBecomes
  <2> QED
    BY <1>26, <2>1, TokensKept DEF ResetActive, Setup, Idle
<1>27. ASSUME DaemonExits PROVE Tokens'
  BY <1>27, TokensKept DEF DaemonExits, Setup, Idle
<1> QED
  BY <1>1, <1>2, <1>3, <1>4, <1>5, <1>6, <1>7, <1>8, <1>9, <1>10, <1>11, <1>12, <1>13, <1>14,
     <1>15, <1>16, <1>17, <1>18, <1>19, <1>20, <1>21, <1>22, <1>23, <1>24, <1>25, <1>26,
     <1>27 DEF Next, Runner, Manager

\* What keeps the promise of a manager to answer its request.
LEMMA AnsweringKept ==
  ASSUME Pointers, NEW s \in Setups, Answering(s), manager'[s] = manager[s],
         Owner(s) => /\ entry'[Dc(s)].token = entry[Dc(s)].token
                     /\ entry'[Dc(s)].active = entry[Dc(s)].active,
         answers[s] = 1 => answers'[s] = 1,
         sig[s] \subseteq sig'[s]
  PROVE  Answering(s)'
BY DEF Answering, Owner, Dc, Loop

\* Until an entry is taken too early, a manager keeps the promise to answer its request:
\* an EVENT_STOP is taken only after the EVENT_START that came before it.
LEMMA AnsweringStep ==
  ASSUME TypeOK, Pointers, Owned, OwnSets, Tokens, \A s \in Setups : Answering(s), Next
  PROVE  \A s \in Setups : Answering(s)'
<1>1. ASSUME NEW r \in Setups, SetupFails(r) PROVE \A s \in Setups : Answering(s)'
  <2>1. /\ UNCHANGED <<manager, entry, sig>> /\ r \notin asked
        /\ \A s \in Setups \ {r} : answers'[s] = answers[s]
    BY <1>1 DEF SetupFails, Complete, TypeOK
  <2>2. manager[r].at = "none"
    BY <2>1 DEF Owned, StartedAsked
  <2>3. ASSUME NEW s \in Setups, s # r PROVE Answering(s)'
    BY <2>1, <2>3, AnsweringKept
  <2>4. Answering(r)'
    BY <2>1, <2>2 DEF Answering, Owner, Loop, Freeing
  <2> QED
    BY <2>3, <2>4
<1>2. ASSUME NEW r \in Setups, NEW i \in Entries, Getdc(r, i) PROVE \A s \in Setups : Answering(s)'
  <2>1. UNCHANGED <<manager, answers, sig>> /\ ~entry[i].used
    BY <1>2 DEF Getdc, FirstUnused
  <2>2. \A j \in Entries : j # i => entry'[j] = entry[j]
    BY <1>2, GetdcEffect DEF EntryBecomes
  <2>3. \A s \in Setups : Owner(s) => Dc(s) # i /\ Dc(s) \in Entries
    BY <2>1 DEF Owned, OwnersUsed, Pointers, Owner, Loop
  <2> QED
    BY <2>1, <2>2, <2>3, AnsweringKept
<1>3. ASSUME ContextRefused PROVE \A s \in Setups : Answering(s)'
  <2>1. UNCHANGED <<manager, answers, sig>> /\ Setup
    BY <1>3 DEF ContextRefused, Setup
  <2>2. \A j \in Entries : j # runner.dc => entry'[j] = entry[j]
    BY <1>3, ContextRefusedEffect DEF EntryBecomes
  <2>3. \A s \in Setups : Owner(s) => Dc(s) # runner.dc /\ Dc(s) \in Entries
    BY <2>1 DEF Owned, SetupReady, Pointers, Owner, Loop
  <2> QED
    BY <2>1, <2>2, <2>3, AnsweringKept
<1>4. ASSUME StartManager PROVE \A s \in Setups : Answering(s)'
  <2> PICK q \in Setups : q = runner.req
    BY <1>4, StartManagerEffect
  <2>1. Setup /\ answers' = answers
    BY <1>4 DEF StartManager, Setup
  <2>2. /\ runner.dc \in Entries /\ entry'[runner.dc].token = q
        /\ \A j \in Entries : j # runner.dc => entry'[j] = entry[j]
    BY <1>4, StartManagerEffect DEF EntryBecomes
  <2>3. /\ manager'[q].at = "wait" /\ Dc(q)' = runner.dc
        /\ \A s \in Setups \ {q} : manager'[s] = manager[s]
    BY <1>4, StartManagerEffect DEF ManagerBecomes, Dc
  <2>4. entry[runner.dc].set = q /\ q \in live
    BY <2>1 DEF OwnSets, SetupLive
  <2>5. EVENT_START \in sig'[q] /\ \A s \in Setups : sig[s] \subseteq sig'[s]
    BY <1>4, <2>2, <2>4, Signalling DEF StartManager, Events
  <2>6. \A s \in Setups : Owner(s) => Dc(s) # runner.dc /\ Dc(s) \in Entries
    BY <2>1 DEF Owned, SetupReady, Pointers, Owner, Loop
  <2>7. ASSUME NEW s \in Setups, s # q PROVE Answering(s)'
    BY <2>1, <2>2, <2>3, <2>5, <2>6, <2>7, AnsweringKept
  <2>8. Answering(q)'
    BY <2>2, <2>3, <2>5 DEF Answering, Owner, Loop, Freeing
  <2> QED
    BY <2>7, <2>8
<1>5. ASSUME NEW i \in Entries, Deactivate(i) PROVE \A s \in Setups : Answering(s)'
  <2>1. UNCHANGED <<manager, entry, answers, sig>>
    BY <1>5 DEF Deactivate
  <2> QED
    BY <2>1, AnsweringKept
<1>6. ASSUME Check PROVE \A s \in Setups : Answering(s)'
  <2>1. UNCHANGED <<manager, entry, answers, sig>>
    BY <1>6 DEF Check
  <2> QED
    BY <2>1, AnsweringKept
<1>7. ASSUME NEW i \in Entries, CheckLook(i) PROVE \A s \in Setups : Answering(s)'
  <2>1. UNCHANGED <<manager, entry, answers, sig>>
    BY <1>7 DEF CheckLook
  <2> QED
    BY <2>1, AnsweringKept
<1>8. ASSUME CheckEnds PROVE \A s \in Setups : Answering(s)'
  <2>1. UNCHANGED <<manager, entry, answers, sig>>
    BY <1>8 DEF CheckEnds
  <2> QED
    BY <2>1, AnsweringKept
<1>9. ASSUME SendCommand PROVE \A s \in Setups : Answering(s)'
  <2>1. UNCHANGED <<manager, entry, answers>>
    BY <1>9 DEF SendCommand
  <2>2. \A s \in Setups : sig[s] \subseteq sig'[s]
    BY <1>9, Signalling DEF SendCommand, Pointers
  <2> QED
    BY <2>1, <2>2, AnsweringKept
<1>10. ASSUME NEW r \in Setups, Start(r) PROVE \A s \in Setups : Answering(s)'
  <2>1. manager[r].at = "wait" /\ manager'[r].at = "replace" /\ Dc(r)' = Dc(r) /\ Dc(r) \in Entries
        /\ \A s \in Setups \ {r} : manager'[s] = manager[s]
    BY <1>10, StartEffect DEF Start, Take, At, ManagerBecomes, Dc
  <2>2. runner' = runner /\ asked' = asked
    BY <1>10 DEF Start
  <2>3. Owner(r) /\ entry[Dc(r)].set = r
    BY <2>1 DEF Owner, Loop, OwnSets, ManagersLive
  <2>4. \A s \in Setups \ {r} : Owner(s) => Dc(s) # Dc(r) /\ Dc(s) \in Entries
    BY <2>3 DEF Owned, OwnersDiffer, Pointers, Owner, Loop
  <2>5. answers' = answers /\ entry' = entry
    BY <1>10 DEF Start
  <2>6. \A s \in Setups \ {r} : sig[s] \subseteq sig'[s]
    BY <1>10, <2>3, Taking DEF Start, Events
  <2>7. ASSUME NEW s \in Setups, s # r PROVE Answering(s)'
    BY <2>1, <2>4, <2>5, <2>6, <2>7, AnsweringKept
  <2>8. Answering(r)'
    BY <2>1, <2>3, <2>5, <2>6 DEF Answering, Owner, Dc, Loop, Freeing
  <2> QED
    BY <2>7, <2>8
<1>11. ASSUME NEW r \in Setups, CtlStop(r) PROVE \A s \in Setups : Answering(s)'
  <2>1. UNCHANGED <<manager, entry, answers, sig>>
    BY <1>11 DEF CtlStop
  <2> QED
    BY <2>1, AnsweringKept
<1>12. ASSUME NEW r \in Setups, Replaced(r) PROVE \A s \in Setups : Answering(s)'
  <2>1. manager[r].at = "replace" /\ manager'[r].at = "launch" /\ Dc(r)' = Dc(r) /\ Dc(r) \in Entries
        /\ \A s \in Setups \ {r} : manager'[s] = manager[s]
    BY <1>12, ReplacedEffect DEF Replaced, Take, At, ManagerBecomes, Dc
  <2>2. runner' = runner /\ asked' = asked
    BY <1>12 DEF Replaced
  <2>3. Owner(r) /\ entry[Dc(r)].set = r
    BY <2>1 DEF Owner, Loop, OwnSets, ManagersLive
  <2>4. \A s \in Setups \ {r} : Owner(s) => Dc(s) # Dc(r) /\ Dc(s) \in Entries
    BY <2>3 DEF Owned, OwnersDiffer, Pointers, Owner, Loop
  <2>5. answers' = answers /\ entry' = entry
    BY <1>12 DEF Replaced
  <2>6. sig' = sig
    BY <1>12 DEF Replaced
  <2>7. ASSUME NEW s \in Setups, s # r PROVE Answering(s)'
    BY <2>1, <2>4, <2>5, <2>6, <2>7, AnsweringKept
  <2>8. Answering(r)'
    BY <2>1, <2>3, <2>5, <2>6 DEF Answering, Owner, Dc, Loop, Freeing
  <2> QED
    BY <2>7, <2>8
<1>13. ASSUME NEW r \in Setups, Launch(r) PROVE \A s \in Setups : Answering(s)'
  <2>1. manager[r].at = "launch" /\ manager'[r].at = "dial" /\ Dc(r)' = Dc(r) /\ Dc(r) \in Entries
        /\ \A s \in Setups \ {r} : manager'[s] = manager[s]
    BY <1>13, LaunchEffect DEF Launch, Take, At, ManagerBecomes, Dc
  <2>2. runner' = runner /\ asked' = asked
    BY <1>13 DEF Launch
  <2>3. Owner(r) /\ entry[Dc(r)].set = r
    BY <2>1 DEF Owner, Loop, OwnSets, ManagersLive
  <2>4. \A s \in Setups \ {r} : Owner(s) => Dc(s) # Dc(r) /\ Dc(s) \in Entries
    BY <2>3 DEF Owned, OwnersDiffer, Pointers, Owner, Loop
  <2>5. answers' = answers /\ entry' = entry
    BY <1>13 DEF Launch
  <2>6. sig' = sig
    BY <1>13 DEF Launch
  <2>7. ASSUME NEW s \in Setups, s # r PROVE Answering(s)'
    BY <2>1, <2>4, <2>5, <2>6, <2>7, AnsweringKept
  <2>8. Answering(r)'
    BY <2>1, <2>3, <2>5, <2>6 DEF Answering, Owner, Dc, Loop, Freeing
  <2> QED
    BY <2>7, <2>8
<1>14. ASSUME NEW r \in Setups, Connected(r) PROVE \A s \in Setups : Answering(s)'
  <2>1. manager[r].at = "dial" /\ manager'[r].at = "report" /\ Dc(r)' = Dc(r) /\ Dc(r) \in Entries
        /\ \A s \in Setups \ {r} : manager'[s] = manager[s]
    BY <1>14, ConnectedEffect DEF Connected, Take, At, ManagerBecomes, Dc
  <2>2. runner' = runner /\ asked' = asked
    BY <1>14 DEF Connected
  <2>3. Owner(r) /\ entry[Dc(r)].set = r
    BY <2>1 DEF Owner, Loop, OwnSets, ManagersLive
  <2>4. \A s \in Setups \ {r} : Owner(s) => Dc(s) # Dc(r) /\ Dc(s) \in Entries
    BY <2>3 DEF Owned, OwnersDiffer, Pointers, Owner, Loop
  <2>5. /\ answers' = answers /\ entry'[Dc(r)].token = entry[Dc(r)].token /\ entry'[Dc(r)].active = UP
        /\ \A j \in Entries : j # Dc(r) => entry'[j] = entry[j]
    BY <1>14, ConnectedEffect DEF Connected, EntryBecomes
  <2>6. sig' = sig
    BY <1>14 DEF Connected
  <2>7. ASSUME NEW s \in Setups, s # r PROVE Answering(s)'
    BY <2>1, <2>4, <2>5, <2>6, <2>7, AnsweringKept
  <2>8. Answering(r)'
    BY <2>1, <2>3, <2>5, <2>6 DEF Answering, Owner, Dc, Loop, Freeing, INACTIVE, UP, DOWN
  <2> QED
    BY <2>7, <2>8
<1>15. ASSUME NEW r \in Setups, DialFails(r) PROVE \A s \in Setups : Answering(s)'
  <2>1. manager[r].at \in {"launch", "dial"} /\ manager'[r].at = "report" /\ Dc(r)' = Dc(r) /\ Dc(r) \in Entries
        /\ \A s \in Setups \ {r} : manager'[s] = manager[s]
    BY <1>15, DialFailsEffect DEF DialFails, Take, At, ManagerBecomes, Dc
  <2>2. runner' = runner /\ asked' = asked
    BY <1>15 DEF DialFails
  <2>3. Owner(r) /\ entry[Dc(r)].set = r
    BY <2>1 DEF Owner, Loop, OwnSets, ManagersLive
  <2>4. \A s \in Setups \ {r} : Owner(s) => Dc(s) # Dc(r) /\ Dc(s) \in Entries
    BY <2>3 DEF Owned, OwnersDiffer, Pointers, Owner, Loop
  <2>5. /\ answers' = answers /\ entry'[Dc(r)].token = entry[Dc(r)].token /\ entry'[Dc(r)].active = DOWN
        /\ \A j \in Entries : j # Dc(r) => entry'[j] = entry[j]
    BY <1>15, DialFailsEffect DEF DialFails, EntryBecomes
  <2>6. sig' = sig
    BY <1>15 DEF DialFails
  <2>7. ASSUME NEW s \in Setups, s # r PROVE Answering(s)'
    BY <2>1, <2>4, <2>5, <2>6, <2>7, AnsweringKept
  <2>8. Answering(r)'
    BY <2>1, <2>3, <2>5, <2>6 DEF Answering, Owner, Dc, Loop, Freeing, INACTIVE, UP, DOWN
  <2> QED
    BY <2>7, <2>8
<1>16. ASSUME NEW r \in Setups, DialAgain(r) PROVE \A s \in Setups : Answering(s)'
  <2>1. manager[r].at \in {"launch", "dial"} /\ manager'[r].at = "wait" /\ Dc(r)' = Dc(r) /\ Dc(r) \in Entries
        /\ \A s \in Setups \ {r} : manager'[s] = manager[s]
    BY <1>16, DialAgainEffect DEF DialAgain, Take, At, ManagerBecomes, Dc
  <2>2. runner' = runner /\ asked' = asked
    BY <1>16 DEF DialAgain
  <2>3. Owner(r) /\ entry[Dc(r)].set = r
    BY <2>1 DEF Owner, Loop, OwnSets, ManagersLive
  <2>4. \A s \in Setups \ {r} : Owner(s) => Dc(s) # Dc(r) /\ Dc(s) \in Entries
    BY <2>3 DEF Owned, OwnersDiffer, Pointers, Owner, Loop
  <2>5. answers' = answers /\ entry' = entry
    BY <1>16 DEF DialAgain
  <2>6. EVENT_START \in sig'[r] /\ \A s \in Setups : sig[s] \subseteq sig'[s]
    <3>1. r \in live
      BY <2>3 DEF OwnSets, ManagersLive
    <3> QED
      BY <1>16, <2>1, <2>3, <3>1, Signalling DEF DialAgain, Events
  <2>7. ASSUME NEW s \in Setups, s # r PROVE Answering(s)'
    BY <2>1, <2>4, <2>5, <2>6, <2>7, AnsweringKept
  <2>8. Answering(r)'
    BY <2>1, <2>3, <2>5, <2>6 DEF Answering, Owner, Dc, Loop, Freeing
  <2> QED
    BY <2>7, <2>8
<1>17. ASSUME NEW r \in Setups, Stop(r) PROVE \A s \in Setups : Answering(s)'
  <2>1. manager[r].at = "wait" /\ manager'[r].at = "stop" /\ Dc(r)' = Dc(r) /\ Dc(r) \in Entries
        /\ \A s \in Setups \ {r} : manager'[s] = manager[s]
    BY <1>17, StopEffect DEF Stop, Take, At, ManagerBecomes, Dc
  <2>2. runner' = runner /\ asked' = asked
    BY <1>17 DEF Stop
  <2>3. Owner(r) /\ entry[Dc(r)].set = r
    BY <2>1 DEF Owner, Loop, OwnSets, ManagersLive
  <2>4. \A s \in Setups \ {r} : Owner(s) => Dc(s) # Dc(r) /\ Dc(s) \in Entries
    BY <2>3 DEF Owned, OwnersDiffer, Pointers, Owner, Loop
  <2>5. answers' = answers /\ entry' = entry
    BY <1>17 DEF Stop
  <2>6. /\ \A s \in Setups \ {r} : sig[s] \subseteq sig'[s]
        /\ EVENT_START \notin sig[r]
    BY <1>17, <2>3, Taking DEF Stop, Events, EVENT_START, EVENT_STOP, EVENT_RESTART
  <2>7. ASSUME NEW s \in Setups, s # r PROVE Answering(s)'
    BY <2>1, <2>4, <2>5, <2>6, <2>7, AnsweringKept
  <2>8. Answering(r)'
    BY <2>1, <2>3, <2>5, <2>6 DEF Answering, Owner, Dc, Loop, Freeing
  <2> QED
    BY <2>7, <2>8
<1>18. ASSUME NEW r \in Setups, StopEnds(r) PROVE \A s \in Setups : Answering(s)'
  <2>1. manager[r].at = "stop" /\ manager'[r].at = "exit" /\ Dc(r)' = Dc(r) /\ Dc(r) \in Entries
        /\ \A s \in Setups \ {r} : manager'[s] = manager[s]
    BY <1>18, StopEndsEffect DEF StopEnds, Take, At, ManagerBecomes, Dc
  <2>2. runner' = runner /\ asked' = asked
    BY <1>18 DEF StopEnds
  <2>3. Owner(r) /\ entry[Dc(r)].set = r
    BY <2>1 DEF Owner, Loop, OwnSets, ManagersLive
  <2>4. \A s \in Setups \ {r} : Owner(s) => Dc(s) # Dc(r) /\ Dc(s) \in Entries
    BY <2>3 DEF Owned, OwnersDiffer, Pointers, Owner, Loop
  <2>5. /\ answers' = answers /\ entry'[Dc(r)].token = entry[Dc(r)].token /\ entry'[Dc(r)].active = INACTIVE
        /\ \A j \in Entries : j # Dc(r) => entry'[j] = entry[j]
    BY <1>18, StopEndsEffect DEF StopEnds, EntryBecomes
  <2>6. sig' = sig
    BY <1>18 DEF StopEnds
  <2>7. ASSUME NEW s \in Setups, s # r PROVE Answering(s)'
    BY <2>1, <2>4, <2>5, <2>6, <2>7, AnsweringKept
  <2>8. Answering(r)'
    BY <2>1, <2>3, <2>5, <2>6 DEF Answering, Owner, Dc, Loop, Freeing, INACTIVE, UP, DOWN
  <2> QED
    BY <2>7, <2>8
<1>19. ASSUME NEW r \in Setups, Restart(r) PROVE \A s \in Setups : Answering(s)'
  <2>1. manager[r].at = "wait" /\ manager'[r].at = "restart" /\ Dc(r)' = Dc(r) /\ Dc(r) \in Entries
        /\ \A s \in Setups \ {r} : manager'[s] = manager[s]
    BY <1>19, RestartEffect DEF Restart, Take, At, ManagerBecomes, Dc
  <2>2. runner' = runner /\ asked' = asked
    BY <1>19 DEF Restart
  <2>3. Owner(r) /\ entry[Dc(r)].set = r
    BY <2>1 DEF Owner, Loop, OwnSets, ManagersLive
  <2>4. \A s \in Setups \ {r} : Owner(s) => Dc(s) # Dc(r) /\ Dc(s) \in Entries
    BY <2>3 DEF Owned, OwnersDiffer, Pointers, Owner, Loop
  <2>5. answers' = answers /\ entry' = entry
    BY <1>19 DEF Restart
  <2>6. /\ \A s \in Setups \ {r} : sig[s] \subseteq sig'[s]
        /\ EVENT_START \notin sig[r]
    BY <1>19, <2>3, Taking DEF Restart, Events, EVENT_START, EVENT_STOP, EVENT_RESTART
  <2>7. ASSUME NEW s \in Setups, s # r PROVE Answering(s)'
    BY <2>1, <2>4, <2>5, <2>6, <2>7, AnsweringKept
  <2>8. Answering(r)'
    BY <2>1, <2>3, <2>5, <2>6 DEF Answering, Owner, Dc, Loop, Freeing
  <2> QED
    BY <2>7, <2>8
<1>20. ASSUME NEW r \in Setups, RestartEnds(r) PROVE \A s \in Setups : Answering(s)'
  <2>1. manager[r].at = "restart" /\ manager'[r].at = "wait" /\ Dc(r)' = Dc(r) /\ Dc(r) \in Entries
        /\ \A s \in Setups \ {r} : manager'[s] = manager[s]
    BY <1>20, RestartEndsEffect DEF RestartEnds, Take, At, ManagerBecomes, Dc
  <2>2. runner' = runner /\ asked' = asked
    BY <1>20 DEF RestartEnds
  <2>3. Owner(r) /\ entry[Dc(r)].set = r
    BY <2>1 DEF Owner, Loop, OwnSets, ManagersLive
  <2>4. \A s \in Setups \ {r} : Owner(s) => Dc(s) # Dc(r) /\ Dc(s) \in Entries
    BY <2>3 DEF Owned, OwnersDiffer, Pointers, Owner, Loop
  <2>5. answers' = answers /\ entry' = entry
    BY <1>20 DEF RestartEnds
  <2>6. EVENT_START \in sig'[r] /\ \A s \in Setups : sig[s] \subseteq sig'[s]
    <3>1. r \in live
      BY <2>3 DEF OwnSets, ManagersLive
    <3> QED
      BY <1>20, <2>1, <2>3, <3>1, Signalling DEF RestartEnds, Events
  <2>7. ASSUME NEW s \in Setups, s # r PROVE Answering(s)'
    BY <2>1, <2>4, <2>5, <2>6, <2>7, AnsweringKept
  <2>8. Answering(r)'
    BY <2>1, <2>3, <2>5, <2>6 DEF Answering, Owner, Dc, Loop, Freeing
  <2> QED
    BY <2>7, <2>8
<1>21. ASSUME NEW r \in Setups, TimeOut(r) PROVE \A s \in Setups : Answering(s)'
  <2>1. UNCHANGED <<manager, entry, answers>> /\ \A s \in Setups : sig[s] \subseteq sig'[s]
    BY <1>21 DEF TimeOut, SetBit, TypeOK
  <2> QED
    BY <2>1, AnsweringKept
<1>22. ASSUME NEW r \in Setups, WaitOnNothing(r) PROVE \A s \in Setups : Answering(s)'
  <2>1. UNCHANGED <<manager, entry, answers, sig>>
    BY <1>22 DEF WaitOnNothing
  <2> QED
    BY <2>1, AnsweringKept
<1>23. ASSUME NEW r \in Setups, Report(r) PROVE \A s \in Setups : Answering(s)'
  <2>1. /\ Dc(r) \in Entries /\ ReportDataCallStatus(Dc(r))
        /\ \A s \in Setups \ {r} : manager'[s] = manager[s]
        /\ Dc(r)' = Dc(r)
        /\ \/ manager[r].at = "report" /\ manager'[r].at = "wait"
           \/ manager[r].at = "exit" /\ manager'[r].at = "free"
    BY <1>23, ReportEffect DEF Report, ManagerBecomes, Dc
  <2> DEFINE i == Dc(r)
             t == entry[i].token
  <2>2. Owner(r)
    BY <2>1 DEF Owner, Loop
  <2>3. \A s \in Setups \ {r} : Owner(s) => Dc(s) # i /\ Dc(s) \in Entries
    BY <2>2 DEF Owned, OwnersDiffer, Pointers, Owner, Loop
  <2>4. /\ \A j \in Entries : j # i => entry'[j] = entry[j]
        /\ entry[i].active = INACTIVE => entry'[i].token = t
        /\ answers' = IF entry[i].active # INACTIVE /\ t # None
                      THEN [answers EXCEPT ![t] = @ + 1] ELSE answers
        /\ \A s \in Setups : sig[s] \subseteq sig'[s]
    BY <2>1, Reporting DEF EntryBecomes
  <2>5. t \in Setups \cup {None}
    BY <2>1 DEF TypeOK, EntryType
  <2>6. t # None => answers[t] = 0
    BY <2>1 DEF Tokens
  <2> HIDE DEF t
  <2>7. \A s \in Setups : answers[s] = 1 => answers'[s] = 1
    BY <2>4, <2>5, <2>6 DEF TypeOK
  <2>8. ASSUME NEW s \in Setups, s # r PROVE Answering(s)'
    BY <2>1, <2>3, <2>4, <2>7, <2>8, AnsweringKept
  <2>9. CASE manager[r].at = "exit" /\ manager'[r].at = "free"
    <3>1. answers'[r] = 1
      BY <2>7, <2>9 DEF Answering
    <3>2. Answering(r)'
      BY <2>9, <3>1 DEF Answering
    <3> QED
      BY <2>8, <3>2
  <2>10. CASE manager[r].at = "report" /\ manager'[r].at = "wait"
    <3>1. entry[i].active # INACTIVE /\ (answers[r] = 1 \/ t = r)
      BY <2>2, <2>10 DEF Answering, t
    <3>2. r # None
      BY NoneAssumption
    <3>3. answers'[r] = 1
      BY <2>4, <2>6, <2>7, <3>1, <3>2 DEF TypeOK
    <3>4. Answering(r)'
      BY <2>10, <3>3 DEF Answering, Freeing
    <3> QED
      BY <2>8, <3>4
  <2> QED
    BY <2>1, <2>9, <2>10
<1>24. ASSUME NEW r \in Setups, FreeEntry(r) PROVE \A s \in Setups : Answering(s)'
  <2>1. manager[r].at = "free" /\ manager'[r].at = "destroy" /\ Dc(r)' = Dc(r) /\ Dc(r) \in Entries
        /\ \A s \in Setups \ {r} : manager'[s] = manager[s]
    BY <1>24, FreeEntryEffect DEF FreeEntry, Take, At, ManagerBecomes, Dc
  <2>2. runner' = runner /\ asked' = asked
    BY <1>24 DEF FreeEntry
  <2>3. Owner(r) /\ entry[Dc(r)].set = r
    BY <2>1 DEF Owner, Loop, OwnSets, ManagersLive
  <2>4. \A s \in Setups \ {r} : Owner(s) => Dc(s) # Dc(r) /\ Dc(s) \in Entries
    BY <2>3 DEF Owned, OwnersDiffer, Pointers, Owner, Loop
  <2>5. /\ answers' = answers /\ entry'[Dc(r)].token = entry[Dc(r)].token
        /\ \A j \in Entries : j # Dc(r) => entry'[j] = entry[j]
    BY <1>24, FreeEntryEffect DEF FreeEntry, EntryBecomes
  <2>6. sig' = sig
    BY <1>24 DEF FreeEntry
  <2>7. ASSUME NEW s \in Setups, s # r PROVE Answering(s)'
    BY <2>1, <2>4, <2>5, <2>6, <2>7, AnsweringKept
  <2>8. Answering(r)'
    BY <2>1, <2>3, <2>5, <2>6 DEF Answering, Owner, Dc, Loop, Freeing
  <2> QED
    BY <2>7, <2>8
<1>25. ASSUME NEW r \in Setups, DestroySet(r) PROVE \A s \in Setups : Answering(s)'
  <2>1. manager[r].at = "destroy" /\ manager'[r].at = "reset" /\ Dc(r)' = Dc(r) /\ Dc(r) \in Entries
        /\ \A s \in Setups \ {r} : manager'[s] = manager[s]
    BY <1>25, DestroySetEffect DEF DestroySet, Take, At, ManagerBecomes, Dc
  <2>2. runner' = runner /\ asked' = asked
    BY <1>25 DEF DestroySet
  <2>4. entry' = entry
    BY <1>25 DEF DestroySet
  <2>5. answers' = answers /\ entry' = entry
    BY <1>25 DEF DestroySet
  <2>6. sig' = sig
    BY <1>25 DEF DestroySet
  <2>7. ASSUME NEW s \in Setups, s # r PROVE Answering(s)'
    BY <2>1, <2>4, <2>5, <2>6, <2>7, AnsweringKept
  <2>8. Answering(r)'
    BY <2>1, <2>5, <2>6 DEF Answering, Owner, Dc, Loop, Freeing
  <2> QED
    BY <2>7, <2>8
<1>26. ASSUME NEW r \in Setups, ResetActive(r) PROVE \A s \in Setups : Answering(s)'
  <2>1. manager[r].at = "reset" /\ manager'[r].at = "done" /\ Dc(r)' = Dc(r) /\ Dc(r) \in Entries
        /\ \A s \in Setups \ {r} : manager'[s] = manager[s]
    BY <1>26, ResetActiveEffect DEF ResetActive, Take, At, ManagerBecomes, Dc
  <2>2. runner' = runner /\ asked' = asked
    BY <1>26 DEF ResetActive
  <2>3. ~entry[Dc(r)].used
    BY <2>1 DEF OwnSets, FreedUnused
  <2>4. \A s \in Setups \ {r} : Owner(s) => Dc(s) # Dc(r) /\ Dc(s) \in Entries
    BY <2>3 DEF Owned, OwnersUsed, Pointers, Owner, Loop
  <2>5. /\ answers' = answers /\ entry'[Dc(r)].token = entry[Dc(r)].token
        /\ \A j \in Entries : j # Dc(r) => entry'[j] = entry[j]
    BY <1>26, ResetActiveEffect DEF ResetActive, EntryBecomes
  <2>6. sig' = sig
    BY <1>26 DEF ResetActive
  <2>7. ASSUME NEW s \in Setups, s # r PROVE Answering(s)'
    BY <2>1, <2>4, <2>5, <2>6, <2>7, AnsweringKept
  <2>8. Answering(r)'
    BY <2>1, <2>5, <2>6 DEF Answering, Owner, Dc, Loop, Freeing
  <2> QED
    BY <2>7, <2>8
<1>27. ASSUME DaemonExits PROVE \A s \in Setups : Answering(s)'
  <2>1. UNCHANGED <<manager, entry, answers, sig>>
    BY <1>27 DEF DaemonExits
  <2> QED
    BY <2>1, AnsweringKept
<1> QED
  BY <1>1, <1>2, <1>3, <1>4, <1>5, <1>6, <1>7, <1>8, <1>9, <1>10, <1>11, <1>12, <1>13, <1>14,
     <1>15, <1>16, <1>17, <1>18, <1>19, <1>20, <1>21, <1>22, <1>23, <1>24, <1>25, <1>26,
     <1>27 DEF Next, Runner, Manager

\* The same, whether or not an entry was taken too early.
LEMMA RepliesStep ==
  ASSUME TypeOK, Pointers, Owned, Alive, Tokens, Replies, Next
  PROVE  Replies'
<1>1. CASE raced
  BY <1>1, RacedForEver DEF Replies
<1>2. CASE ~raced
  BY <1>2, AnsweringStep DEF Replies, Alive
<1> QED
  BY <1>1, <1>2

\* What keeps the managers of the calls that are up.
LEMMA ViewKept ==
  ASSUME ReportedUpIsManaged, view' = view, ~raced, ~raced',
         \A s \in Setups : manager[s].at \in Loop => manager'[s].at \in Loop /\ Dc(s)' = Dc(s)
  PROVE  ReportedUpIsManaged'
BY DEF ReportedUpIsManaged

\* Until an entry is taken too early, a manager that ends reports its call down first.
LEMMA ViewStep ==
  ASSUME TypeOK, Pointers, Owned, \A s \in Setups : Answering(s), ReportedUpIsManaged, ~raced, ~raced', Next
  PROVE  ReportedUpIsManaged'
<1>1. ASSUME NEW r \in Setups, SetupFails(r) PROVE ReportedUpIsManaged'
  <2>1. view' = view /\ manager' = manager
    BY <1>1 DEF SetupFails
  <2> QED
    BY <2>1, ViewKept DEF Dc
<1>2. ASSUME NEW r \in Setups, NEW i \in Entries, Getdc(r, i) PROVE ReportedUpIsManaged'
  <2>1. view' = view /\ manager' = manager
    BY <1>2 DEF Getdc
  <2> QED
    BY <2>1, ViewKept DEF Dc
<1>3. ASSUME ContextRefused PROVE ReportedUpIsManaged'
  <2>1. view' = view /\ manager' = manager
    BY <1>3 DEF ContextRefused
  <2> QED
    BY <2>1, ViewKept DEF Dc
<1>4. ASSUME StartManager PROVE ReportedUpIsManaged'
  <2> PICK q \in Setups : q = runner.req
    BY <1>4, StartManagerEffect
  <2>1. view' = view /\ Setup
    BY <1>4 DEF StartManager, Setup
  <2>2. \A s \in Setups \ {q} : manager'[s] = manager[s]
    BY <1>4, StartManagerEffect DEF ManagerBecomes
  <2>3. manager[q].at = "none"
    BY <2>1 DEF Owned, SetupReady
  <2> QED
    BY <2>1, <2>2, <2>3, ViewKept DEF Dc, Loop
<1>5. ASSUME NEW i \in Entries, Deactivate(i) PROVE ReportedUpIsManaged'
  <2>1. view' = view /\ manager' = manager
    BY <1>5 DEF Deactivate
  <2> QED
    BY <2>1, ViewKept DEF Dc
<1>6. ASSUME Check PROVE ReportedUpIsManaged'
  <2>1. view' = view /\ manager' = manager
    BY <1>6 DEF Check
  <2> QED
    BY <2>1, ViewKept DEF Dc
<1>7. ASSUME NEW i \in Entries, CheckLook(i) PROVE ReportedUpIsManaged'
  <2>1. view' = view /\ manager' = manager
    BY <1>7 DEF CheckLook
  <2> QED
    BY <2>1, ViewKept DEF Dc
<1>8. ASSUME CheckEnds PROVE ReportedUpIsManaged'
  <2>1. view' = view /\ manager' = manager
    BY <1>8 DEF CheckEnds
  <2> QED
    BY <2>1, ViewKept DEF Dc
<1>9. ASSUME SendCommand PROVE ReportedUpIsManaged'
  <2>1. view' = view /\ manager' = manager
    BY <1>9 DEF SendCommand
  <2> QED
    BY <2>1, ViewKept DEF Dc
<1>10. ASSUME NEW r \in Setups, Start(r) PROVE ReportedUpIsManaged'
  <2>1. manager[r].at = "wait" /\ manager'[r].at = "replace" /\ Dc(r)' = Dc(r) /\ Dc(r) \in Entries
        /\ \A s \in Setups \ {r} : manager'[s] = manager[s]
    BY <1>10, StartEffect DEF Start, Take, At, ManagerBecomes, Dc
  <2>2. runner' = runner /\ asked' = asked
    BY <1>10 DEF Start
  <2>3. view' = view
    BY <1>10 DEF Start
  <2> QED
    BY <2>1, <2>3, ViewKept DEF Dc, Loop
<1>11. ASSUME NEW r \in Setups, CtlStop(r) PROVE ReportedUpIsManaged'
  <2>1. view' = view /\ manager' = manager
    BY <1>11 DEF CtlStop
  <2> QED
    BY <2>1, ViewKept DEF Dc
<1>12. ASSUME NEW r \in Setups, Replaced(r) PROVE ReportedUpIsManaged'
  <2>1. manager[r].at = "replace" /\ manager'[r].at = "launch" /\ Dc(r)' = Dc(r) /\ Dc(r) \in Entries
        /\ \A s \in Setups \ {r} : manager'[s] = manager[s]
    BY <1>12, ReplacedEffect DEF Replaced, Take, At, ManagerBecomes, Dc
  <2>2. runner' = runner /\ asked' = asked
    BY <1>12 DEF Replaced
  <2>3. view' = view
    BY <1>12 DEF Replaced
  <2> QED
    BY <2>1, <2>3, ViewKept DEF Dc, Loop
<1>13. ASSUME NEW r \in Setups, Launch(r) PROVE ReportedUpIsManaged'
  <2>1. manager[r].at = "launch" /\ manager'[r].at = "dial" /\ Dc(r)' = Dc(r) /\ Dc(r) \in Entries
        /\ \A s \in Setups \ {r} : manager'[s] = manager[s]
    BY <1>13, LaunchEffect DEF Launch, Take, At, ManagerBecomes, Dc
  <2>2. runner' = runner /\ asked' = asked
    BY <1>13 DEF Launch
  <2>3. view' = view
    BY <1>13 DEF Launch
  <2> QED
    BY <2>1, <2>3, ViewKept DEF Dc, Loop
<1>14. ASSUME NEW r \in Setups, Connected(r) PROVE ReportedUpIsManaged'
  <2>1. manager[r].at = "dial" /\ manager'[r].at = "report" /\ Dc(r)' = Dc(r) /\ Dc(r) \in Entries
        /\ \A s \in Setups \ {r} : manager'[s] = manager[s]
    BY <1>14, ConnectedEffect DEF Connected, Take, At, ManagerBecomes, Dc
  <2>2. runner' = runner /\ asked' = asked
    BY <1>14 DEF Connected
  <2>3. view' = view
    BY <1>14 DEF Connected
  <2> QED
    BY <2>1, <2>3, ViewKept DEF Dc, Loop
<1>15. ASSUME NEW r \in Setups, DialFails(r) PROVE ReportedUpIsManaged'
  <2>1. manager[r].at \in {"launch", "dial"} /\ manager'[r].at = "report" /\ Dc(r)' = Dc(r) /\ Dc(r) \in Entries
        /\ \A s \in Setups \ {r} : manager'[s] = manager[s]
    BY <1>15, DialFailsEffect DEF DialFails, Take, At, ManagerBecomes, Dc
  <2>2. runner' = runner /\ asked' = asked
    BY <1>15 DEF DialFails
  <2>3. view' = view
    BY <1>15 DEF DialFails
  <2> QED
    BY <2>1, <2>3, ViewKept DEF Dc, Loop
<1>16. ASSUME NEW r \in Setups, DialAgain(r) PROVE ReportedUpIsManaged'
  <2>1. manager[r].at \in {"launch", "dial"} /\ manager'[r].at = "wait" /\ Dc(r)' = Dc(r) /\ Dc(r) \in Entries
        /\ \A s \in Setups \ {r} : manager'[s] = manager[s]
    BY <1>16, DialAgainEffect DEF DialAgain, Take, At, ManagerBecomes, Dc
  <2>2. runner' = runner /\ asked' = asked
    BY <1>16 DEF DialAgain
  <2>3. view' = view
    BY <1>16 DEF DialAgain
  <2> QED
    BY <2>1, <2>3, ViewKept DEF Dc, Loop
<1>17. ASSUME NEW r \in Setups, Stop(r) PROVE ReportedUpIsManaged'
  <2>1. manager[r].at = "wait" /\ manager'[r].at = "stop" /\ Dc(r)' = Dc(r) /\ Dc(r) \in Entries
        /\ \A s \in Setups \ {r} : manager'[s] = manager[s]
    BY <1>17, StopEffect DEF Stop, Take, At, ManagerBecomes, Dc
  <2>2. runner' = runner /\ asked' = asked
    BY <1>17 DEF Stop
  <2>3. view' = view
    BY <1>17 DEF Stop
  <2> QED
    BY <2>1, <2>3, ViewKept DEF Dc, Loop
<1>18. ASSUME NEW r \in Setups, StopEnds(r) PROVE ReportedUpIsManaged'
  <2>1. manager[r].at = "stop" /\ manager'[r].at = "exit" /\ Dc(r)' = Dc(r) /\ Dc(r) \in Entries
        /\ \A s \in Setups \ {r} : manager'[s] = manager[s]
    BY <1>18, StopEndsEffect DEF StopEnds, Take, At, ManagerBecomes, Dc
  <2>2. runner' = runner /\ asked' = asked
    BY <1>18 DEF StopEnds
  <2>3. view' = view
    BY <1>18 DEF StopEnds
  <2> QED
    BY <2>1, <2>3, ViewKept DEF Dc, Loop
<1>19. ASSUME NEW r \in Setups, Restart(r) PROVE ReportedUpIsManaged'
  <2>1. manager[r].at = "wait" /\ manager'[r].at = "restart" /\ Dc(r)' = Dc(r) /\ Dc(r) \in Entries
        /\ \A s \in Setups \ {r} : manager'[s] = manager[s]
    BY <1>19, RestartEffect DEF Restart, Take, At, ManagerBecomes, Dc
  <2>2. runner' = runner /\ asked' = asked
    BY <1>19 DEF Restart
  <2>3. view' = view
    BY <1>19 DEF Restart
  <2> QED
    BY <2>1, <2>3, ViewKept DEF Dc, Loop
<1>20. ASSUME NEW r \in Setups, RestartEnds(r) PROVE ReportedUpIsManaged'
  <2>1. manager[r].at = "restart" /\ manager'[r].at = "wait" /\ Dc(r)' = Dc(r) /\ Dc(r) \in Entries
        /\ \A s \in Setups \ {r} : manager'[s] = manager[s]
    BY <1>20, RestartEndsEffect DEF RestartEnds, Take, At, ManagerBecomes, Dc
  <2>2. runner' = runner /\ asked' = asked
    BY <1>20 DEF RestartEnds
  <2>3. view' = view
    BY <1>20 DEF RestartEnds
  <2> QED
    BY <2>1, <2>3, ViewKept DEF Dc, Loop
<1>21. ASSUME NEW r \in Setups, TimeOut(r) PROVE ReportedUpIsManaged'
  <2>1. view' = view /\ manager' = manager
    BY <1>21 DEF TimeOut
  <2> QED
    BY <2>1, ViewKept DEF Dc
<1>22. ASSUME NEW r \in Setups, WaitOnNothing(r) PROVE ReportedUpIsManaged'
  <2>1. view' = view /\ manager' = manager
    BY <1>22 DEF WaitOnNothing
  <2> QED
    BY <2>1, ViewKept DEF Dc
<1>23. ASSUME NEW r \in Setups, Report(r) PROVE ReportedUpIsManaged'
  <2>1. /\ Dc(r) \in Entries /\ ReportDataCallStatus(Dc(r))
        /\ \A s \in Setups \ {r} : manager'[s] = manager[s]
        /\ Dc(r)' = Dc(r)
        /\ \/ manager[r].at = "report" /\ manager'[r].at = "wait"
           \/ manager[r].at = "exit" /\ manager'[r].at = "free"
    BY <1>23, ReportEffect DEF Report, ManagerBecomes, Dc
  <2>2. \A j \in Entries : j # Dc(r) => view'[j] = view[j]
    BY <2>1, Reporting
  <2>3. \A s \in Setups \ {r} : manager[s].at \in Loop => manager'[s].at \in Loop /\ Dc(s)' = Dc(s)
    BY <2>1 DEF Dc
  <2>4. CASE manager'[r].at = "wait"
    BY <2>1, <2>2, <2>3, <2>4 DEF ReportedUpIsManaged, Loop
  <2>5. CASE manager[r].at = "exit"
    <3>1. entry[Dc(r)].active = INACTIVE
      BY <2>5 DEF Answering
    <3>2. view'[Dc(r)] # "up"
      BY <2>1, <3>1, Reporting DEF INACTIVE, DOWN, UP
    <3> QED
      BY <2>1, <2>2, <2>3, <3>2 DEF ReportedUpIsManaged
  <2> QED
    BY <2>1, <2>4, <2>5
<1>24. ASSUME NEW r \in Setups, FreeEntry(r) PROVE ReportedUpIsManaged'
  <2>1. manager[r].at = "free" /\ manager'[r].at = "destroy" /\ Dc(r)' = Dc(r) /\ Dc(r) \in Entries
        /\ \A s \in Setups \ {r} : manager'[s] = manager[s]
    BY <1>24, FreeEntryEffect DEF FreeEntry, Take, At, ManagerBecomes, Dc
  <2>2. runner' = runner /\ asked' = asked
    BY <1>24 DEF FreeEntry
  <2>3. view' = view
    BY <1>24 DEF FreeEntry
  <2> QED
    BY <2>1, <2>3, ViewKept DEF Dc, Loop
<1>25. ASSUME NEW r \in Setups, DestroySet(r) PROVE ReportedUpIsManaged'
  <2>1. manager[r].at = "destroy" /\ manager'[r].at = "reset" /\ Dc(r)' = Dc(r) /\ Dc(r) \in Entries
        /\ \A s \in Setups \ {r} : manager'[s] = manager[s]
    BY <1>25, DestroySetEffect DEF DestroySet, Take, At, ManagerBecomes, Dc
  <2>2. runner' = runner /\ asked' = asked
    BY <1>25 DEF DestroySet
  <2>3. view' = view
    BY <1>25 DEF DestroySet
  <2> QED
    BY <2>1, <2>3, ViewKept DEF Dc, Loop
<1>26. ASSUME NEW r \in Setups, ResetActive(r) PROVE ReportedUpIsManaged'
  <2>1. manager[r].at = "reset" /\ manager'[r].at = "done" /\ Dc(r)' = Dc(r) /\ Dc(r) \in Entries
        /\ \A s \in Setups \ {r} : manager'[s] = manager[s]
    BY <1>26, ResetActiveEffect DEF ResetActive, Take, At, ManagerBecomes, Dc
  <2>2. runner' = runner /\ asked' = asked
    BY <1>26 DEF ResetActive
  <2>3. view' = view
    BY <1>26 DEF ResetActive
  <2> QED
    BY <2>1, <2>3, ViewKept DEF Dc, Loop
<1>27. ASSUME DaemonExits PROVE ReportedUpIsManaged'
  <2>1. view' = view /\ manager' = manager
    BY <1>27 DEF DaemonExits
  <2> QED
    BY <2>1, ViewKept DEF Dc
<1> QED
  BY <1>1, <1>2, <1>3, <1>4, <1>5, <1>6, <1>7, <1>8, <1>9, <1>10, <1>11, <1>12, <1>13, <1>14,
     <1>15, <1>16, <1>17, <1>18, <1>19, <1>20, <1>21, <1>22, <1>23, <1>24, <1>25, <1>26,
     <1>27 DEF Next, Runner, Manager

\* The same, whether or not an entry was taken too early.
LEMMA ManagedStep ==
  ASSUME TypeOK, Pointers, Owned, Replies, ReportedUpIsManaged, Next
  PROVE  ReportedUpIsManaged'
<1>1. CASE raced
  BY <1>1, RacedForEver DEF ReportedUpIsManaged
<1>2. CASE raced'
  BY <1>2 DEF ReportedUpIsManaged
<1>3. CASE ~raced /\ ~raced'
  BY <1>3, ViewStep DEF Replies
<1> QED
  BY <1>1, <1>2, <1>3

\* The initial states satisfy the inductive invariant.
LEMMA Beginning ==
  ASSUME Init
  PROVE  IInv
<1>1. entry \in [Entries -> EntryType] /\ manager \in [Setups -> ManagerType]
  BY DataCallAssumption DEF Init, EntryType, ManagerType
<1>2. runner \in RunnerType
  BY DEF Init, RunnerType, Idle
<1>3. sig \in [Setups -> SUBSET Events] /\ live \in SUBSET Setups /\ asked \in SUBSET Setups
      /\ answers \in [Setups -> Nat] /\ refused \in SUBSET Setups
  BY DEF Init
<1>4. TypeOK
  <2>1. view \in [Entries -> {"none", "up", "down"}]
    BY DEF Init
  <2>2. deactivations \in 0 .. MaxDeactivations /\ checks \in 0 .. MaxChecks
    BY DataCallAssumption DEF Init
  <2>3. cdma \in BOOLEAN /\ daemon \in Setups \cup {None} /\ raced \in BOOLEAN /\ crashed \in BOOLEAN
    BY DataCallAssumption DEF Init
  <2> QED
    BY <1>1, <1>2, <1>3, <2>1, <2>2, <2>3 DEF TypeOK
<1>5. runner.at = "idle" /\ \A r \in Setups : manager[r].at = "none"
  BY DEF Init, Idle
<1>6. Pointers
  BY <1>5 DEF Pointers, Setup
<1>7. Owned
  BY <1>5 DEF Init, Owned, UsedOwned, OwnersDiffer, OwnersUsed, StartedAsked, SetupReady,
             Owner, Loop, Setup
<1>8. Alive
  BY <1>5 DEF Init, Alive, OwnSets, ManagersLive, FreedUnused, SetupLive, CrashIsLate,
             Owner, Loop, Setup
<1>9. Tokens
  BY <1>5 DEF Init, Tokens, Setup
<1>10. Replies
  BY <1>5 DEF Init, Replies, Answering, Owner, Loop, Freeing
<1>11. ReportedUpIsManaged
  BY DEF Init, ReportedUpIsManaged
<1> QED
  BY <1>4, <1>6, <1>7, <1>8, <1>9, <1>10, <1>11 DEF IInv

\* So does a step that changes nothing.
LEMMA Stuttering ==
  ASSUME IInv, UNCHANGED vars
  PROVE  IInv'
<1>1. UNCHANGED <<cdma, entry, sig, live, manager, runner, daemon, asked, answers, refused,
                  view, raced, crashed, deactivations, checks>>
  BY DEF vars, dataVars
<1>2. TypeOK'
  BY <1>1 DEF IInv, TypeOK
<1>3. Pointers'
  BY <1>1 DEF IInv, Pointers, Setup, Dc
<1>4. Owned'
  BY <1>1 DEF IInv, Owned, UsedOwned, OwnersDiffer, OwnersUsed, StartedAsked, SetupReady, Owner,
             Setup, Dc
<1>5. Alive'
  BY <1>1 DEF IInv, Alive, OwnSets, ManagersLive, FreedUnused, SetupLive, CrashIsLate, Owner,
     Setup, Dc
<1>6. Tokens'
  BY <1>1 DEF IInv, Tokens, Setup
<1>7. Replies'
  BY <1>1 DEF IInv, Replies, Answering, Owner, Dc
<1>8. ReportedUpIsManaged'
  BY <1>1 DEF IInv, ReportedUpIsManaged, Dc
<1> QED
  BY <1>2, <1>3, <1>4, <1>5, <1>6, <1>7, <1>8 DEF IInv

\* The inductive invariant holds of the specification.
LEMMA Invariance == Spec => []IInv
<1>1. Init => IInv
  BY Beginning
<1>2. IInv /\ [Next]_vars => IInv'
  <2>1. CASE Next
    BY <2>1, TypeStep, PointersStep, OwnedStep, AliveStep, TokensStep, RepliesStep,
       ManagedStep DEF IInv
  <2>2. CASE UNCHANGED vars
    BY <2>2, Stuttering
  <2> QED
    BY <2>1, <2>2
<1> QED
  BY <1>1, <1>2, PTL DEF Spec

\* The entries, the threads and the requests keep their types.
THEOREM DataCallTypes == Spec => []TypeOK
<1>1. IInv => TypeOK
  BY DEF IInv
<1> QED
  BY <1>1, Invariance, PTL

\* An entry of dcs that is in use has one manager, or the runner is about to
\* start it: getdc, pdp_manager and freedc leak no entry and share none.
THEOREM DataCallManaged == Spec => []EntryManaged
<1>1. IInv => EntryManaged
  BY DEF IInv, Owned, UsedOwned, OwnersDiffer, Owner, EntryManaged, Setup
<1> QED
  BY <1>1, Invariance, PTL

\* An event set is used after its destruction in two ways only: getdc took the
\* entry while the last manager was still in freedc, or the manager ended
\* between the look-up of the entry and the command.
THEOREM DataCallSets == Spec => []NoFreedSetUsed
<1>1. IInv => NoFreedSetUsed
  BY DEF IInv, Alive, OwnSets, CrashIsLate, NoFreedSetUsed
<1> QED
  BY <1>1, Invariance, PTL

\* A setup request is answered once at the most, and a manager that has ended
\* has answered its own: EVENT_START, which leads to the answer, goes before
\* an EVENT_STOP that came in with it.
THEOREM DataCallAnswers == Spec => []SetupAnsweredOnce
<1>1. IInv => SetupAnsweredOnce
  BY DEF IInv, Tokens, Replies, Answering, SetupAnsweredOnce, Ended
<1> QED
  BY <1>1, Invariance, PTL

\* A call that was reported up has a manager that will say when it is not.
THEOREM DataCallReported == Spec => []ReportedUpIsManaged
<1>1. IInv => ReportedUpIsManaged
  BY DEF IInv
<1> QED
  BY <1>1, Invariance, PTL
=============================================================================
