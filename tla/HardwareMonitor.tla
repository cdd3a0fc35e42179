-------------------------- MODULE HardwareMonitor --------------------------
(***************************************************************************)
(* The hardware monitor of src/libril/ril-hardware.c: a thread that reads   *)
(* the link state of the modem's driver, writes 0 over it, has the data     *)
(* calls checked, and tells the framework of the change.  The driver, the   *)
(* radio state, the wake lock that calls hold, and the pointer to the       *)
(* modem's table entry change under its hands.                              *)
(***************************************************************************)
EXTENDS Integers

CONSTANT MaxChanges           \* bound on the changes of the link state

HardwareAssumption == MaxChanges \in Nat

VARIABLES
    link,          \* the file link_state of the driver
    seen,          \* what the monitor has read of it
    at,            \* where the monitor is
    hardware,      \* rilhw is not NULL
    ready,         \* sState is radio_state_ready
    awake,         \* the wake lock is held for a call
    changes,
    owed,          \* the framework has not been told of the last change
    late,          \* a change has come between the read and the write
    excuse         \* why the framework may have not been told

vars == <<link, seen, at, hardware, ready, awake, changes, owed, late, excuse>>
around == <<hardware, ready, awake>>

\* States and flags have values of their types; while the monitor waits, it
\* has nothing in its hands.
TypeOK ==
    /\ link \in 0 .. 2 /\ seen \in 0 .. 2
    /\ at \in {"select", "clear", "tell", "crashed"} /\ (at = "select" => seen = 0)
    /\ hardware \in BOOLEAN /\ ready \in BOOLEAN /\ awake \in BOOLEAN
    /\ changes \in 0 .. MaxChanges
    /\ owed \in BOOLEAN /\ late \in BOOLEAN
    /\ excuse \subseteq {"late", "not ready", "awake"}

\* rilhw_init is called once the modem has been initialised
Init ==
    /\ link = 0 /\ seen = 0 /\ at = "select"
    /\ hardware = TRUE /\ ready = TRUE /\ awake = FALSE
    /\ changes = 0 /\ owed = FALSE /\ late = FALSE /\ excuse = {}

(***************************************************************************)
(* What happens around the monitor                                          *)
(***************************************************************************)
Change(state) ==
    /\ changes < MaxChanges
    /\ changes' = changes + 1 /\ link' = state /\ owed' = TRUE
    /\ late' = (late \/ (at = "clear" /\ seen # 0))
    /\ UNCHANGED <<seen, at, around, excuse>>

SetRadioState(isReady) ==
    /\ ready' = isReady
    /\ UNCHANGED <<link, seen, at, hardware, awake, changes, owed, late, excuse>>

\* rilhw_found assigns what find_matched_device returns,
FindMatchedDevice(found) ==
    /\ hardware' = found
    /\ UNCHANGED <<link, seen, at, ready, awake, changes, owed, late, excuse>>

\* and takes it back when rilhw_check misses one of its ports
PortMissing ==
    /\ hardware /\ hardware' = FALSE
    /\ UNCHANGED <<link, seen, at, ready, awake, changes, owed, late, excuse>>

\* a second lock is none, and one release is enough
WakeLock(acquired, released) == awake' = (acquired \/ (awake /\ ~released))

\* requestGetCurrentCalls: the lock is taken at the first call of the list that
\* can be parsed, and released when the list is empty, not when the query fails
CurrentCalls(valid, count) ==
    /\ valid <= count
    /\ WakeLock(valid > 0, count = 0)
    /\ UNCHANGED <<link, seen, at, hardware, ready, changes, owed, late, excuse>>

(***************************************************************************)
(* link_state_changed, on the thread hardware_monitor                       *)
(***************************************************************************)
\* a mutant: 0 is written whatever was read
ReadAndClear ==
    /\ at = "select"
    /\ seen' = link /\ at' = "clear"
    /\ UNCHANGED <<link, around, changes, owed, late, excuse>>

\* rilhw_link_change reads the file
Read ==
    /\ at = "select"
    /\ seen' = link
    /\ at' = IF link = 0 THEN "tell" ELSE "clear"
    /\ UNCHANGED <<link, around, changes, owed, late, excuse>>

\* and writes 0, over a change that has come since too
Clear ==
    /\ at = "clear"
    /\ link' = 0 /\ at' = "tell"
    /\ UNCHANGED <<seen, around, changes, owed, late, excuse>>

\* pdp_check follows rilhw; then the radio must be ready, and a plain change
\* of the link is of no interest during a call
Tell ==
    /\ at = "tell"
    /\ IF ~hardware
       THEN at' = "crashed" /\ UNCHANGED <<seen, owed, late, excuse>>
       ELSE /\ at' = "select" /\ seen' = 0 /\ late' = FALSE
            /\ IF ready /\ (seen = 2 \/ (seen = 1 /\ ~awake))
               THEN /\ owed' = (late \/ link # 0)
                    /\ excuse' = {e \in {"late"} : late}
               ELSE /\ excuse' = excuse \cup {e \in {"late"} : late}
                                        \cup {e \in {"not ready"} : seen # 0 /\ ~ready}
                                        \cup {e \in {"awake"} : seen = 1 /\ awake}
                    /\ UNCHANGED owed
    /\ UNCHANGED <<link, around, changes>>

Next ==
    \/ \E state \in {1, 2} : Change(state)
    \/ \E b \in BOOLEAN : SetRadioState(b) \/ FindMatchedDevice(b)
    \/ PortMissing
    \/ \E valid, count \in 0 .. 1 : CurrentCalls(valid, count)
    \/ Read \/ Clear \/ Tell
Spec == Init /\ [][Next]_vars

\* A change that the driver has reported, and that is not in the file any
\* more, has been told to the framework; unless it came between the read and
\* the write of rilhw_link_change, found the radio not ready, or was a plain
\* one during a call.
NoChangeLost == at = "select" /\ link = 0 /\ owed => excuse # {}
=============================================================================
