------------------------------ MODULE EventSet ------------------------------
(***************************************************************************)
(* src/libril/eventset.c: a set of event bits under a mutex and a condition *)
(* variable.  A waiter that wakes up, for whatever reason, takes the lowest *)
(* bit that is set; one that finds none after its deadline returns          *)
(* ETIMEDOUT.  eventset_wait_timeout does not look at the bits before it    *)
(* waits, so that an event set before is found at the deadline at the       *)
(* latest: to a model without time, a wait ends with the lowest bit, if     *)
(* there is one, and may time out only if there is none.  (A wake-up        *)
(* without a bit returns -1, of which the waiters make nothing.)            *)
(***************************************************************************)
EXTENDS Integers

CONSTANT MaxEvents                \* MAX_EVENTS
ASSUME MaxEventsAssumption == MaxEvents \in Nat

SetBit(sig, e)     == sig \cup {e}
\* a mutant: the bit that is set last in the order of the numbers goes first
LastBit(sig)       == CHOOSE e \in sig : \A f \in sig : f <= e
FindFirstBit(sig)  == CHOOSE e \in sig : \A f \in sig : e <= f
ClearBit(sig, e)   == sig \ {e}
TimedOut(sig)      == sig = {}
=============================================================================
