----------------------------- MODULE EventQueue -----------------------------
(***************************************************************************)
(* What enqueueRILEvent and the runner of the queue promise to those who    *)
(* want a callback to be called later: events are taken in the order of     *)
(* their times, those of the same time in the order of their coming, and    *)
(* none before its time.  EventList is how ril-core.c does it.              *)
(***************************************************************************)
EXTENDS Integers, Sequences, SequencesExt

CONSTANT Second               \* ticks of the clock in a second

VARIABLES queue, now           \* queue: [event, due], now: the monotonic clock

Init == queue = << >> /\ now = 0

Tick == now' = now + 1 /\ UNCHANGED queue

\* A new event, at place i, is behind those of its time, but for a whole
\* second, which has two forms: at that one place the order of equal times is
\* open.
Enqueue ==
    /\ \E i \in DOMAIN queue' :
        /\ queue = RemoveAt(queue', i)
        /\ \A j \in DOMAIN queue : queue[j].event # queue'[i].event
        /\ \A j \in 1 .. i - 1 : queue[j].due <= queue'[i].due
        /\ \A j \in i .. Len(queue) :
              \/ queue[j].due > queue'[i].due
              \/ queue[j].due = queue'[i].due /\ queue[j].due % Second = 0
    /\ UNCHANGED now

Dequeue ==
    /\ queue # << >> /\ Head(queue).due <= now
    /\ queue' = Tail(queue)
    /\ UNCHANGED now

Next == Tick \/ Dequeue \/ Enqueue
Spec == Init /\ [][Next]_<<queue, now>>
=============================================================================
