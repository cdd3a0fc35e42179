----------------------------- MODULE EventList -----------------------------
(***************************************************************************)
(* The event list of src/libril/ril-core.c: enqueueRILEvent puts an element *)
(* into a doubly linked list sorted by time, the runner of the queue takes  *)
(* its head, calls the callback without the mutex, and frees the element.   *)
(* The clock is read before the mutex is taken.  Taking the head leaves the *)
(* prev pointer of the new head as it was, to an element that is freed and  *)
(* may be allocated again.                                                  *)
(***************************************************************************)
EXTENDS Integers, Sequences, FiniteSets

CONSTANTS
    Nodes,         \* the memory of the elements
    Null,
    Second,        \* ticks of the clock in a second: tv_nsec is below it
    Delays,        \* the relative times, as [sec, nsec]
    MaxTime        \* bound on the clock

EventListAssumption ==
    /\ IsFiniteSet(Nodes) /\ Null \notin Nodes
    /\ Second \in Nat \ {0} /\ MaxTime \in Nat
    /\ Delays \subseteq [sec : Nat, nsec : 0 .. Second - 1]

VARIABLES
    now,           \* the monotonic clock, in ticks
    node,          \* abstime, next and prev of every element, and its use
    head           \* q->eventList

vars == <<now, node, head>>

Times   == [sec : Nat, nsec : 0 .. Second]
Clock   == [sec |-> now \div Second, nsec |-> now % Second]
Unused  == [abstime |-> [sec |-> 0, nsec |-> 0], next |-> Null, prev |-> Null, use |-> "free"]

\* Pointers are null or point to memory of elements; times have their fields.
TypeOK ==
    /\ now \in 0 .. MaxTime
    /\ node \in [Nodes -> [abstime : Times, next : Nodes \cup {Null}, prev : Nodes \cup {Null},
                           use : {"free", "new", "listed", "called"}]]
    /\ head \in Nodes \cup {Null}

Init == now = 0 /\ node = [n \in Nodes |-> Unused] /\ head = Null

\* a mutant: events of the same time change places
LaterOrSame(a, b) == IF a.sec = b.sec THEN a.nsec >= b.nsec ELSE a.sec > b.sec

\* timespec_cmp(a, b, >)
Later(a, b) == IF a.sec = b.sec THEN a.nsec > b.nsec ELSE a.sec > b.sec

\* the carry is taken when the nanoseconds exceed a second, not when they reach it
After(delay) ==
    LET sec  == Clock.sec + delay.sec
        nsec == Clock.nsec + delay.nsec
    IN  IF nsec > Second THEN [sec |-> sec + 1, nsec |-> nsec - Second]
                         ELSE [sec |-> sec, nsec |-> nsec]

\* enqueueRILEvent up to the mutex
Create(n, delay) ==
    /\ node[n].use = "free"
    /\ node' = [node EXCEPT ![n] = [Unused EXCEPT !.abstime = After(delay), !.use = "new"]]
    /\ UNCHANGED <<now, head>>

\* the pointers from the head on, and the elements up to the first null
From[i \in 0 .. Cardinality(Nodes) + 1] ==
    IF i = 0 THEN head
    ELSE IF From[i - 1] = Null THEN Null ELSE node[From[i - 1]].next
Walk ==
    LET length == CHOOSE i \in DOMAIN From : From[i] = Null /\ \A j \in 0 .. i - 1 : From[j] # Null
    IN  [i \in 1 .. length |-> From[i - 1]]

InsertFirst(n) ==
    /\ node' = [m \in Nodes |-> CASE m = n    -> [node[n] EXCEPT !.next = head, !.use = "listed"]
                                  [] m = head -> [node[m] EXCEPT !.prev = n]
                                  [] OTHER    -> node[m]]
    /\ head' = n

\* t is the first element that is later: the one in front of it is found
\* through its prev pointer
InsertBefore(n, t) ==
    LET p == node[t].prev
    IN  /\ node' = [[[node EXCEPT ![p].next = n]
                          EXCEPT ![n] = [@ EXCEPT !.prev = p, !.next = t, !.use = "listed"]]
                          EXCEPT ![t].prev = n]
        /\ UNCHANGED head

InsertLast(n, t) ==
    /\ node' = [node EXCEPT ![t].next = n, ![n].prev = t, ![n].use = "listed"]
    /\ UNCHANGED head

\* and from the mutex on
Insert(n) ==
    LET later == {i \in DOMAIN Walk : Later(node[Walk[i]].abstime, node[n].abstime)}
    IN  /\ node[n].use = "new"
        /\ CASE Walk = << >> \/ 1 \in later -> InsertFirst(n)
             [] Walk # << >> /\ later = {}  -> InsertLast(n, Walk[Len(Walk)])
             [] OTHER -> InsertBefore(n, Walk[CHOOSE i \in later : \A j \in later : i <= j])
        /\ UNCHANGED now

\* queueRunner takes the head if its time is over
Take ==
    /\ head # Null /\ Later(Clock, node[head].abstime)
    /\ head' = node[head].next
    /\ node' = [node EXCEPT ![head].use = "called"]
    /\ UNCHANGED now

\* the callback has returned
Free(n) ==
    /\ node[n].use = "called"
    /\ node' = [node EXCEPT ![n] = Unused]
    /\ UNCHANGED <<now, head>>

Tick == now < MaxTime /\ now' = now + 1 /\ UNCHANGED <<node, head>>

Next ==
    \/ Tick \/ Take
    \/ \E n \in Nodes : (\E delay \in Delays : Create(n, delay)) \/ Insert(n) \/ Free(n)
Spec == Init /\ [][Next]_vars

(***************************************************************************)
(* Refinement: the list is a queue sorted by time                           *)
(***************************************************************************)
Instant(t) == t.sec * Second + t.nsec
Queue == INSTANCE EventQueue
    WITH queue <- [i \in DOMAIN Walk |->
                      [event |-> Walk[i], due |-> Instant(node[Walk[i]].abstime)]]

\* The list with its pointers is the queue of EventQueue: no event is lost,
\* taken before its time or before an earlier one, whatever the prev pointer
\* of the head points to.
EventsInOrder == Queue!Spec
=============================================================================
