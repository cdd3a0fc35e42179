---------------------------- MODULE EventProofs ----------------------------
(***************************************************************************)
(* The refinement of the event list, for any number of elements and any     *)
(* delays: the list with its pointers is a queue sorted by time.            *)
(*                                                                          *)
(* The list is followed from its head by a recursive function.  What it     *)
(* returns is proved with the least number where it would differ from the   *)
(* sequence of the elements (LeastNumber), a witness of the invariant.      *)
(***************************************************************************)
EXTENDS Standalone, FiniteSetTheorems, SequenceTheorems, WellFoundedInduction, TLAPS

(***************************************************************************)
(* Numbers and times                                                        *)
(***************************************************************************)
\* A set of natural numbers has a least one.
LEMMA LeastNumber ==
    ASSUME NEW S, S \subseteq Nat, S # {}
    PROVE  \E m \in S : \A k \in S : m <= k
<1> DEFINE R == OpToRel(<, Nat)
<1>1. IsWellFoundedOn(R, Nat)
  BY NatLessThanWellFounded
<1>2. PICK m \in S : \A k \in S : <<k, m>> \notin R
  <2> HIDE DEF R
  <2> QED
    BY <1>1, WFMin
<1>3. \A k \in S : ~(k < m)
  <2> SUFFICES ASSUME NEW k \in S, k < m PROVE FALSE
    OBVIOUS
  <2>1. <<k, m>> \in R
    BY DEF OpToRel
  <2> QED
    BY <1>2, <2>1
<1> QED
  BY <1>3

\* What the instance calls a cardinality and a finite set is one.
LEMMA InstanceSets == ASSUME NEW S PROVE Events!Cardinality(S) = Cardinality(S)
BY DEF Events!Cardinality, Cardinality

LEMMA InstanceFinite == ASSUME NEW S PROVE Events!IsFiniteSet(S) = IsFiniteSet(S)
BY DEF Events!IsFiniteSet, IsFiniteSet

LEMMA EventConstants ==
    /\ IsFiniteSet(Nodes) /\ Null \notin Nodes
    /\ Second \in Nat /\ Second > 0 /\ MaxTime \in Nat
    /\ Delays \subseteq [sec : Nat, nsec : 0 .. Second - 1]
BY StandaloneAssumption, InstanceFinite DEF Events!EventListAssumption

\* A time that is later is at a later instant, or at the same, a whole second.
LEMMA LaterInstant ==
    ASSUME NEW a \in Events!Times, NEW b \in Events!Times
    PROVE  /\ Events!Instant(a) \in Nat
           /\ Events!Later(a, b) =>
                \/ Events!Instant(a) > Events!Instant(b)
                \/ Events!Instant(a) = Events!Instant(b) /\ Events!Instant(a) % Second = 0
           /\ ~Events!Later(a, b) => Events!Instant(a) <= Events!Instant(b)
<1> DEFINE x == a.sec * Second
           y == b.sec * Second
<1>1. a.sec \in Nat /\ b.sec \in Nat /\ a.nsec \in 0 .. Second /\ b.nsec \in 0 .. Second
  BY DEF Events!Times
<1>2. x \in Nat /\ y \in Nat
  BY <1>1, EventConstants
<1>3. ASSUME a.sec > b.sec PROVE x >= y + Second
  <2>1. PICK d \in Nat : a.sec = b.sec + 1 + d
    <3>1. a.sec - b.sec - 1 \in Nat /\ a.sec = b.sec + 1 + (a.sec - b.sec - 1)
      BY <1>1, <1>3
    <3>2. QED BY <3>1
  <2>2. x = y + Second + d * Second
    BY <1>1, <2>1, EventConstants
  <2>3. d * Second \in Nat
    BY EventConstants
  <2>4. QED BY <1>2, <2>2, <2>3, EventConstants
<1>4. ASSUME b.sec > a.sec PROVE y >= x + Second
  <2>1. PICK d \in Nat : b.sec = a.sec + 1 + d
    <3>1. b.sec - a.sec - 1 \in Nat /\ b.sec = a.sec + 1 + (b.sec - a.sec - 1)
      BY <1>1, <1>4
    <3>2. QED BY <3>1
  <2>2. y = x + Second + d * Second
    BY <1>1, <2>1, EventConstants
  <2>3. d * Second \in Nat
    BY EventConstants
  <2>4. QED BY <1>2, <2>2, <2>3, EventConstants
<1>5. x % Second = 0
  BY <1>1, EventConstants
<1>6. Events!Instant(a) = x + a.nsec /\ Events!Instant(b) = y + b.nsec
  BY DEF Events!Instant
<1>7. a.sec = b.sec => x = y
  OBVIOUS
<1> HIDE DEF x, y
<1>8. Events!Instant(a) \in Nat
  BY <1>1, <1>2, <1>6, EventConstants
<1>9. ASSUME ~Events!Later(a, b) PROVE Events!Instant(a) <= Events!Instant(b)
  BY <1>1, <1>2, <1>4, <1>6, <1>7, <1>9, EventConstants DEF Events!Later
<1>10. ASSUME Events!Later(a, b)
       PROVE  \/ Events!Instant(a) > Events!Instant(b)
              \/ Events!Instant(a) = Events!Instant(b) /\ Events!Instant(a) % Second = 0
  <2>1. CASE a.sec = b.sec
    BY <1>1, <1>2, <1>6, <1>7, <1>10, <2>1, EventConstants DEF Events!Later
  <2>2. CASE a.sec > b.sec
    <3>1. x + a.nsec >= y + b.nsec
      BY <1>1, <1>2, <1>3, <2>2, EventConstants
    <3>2. x + a.nsec = y + b.nsec => a.nsec = 0
      BY <1>1, <1>2, <1>3, <2>2, EventConstants
    <3>3. CASE x + a.nsec = y + b.nsec
      BY <1>2, <1>5, <1>6, <3>2, <3>3
    <3>4. CASE x + a.nsec # y + b.nsec
      BY <1>1, <1>2, <1>6, <3>1, <3>4
    <3>5. QED BY <3>3, <3>4
  <2>3. QED
    BY <1>1, <1>10, <2>1, <2>2 DEF Events!Later
<1>11. QED
  BY <1>8, <1>9, <1>10

\* An event that is taken is due.
LEMMA TakenIsDue ==
    ASSUME NEW b \in Events!Times, now \in Nat, Events!Later(Events!Clock, b)
    PROVE  Events!Instant(b) <= now
<1>1. now = Second * (now \div Second) + (now % Second)
  BY EventConstants
<1>2. now \div Second \in Nat /\ now % Second \in 0 .. Second - 1
  BY EventConstants
<1>3. Events!Clock \in Events!Times /\ Events!Instant(Events!Clock) = now
  BY <1>1, <1>2, EventConstants DEF Events!Clock, Events!Times, Events!Instant
<1>4. QED
  BY <1>3, LaterInstant

(***************************************************************************)
(* The list                                                                 *)
(***************************************************************************)
\* the pointer to the i-th of the elements s, null behind the last
Place(s, i) == IF i \in 1 .. Len(s) THEN s[i] ELSE Null

\* From the head, the next pointers lead through s.
Path(s) ==
    /\ s \in Seq(Nodes)
    /\ \A i, j \in 1 .. Len(s) : s[i] = s[j] => i = j
    /\ head = Place(s, 1)
    /\ \A i \in 1 .. Len(s) : node[s[i]].next = Place(s, i + 1)

LEMMA PathFits ==
    ASSUME NEW s \in Seq(Nodes), \A i, j \in 1 .. Len(s) : s[i] = s[j] => i = j
    PROVE  Len(s) <= Cardinality(Nodes) /\ Cardinality(Nodes) \in Nat
<1>1. s \in [1 .. Len(s) -> Nodes] /\ Len(s) \in Nat
  OBVIOUS
<1>2. s \in Injection(1 .. Len(s), Nodes)
  BY <1>1 DEF Injection, IsInjective
<1>3. IsFiniteSet(1 .. Len(s)) /\ Cardinality(1 .. Len(s)) = Len(s)
  <2>1. /\ IsFiniteSet(1 .. Len(s))
        /\ Cardinality(1 .. Len(s)) = IF 1 > Len(s) THEN 0 ELSE Len(s) - 1 + 1
    <3>1. 1 \in Int /\ Len(s) \in Int
      BY <1>1
    <3>2. QED
      BY <3>1, FS_Interval, Zenon
  <2>2. QED
    BY <1>1, <2>1
<1>4. QED
  BY <1>2, <1>3, EventConstants, FS_Injection, FS_CardinalityType

\* Following the next pointers returns the elements one by one, and null.
LEMMA FromIs ==
    ASSUME NEW s, Path(s)
    PROVE  Events!From = [i \in 0 .. Cardinality(Nodes) + 1 |-> Place(s, i + 1)]
<1> DEFINE N == Cardinality(Nodes)
           Followed(h) == [i \in 0 .. N + 1 |->
               IF i = 0 THEN head ELSE IF h[i - 1] = Null THEN Null ELSE node[h[i - 1]].next]
           g == [i \in 0 .. N + 1 |-> Place(s, i + 1)]
<1>1. N \in Nat /\ Len(s) \in Nat /\ \A i \in 1 .. Len(s) : s[i] \in Nodes
  BY PathFits DEF Path
<1>2. g = Followed(g)
  <2>1. ASSUME NEW i \in 0 .. N + 1
        PROVE  g[i] = IF i = 0 THEN head ELSE IF g[i - 1] = Null THEN Null ELSE node[g[i - 1]].next
    <3>1. CASE i = 0
      BY <1>1, <3>1 DEF Path
    <3>2. CASE i # 0 /\ i <= Len(s)
      <4>1. g[i - 1] = s[i] /\ s[i] # Null
        BY <1>1, <3>2, EventConstants DEF Place
      <4>2. node[s[i]].next = Place(s, i + 1)
        BY <1>1, <3>2 DEF Path
      <4>3. QED
        BY <3>2, <4>1, <4>2
    <3>3. CASE i # 0 /\ i > Len(s)
      BY <1>1, <3>3 DEF Place
    <3>4. QED
      BY <1>1, <3>1, <3>2, <3>3
  <2>2. QED
    BY <2>1
<1>3. Events!From = CHOOSE h : h = Followed(h)
  BY InstanceSets DEF Events!From
<1>4. Events!From = Followed(Events!From)
  BY <1>2, <1>3
<1>5. \A i \in 0 .. N + 1 : Events!From[i] = g[i]
  <2> DEFINE S == {i \in 0 .. N + 1 : Events!From[i] # g[i]}
  <2>1. SUFFICES ASSUME S # {} PROVE FALSE
    OBVIOUS
  <2>2. PICK m \in S : \A k \in S : m <= k
    <3>1. S \subseteq Nat
      BY <1>1
    <3> HIDE DEF S
    <3>2. QED
      BY <2>1, <3>1, LeastNumber
  <2>3. m \in 0 .. N + 1 /\ Events!From[m] # g[m]
    OBVIOUS
  <2> DEFINE f == Events!From
  <2>4. f[m] = Followed(f)[m] /\ g[m] = Followed(g)[m]
    BY <1>2, <1>4
  <2>5. m # 0 => f[m - 1] = g[m - 1]
    BY <1>1, <2>2, <2>3
  <2>6. Followed(f)[m] = Followed(g)[m]
    BY <2>3, <2>5
  <2>7. QED
    BY <2>3, <2>4, <2>6
<1>6. QED
  BY <1>4, <1>5

\* The elements of the list are those of the path.
LEMMA WalkIs ==
    ASSUME NEW s, Path(s)
    PROVE  Events!Walk = s
<1> DEFINE N == Cardinality(Nodes)
           f == Events!From
           L(i) == f[i] = Null /\ \A j \in 0 .. i - 1 : f[j] # Null
<1>1. N \in Nat /\ Len(s) \in Nat /\ Len(s) <= N /\ \A i \in 1 .. Len(s) : s[i] \in Nodes
  BY PathFits DEF Path
<1>2. f = [i \in 0 .. N + 1 |-> Place(s, i + 1)]
  BY FromIs
<1>3. \A i \in 0 .. N + 1 : f[i] = Null <=> i >= Len(s)
  BY <1>1, <1>2, EventConstants DEF Place
<1>4. L(Len(s)) /\ Len(s) \in DOMAIN f
  BY <1>1, <1>2, <1>3
<1>5. \A i \in DOMAIN f : L(i) => i = Len(s)
  BY <1>1, <1>2, <1>3
<1>6. (CHOOSE i \in DOMAIN f : L(i)) = Len(s)
  <2> HIDE DEF f, L
  <2> QED
    BY <1>4, <1>5
<1>7. Events!Walk = [i \in 1 .. Len(s) |-> f[i - 1]]
  BY <1>6 DEF Events!Walk
<1>8. \A i \in 1 .. Len(s) : f[i - 1] = s[i]
  BY <1>1, <1>2 DEF Place
<1>9. s \in Seq(Nodes)
  BY DEF Path
<1>10. s = [i \in 1 .. Len(s) |-> s[i]]
  BY <1>9
<1>11. QED
  BY <1>7, <1>8, <1>10

LEMMA WalkIsPath == \A s : Path(s) => Events!Walk = s
BY WalkIs

\* in time, and in the order of their coming
Sorted(s) ==
    \A i, j \in 1 .. Len(s) :
        i < j => ~Events!Later(node[s[i]].abstime, node[s[j]].abstime)

\* All but the first of them point back; the first may point anywhere.
BackLinked(s) == \A i \in 2 .. Len(s) : node[s[i]].prev = s[i - 1]

Complete(s) == \A n \in Nodes : node[n].use = "listed" <=> \E i \in 1 .. Len(s) : s[i] = n

List(s) == Path(s) /\ Sorted(s) /\ BackLinked(s) /\ Complete(s)

\* An element that is new has no successor yet.
Fresh == \A n \in Nodes : node[n].use = "new" => node[n].next = Null

EventInv == Events!TypeOK /\ Fresh /\ \E s : List(s)

(***************************************************************************)
(* The queue that the list implements                                       *)
(***************************************************************************)
QueueOf(s) ==
    [i \in 1 .. Len(s) |-> [event |-> s[i], due |-> Events!Instant(node[s[i]].abstime)]]

Mapped ==
    [i \in DOMAIN Events!Walk |->
        [event |-> Events!Walk[i], due |-> Events!Instant(node[Events!Walk[i]].abstime)]]

LEMMA MappedIs == \A s : Path(s) => Mapped = QueueOf(s)
<1> SUFFICES ASSUME NEW s, Path(s) PROVE Mapped = QueueOf(s)
  OBVIOUS
<1>1. Events!Walk = s
  BY WalkIs
<1>2. DOMAIN s = 1 .. Len(s)
  BY DEF Path
<1>3. QED
  BY <1>1, <1>2 DEF Mapped, QueueOf

LEMMA MappedIsNext == (\A s : Path(s) => Mapped = QueueOf(s))'
BY MappedIs, PTL

LEMMA QueueInit == Events!Queue!Init <=> Mapped = << >> /\ now = 0
BY Zenon DEF Events!Queue!Init, Mapped

LEMMA QueueTick == Events!Queue!Tick <=> now' = now + 1 /\ Mapped' = Mapped
BY Zenon DEF Events!Queue!Tick, Mapped

LEMMA QueueDequeue ==
    Events!Queue!Dequeue <=>
        /\ Mapped # << >> /\ Head(Mapped).due <= now
        /\ Mapped' = Tail(Mapped) /\ now' = now
BY Zenon DEF Events!Queue!Dequeue, Mapped

LEMMA QueueEnqueue ==
    Events!Queue!Enqueue <=>
        /\ \E i \in DOMAIN Mapped' :
            /\ Mapped = SubSeq(Mapped', 1, i - 1) \o SubSeq(Mapped', i + 1, Len(Mapped'))
            /\ \A j \in DOMAIN Mapped : Mapped[j].event # Mapped'[i].event
            /\ \A j \in 1 .. i - 1 : Mapped[j].due <= Mapped'[i].due
            /\ \A j \in i .. Len(Mapped) :
                  \/ Mapped[j].due > Mapped'[i].due
                  \/ Mapped[j].due = Mapped'[i].due /\ Mapped[j].due % Second = 0
        /\ now' = now
BY Zenon DEF Events!Queue!Enqueue, Mapped, Events!Queue!RemoveAt

\* r is q with e put in at place k.
PutIn(q, k, e) ==
    [j \in 1 .. Len(q) + 1 |-> IF j < k THEN q[j] ELSE IF j = k THEN e ELSE q[j - 1]]

LEMMA RemovePutIn ==
    ASSUME NEW T, NEW q \in Seq(T), NEW e \in T, NEW k \in 1 .. Len(q) + 1
    PROVE  /\ PutIn(q, k, e) \in Seq(T) /\ Len(PutIn(q, k, e)) = Len(q) + 1
           /\ q = SubSeq(PutIn(q, k, e), 1, k - 1)
                    \o SubSeq(PutIn(q, k, e), k + 1, Len(PutIn(q, k, e)))
<1> DEFINE r == PutIn(q, k, e)
<1>1. Len(q) \in Nat /\ \A i \in 1 .. Len(q) : q[i] \in T
  OBVIOUS
<1>2. r \in Seq(T) /\ Len(r) = Len(q) + 1
  <2>1. \A j \in 1 .. Len(q) + 1 :
            (IF j < k THEN q[j] ELSE IF j = k THEN e ELSE q[j - 1]) \in T
    BY <1>1
  <2>2. r \in [1 .. Len(q) + 1 -> T]
    BY <2>1 DEF PutIn
  <2>3. QED
    BY <1>1, <2>2
<1>3. \A j \in 1 .. Len(q) + 1 : r[j] = IF j < k THEN q[j] ELSE IF j = k THEN e ELSE q[j - 1]
  BY DEF PutIn
<1> HIDE DEF r
<1> DEFINE a == SubSeq(r, 1, k - 1)
           b == SubSeq(r, k + 1, Len(r))
<1>4. a \in Seq(T) /\ Len(a) = k - 1 /\ \A j \in 1 .. k - 1 : a[j] = r[j]
  BY <1>1, <1>2
<1>5. b \in Seq(T) /\ Len(b) = Len(q) + 1 - k /\ \A j \in 1 .. Len(q) + 1 - k : b[j] = r[k + j]
  BY <1>1, <1>2
<1> HIDE DEF a, b
<1>6. a \o b \in Seq(T) /\ Len(a \o b) = Len(q)
  BY <1>1, <1>4, <1>5
<1>7. ASSUME NEW j \in 1 .. Len(q) PROVE (a \o b)[j] = q[j]
  <2>1. CASE j < k
    <3>1. (a \o b)[j] = a[j]
      BY <1>1, <1>4, <1>5, <2>1
    <3>2. a[j] = r[j] /\ r[j] = q[j]
      BY <1>1, <1>3, <1>4, <2>1
    <3>3. QED
      BY <3>1, <3>2
  <2>2. CASE j >= k
    <3>1. (a \o b)[j] = b[j - k + 1]
      BY <1>1, <1>4, <1>5, <2>2
    <3>2. b[j - k + 1] = r[j + 1]
      BY <1>1, <1>5, <2>2
    <3>3. r[j + 1] = q[j]
      BY <1>1, <1>3, <2>2
    <3>4. QED
      BY <3>1, <3>2, <3>3
  <2>3. j < k \/ j >= k
    BY <1>1
  <2>4. QED
    BY <2>1, <2>2, <2>3, Zenon
<1>8. q = a \o b
  <2> DEFINE c == a \o b
  <2> HIDE DEF c
  <2>1. c \in Seq(T) /\ Len(q) = Len(c) /\ \A j \in 1 .. Len(q) : q[j] = c[j]
    BY <1>6, <1>7 DEF c
  <2>2. q = c
    BY <2>1, SeqEqual
  <2>3. QED
    BY <2>2 DEF c
<1>9. QED
  BY <1>2, <1>8 DEF r, a, b

(***************************************************************************)
(* enqueueRILEvent                                                          *)
(***************************************************************************)
\* What Insert does to the pointers, wherever it puts n: at place k of s.
Placed(s, k, n) ==
    /\ now' = now
    /\ head' = IF k = 1 THEN n ELSE head
    /\ \A m \in Nodes : node'[m].abstime = node[m].abstime
    /\ \A m \in Nodes : node'[m].use = IF m = n THEN "listed" ELSE node[m].use
    /\ \A m \in Nodes : node'[m].next = IF m = n THEN Place(s, k)
                                        ELSE IF m = Place(s, k - 1) THEN n ELSE node[m].next
    /\ \A m \in Nodes : node'[m].prev = IF m = Place(s, k) THEN n
                                        ELSE IF m = n /\ k > 1 THEN Place(s, k - 1)
                                        ELSE node[m].prev

\* An element at its place makes the list longer by one.
LEMMA PlacedList ==
    ASSUME EventInv, NEW s, List(s), NEW n \in Nodes, node[n].use = "new",
           NEW k \in 1 .. Len(s) + 1, Placed(s, k, n),
           \A j \in 1 .. k - 1 : ~Events!Later(node[s[j]].abstime, node[n].abstime),
           \A j \in k .. Len(s) : Events!Later(node[s[j]].abstime, node[n].abstime)
    PROVE  List(PutIn(s, k, n))'
<1>1. /\ s \in Seq(Nodes) /\ Len(s) \in Nat
      /\ \A i \in 1 .. Len(s) : s[i] \in Nodes /\ s[i] # n /\ s[i] # Null
  BY EventConstants DEF List, Path, Complete
<1>2. n # Null
  BY EventConstants
<1>3. PICK t : t = PutIn(s, k, n)
  OBVIOUS
<1>4. t \in Seq(Nodes) /\ Len(t) = Len(s) + 1
  BY <1>1, <1>3, RemovePutIn
<1>5. \A j \in 1 .. Len(t) : t[j] = IF j < k THEN s[j] ELSE IF j = k THEN n ELSE s[j - 1]
  BY <1>3, <1>4 DEF PutIn
<1> DEFINE old(l) == IF l < k THEN l ELSE l - 1
<1>6. \A l \in 1 .. Len(t) : l # k => old(l) \in 1 .. Len(s) /\ t[l] = s[old(l)]
  BY <1>1, <1>4, <1>5
<1> HIDE DEF old
<1>7. \A i, j \in 1 .. Len(t) : t[i] = t[j] => i = j
  <2>1. \A i, j \in 1 .. Len(s) : s[i] = s[j] => i = j
    BY DEF List, Path
  <2>2. QED
    <3> SUFFICES ASSUME NEW i \in 1 .. Len(t), NEW j \in 1 .. Len(t), t[i] = t[j], i # j
                 PROVE  FALSE
      OBVIOUS
    <3>1. t[k] = n
      BY <1>4, <1>5
    <3>2. i # k /\ j # k
      BY <1>1, <1>6, <3>1
    <3>3. old(i) # old(j)
      BY <1>4, <3>2 DEF old
    <3>4. QED
      BY <2>1, <1>6, <3>2, <3>3
<1>8. head' = Place(t, 1)
  BY <1>1, <1>4, <1>5 DEF Placed, List, Path, Place
<1>9. ASSUME NEW i \in 1 .. Len(t) PROVE node'[t[i]].next = Place(t, i + 1)
  <2>1. \A j \in 1 .. Len(s) : node[s[j]].next = Place(s, j + 1)
    BY DEF List, Path
  <2>2. \A j, l \in 1 .. Len(s) : s[j] = s[l] => j = l
    BY DEF List, Path
  <2>3. CASE i = k
    <3>1. node'[t[i]].next = Place(s, k)
      BY <1>5, <2>3 DEF Placed
    <3>2. Place(t, k + 1) = Place(s, k)
      BY <1>1, <1>4, <1>5 DEF Place
    <3>3. QED
      BY <2>3, <3>1, <3>2
  <2>4. CASE i < k
    <3>1. i \in 1 .. Len(s) /\ t[i] = s[i] /\ s[i] \in Nodes /\ s[i] # n
      BY <1>1, <1>4, <1>5, <2>4
    <3>2. CASE i = k - 1
      <4>1. Place(s, k - 1) = s[i] /\ Place(t, i + 1) = n
        BY <1>4, <1>5, <3>1, <3>2 DEF Place
      <4>2. QED
        BY <3>1, <4>1 DEF Placed
    <3>3. CASE i # k - 1
      <4>1. Place(s, k - 1) # s[i]
        BY <1>1, <2>2, <2>4, <3>1, <3>3 DEF Place
      <4>2. node'[t[i]].next = Place(s, i + 1)
        BY <2>1, <3>1, <4>1 DEF Placed
      <4>3. Place(s, i + 1) = Place(t, i + 1)
        BY <1>1, <1>4, <1>5, <2>4, <3>1, <3>3 DEF Place
      <4>4. QED
        BY <4>2, <4>3
    <3>4. QED
      BY <3>2, <3>3
  <2>5. CASE i > k
    <3>1. i - 1 \in 1 .. Len(s) /\ t[i] = s[i - 1] /\ s[i - 1] \in Nodes /\ s[i - 1] # n
      BY <1>1, <1>4, <1>5, <2>5
    <3>2. Place(s, k - 1) # s[i - 1]
      BY <1>1, <2>2, <2>5, <3>1 DEF Place
    <3>3. node'[t[i]].next = Place(s, i)
      BY <2>1, <3>1, <3>2 DEF Placed
    <3>4. Place(s, i) = Place(t, i + 1)
      <4>1. CASE i \in 1 .. Len(s)
        <5>1. i + 1 \in 1 .. Len(t) /\ t[i + 1] = s[i]
          BY <1>1, <1>4, <1>5, <2>5, <4>1
        <5>2. QED
          BY <4>1, <5>1 DEF Place
      <4>2. CASE i \notin 1 .. Len(s)
        <5>1. i + 1 \notin 1 .. Len(t)
          BY <1>1, <1>4, <4>2
        <5>2. QED
          BY <4>2, <5>1 DEF Place
      <4>3. QED
        BY <4>1, <4>2
    <3>5. QED
      BY <3>3, <3>4
  <2>6. i < k \/ i = k \/ i > k
    BY <1>4
  <2>7. QED
    BY <2>3, <2>4, <2>5, <2>6, Zenon
<1>10. ASSUME NEW i \in 2 .. Len(t) PROVE node'[t[i]].prev = t[i - 1]
  <2>1. \A j \in 2 .. Len(s) : node[s[j]].prev = s[j - 1]
    BY DEF List, BackLinked
  <2>2. \A j, l \in 1 .. Len(s) : s[j] = s[l] => j = l
    BY DEF List, Path
  <2>3. CASE i = k
    <3>1. t[i] = n /\ t[i - 1] = s[k - 1] /\ Place(s, k - 1) = s[k - 1] /\ k > 1
      BY <1>1, <1>4, <1>5, <2>3 DEF Place
    <3>2. Place(s, k) # n
      BY <1>1, <1>2 DEF Place
    <3>3. QED
      BY <3>1, <3>2 DEF Placed
  <2>4. CASE i < k
    <3>1. i \in 2 .. Len(s) /\ t[i] = s[i] /\ t[i - 1] = s[i - 1] /\ s[i] \in Nodes /\ s[i] # n
      BY <1>1, <1>4, <1>5, <2>4
    <3>2. Place(s, k) # s[i]
      BY <1>1, <2>2, <2>4, <3>1 DEF Place
    <3>3. QED
      BY <2>1, <3>1, <3>2 DEF Placed
  <2>5. CASE i > k
    <3>1. i - 1 \in 1 .. Len(s) /\ t[i] = s[i - 1] /\ s[i - 1] \in Nodes /\ s[i - 1] # n
      BY <1>1, <1>4, <1>5, <2>5
    <3>2. CASE i = k + 1
      <4>1. Place(s, k) = s[i - 1] /\ t[i - 1] = n
        BY <1>1, <1>4, <1>5, <3>1, <3>2 DEF Place
      <4>2. QED
        BY <3>1, <4>1 DEF Placed
    <3>3. CASE i # k + 1
      <4>1. i - 1 \in 2 .. Len(s) /\ t[i - 1] = s[i - 2]
        BY <1>1, <1>4, <1>5, <2>5, <3>3
      <4>2. Place(s, k) # s[i - 1]
        BY <1>1, <2>2, <2>5, <3>1, <3>3 DEF Place
      <4>3. QED
        BY <2>1, <3>1, <4>1, <4>2 DEF Placed
    <3>4. QED
      BY <3>2, <3>3
  <2>6. i < k \/ i = k \/ i > k
    BY <1>4
  <2>7. QED
    BY <2>3, <2>4, <2>5, <2>6, Zenon
<1>11. \A m \in Nodes : node'[m].use = "listed" <=> \E i \in 1 .. Len(t) : t[i] = m
  <2> SUFFICES ASSUME NEW m \in Nodes
               PROVE  node'[m].use = "listed" <=> \E i \in 1 .. Len(t) : t[i] = m
    OBVIOUS
  <2>1. CASE m = n
    <3>1. t[k] = n /\ k \in 1 .. Len(t)
      BY <1>4, <1>5
    <3>2. QED
      BY <2>1, <3>1 DEF Placed
  <2>2. CASE m # n
    <3>1. node'[m].use = node[m].use
      BY <2>2 DEF Placed
    <3>2. node[m].use = "listed" <=> \E i \in 1 .. Len(s) : s[i] = m
      BY DEF List, Complete
    <3>3. ASSUME NEW i \in 1 .. Len(s), s[i] = m PROVE \E j \in 1 .. Len(t) : t[j] = m
      <4>1. CASE i < k
        BY <1>1, <1>4, <1>5, <3>3, <4>1
      <4>2. CASE i >= k
        <5>1. i + 1 \in 1 .. Len(t) /\ t[i + 1] = s[i]
          BY <1>1, <1>4, <1>5, <4>2
        <5>2. QED
          BY <3>3, <5>1
      <4>3. QED
        BY <1>1, <4>1, <4>2
    <3>4. ASSUME NEW j \in 1 .. Len(t), t[j] = m PROVE \E i \in 1 .. Len(s) : s[i] = m
      <4>1. CASE j < k
        <5>1. j \in 1 .. Len(s) /\ t[j] = s[j]
          BY <1>1, <1>4, <1>5, <4>1
        <5>2. QED
          BY <3>4, <5>1
      <4>2. CASE j > k
        <5>1. j - 1 \in 1 .. Len(s) /\ t[j] = s[j - 1]
          BY <1>1, <1>4, <1>5, <4>2
        <5>2. QED
          BY <3>4, <5>1
      <4>3. j # k
        BY <1>4, <1>5, <2>2, <3>4
      <4>4. QED
        BY <1>4, <4>1, <4>2, <4>3
    <3>5. QED
      BY <3>1, <3>2, <3>3, <3>4
  <2>3. QED
    BY <2>1, <2>2
<1>12. ASSUME NEW i \in 1 .. Len(t), NEW j \in 1 .. Len(t), i < j
       PROVE  ~Events!Later(node'[t[i]].abstime, node'[t[j]].abstime)
  <2>1. \A a, b \in 1 .. Len(s) : a < b => ~Events!Later(node[s[a]].abstime, node[s[b]].abstime)
    BY DEF List, Sorted
  <2>2. t[i] \in Nodes /\ t[j] \in Nodes
    BY <1>4
  <2>3. node'[t[i]].abstime = node[t[i]].abstime /\ node'[t[j]].abstime = node[t[j]].abstime
    BY <2>2 DEF Placed
  <2>4. CASE i # k /\ j # k
    <3>1. old(i) < old(j)
      BY <1>4, <1>12, <2>4 DEF old
    <3>2. QED
      BY <1>6, <2>1, <2>3, <2>4, <3>1
  <2>5. CASE j = k
    BY <1>1, <1>4, <1>5, <1>12, <2>3, <2>5
  <2>6. CASE i = k
    <3>1. t[i] = n /\ t[j] = s[j - 1] /\ j - 1 \in k .. Len(s)
      BY <1>1, <1>4, <1>5, <1>12, <2>6
    <3>2. Events!Later(node[t[j]].abstime, node[t[i]].abstime)
      BY <3>1
    <3>3. node[t[i]].abstime \in Events!Times /\ node[t[j]].abstime \in Events!Times
      BY <2>2 DEF EventInv, Events!TypeOK
    <3>4. QED
      BY <2>3, <3>2, <3>3 DEF Events!Later, Events!Times
  <2>7. QED
    BY <2>4, <2>5, <2>6
<1>13. Path(t)' /\ Sorted(t)' /\ BackLinked(t)' /\ Complete(t)'
  BY <1>4, <1>7, <1>8, <1>9, <1>10, <1>11, <1>12 DEF Path, Sorted, BackLinked, Complete
<1>14. QED
  BY <1>3, <1>13 DEF List

\* and the queue longer by one event.
LEMMA PlacedEnqueue ==
    ASSUME EventInv, NEW s, List(s), NEW n \in Nodes, node[n].use = "new",
           NEW k \in 1 .. Len(s) + 1, Placed(s, k, n),
           \A j \in 1 .. k - 1 : ~Events!Later(node[s[j]].abstime, node[n].abstime),
           \A j \in k .. Len(s) : Events!Later(node[s[j]].abstime, node[n].abstime)
    PROVE  Events!Queue!Enqueue
<1> DEFINE t == PutIn(s, k, n)
           Timed(m) == [event |-> m, due |-> Events!Instant(node[m].abstime)]
           e == Timed(n)
           T == [event : Nodes, due : Nat]
           q == Mapped
           r == Mapped'
<1>1. /\ s \in Seq(Nodes) /\ Len(s) \in Nat
      /\ \A i \in 1 .. Len(s) : s[i] \in Nodes /\ s[i] # n
  BY DEF List, Path, Complete
<1>2. \A m \in Nodes : node[m].abstime \in Events!Times
  BY DEF EventInv, Events!TypeOK
<1>3. \A m \in Nodes : Timed(m) \in T
  BY <1>2, LaterInstant
<1>4. q = [i \in 1 .. Len(s) |-> Timed(s[i])]
  BY MappedIs DEF QueueOf, List
<1>5. q \in Seq(T) /\ Len(q) = Len(s) /\ DOMAIN q = 1 .. Len(s)
  <2>1. q \in [1 .. Len(s) -> T]
    BY <1>1, <1>3, <1>4
  <2> HIDE DEF q, T
  <2>2. QED
    BY <1>1, <2>1
<1>6. t \in Seq(Nodes) /\ Len(t) = Len(s) + 1
  BY <1>1, RemovePutIn
<1>7. r = [i \in 1 .. Len(t) |-> [event |-> t[i], due |-> Events!Instant(node'[t[i]].abstime)]]
  <2>1. (\A u : Path(u) => Mapped = QueueOf(u))'
    BY MappedIsNext
  <2>2. Path(t)'
    BY PlacedList DEF List
  <2>3. Mapped' = QueueOf(t)'
    BY <2>1, <2>2
  <2>4. QED
    BY <2>3 DEF QueueOf
<1>8. r = [i \in 1 .. Len(t) |-> Timed(t[i])]
  <2>1. \A i \in 1 .. Len(t) : Events!Instant(node'[t[i]].abstime) = Events!Instant(node[t[i]].abstime)
    BY <1>6 DEF Placed, Events!Instant
  <2>2. QED
    BY <1>7, <2>1
<1>9. r = PutIn(q, k, e)
  <2>1. Len(t) = Len(q) + 1 /\ \A j \in 1 .. Len(t) : t[j] = IF j < k THEN s[j] ELSE IF j = k THEN n ELSE s[j - 1]
    BY <1>5, <1>6 DEF PutIn
  <2> HIDE DEF t, q, r, e, Timed
  <2>2. ASSUME NEW j \in 1 .. Len(t)
        PROVE  Timed(t[j]) = IF j < k THEN q[j] ELSE IF j = k THEN e ELSE q[j - 1]
    <3>1. CASE j < k
      <4>1. t[j] = s[j] /\ q[j] = Timed(s[j])
        BY <1>1, <1>4, <1>5, <2>1, <3>1
      <4>2. QED
        BY <3>1, <4>1
    <3>2. CASE j = k
      BY <2>1, <3>2 DEF e
    <3>3. CASE j > k
      <4>1. t[j] = s[j - 1] /\ q[j - 1] = Timed(s[j - 1])
        BY <1>1, <1>4, <1>5, <2>1, <3>3
      <4>2. QED
        BY <1>5, <2>1, <3>3, <4>1
    <3>4. j < k \/ j = k \/ j > k
      BY <1>5, <2>1
    <3>5. QED
      BY <3>1, <3>2, <3>3, <3>4, Zenon
  <2>3. QED
    BY <1>8, <2>1, <2>2 DEF PutIn
<1>10. k \in DOMAIN r /\ r[k] = e
  BY <1>1, <1>6, <1>8, <1>9, <1>5 DEF PutIn
<1>11. q = SubSeq(r, 1, k - 1) \o SubSeq(r, k + 1, Len(r))
  <2>1. e \in T
    BY <1>3
  <2> HIDE DEF q, r, e, T
  <2>2. QED
    <3>1. k \in 1 .. Len(q) + 1
      BY <1>5
    <3>2. q = SubSeq(PutIn(q, k, e), 1, k - 1)
                  \o SubSeq(PutIn(q, k, e), k + 1, Len(PutIn(q, k, e)))
      <4>1. \A d, f, g, i : d \in Seq(f) /\ g \in f /\ i \in 1 .. Len(d) + 1 =>
                d = SubSeq(PutIn(d, i, g), 1, i - 1)
                        \o SubSeq(PutIn(d, i, g), i + 1, Len(PutIn(d, i, g)))
        BY RemovePutIn
      <4>2. q \in Seq(T)
        BY <1>5
      <4>3. QED
        BY <4>1, <4>2, <2>1, <3>1, Zenon
    <3>3. QED
      BY <1>9, <3>2, Zenon
<1> HIDE DEF q, r
<1>12. \A j \in DOMAIN q : q[j].event # r[k].event
  BY <1>1, <1>4, <1>5, <1>10
<1>13. \A j \in 1 .. k - 1 : q[j].due <= r[k].due
  <2> SUFFICES ASSUME NEW j \in 1 .. k - 1 PROVE q[j].due <= r[k].due
    OBVIOUS
  <2>1. j \in 1 .. Len(s) /\ s[j] \in Nodes
    BY <1>1
  <2>2. Events!Instant(node[s[j]].abstime) <= Events!Instant(node[n].abstime)
    BY <1>2, <2>1, LaterInstant
  <2>3. QED
    BY <1>4, <1>10, <2>1, <2>2
<1>14. ASSUME NEW j \in k .. Len(q)
       PROVE  q[j].due > r[k].due \/ (q[j].due = r[k].due /\ q[j].due % Second = 0)
  <2>1. j \in 1 .. Len(s) /\ j \in k .. Len(s) /\ s[j] \in Nodes
    BY <1>1, <1>5
  <2>2. \/ Events!Instant(node[s[j]].abstime) > Events!Instant(node[n].abstime)
        \/ /\ Events!Instant(node[s[j]].abstime) = Events!Instant(node[n].abstime)
           /\ Events!Instant(node[s[j]].abstime) % Second = 0
    BY <1>2, <2>1, LaterInstant
  <2>3. q[j].due = Events!Instant(node[s[j]].abstime) /\ r[k].due = Events!Instant(node[n].abstime)
    BY <1>4, <1>10, <2>1
  <2>4. QED
    BY <2>2, <2>3
<1>15. now' = now
  BY DEF Placed
<1>16. QED
  BY <1>10, <1>11, <1>12, <1>13, <1>14, <1>15, QueueEnqueue, Zenon DEF q, r

\* The steps that leave the listed elements alone leave the queue alone.
LEMMA SameList ==
    ASSUME NEW s, List(s), head' = head,
           \A m \in Nodes : node[m].use = "listed" => node'[m] = node[m],
           \A m \in Nodes : node[m].use # "listed" => node'[m].use # "listed"
    PROVE  List(s)' /\ Mapped' = Mapped
<1>1. s \in Seq(Nodes) /\ \A i \in 1 .. Len(s) : s[i] \in Nodes /\ node[s[i]].use = "listed"
  BY DEF List, Path, Complete
<1>2. \A i \in 1 .. Len(s) : node'[s[i]] = node[s[i]]
  BY <1>1
<1>3. Path(s)'
  BY <1>2 DEF List, Path
<1>4. Sorted(s)'
  BY <1>2 DEF List, Sorted
<1>5. BackLinked(s)'
  <2>1. \A i \in 2 .. Len(s) : i \in 1 .. Len(s)
    BY <1>1
  <2>2. QED
    BY <1>2, <2>1 DEF List, BackLinked
<1>6. Complete(s)'
  BY <1>2 DEF List, Complete
<1>7. Mapped = QueueOf(s) /\ Mapped' = QueueOf(s)'
  BY <1>3, MappedIs, MappedIsNext DEF List
<1>8. QueueOf(s)' = QueueOf(s)
  BY <1>2 DEF QueueOf, Events!Instant
<1>9. QED
  BY <1>3, <1>4, <1>5, <1>6, <1>7, <1>8 DEF List

\* A time that is computed has its fields in their ranges, the nanoseconds of
\* a whole second included.
LEMMA AfterType ==
    ASSUME now \in Nat, NEW delay \in Delays
    PROVE  Events!After(delay) \in Events!Times
<1>1. now \div Second \in Nat /\ now % Second \in 0 .. Second - 1
  BY EventConstants
<1>2. delay.sec \in Nat /\ delay.nsec \in 0 .. Second - 1
  BY EventConstants
<1>3. QED
  BY <1>1, <1>2, EventConstants DEF Events!After, Events!Clock, Events!Times

LEMMA CreateStep ==
    ASSUME EventInv, NEW n \in Nodes, NEW delay \in Delays, Events!Create(n, delay)
    PROVE  EventInv' /\ Mapped' = Mapped /\ now' = now
<1> DEFINE new == [Events!Unused EXCEPT !.abstime = Events!After(delay), !.use = "new"]
<1>1. now \in Nat
  BY EventConstants DEF EventInv, Events!TypeOK
<1>2. new = [abstime |-> Events!After(delay), next |-> Null, prev |-> Null, use |-> "new"]
  <2> DEFINE timed == [Events!Unused EXCEPT !.abstime = Events!After(delay)]
  <2>1. new = [timed EXCEPT !.use = "new"]
    OBVIOUS
  <2>2. timed = [abstime |-> Events!After(delay), next |-> Null, prev |-> Null, use |-> "free"]
    BY DEF Events!Unused
  <2> HIDE DEF new, timed
  <2>3. QED
    BY <2>1, <2>2
<1>3. node' = [node EXCEPT ![n] = new] /\ head' = head /\ now' = now /\ node[n].use = "free"
  BY DEF Events!Create
<1>4. Events!TypeOK'
  BY <1>1, <1>2, <1>3, AfterType DEF EventInv, Events!TypeOK
<1>5. Fresh'
  BY <1>2, <1>3 DEF EventInv, Fresh, Events!TypeOK
<1>6. PICK s : List(s)
  BY DEF EventInv
<1>7. List(s)' /\ Mapped' = Mapped
  <2>1. \A m \in Nodes : m # n => node'[m] = node[m]
    BY <1>3 DEF EventInv, Events!TypeOK
  <2>2. node'[n].use = "new"
    BY <1>2, <1>3 DEF EventInv, Events!TypeOK
  <2>3. QED
    BY <1>3, <1>6, <2>1, <2>2, SameList
<1>8. QED
  BY <1>3, <1>4, <1>5, <1>7 DEF EventInv

LEMMA FreeStep ==
    ASSUME EventInv, NEW n \in Nodes, Events!Free(n)
    PROVE  EventInv' /\ Mapped' = Mapped /\ now' = now
<1>1. node' = [node EXCEPT ![n] = Events!Unused] /\ head' = head /\ now' = now /\ node[n].use = "called"
  BY DEF Events!Free
<1>2. Events!Unused \in [abstime : Events!Times, next : Nodes \cup {Null}, prev : Nodes \cup {Null},
                         use : {"free", "new", "listed", "called"}]
  BY EventConstants DEF Events!Unused, Events!Times
<1>3. Events!TypeOK'
  BY <1>1, <1>2 DEF EventInv, Events!TypeOK
<1>4. Fresh'
  BY <1>1 DEF EventInv, Fresh, Events!TypeOK, Events!Unused
<1>5. PICK s : List(s)
  BY DEF EventInv
<1>6. List(s)' /\ Mapped' = Mapped
  <2>1. \A m \in Nodes : m # n => node'[m] = node[m]
    BY <1>1 DEF EventInv, Events!TypeOK
  <2>2. node'[n].use = "free"
    BY <1>1 DEF EventInv, Events!TypeOK, Events!Unused
  <2>3. QED
    BY <1>1, <1>5, <2>1, <2>2, SameList
<1>7. QED
  BY <1>1, <1>3, <1>4, <1>6 DEF EventInv

LEMMA TickStep ==
    ASSUME EventInv, Events!Tick
    PROVE  EventInv' /\ Mapped' = Mapped /\ now' = now + 1
<1>1. now' = now + 1 /\ now < MaxTime /\ node' = node /\ head' = head
  BY DEF Events!Tick
<1>2. Events!TypeOK'
  BY <1>1, EventConstants DEF EventInv, Events!TypeOK
<1>3. Fresh'
  BY <1>1 DEF EventInv, Fresh
<1>4. PICK s : List(s)
  BY DEF EventInv
<1>5. List(s)' /\ Mapped' = Mapped
  BY <1>1, <1>4, SameList
<1>6. QED
  BY <1>1, <1>2, <1>3, <1>5 DEF EventInv

(***************************************************************************)
(* queueRunner                                                              *)
(***************************************************************************)
LEMMA TakeStep ==
    ASSUME EventInv, Events!Take
    PROVE  EventInv' /\ Events!Queue!Dequeue
<1> DEFINE Timed(m) == [event |-> m, due |-> Events!Instant(node[m].abstime)]
<1>1. /\ head # Null /\ Events!Later(Events!Clock, node[head].abstime)
      /\ head' = node[head].next /\ node' = [node EXCEPT ![head].use = "called"] /\ now' = now
  BY DEF Events!Take
<1>2. head \in Nodes /\ now \in Nat
  BY <1>1, EventConstants DEF EventInv, Events!TypeOK
<1>3. \A m \in Nodes : /\ node'[m].abstime = node[m].abstime /\ node'[m].next = node[m].next
                       /\ node'[m].prev = node[m].prev
                       /\ node'[m].use = IF m = head THEN "called" ELSE node[m].use
  BY <1>1, <1>2 DEF EventInv, Events!TypeOK
<1>4. Events!TypeOK'
  BY <1>1, <1>2 DEF EventInv, Events!TypeOK
<1>5. Fresh'
  BY <1>3 DEF EventInv, Fresh
<1>6. PICK s : List(s)
  BY DEF EventInv
<1>7. /\ s \in Seq(Nodes) /\ Len(s) \in Nat /\ Len(s) >= 1 /\ head = s[1] /\ s # << >>
      /\ \A i \in 1 .. Len(s) : s[i] \in Nodes
  BY <1>1, <1>6 DEF List, Path, Place
<1>8. PICK t : t = Tail(s)
  OBVIOUS
<1>9. t \in Seq(Nodes) /\ Len(t) = Len(s) - 1 /\ \A i \in 1 .. Len(t) : t[i] = s[i + 1]
  BY <1>7, <1>8
<1>10. \A i, j \in 1 .. Len(s) : s[i] = s[j] => i = j
  BY <1>6 DEF List, Path
<1>11. Path(t)'
  <2>1. \A i \in 0 .. Len(t) : Place(t, i + 1) = Place(s, i + 2)
    BY <1>7, <1>9 DEF Place
  <2>2. head' = Place(t, 1)
    <3>1. node[s[1]].next = Place(s, 2)
      BY <1>6, <1>7 DEF List, Path
    <3>2. Place(t, 1) = Place(s, 2)
      BY <1>7, <1>9 DEF Place
    <3>3. QED
      BY <1>1, <1>7, <3>1, <3>2
  <2>3. \A i \in 1 .. Len(t) : node'[t[i]].next = Place(t, i + 1)
    <3> SUFFICES ASSUME NEW i \in 1 .. Len(t) PROVE node'[t[i]].next = Place(t, i + 1)
      OBVIOUS
    <3>1. i + 1 \in 1 .. Len(s) /\ t[i] = s[i + 1] /\ s[i + 1] \in Nodes
      BY <1>7, <1>9
    <3>2. node[s[i + 1]].next = Place(s, i + 2)
      BY <1>6, <3>1 DEF List, Path
    <3>3. QED
      BY <1>3, <1>9, <2>1, <3>1, <3>2
  <2>4. \A i, j \in 1 .. Len(t) : t[i] = t[j] => i = j
    BY <1>7, <1>9, <1>10
  <2>5. QED
    BY <1>9, <2>2, <2>3, <2>4 DEF Path
<1>12. Sorted(t)'
  <2> SUFFICES ASSUME NEW i \in 1 .. Len(t), NEW j \in 1 .. Len(t), i < j
               PROVE  ~Events!Later(node'[t[i]].abstime, node'[t[j]].abstime)
    BY DEF Sorted
  <2>1. i + 1 \in 1 .. Len(s) /\ j + 1 \in 1 .. Len(s) /\ i + 1 < j + 1
    BY <1>7, <1>9
  <2>2. ~Events!Later(node[s[i + 1]].abstime, node[s[j + 1]].abstime)
    BY <1>6, <2>1 DEF List, Sorted
  <2>3. QED
    BY <1>3, <1>7, <1>9, <2>1, <2>2
<1>13. BackLinked(t)'
  <2> SUFFICES ASSUME NEW i \in 2 .. Len(t) PROVE node'[t[i]].prev = t[i - 1]
    BY DEF BackLinked
  <2>1. i + 1 \in 2 .. Len(s) /\ t[i] = s[i + 1] /\ t[i - 1] = s[i] /\ s[i + 1] \in Nodes
    BY <1>7, <1>9
  <2>2. node[s[i + 1]].prev = s[i]
    BY <1>6, <2>1 DEF List, BackLinked
  <2>3. QED
    BY <1>3, <2>1, <2>2
<1>14. Complete(t)'
  <2> SUFFICES ASSUME NEW m \in Nodes
               PROVE  node'[m].use = "listed" <=> \E i \in 1 .. Len(t) : t[i] = m
    BY DEF Complete
  <2>1. node[m].use = "listed" <=> \E i \in 1 .. Len(s) : s[i] = m
    BY <1>6 DEF List, Complete
  <2>2. CASE m = head
    <3>1. ASSUME NEW i \in 1 .. Len(t) PROVE t[i] # m
      <4>1. i + 1 \in 1 .. Len(s) /\ t[i] = s[i + 1] /\ 1 \in 1 .. Len(s) /\ i + 1 # 1
        BY <1>7, <1>9
      <4>2. QED
        BY <1>7, <1>10, <2>2, <4>1
    <3>2. QED
      BY <1>3, <2>2, <3>1
  <2>3. CASE m # head
    <3>1. ASSUME NEW i \in 1 .. Len(s), s[i] = m PROVE \E j \in 1 .. Len(t) : t[j] = m
      <4>1. i # 1
        BY <1>7, <2>3, <3>1
      <4>2. i - 1 \in 1 .. Len(t) /\ t[i - 1] = s[i]
        BY <1>7, <1>9, <4>1
      <4>3. QED
        BY <3>1, <4>2
    <3>2. ASSUME NEW j \in 1 .. Len(t), t[j] = m PROVE \E i \in 1 .. Len(s) : s[i] = m
      <4>1. j + 1 \in 1 .. Len(s) /\ t[j] = s[j + 1]
        BY <1>7, <1>9
      <4>2. QED
        BY <3>2, <4>1
    <3>3. QED
      BY <1>3, <2>1, <2>3, <3>1, <3>2
  <2>4. QED
    BY <2>2, <2>3
<1>15. EventInv'
  BY <1>4, <1>5, <1>11, <1>12, <1>13, <1>14 DEF EventInv, List
<1>16. Mapped = [i \in 1 .. Len(s) |-> Timed(s[i])]
  BY <1>6, MappedIs DEF List, QueueOf
<1>17. Mapped' = [i \in 1 .. Len(t) |-> Timed(t[i])]
  <2>1. Mapped' = QueueOf(t)'
    BY <1>11, MappedIsNext
  <2>2. Mapped' = [i \in 1 .. Len(t) |-> [event |-> t[i], due |-> Events!Instant(node'[t[i]].abstime)]]
    BY <2>1 DEF QueueOf
  <2>3. \A i \in 1 .. Len(t) : Events!Instant(node'[t[i]].abstime) = Events!Instant(node[t[i]].abstime)
    BY <1>3, <1>9 DEF Events!Instant
  <2>4. QED
    BY <2>2, <2>3
<1>18. Events!Instant(node[head].abstime) <= now
  <2>1. node[head].abstime \in Events!Times
    BY <1>2 DEF EventInv, Events!TypeOK
  <2>2. QED
    BY <1>1, <1>2, <2>1, TakenIsDue
<1>19. Mapped # << >> /\ Head(Mapped).due <= now
  <2>1. Mapped[1] = Timed(head) /\ DOMAIN Mapped = 1 .. Len(s)
    BY <1>7, <1>16
  <2>2. Head(Mapped) = Mapped[1]
    BY <1>16, <1>7
  <2>3. Mapped # << >>
    BY <1>7, <2>1
  <2>4. QED
    BY <1>18, <2>1, <2>2, <2>3
<1>20. Mapped' = Tail(Mapped)
  <2>1. Len(Mapped) = Len(s)
    BY <1>7, <1>16
  <2>2. Tail(Mapped) = [i \in 1 .. Len(s) - 1 |-> Mapped[i + 1]]
    BY <1>7, <1>16, <2>1
  <2>3. \A i \in 1 .. Len(s) - 1 : Mapped[i + 1] = Timed(t[i])
    BY <1>7, <1>9, <1>16
  <2>4. QED
    BY <1>9, <1>17, <2>2, <2>3
<1>21. QED
  BY <1>1, <1>15, <1>19, <1>20, QueueDequeue

Elements ==
    [abstime : Events!Times, next : Nodes \cup {Null}, prev : Nodes \cup {Null},
     use : {"free", "new", "listed", "called"}]

\* What the assignments of enqueueRILEvent do to an element.
LEMMA Linked ==
    ASSUME NEW e \in Elements, NEW p \in Nodes \cup {Null}
    PROVE  /\ [e EXCEPT !.next = p]
                = [abstime |-> e.abstime, next |-> p, prev |-> e.prev, use |-> e.use]
           /\ [e EXCEPT !.prev = p]
                = [abstime |-> e.abstime, next |-> e.next, prev |-> p, use |-> e.use]
           /\ [e EXCEPT !.next = p, !.use = "listed"]
                = [abstime |-> e.abstime, next |-> p, prev |-> e.prev, use |-> "listed"]
           /\ [e EXCEPT !.prev = p, !.use = "listed"]
                = [abstime |-> e.abstime, next |-> e.next, prev |-> p, use |-> "listed"]
<1>1. e = [abstime |-> e.abstime, next |-> e.next, prev |-> e.prev, use |-> e.use]
  BY DEF Elements
<1>2. PICK d : d = [e EXCEPT !.next = p]
  OBVIOUS
<1>3. d = [abstime |-> e.abstime, next |-> p, prev |-> e.prev, use |-> e.use]
  BY <1>1, <1>2
<1>4. PICK c : c = [e EXCEPT !.prev = p]
  OBVIOUS
<1>5. c = [abstime |-> e.abstime, next |-> e.next, prev |-> p, use |-> e.use]
  BY <1>1, <1>4
<1>6. [d EXCEPT !.use = "listed"] = [abstime |-> e.abstime, next |-> p, prev |-> e.prev, use |-> "listed"]
  BY <1>3
<1>7. [c EXCEPT !.use = "listed"] = [abstime |-> e.abstime, next |-> e.next, prev |-> p, use |-> "listed"]
  BY <1>5
<1>8. [e EXCEPT !.next = p, !.use = "listed"] = [d EXCEPT !.use = "listed"]
  BY <1>2
<1>9. [e EXCEPT !.prev = p, !.use = "listed"] = [c EXCEPT !.use = "listed"]
  BY <1>4
<1>10. QED
  BY <1>2, <1>3, <1>4, <1>5, <1>6, <1>7, <1>8, <1>9

LEMMA LinkedBetween ==
    ASSUME NEW e \in Elements, NEW p, NEW t
    PROVE  [e EXCEPT !.prev = p, !.next = t, !.use = "listed"]
                = [abstime |-> e.abstime, next |-> t, prev |-> p, use |-> "listed"]
<1>1. e = [abstime |-> e.abstime, next |-> e.next, prev |-> e.prev, use |-> e.use]
  BY DEF Elements
<1>2. PICK d : d = [e EXCEPT !.prev = p]
  OBVIOUS
<1>3. d = [abstime |-> e.abstime, next |-> e.next, prev |-> p, use |-> e.use]
  BY <1>1, <1>2
<1>4. PICK c : c = [d EXCEPT !.next = t]
  OBVIOUS
<1>5. c = [abstime |-> e.abstime, next |-> t, prev |-> p, use |-> e.use]
  BY <1>3, <1>4
<1>6. [c EXCEPT !.use = "listed"] = [abstime |-> e.abstime, next |-> t, prev |-> p, use |-> "listed"]
  BY <1>5
<1>7. [e EXCEPT !.prev = p, !.next = t, !.use = "listed"] = [c EXCEPT !.use = "listed"]
  BY <1>2, <1>4
<1>8. QED
  BY <1>6, <1>7

LEMMA ElementsType == Events!TypeOK <=>
    now \in 0 .. MaxTime /\ node \in [Nodes -> Elements] /\ head \in Nodes \cup {Null}
BY DEF Events!TypeOK, Elements

\* Everything behind an element that is later is later.
LEMMA LaterBehind ==
    ASSUME NEW a \in Events!Times, NEW b \in Events!Times, NEW c \in Events!Times,
           Events!Later(a, c), ~Events!Later(a, b)
    PROVE  Events!Later(b, c)
BY EventConstants DEF Events!Later, Events!Times

\* the element m after n was put at place k
Relinked(s, k, n, m) ==
    [abstime |-> node[m].abstime,
     next |-> IF m = n THEN Place(s, k) ELSE IF m = Place(s, k - 1) THEN n ELSE node[m].next,
     prev |-> IF m = Place(s, k) THEN n
              ELSE IF m = n /\ k > 1 THEN Place(s, k - 1) ELSE node[m].prev,
     use  |-> IF m = n THEN "listed" ELSE node[m].use]

LEMMA RelinkedPlaced ==
    ASSUME EventInv, NEW s, List(s), NEW n \in Nodes, NEW k \in 1 .. Len(s) + 1, now' = now,
           head' = IF k = 1 THEN n ELSE head, node' = [m \in Nodes |-> node'[m]],
           \A m \in Nodes : node'[m] = Relinked(s, k, n, m)
    PROVE  Placed(s, k, n) /\ Events!TypeOK'
<1>1. Placed(s, k, n)
  BY DEF Placed, Relinked
<1>2. \A i : Place(s, i) \in Nodes \cup {Null}
  BY DEF Place, List, Path
<1>3. \A m \in Nodes : node[m] \in Elements
  BY ElementsType DEF EventInv
<1>4. \A m \in Nodes : Relinked(s, k, n, m) \in Elements
  BY <1>2, <1>3 DEF Relinked, Elements
<1>5. node' \in [Nodes -> Elements]
  BY <1>4
<1>6. Events!TypeOK'
  BY <1>5, ElementsType DEF EventInv, Events!TypeOK, Elements
<1>7. QED
  BY <1>1, <1>6

LEMMA FirstPlaced ==
    ASSUME EventInv, NEW s, List(s), NEW n \in Nodes, node[n].use = "new",
           Events!InsertFirst(n), now' = now
    PROVE  Placed(s, 1, n) /\ Events!TypeOK'
<1>1. head = Place(s, 1) /\ Place(s, 1 - 1) = Null /\ head \in Nodes \cup {Null}
  BY DEF List, Path, Place, EventInv, Events!TypeOK
<1>2. head # n
  BY <1>1, EventConstants DEF List, Path, Place, Complete
<1>3. head' = n /\ node' = [m \in Nodes |-> node'[m]]
  BY DEF Events!InsertFirst
<1>4. \A m \in Nodes : node'[m] = IF m = n THEN [node[n] EXCEPT !.next = head, !.use = "listed"]
                                  ELSE IF m = head THEN [node[m] EXCEPT !.prev = n] ELSE node[m]
  BY <1>2 DEF Events!InsertFirst
<1>5. ASSUME NEW m \in Nodes PROVE node'[m] = Relinked(s, 1, n, m)
  <2>1. node[m] \in Elements /\ m # Null
    BY EventConstants, ElementsType DEF EventInv
  <2>2. CASE m = n
    <3>1. node'[m] = [node[m] EXCEPT !.next = head, !.use = "listed"]
      BY <1>4, <2>2
    <3>2. node'[m] = [abstime |-> node[m].abstime, next |-> head, prev |-> node[m].prev, use |-> "listed"]
      BY <1>1, <2>1, <3>1, Linked
    <3>3. QED
      BY <1>1, <1>2, <2>2, <3>2 DEF Relinked
  <2>3. CASE m # n /\ m = head
    <3>1. node'[m] = [node[m] EXCEPT !.prev = n]
      BY <1>4, <2>3
    <3>2. node'[m] = [abstime |-> node[m].abstime, next |-> node[m].next, prev |-> n, use |-> node[m].use]
      BY <2>1, <3>1, Linked
    <3>3. QED
      BY <1>1, <2>1, <2>3, <3>2 DEF Relinked
  <2>4. CASE m # n /\ m # head
    <3>1. node'[m] = node[m]
      BY <1>4, <2>4
    <3>2. QED
      BY <1>1, <2>1, <2>4, <3>1 DEF Relinked, Elements
  <2>5. QED
    BY <2>2, <2>3, <2>4
<1>6. 1 \in 1 .. Len(s) + 1
  BY DEF List, Path
<1>7. QED
  BY <1>3, <1>5, <1>6, RelinkedPlaced

LEMMA LastPlaced ==
    ASSUME EventInv, NEW s, List(s), NEW n \in Nodes, node[n].use = "new", Len(s) >= 1,
           Events!InsertLast(n, s[Len(s)]), now' = now
    PROVE  Placed(s, Len(s) + 1, n) /\ Events!TypeOK'
<1>1. s \in Seq(Nodes) /\ Len(s) \in Nat
  BY DEF List, Path
<1>2. PICK t \in Nodes : t = s[Len(s)]
  BY <1>1
<1>3. t # n
  BY <1>1, <1>2 DEF List, Complete
<1>4. Place(s, Len(s) + 1) = Null /\ Place(s, Len(s) + 1 - 1) = t
  BY <1>1, <1>2 DEF Place
<1>5. node[n].next = Null
  BY DEF EventInv, Fresh
<1>6. head' = head /\ node' = [node EXCEPT ![t].next = n, ![n].prev = t, ![n].use = "listed"]
  BY <1>2 DEF Events!InsertLast
<1>7. \A m \in Nodes : node'[m] = IF m = t THEN [node[t] EXCEPT !.next = n]
                                  ELSE IF m = n THEN [node[n] EXCEPT !.prev = t, !.use = "listed"]
                                  ELSE node[m]
  BY <1>3, <1>6 DEF EventInv, Events!TypeOK
<1>8. node' = [m \in Nodes |-> node'[m]]
  BY <1>6 DEF EventInv, Events!TypeOK
<1>9. Len(s) + 1 # 1 /\ Len(s) + 1 > 1 /\ Len(s) + 1 \in 1 .. Len(s) + 1
  BY <1>1
<1>10. ASSUME NEW m \in Nodes PROVE node'[m] = Relinked(s, Len(s) + 1, n, m)
  <2>1. node[m] \in Elements /\ m # Null
    BY EventConstants, ElementsType DEF EventInv
  <2>2. CASE m = n
    <3>1. node'[m] = [node[m] EXCEPT !.prev = t, !.use = "listed"]
      BY <1>3, <1>7, <2>2
    <3>2. node'[m] = [abstime |-> node[m].abstime, next |-> node[m].next, prev |-> t, use |-> "listed"]
      BY <2>1, <3>1, Linked
    <3>3. QED
      BY <1>4, <1>5, <1>9, <2>1, <2>2, <3>2 DEF Relinked
  <2>3. CASE m = t
    <3>1. node'[m] = [node[m] EXCEPT !.next = n]
      BY <1>7, <2>3
    <3>2. node'[m] = [abstime |-> node[m].abstime, next |-> n, prev |-> node[m].prev, use |-> node[m].use]
      BY <2>1, <3>1, Linked
    <3>3. QED
      BY <1>3, <1>4, <2>1, <2>3, <3>2 DEF Relinked
  <2>4. CASE m # n /\ m # t
    <3>1. node'[m] = node[m]
      BY <1>7, <2>4
    <3>2. QED
      BY <1>4, <2>1, <2>4, <3>1 DEF Relinked, Elements
  <2>5. QED
    BY <2>2, <2>3, <2>4
<1>11. QED
  <2>1. head' = IF Len(s) + 1 = 1 THEN n ELSE head
    BY <1>6, <1>9
  <2>2. QED
    BY <1>8, <1>9, <1>10, <2>1, RelinkedPlaced

LEMMA BeforePlaced ==
    ASSUME EventInv, NEW s, List(s), NEW n \in Nodes, node[n].use = "new",
           NEW k \in 2 .. Len(s), Events!InsertBefore(n, s[k]), now' = now
    PROVE  Placed(s, k, n) /\ Events!TypeOK'
<1>1. s \in Seq(Nodes) /\ Len(s) \in Nat /\ k \in 1 .. Len(s) /\ k - 1 \in 1 .. Len(s)
  BY DEF List, Path
<1>2. PICK t \in Nodes : t = s[k]
  BY <1>1
<1>3. PICK p \in Nodes : p = s[k - 1]
  BY <1>1
<1>4. t # n /\ p # n
  BY <1>1, <1>2, <1>3 DEF List, Complete
<1>5. t # p
  <2>1. k # k - 1
    BY <1>1
  <2>2. QED
    BY <1>1, <1>2, <1>3, <2>1 DEF List, Path
<1>6. Place(s, k) = t /\ Place(s, k - 1) = p /\ k # 1 /\ k > 1 /\ k \in 1 .. Len(s) + 1
  BY <1>1, <1>2, <1>3 DEF Place
<1>7. node[t].prev = p
  BY <1>2, <1>3 DEF List, BackLinked
<1>8. /\ head' = head
      /\ node' = [[[node EXCEPT ![p].next = n]
                        EXCEPT ![n] = [@ EXCEPT !.prev = p, !.next = t, !.use = "listed"]]
                        EXCEPT ![t].prev = n]
  BY <1>2, <1>7 DEF Events!InsertBefore
<1>9. \A m \in Nodes : node'[m] = IF m = t THEN [node[t] EXCEPT !.prev = n]
                                  ELSE IF m = n THEN [node[n] EXCEPT !.prev = p, !.next = t, !.use = "listed"]
                                  ELSE IF m = p THEN [node[p] EXCEPT !.next = n]
                                  ELSE node[m]
  BY <1>4, <1>5, <1>8 DEF EventInv, Events!TypeOK
<1>10. node' = [m \in Nodes |-> node'[m]]
  BY <1>8 DEF EventInv, Events!TypeOK
<1>11. ASSUME NEW m \in Nodes PROVE node'[m] = Relinked(s, k, n, m)
  <2>1. node[m] \in Elements
    BY ElementsType DEF EventInv
  <2>2. CASE m = n
    <3>1. node'[m] = [node[m] EXCEPT !.prev = p, !.next = t, !.use = "listed"]
      BY <1>4, <1>9, <2>2
    <3>2. node'[m] = [abstime |-> node[m].abstime, next |-> t, prev |-> p, use |-> "listed"]
      <4>1. PICK e \in Elements : e = node[m]
        BY <2>1
      <4>2. t \in Nodes \cup {Null} /\ p \in Nodes \cup {Null}
        OBVIOUS
      <4>3. [e EXCEPT !.prev = p, !.next = t, !.use = "listed"]
                = [abstime |-> e.abstime, next |-> t, prev |-> p, use |-> "listed"]
        BY <4>2, LinkedBetween
      <4>4. QED
        BY <3>1, <4>1, <4>3
    <3>3. QED
      BY <1>4, <1>6, <2>2, <3>2 DEF Relinked
  <2>3. CASE m = t
    <3>1. node'[m] = [node[m] EXCEPT !.prev = n]
      BY <1>9, <2>3
    <3>2. node'[m] = [abstime |-> node[m].abstime, next |-> node[m].next, prev |-> n, use |-> node[m].use]
      BY <2>1, <3>1, Linked
    <3>3. QED
      BY <1>4, <1>5, <1>6, <2>3, <3>2 DEF Relinked
  <2>4. CASE m = p
    <3>1. node'[m] = [node[m] EXCEPT !.next = n]
      BY <1>4, <1>5, <1>9, <2>4
    <3>2. node'[m] = [abstime |-> node[m].abstime, next |-> n, prev |-> node[m].prev, use |-> node[m].use]
      BY <2>1, <3>1, Linked
    <3>3. QED
      BY <1>4, <1>5, <1>6, <2>4, <3>2 DEF Relinked
  <2>5. CASE m # n /\ m # t /\ m # p
    <3>1. node'[m] = node[m]
      BY <1>9, <2>5
    <3>2. QED
      BY <1>6, <2>1, <2>5, <3>1 DEF Relinked, Elements
  <2>6. QED
    BY <2>2, <2>3, <2>4, <2>5
<1>12. QED
  <2>1. head' = IF k = 1 THEN n ELSE head
    BY <1>6, <1>8
  <2>2. QED
    BY <1>6, <1>10, <1>11, <2>1, RelinkedPlaced

LEMMA InsertStep ==
    ASSUME EventInv, NEW n \in Nodes, Events!Insert(n)
    PROVE  EventInv' /\ Events!Queue!Enqueue
<1>1. PICK s : List(s)
  BY DEF EventInv
<1> DEFINE later == {i \in 1 .. Len(s) : Events!Later(node[s[i]].abstime, node[n].abstime)}
<1>2. s \in Seq(Nodes) /\ Len(s) \in Nat /\ \A i \in 1 .. Len(s) : s[i] \in Nodes
  BY <1>1 DEF List, Path
<1>3. Events!Walk = s /\ DOMAIN s = 1 .. Len(s)
  BY <1>1, <1>2, WalkIs DEF List
<1>4. node[n].use = "new" /\ now' = now
  BY DEF Events!Insert
<1>5. \A i, j \in 1 .. Len(s) : i <= j /\ i \in later => j \in later
  <2> SUFFICES ASSUME NEW i \in 1 .. Len(s), NEW j \in 1 .. Len(s), i < j, i \in later
               PROVE  j \in later
    BY <1>2
  <2>1. ~Events!Later(node[s[i]].abstime, node[s[j]].abstime)
    BY <1>1 DEF List, Sorted
  <2>2. /\ node[s[i]].abstime \in Events!Times /\ node[s[j]].abstime \in Events!Times
        /\ node[n].abstime \in Events!Times
    BY <1>2 DEF EventInv, Events!TypeOK
  <2>3. QED
    BY <2>1, <2>2, LaterBehind
<1>6. ASSUME NEW k \in 1 .. Len(s) + 1, Placed(s, k, n), Events!TypeOK',
             \A j \in 1 .. Len(s) : j < k <=> j \notin later
      PROVE  EventInv' /\ Events!Queue!Enqueue
  <2>1. /\ \A j \in 1 .. k - 1 : ~Events!Later(node[s[j]].abstime, node[n].abstime)
        /\ \A j \in k .. Len(s) : Events!Later(node[s[j]].abstime, node[n].abstime)
    BY <1>2, <1>6
  <2>2. List(PutIn(s, k, n))' /\ Events!Queue!Enqueue
    BY <1>1, <1>4, <1>6, <2>1, PlacedList, PlacedEnqueue
  <2>3. Fresh'
    <3>1. \A m \in Nodes : m = Place(s, k - 1) => node[m].use = "listed"
      BY <1>1, EventConstants DEF Place, List, Complete
    <3>2. QED
      BY <1>6, <3>1 DEF Placed, EventInv, Fresh
  <2>4. \E t : List(t)'
    BY <2>2
  <2>5. QED
    BY <1>6, <2>2, <2>3, <2>4 DEF EventInv
<1>7. CASE s = << >> \/ 1 \in later
  <2>1. Events!InsertFirst(n)
    BY <1>3, <1>7 DEF Events!Insert
  <2>2. Placed(s, 1, n) /\ Events!TypeOK'
    BY <1>1, <1>4, <2>1, FirstPlaced
  <2>3. \A j \in 1 .. Len(s) : j < 1 <=> j \notin later
    BY <1>2, <1>5, <1>7
  <2>4. QED
    BY <1>2, <1>6, <2>2, <2>3
<1>8. CASE s # << >> /\ later = {}
  <2>1. Events!InsertLast(n, s[Len(s)])
    BY <1>3, <1>8 DEF Events!Insert
  <2>2. Len(s) >= 1
    BY <1>2, <1>8
  <2>3. Placed(s, Len(s) + 1, n) /\ Events!TypeOK'
    BY <1>1, <1>4, <2>1, <2>2, LastPlaced
  <2>4. QED
    BY <1>2, <1>6, <1>8, <2>3
<1>9. CASE s # << >> /\ 1 \notin later /\ later # {}
  <2>1. Events!InsertBefore(n, s[CHOOSE i \in later : \A j \in later : i <= j])
    BY <1>3, <1>9 DEF Events!Insert
  <2>2. \E m \in later : \A j \in later : m <= j
    <3>1. later \subseteq Nat
      OBVIOUS
    <3> HIDE DEF later
    <3>2. QED
      BY <1>9, <3>1, LeastNumber
  <2>3. PICK k \in later : (\A j \in later : k <= j) /\ k = CHOOSE i \in later : \A j \in later : i <= j
    BY <2>2
  <2>4. k \in 2 .. Len(s)
    BY <1>2, <1>9
  <2>5. Placed(s, k, n) /\ Events!TypeOK'
    BY <1>1, <1>4, <2>1, <2>3, <2>4, BeforePlaced
  <2>6. \A j \in 1 .. Len(s) : j < k <=> j \notin later
    <3> SUFFICES ASSUME NEW j \in 1 .. Len(s) PROVE j < k <=> j \notin later
      OBVIOUS
    <3>1. k \in 1 .. Len(s) /\ (j < k \/ k <= j)
      BY <1>2, <2>4
    <3>2. j < k => ~(k <= j)
      BY <2>4
    <3> HIDE DEF later
    <3>3. QED
      BY <1>5, <2>3, <3>1, <3>2, Zenon
  <2>7. QED
    BY <1>2, <1>6, <2>4, <2>5, <2>6
<1>10. QED
  BY <1>7, <1>8, <1>9

(***************************************************************************)
(* The invariant and the refinement                                         *)
(***************************************************************************)
LEMMA EventInit == Init => EventInv /\ Events!Queue!Init
<1> SUFFICES ASSUME Init PROVE EventInv /\ Events!Queue!Init
  OBVIOUS
<1>1. now = 0 /\ node = [n \in Nodes |-> Events!Unused] /\ head = Null
  BY DEF Init, Events!Init
<1>2. \A n \in Nodes : node[n].use = "free"
  BY <1>1 DEF Events!Unused
<1>3. Events!TypeOK
  BY <1>1, EventConstants DEF Events!TypeOK, Events!Unused, Events!Times
<1>4. Fresh
  BY <1>2 DEF Fresh
<1>5. << >> \in Seq(Nodes) /\ Len(<< >>) = 0 /\ 1 .. 0 = {} /\ 2 .. 0 = {}
  OBVIOUS
<1>6. Path(<< >>)
  BY <1>1, <1>5 DEF Path, Place
<1>7. Sorted(<< >>) /\ BackLinked(<< >>) /\ Complete(<< >>)
  BY <1>2, <1>5 DEF Sorted, BackLinked, Complete
<1>8. EventInv
  BY <1>3, <1>4, <1>6, <1>7 DEF EventInv, List
<1>9. Mapped = QueueOf(<< >>)
  BY <1>6, MappedIs
<1>10. QueueOf(<< >>) = << >>
  BY <1>5 DEF QueueOf
<1>11. QED
  BY <1>1, <1>8, <1>9, <1>10, QueueInit

LEMMA EventStep ==
    EventInv /\ [Next]_vars =>
        EventInv' /\ (Events!Queue!Next \/ (Mapped' = Mapped /\ now' = now))
<1> SUFFICES ASSUME EventInv, [Next]_vars
             PROVE  EventInv' /\ (Events!Queue!Next \/ (Mapped' = Mapped /\ now' = now))
  OBVIOUS
<1>1. CASE UNCHANGED eventVars
  <2>1. now' = now /\ node' = node /\ head' = head
    BY <1>1 DEF eventVars
  <2>2. Events!TypeOK' /\ Fresh'
    BY <2>1 DEF EventInv, Events!TypeOK, Fresh
  <2>3. PICK s : List(s)
    BY DEF EventInv
  <2>4. List(s)' /\ Mapped' = Mapped
    BY <2>1, <2>3, SameList
  <2>5. QED
    BY <2>1, <2>2, <2>4 DEF EventInv
<1>2. CASE Events!Tick
  <2>1. Events!Queue!Tick
    BY <1>2, TickStep, QueueTick
  <2>2. QED
    BY <1>2, <2>1, TickStep DEF Events!Queue!Next
<1>3. CASE Events!Take
  BY <1>3, TakeStep DEF Events!Queue!Next
<1>4. ASSUME NEW n \in Nodes, NEW delay \in Delays, Events!Create(n, delay)
      PROVE  EventInv' /\ Mapped' = Mapped /\ now' = now
  BY <1>4, CreateStep
<1>5. ASSUME NEW n \in Nodes, Events!Insert(n)
      PROVE  EventInv' /\ Events!Queue!Next
  BY <1>5, InsertStep DEF Events!Queue!Next
<1>6. ASSUME NEW n \in Nodes, Events!Free(n)
      PROVE  EventInv' /\ Mapped' = Mapped /\ now' = now
  BY <1>6, FreeStep
<1>7. Events!Next \/ UNCHANGED eventVars
  BY DEF Next, vars, rilVars
<1>8. QED
  BY <1>1, <1>2, <1>3, <1>4, <1>5, <1>6, <1>7, Zenon DEF Events!Next

(* The list with its pointers implements the queue sorted by time: no event *)
(* is lost, taken before its time or before an earlier one, whatever the    *)
(* stale prev pointer of the head points to, for any number of elements and *)
(* any delays (enqueueRILEvent and queueRunner, ril-core.c).                *)
THEOREM EventListIsQueue == Spec => EventsInOrder
<1>1. Init => EventInv /\ Events!Queue!Init
  BY EventInit
<1>2. EventInv /\ [Next]_vars => EventInv' /\ [Events!Queue!Next]_<<Mapped, now>>
  BY EventStep
<1>3. QED
  BY <1>1, <1>2, PTL DEF Spec, EventsInOrder, Events!EventsInOrder, Events!Queue!Spec, Mapped
=============================================================================
