---------------------------- MODULE RequestService ----------------------------
(***************************************************************************)
(* What libril promises of the requests of the telephony framework: each   *)
(* is refused, or accepted and served; accepted requests are served one at *)
(* a time and in the order of their acceptance; none is answered twice,    *)
(* and none is answered before it is issued.                               *)
(***************************************************************************)
EXTENDS Naturals, Sequences

CONSTANT Requests

VARIABLES
  progress,   \* of each request
  line        \* the accepted requests not yet served, oldest first

Progress == {"new", "dropped", "waiting", "served", "answered"}

Init ==
  /\ progress = [r \in Requests |-> "new"]
  /\ line = <<>>

(* Answered with an error without being accepted. *)
Refuse(r) ==
  /\ progress[r] = "new"
  /\ progress' = [progress EXCEPT ![r] = "answered"]
  /\ UNCHANGED line

(* Neither accepted nor answered.  A service should not do this; libril can. *)
Drop(r) ==
  /\ progress[r] = "new"
  /\ progress' = [progress EXCEPT ![r] = "dropped"]
  /\ UNCHANGED line

Accept(r) ==
  /\ progress[r] = "new"
  /\ progress' = [progress EXCEPT ![r] = "waiting"]
  /\ line' = Append(line, r)

Serve ==
  /\ line # <<>>
  /\ \A r \in Requests : progress[r] # "served"
  /\ progress' = [progress EXCEPT ![Head(line)] = "served"]
  /\ line' = Tail(line)

Answer(r) ==
  /\ progress[r] = "served"
  /\ progress' = [progress EXCEPT ![r] = "answered"]
  /\ UNCHANGED line

Next == Serve \/ \E r \in Requests : Refuse(r) \/ Drop(r) \/ Accept(r) \/ Answer(r)

Spec == Init /\ [][Next]_<<progress, line>>

=============================================================================
