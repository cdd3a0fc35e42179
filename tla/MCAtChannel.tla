----------------------------- MODULE MCAtChannel -----------------------------
(***************************************************************************)
(* AtChannel for TLC: the runner alone or with one more command thread.    *)
(***************************************************************************)
EXTENDS AtChannel

CONSTANT ext

NoOthers  == {}
OneOther  == {ext}

PlainOps  == {"command"}
HangOps   == {"command", "raw"}
MixedOps  == {"raw", "numeric", "sms"}

AllFinals == {"OK", "ERROR"}
JustOk    == {"OK"}

OneEach == [c \in Clients |-> 1]
TwoEach == [c \in Clients |-> 2]
\* one thread times out and sends another call, and one call waits behind it
TwoAndOne == [c \in Clients |-> IF c = Runner THEN 1 ELSE 2]

NoStrays  == {}
NoCarrier == {"NO CARRIER"}

=============================================================================
