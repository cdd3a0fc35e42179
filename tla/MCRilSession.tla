----------------------------- MODULE MCRilSession -----------------------------
(***************************************************************************)
(* RilSession for TLC.                                                     *)
(***************************************************************************)
EXTENDS RilSession, TLC

CONSTANTS ext, r1, r2, r3

NoOthers  == {}
OneOther  == {ext}

TwoRequests   == {r1, r2}
ThreeRequests == {r1, r2, r3}

OneRequest    == {r1}
PowerOnly     == r1 :> "power on"
QueryOnly     == r1 :> "imei"
OnAndOff      == r1 :> "power on" @@ r2 :> "power off"
PowerAndQuery  == r1 :> "power on" @@ r2 :> "other"
PowerAndPin    == r1 :> "power on" @@ r2 :> "pin"
PowerCycle     == r1 :> "power on" @@ r2 :> "power off" @@ r3 :> "pin"

=============================================================================
