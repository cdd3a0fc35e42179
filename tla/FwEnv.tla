------------------------------- MODULE FwEnv -------------------------------
(***************************************************************************)
(* fw_setenv and fw_printenv of src/tools/envtools: the environment of the  *)
(* boot loader in flash, in one copy or, redundantly, in two of which a     *)
(* flag tells the current one.  A tool reads the copies, edits the image in *)
(* memory, and writes it over the copy that is not current.  There is no    *)
(* lock, and the power may fail at any time.                                *)
(*                                                                          *)
(* scheme: "none" is one copy, on a raw device, as fw_env.h configures it;  *)
(* "boolean" is two copies on NOR flash and "incremental" two on NAND.  A   *)
(* value is the room it takes; an image whose checksum fails has ok FALSE.  *)
(***************************************************************************)
EXTENDS Integers, FiniteSets, Folds

CONSTANTS
    Tools,       \* processes that run the tools
    Names,       \* the variables
    Sizes,       \* the sizes of their values
    Capacity,    \* ENV_SIZE
    MaxRuns,     \* bound on runs of a tool
    MaxFailures  \* bound on power failures and I/O errors

\* the first environment has room, and a value of size 1 for every variable
FwEnvAssumption ==
    /\ Sizes \subseteq Nat \ {0} /\ 1 \in Sizes
    /\ IsFiniteSet(Names) /\ Capacity \in Nat /\ Cardinality(Names) <= Capacity
    /\ MaxRuns \in Nat /\ MaxFailures \in Nat

VARIABLES
    scheme, sectors,    \* the flash, and the erase sectors that a copy spans
    copy,               \* the copies: checksum, flag and variables
    tool,               \* the processes: where they are and what they hold
    runs, failures,
    kept,               \* what the last run that exited with 0 has written
    interrupted,        \* what runs that failed since may have left instead
    spoilt              \* what has happened that the tools do not guard against

vars == <<scheme, sectors, copy, tool, runs, failures, kept, interrupted, spoilt>>

Absent   == 0
Envs     == [Names -> Sizes \cup {Absent}]
Room(e)  == MapThenFoldSet(+, 0, LAMBDA n : e[n], LAMBDA S : CHOOSE n \in S : TRUE, Names)
Default  == [n \in Names |-> Absent]          \* default_environment
Active   == 1
Obsolete == 0
Erased   == 255
Devices  == {0, 1}
Torn     == [ok |-> FALSE, flag |-> Erased, env |-> Default]
Gone     == [at |-> "idle", kind |-> "print", first |-> Torn, dev |-> 0, flag |-> 0,
             env |-> Default, ret |-> 0]

\* The copies and the tools have values of their types, and no tool holds an
\* environment that is larger than its room.
TypeOK ==
    /\ scheme \in {"none", "boolean", "incremental"} /\ sectors \in {1, 2}
    /\ copy \in [Devices -> [ok : BOOLEAN, flag : 0 .. 255, env : Envs]]
    /\ \A p \in Tools :
        /\ tool[p].at \in {"idle", "half", "edit", "erase", "write", "mark"}
        /\ tool[p].kind \in {"print", "set", "script"}
        /\ tool[p].dev \in Devices /\ tool[p].flag \in 0 .. 255 /\ tool[p].ret \in {0, -1}
        /\ tool[p].env \in Envs /\ Room(tool[p].env) <= Capacity
    /\ runs \in 0 .. MaxRuns /\ failures \in 0 .. MaxFailures
    /\ kept \in Envs /\ interrupted \subseteq Envs
    /\ spoilt \subseteq {"overlap", "wrap", "mark", "single"}

\* The copies that runs of the tools, or the boot loader, have left: d is
\* current and holds e
Written(d, e) ==
    \/ /\ scheme = "none" /\ d = 0
       /\ copy = [x \in Devices |-> IF x = d THEN [ok |-> TRUE, flag |-> 0, env |-> e] ELSE Torn]
    \/ /\ scheme = "boolean"
       /\ copy = [x \in Devices |-> [ok |-> TRUE, flag |-> IF x = d THEN Active ELSE Obsolete,
                                     env |-> IF x = d THEN e ELSE Default]]
    \/ /\ scheme = "incremental"
       /\ \E f \in {1, 254} :
            copy = [x \in Devices |-> [ok |-> TRUE, flag |-> IF x = d THEN f ELSE f - 1,
                                       env |-> IF x = d THEN e ELSE Default]]

Init ==
    /\ scheme \in {"none", "boolean", "incremental"}
    /\ sectors \in IF scheme = "boolean" THEN {1, 2} ELSE {1}
    /\ kept = [n \in Names |-> 1]
    /\ \E d \in Devices : Written(d, kept)
    /\ tool = [p \in Tools |-> Gone]
    /\ runs = 0 /\ failures = 0 /\ interrupted = {} /\ spoilt = {}

(***************************************************************************)
(* fw_env_open                                                              *)
(***************************************************************************)
\* a mutant: the second copy wins when only the first is good
ChoiceSwapped(a, b) == IF a.ok /\ ~b.ok THEN 1 ELSE 0

\* dev_current, when the copies a and b were read
Choice(a, b) ==
    CASE ~b.ok                -> 0
      [] b.ok /\ ~a.ok        -> 1
      [] a.ok /\ b.ok /\ scheme = "boolean" ->
            IF \/ a.flag = Obsolete /\ b.flag = Active
               \/ a.flag # b.flag /\ a.flag # Erased /\ b.flag = Erased
            THEN 1 ELSE 0
      [] OTHER                ->
            IF (a.flag = 255 /\ b.flag = 0) \/ b.flag > a.flag THEN 1 ELSE 0

Current(a, b) == IF scheme = "none" THEN 0 ELSE Choice(a, b)
Loaded(c)     == IF c.ok THEN c.env ELSE Default
\* what fw_printenv would print
Visible       == Loaded(copy[Current(copy[0], copy[1])])
Become(p, t)  == tool' = [tool EXCEPT ![p] = t]

\* flash_io reads the first copy
Open(p, kind) ==
    /\ tool[p].at = "idle" /\ runs < MaxRuns
    /\ runs' = runs + 1
    /\ spoilt' = spoilt \cup {s \in {"overlap"} : \E q \in Tools : tool[q].at # "idle"}
    /\ Become(p, [Gone EXCEPT !.at = "half", !.kind = kind, !.first = copy[0]])
    /\ UNCHANGED <<scheme, sectors, copy, failures, kept, interrupted>>

\* then the second, and one of them is chosen
Choose(p) ==
    LET d == Current(tool[p].first, copy[1])
        c == IF d = 0 THEN tool[p].first ELSE copy[1]
    IN  /\ tool[p].at = "half"
        /\ Become(p, [Gone EXCEPT !.at = "edit", !.kind = tool[p].kind, !.dev = d,
                                  !.flag = c.flag, !.env = Loaded(c)])
        /\ UNCHANGED <<scheme, sectors, copy, runs, failures, kept, interrupted, spoilt>>

\* a read fails
OpenFails(p) ==
    /\ tool[p].at = "half" /\ failures < MaxFailures
    /\ failures' = failures + 1
    /\ Become(p, Gone)
    /\ UNCHANGED <<scheme, sectors, copy, runs, kept, interrupted, spoilt>>

(***************************************************************************)
(* fw_printenv, fw_setenv, fw_parse_script                                  *)
(***************************************************************************)
PrintEnv(p) ==
    /\ tool[p].at = "edit" /\ tool[p].kind = "print"
    /\ Become(p, Gone)
    /\ UNCHANGED <<scheme, sectors, copy, runs, failures, kept, interrupted, spoilt>>

\* fw_env_write: the old value is removed, then the new one, if there is one,
\* is appended where there is room for it
Fits(e, n, v) == Room([e EXCEPT ![n] = Absent]) + v <= Capacity
Put(e, n, v)  == [e EXCEPT ![n] = IF Fits(e, n, v) THEN v ELSE Absent]

\* a mutant: the room that is left is not looked at
AssignUnchecked(p, n, v) ==
    /\ tool[p].at = "edit" /\ tool[p].kind # "print"
    /\ Become(p, [tool[p] EXCEPT !.env = [@ EXCEPT ![n] = v], !.at = "erase"])
    /\ UNCHANGED <<scheme, sectors, copy, runs, failures, kept, interrupted, spoilt>>

\* fw_setenv sets one variable and does not look at what fw_env_write
\* returned; a script ends at a line that fails, and is written even then
Assign(p, n, v) ==
    LET t    == tool[p]
        fits == Fits(t.env, n, v)
    IN  /\ t.at = "edit" /\ t.kind # "print"
        /\ Become(p, [t EXCEPT !.env = Put(t.env, n, v),
                               !.ret = IF t.kind = "script" /\ ~fits THEN -1 ELSE @,
                               !.at  = IF t.kind = "script" /\ fits THEN @ ELSE "erase"])
        /\ UNCHANGED <<scheme, sectors, copy, runs, failures, kept, interrupted, spoilt>>

\* the script is at its end
Close(p) ==
    /\ tool[p].at = "edit" /\ tool[p].kind = "script"
    /\ Become(p, [tool[p] EXCEPT !.at = "erase"])
    /\ UNCHANGED <<scheme, sectors, copy, runs, failures, kept, interrupted, spoilt>>

(***************************************************************************)
(* fw_env_close: flash_write                                                *)
(***************************************************************************)
Target(p) == IF scheme = "none" THEN tool[p].dev ELSE 1 - tool[p].dev
NewFlag(p) == CASE scheme = "incremental" -> (tool[p].flag + 1) % 256
                [] scheme = "boolean"     -> Active
                [] OTHER                  -> tool[p].flag

\* The tool ends.  What it has written holds if it exits with 0.
Exit(p, ret) ==
    /\ Become(p, Gone)
    /\ IF ret = 0 THEN kept' = tool[p].env /\ interrupted' = {}
       ELSE interrupted' = interrupted \cup {tool[p].env} /\ UNCHANGED kept

\* a mutant: the copy that is current is erased
EraseCurrent(p) ==
    /\ tool[p].at = "erase"
    /\ copy' = [copy EXCEPT ![tool[p].dev] = Torn]
    /\ Become(p, [tool[p] EXCEPT !.at = "write"])
    /\ UNCHANGED <<scheme, sectors, runs, failures, kept, interrupted, spoilt>>

\* flash_write_buf has erased the target, or written a part of it
Erase(p) ==
    /\ tool[p].at = "erase"
    /\ copy' = [copy EXCEPT ![Target(p)] = Torn]
    /\ Become(p, [tool[p] EXCEPT !.at = "write"])
    /\ UNCHANGED <<scheme, sectors, runs, failures, kept, interrupted, spoilt>>

Image(p) == [ok |-> TRUE, flag |-> NewFlag(p), env |-> tool[p].env]

\* a mutant: the flag of the incremental scheme stays as it was read
WriteKeepsFlag(p) ==
    /\ tool[p].at = "write"
    /\ copy' = [copy EXCEPT ![Target(p)] = [ok |-> TRUE, flag |-> tool[p].flag, env |-> tool[p].env]]
    /\ Exit(p, tool[p].ret)
    /\ UNCHANGED <<scheme, sectors, runs, failures, spoilt>>

\* All of it is written.  On NOR flash the loop, which is meant to run once,
\* runs again for a copy of two sectors, and ends with an error.
Write(p) ==
    /\ tool[p].at = "write"
    /\ copy' = [copy EXCEPT ![Target(p)] = Image(p)]
    /\ spoilt' = spoilt \cup {s \in {"wrap"} : NewFlag(p) < tool[p].flag /\ Target(p) = 0
                                                /\ scheme = "incremental"}
    /\ CASE sectors > 1          -> Exit(p, -1)
         [] scheme = "boolean" /\ sectors = 1 ->
                /\ Become(p, [tool[p] EXCEPT !.at = "mark"])
                /\ UNCHANGED <<kept, interrupted>>
         [] OTHER                -> Exit(p, tool[p].ret)
    /\ UNCHANGED <<scheme, sectors, runs, failures>>

\* a write fails, and leaves the target torn
WriteFails(p) ==
    /\ tool[p].at = "write" /\ failures < MaxFailures
    /\ failures' = failures + 1
    /\ spoilt' = spoilt \cup {s \in {"single"} : scheme = "none"}
    /\ Become(p, Gone)
    /\ UNCHANGED <<scheme, sectors, copy, runs, kept, interrupted>>

\* flash_flag_obsolete marks the copy that was current; if it fails, the tool
\* takes no notice
Mark(p) ==
    /\ tool[p].at = "mark"
    /\ \/ copy' = [copy EXCEPT ![tool[p].dev].flag = Obsolete] /\ UNCHANGED <<failures, spoilt>>
       \/ /\ failures < MaxFailures /\ failures' = failures + 1
          /\ spoilt' = spoilt \cup {"mark"}
          /\ UNCHANGED copy
    /\ Exit(p, tool[p].ret)
    /\ UNCHANGED <<scheme, sectors, runs>>

\* the power fails: every tool is gone where it was
PowerFails ==
    /\ failures < MaxFailures /\ \E p \in Tools : tool[p].at # "idle"
    /\ failures' = failures + 1
    /\ spoilt' = spoilt \cup {s \in {"single"} : scheme = "none"
                                                  /\ \E p \in Tools : tool[p].at = "write"}
    /\ interrupted' = interrupted \cup {tool[p].env : p \in {q \in Tools : tool[q].at = "mark"}}
    /\ tool' = [p \in Tools |-> Gone]
    /\ UNCHANGED <<scheme, sectors, copy, runs, kept>>

Step(p) ==
    \/ \E kind \in {"print", "set", "script"} : Open(p, kind)
    \/ Choose(p) \/ OpenFails(p) \/ PrintEnv(p) \/ Close(p)
    \/ \E n \in Names, v \in Sizes \cup {Absent} : Assign(p, n, v)
    \/ Erase(p) \/ Write(p) \/ WriteFails(p) \/ Mark(p)

Next == PowerFails \/ \E p \in Tools : Step(p)
Spec == Init /\ [][Next]_vars

(***************************************************************************)
(* Properties                                                               *)
(***************************************************************************)
\* Between the runs of the tools the environment is what the last one that
\* exited with 0 has written, or what one that failed since has: whatever
\* power failures and I/O errors there were, as long as two tools do not
\* overlap, the flags of the incremental scheme do not wrap to 0 in the first
\* copy, the mark of the boolean scheme does not fail, and a single copy is
\* not torn.
KeptUntilReplaced ==
    spoilt = {} /\ (\A p \in Tools : tool[p].at = "idle") => Visible \in {kept} \cup interrupted

\* While there are two copies and one tool at a time, one of them is good at
\* every moment, and no failure brings the default environment back.
OneCopyGood ==
    scheme # "none" /\ "overlap" \notin spoilt => \E d \in Devices : copy[d].ok

\* A step of one tool changes what is visible to what that tool has written,
\* and nothing in between is ever seen.
ReplacedAtOnce ==
    [][(scheme # "none" /\ spoilt' = {} /\ Visible' # Visible) =>
            \E p \in Tools : tool[p].at \in {"write", "mark"} /\ Visible' = tool[p].env]_vars
=============================================================================
