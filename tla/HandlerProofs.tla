---------------------------- MODULE HandlerProofs ----------------------------
(***************************************************************************)
(* Theorems about a handler at work, for any table of functions that is    *)
(* well formed: the handler is always at a step of one of them, or behind  *)
(* the last of a block, and one that keeps the discipline of HandlerCode   *)
(* answers once, frees all it has and reads nothing that is not there.     *)
(***************************************************************************)
EXTENDS HandlerRun, SequenceTheorems, TLAPS

(* Where a function of a model may be: a block of its own, and in it a step *)
(* or the place behind the last one.                                        *)
Places(m) == {fr \in [f : DOMAIN Code[m], label : Labels, at : Nat \ {0}] :
                 fr.label \in DOMAIN Code[m][fr.f]}

HandlerInv ==
    /\ TypeOK
    /\ frames \in Seq(Places(model))
    /\ Crashed => ~Running
    /\ request = None => ~Running /\ Start

LEMMA TopInside ==
  ASSUME HandlerInv, Running
  PROVE  /\ Top \in Places(model) /\ Len(frames) \in Nat \ {0} /\ model \in Models
         /\ WellFormed(Code[model], Top.f)
<1>1. frames \in Seq(Places(model)) /\ frames # << >> /\ model \in Models
  BY DEF HandlerInv, Running, TypeOK
<1> DEFINE P == Places(model)
<1>2. frames[Len(frames)] \in P /\ Len(frames) \in Nat \ {0}
  <2>1. frames \in Seq(P) /\ frames # << >>
    BY <1>1
  <2> HIDE DEF P
  <2>2. QED
    BY <2>1
<1>3. Top.f \in DOMAIN Code[model]
  BY <1>2 DEF Top, Places
<1>4. QED
  BY <1>1, <1>2, <1>3, HandlerAssumption DEF Top

LEMMA Moved ==
  ASSUME NEW F, NEW L, NEW A, NEW r \in [f : F, label : L, at : A], NEW l \in L, NEW a \in A
  PROVE  /\ [r EXCEPT !.label = l, !.at = a] \in [f : F, label : L, at : A]
         /\ [r EXCEPT !.label = l, !.at = a].f = r.f
         /\ [r EXCEPT !.label = l, !.at = a].label = l
OBVIOUS

(* A step of the list leads to the next place, and a jump to a label that   *)
(* the function has.                                                        *)
LEMMA StepInside ==
  ASSUME HandlerInv, NEW ops, At(ops)
  PROVE  /\ [Top EXCEPT !.at = @ + 1] \in Places(model)
         /\ Now.op \in ops
         /\ Now.op \in Jumps => [Top EXCEPT !.label = Now.to, !.at = 1] \in Places(model)
         /\ Now.op = "call" => Frame(Now.var) \in Places(model)
<1>1. Running /\ Top.at <= Len(Block) /\ Now.op \in ops
  BY DEF At
<1>2. Top \in Places(model) /\ model \in Models /\ WellFormed(Code[model], Top.f)
  BY <1>1, TopInside
<1>3. Top.f \in DOMAIN Code[model] /\ Top.label \in DOMAIN Code[model][Top.f] /\ Top.at \in Nat \ {0}
  BY <1>2 DEF Places
<1>4. Now \in Range(Block)
  <2>1. Block \in Seq(Range(Block))
    BY <1>2, <1>3 DEF WellFormed, Block
  <2>2. Top.at \in DOMAIN Block
    <3> DEFINE b == Block
               R == Range(b)
    <3>1. b \in Seq(R) /\ Top.at <= Len(b)
      BY <1>1, <2>1
    <3> HIDE DEF b, R
    <3>2. Top.at \in DOMAIN b
      BY <1>3, <3>1
    <3>3. QED
      BY <3>2 DEF b
  <2>3. QED
    BY <2>2 DEF Now, Range
<1>5. /\ Now.op \in Jumps => Now.to \in DOMAIN Code[model][Top.f] /\ Now.to \in Labels
      /\ Now.op = "call"  => Now.var \in DOMAIN Code[model]
  BY <1>2, <1>3, <1>4 DEF WellFormed, Block
<1>6. [Top EXCEPT !.at = @ + 1] \in Places(model)
  BY <1>2, <1>3 DEF Places
<1>7. ASSUME Now.op \in Jumps PROVE [Top EXCEPT !.label = Now.to, !.at = 1] \in Places(model)
  <2> DEFINE top == Top
             l == Now.to
  <2>1. top \in Places(model) /\ l \in DOMAIN Code[model][top.f] /\ l \in Labels
    BY <1>2, <1>5, <1>7
  <2> HIDE DEF top, l
  <2>2. [top EXCEPT !.label = l, !.at = 1] \in Places(model)
    <3> DEFINE new == [top EXCEPT !.label = l, !.at = 1]
    <3>1. top \in [f : DOMAIN Code[model], label : Labels, at : Nat \ {0}]
      BY <2>1 DEF Places
    <3>2. new \in [f : DOMAIN Code[model], label : Labels, at : Nat \ {0}] /\ new.f = top.f /\ new.label = l
      <4>1. 1 \in Nat \ {0}
        OBVIOUS
      <4>2. QED
        BY <2>1, <3>1, <4>1, Moved
    <3> HIDE DEF new
    <3>3. new \in Places(model)
      BY <2>1, <3>2 DEF Places
    <3>4. QED
      BY <3>3 DEF new
  <2>3. QED
    BY <2>2 DEF top, l
<1>8. ASSUME Now.op = "call" PROVE Frame(Now.var) \in Places(model)
  <2>1. Now.var \in DOMAIN Code[model] /\ WellFormed(Code[model], Now.var)
    BY <1>2, <1>5, <1>8, HandlerAssumption
  <2>2. "main" \in DOMAIN Code[model][Now.var] /\ "main" \in Labels
    BY <2>1 DEF WellFormed
  <2>3. QED
    BY <2>1, <2>2 DEF Frame, Places
<1>9. QED
  BY <1>1, <1>6, <1>7, <1>8

LEMMA MoveInside ==
  ASSUME HandlerInv, Running, NEW t \in Places(model)
  PROVE  [frames EXCEPT ![Len(frames)] = t] \in Seq(Places(model))
<1> DEFINE P == Places(model)
<1>1. frames \in Seq(P) /\ frames # << >> /\ t \in P
  BY DEF HandlerInv, Running
<1> HIDE DEF P
<1>2. Len(frames) \in 1 .. Len(frames)
  BY <1>1
<1>3. [frames EXCEPT ![Len(frames)] = t] \in Seq(P)
  BY <1>1, <1>2, ExceptSeq
<1>4. QED
  BY <1>3 DEF P

(* The steps that leave the list of functions and their places alone.       *)
LEMMA AdvanceInside ==
  ASSUME HandlerInv, NEW ops, At(ops), Advance
  PROVE  frames' \in Seq(Places(model))
<1>1. Running
  BY DEF At
<1>2. QED
  BY <1>1, StepInside, MoveInside DEF Advance, Move

LEMMA JumpInside ==
  ASSUME HandlerInv, NEW ops, At(ops), ops \subseteq Jumps, Jump(Now.to)
  PROVE  frames' \in Seq(Places(model))
<1>1. Running
  BY DEF At
<1>2. Now.op \in Jumps
  BY StepInside
<1>3. QED
  BY <1>1, <1>2, StepInside, MoveInside DEF Jump, Move

LEMMA JumpIfInside ==
  ASSUME HandlerInv, NEW ops, At(ops), ops \subseteq Jumps, NEW p, JumpIf(p)
  PROVE  frames' \in Seq(Places(model))
BY AdvanceInside, JumpInside DEF JumpIf

LEMMA AssignType ==
  ASSUME TypeOK, NEW v, NEW h \in Heap, Assign(v, h, {})
  PROVE  /\ heap' \in [Vars -> Heap] /\ faults' \in SUBSET Faults
         /\ Crashed' => Crashed
<1>1. heap' = [heap EXCEPT ![v] = h] /\ faults' = faults \cup Lose(heap[v])
  BY DEF Assign
<1>2. Lose(heap[v]) \subseteq {"leak"}
  BY DEF Lose
<1>3. heap' \in [Vars -> Heap]
  BY <1>1 DEF TypeOK
<1>4. QED
  BY <1>1, <1>2, <1>3 DEF TypeOK, Faults, Crashed

(* What a step of a handler keeps, if it is not the last of all.            *)
LEMMA StepKeeps ==
  ASSUME HandlerInv, Running, UNCHANGED <<model, request>>,
         frames' \in Seq(Places(model)), heap' \in [Vars -> Heap], last' \in Outcomes \cup {Silent},
         answers' \in Nat, faults' \in SUBSET Faults,
         Crashed' => Crashed
  PROVE  HandlerInv'
<1>1. model \in Models /\ request \in Requests \cup Events /\ request # None /\ ~Crashed
  BY DEF HandlerInv, TypeOK
<1> DEFINE P == Places(model)
           F == [f : DOMAIN Code[model], label : Labels, at : Nat \ {0}]
<1>2. frames' \in Seq(P) /\ P \subseteq F
  BY DEF Places
<1> HIDE DEF P, F
<1>3. frames' \in Seq(F)
  BY <1>2
<1>4. frames' \in Seq([f : DOMAIN Code[model'], label : Labels, at : Nat \ {0}])
      /\ frames' \in Seq(Places(model'))
  BY <1>3 DEF F, P
<1>5. TypeOK'
  BY <1>1, <1>4 DEF TypeOK
<1>6. QED
  BY <1>1, <1>4, <1>5 DEF HandlerInv

(* What is undefined is the end.                                            *)
LEMMA FaultKeeps ==
  ASSUME HandlerInv, Running, NEW k \in Faults, Fault(k)
  PROVE  HandlerInv'
<1>1. /\ faults' = faults \cup {k} /\ frames' = << >>
      /\ UNCHANGED <<model, request, heap, last, answers>>
  BY DEF Fault
<1>2. faults' \in SUBSET Faults /\ ~Running'
  BY <1>1 DEF HandlerInv, TypeOK, Running
<1>3. frames' \in Seq([f : DOMAIN Code[model'], label : Labels, at : Nat \ {0}])
      /\ frames' \in Seq(Places(model'))
  BY <1>1
<1>4. TypeOK'
  BY <1>1, <1>2, <1>3 DEF HandlerInv, TypeOK
<1>5. QED
  BY <1>1, <1>2, <1>3, <1>4 DEF HandlerInv

LEMMA CommandKeeps ==
  ASSUME HandlerInv, NEW o \in Outcomes, Command_(o)
  PROVE  HandlerInv'
<1>1. At(Asking) /\ Advance /\ last' = o /\ UNCHANGED <<model, request, answers>>
  BY DEF Command_
<1>2. TypeOK /\ Running /\ "line" \in Heap /\ "bare" \in Heap /\ "null" \in Heap
  BY <1>1 DEF HandlerInv, At, Heap
<1>3. \/ UNCHANGED <<heap, faults>>
      \/ \E h \in {"line", "bare", "null"} : Assign(Now.var, h, {})
  BY DEF Command_
<1>4. heap' \in [Vars -> Heap] /\ faults' \in SUBSET Faults /\ (Crashed' => Crashed)
  <2>1. CASE UNCHANGED <<heap, faults>>
    BY <1>2, <2>1 DEF TypeOK, Crashed
  <2>2. CASE \E h \in {"line", "bare", "null"} : Assign(Now.var, h, {})
    BY <1>2, <2>2, AssignType
  <2>3. QED
    BY <1>3, <2>1, <2>2
<1>5. last' \in Outcomes /\ answers' \in Nat /\ frames' \in Seq(Places(model))
  BY <1>1, <1>2, AdvanceInside DEF TypeOK
<1>6. QED
  BY <1>1, <1>2, <1>4, <1>5, StepKeeps

LEMMA WaitKeeps ==
  ASSUME HandlerInv, Wait
  PROVE  HandlerInv'
<1>1. Running /\ last' = Silent /\ UNCHANGED <<model, request, frames, heap, answers, faults>>
  BY DEF Wait, At
<1>2. frames' \in Seq(Places(model))
  BY <1>1 DEF HandlerInv
<1>3. QED
  BY <1>1, <1>2, StepKeeps DEF HandlerInv, TypeOK, Crashed

LEMMA BranchKeeps ==
  ASSUME HandlerInv, Branch
  PROVE  HandlerInv'
<1>1. UNCHANGED <<model, request, heap, last, answers, faults>>
  BY DEF Branch
<1>2. frames' \in Seq(Places(model)) /\ Running
  <2>1. \/ At({"unless"}) /\ JumpIf(last \notin Now.among)
        \/ At({"maybe"}) /\ (Advance \/ Jump(Now.to))
        \/ At({"goto"}) /\ Jump(Now.to)
        \/ At({"lined"}) /\ JumpIf(heap[Now.var] # "line")
    BY DEF Branch
  <2>2. \A op \in {"unless", "maybe", "goto", "lined"} : {op} \subseteq Jumps
    BY DEF Jumps
  <2>3. QED
    BY <2>1, <2>2, JumpIfInside, JumpInside, AdvanceInside DEF At
<1>3. QED
  BY <1>1, <1>2, StepKeeps DEF HandlerInv, TypeOK, Crashed

LEMMA LinesKeeps ==
  ASSUME HandlerInv, Lines
  PROVE  HandlerInv'
<1>1. At({"parse", "read", "scan", "look"}) /\ Running
  BY DEF Lines, At
<1>2. CASE Fault("use")
  BY <1>1, <1>2, FaultKeeps DEF Faults
<1>3. CASE /\ Advance \/ (Now.op \in {"parse", "scan"} /\ Jump(Now.to))
           /\ UNCHANGED <<model, request, heap, last, answers, faults>>
  <2>1. frames' \in Seq(Places(model))
    <3>1. CASE Advance
      BY <1>1, <3>1, AdvanceInside
    <3>2. CASE Now.op \in {"parse", "scan"} /\ Jump(Now.to)
      <4>1. At({"parse", "scan"}) /\ {"parse", "scan"} \subseteq Jumps
        BY <1>1, <3>2 DEF At, Jumps
      <4>2. QED
        BY <3>2, <4>1, JumpInside
    <3>3. QED
      BY <1>3, <3>1, <3>2
  <2>2. QED
    BY <1>1, <1>3, <2>1, StepKeeps DEF HandlerInv, TypeOK, Crashed
<1>4. QED
  BY <1>2, <1>3 DEF Lines

LEMMA ReleaseKeeps ==
  ASSUME HandlerInv, Release
  PROVE  HandlerInv'
<1>1. At({"free", "shed"}) /\ Running
  BY DEF Release, At
<1>2. CASE Fault("free")
  BY <1>1, <1>2, FaultKeeps DEF Faults
<1>3. CASE ~Fault("free")
  <2>1. /\ Advance /\ UNCHANGED <<model, request, last, answers>>
        /\ heap' = [heap EXCEPT ![Now.var] = IF heap[Now.var] = "null" THEN heap[Now.var] ELSE "freed"]
        /\ faults' = faults \cup (IF Now.op = "shed" THEN Lose(heap[Now.var]) ELSE {})
    BY <1>3 DEF Release
  <2>2. heap' \in [Vars -> Heap]
    <3> DEFINE h == IF heap[Now.var] = "null" THEN heap[Now.var] ELSE "freed"
    <3>1. h \in Heap /\ heap \in [Vars -> Heap]
      BY DEF Heap, HandlerInv, TypeOK
    <3>2. heap' = [heap EXCEPT ![Now.var] = h]
      BY <2>1
    <3> HIDE DEF h
    <3>3. QED
      BY <3>1, <3>2
  <2>3. faults' \in SUBSET Faults /\ (Crashed' => Crashed)
    <3>1. faults' \subseteq faults \cup {"leak"} /\ faults \subseteq Faults
      BY <2>1 DEF Lose, HandlerInv, TypeOK
    <3>2. QED
      BY <3>1 DEF Faults, Crashed
  <2>4. frames' \in Seq(Places(model))
    BY <1>1, <2>1, AdvanceInside
  <2>5. last' \in Outcomes \cup {Silent} /\ answers' \in Nat
    BY <2>1 DEF HandlerInv, TypeOK
  <2>6. QED
    BY <1>1, <2>1, <2>2, <2>3, <2>4, <2>5, StepKeeps
<1>4. QED
  BY <1>2, <1>3

LEMMA PointerKeeps ==
  ASSUME HandlerInv, Pointer \/ MovePointer
  PROVE  HandlerInv'
<1>1. Running /\ UNCHANGED <<model, request, last, answers>> /\ TypeOK
  BY DEF Pointer, MovePointer, At, HandlerInv
<1>2. frames' \in Seq(Places(model))
  BY AdvanceInside DEF Pointer, MovePointer
<1>3. last' \in Outcomes \cup {Silent} /\ answers' \in Nat
  BY <1>1 DEF TypeOK
<1>4. heap' \in [Vars -> Heap] /\ faults' \in SUBSET Faults /\ (Crashed' => Crashed)
  <2>1. CASE Pointer
    <3>1. Now.op \in {"make", "null", "wild"}
      BY <2>1 DEF Pointer, At
    <3>2. PICK h \in {"held", "null", "wild"} : Assign(Now.var, h, {})
      BY <2>1, <3>1 DEF Pointer
    <3>3. h \in Heap
      BY DEF Heap
    <3>4. QED
      BY <1>1, <3>2, <3>3, AssignType
  <2>2. CASE MovePointer
    BY <1>1, <2>2 DEF MovePointer, TypeOK, Heap, Crashed
  <2>3. QED
    BY <2>1, <2>2
<1>5. QED
  BY <1>1, <1>2, <1>3, <1>4, StepKeeps

LEMMA AnswerKeeps ==
  ASSUME HandlerInv, Answer
  PROVE  HandlerInv'
<1>1. At({"answer"}) /\ Running
  BY DEF Answer, At
<1>2. CASE Fault("use")
  BY <1>1, <1>2, FaultKeeps DEF Faults
<1>3. CASE ~Fault("use")
  <2>1. /\ Advance /\ answers' = answers + 1
        /\ UNCHANGED <<model, request, heap, last, faults>>
    BY <1>3 DEF Answer
  <2>2. frames' \in Seq(Places(model))
    BY <1>1, <2>1, AdvanceInside
  <2>3. answers' \in Nat
    BY <2>1 DEF HandlerInv, TypeOK
  <2>4. QED
    BY <1>1, <2>1, <2>2, <2>3, StepKeeps DEF HandlerInv, TypeOK, Crashed
<1>4. QED
  BY <1>2, <1>3

LEMMA CallKeeps ==
  ASSUME HandlerInv, CallStep
  PROVE  HandlerInv'
<1>1. At({"call"}) /\ Running
  BY DEF CallStep, At
<1>2. Now.op = "call" /\ [Top EXCEPT !.at = @ + 1] \in Places(model) /\ Frame(Now.var) \in Places(model)
  BY <1>1, StepInside
<1> DEFINE P == Places(model)
           next == Frame(Now.var)
           back == [frames EXCEPT ![Len(frames)] = [Top EXCEPT !.at = @ + 1]]
<1>3. [frames EXCEPT ![Len(frames)].at = @ + 1] = back
  BY DEF Top
<1>4. frames' = Append(back, next) /\ UNCHANGED <<model, request, heap, last, answers, faults>>
  BY <1>3 DEF CallStep
<1>5. back \in Seq(P) /\ next \in P
  BY <1>1, <1>2, MoveInside
<1>6. frames' \in Seq(Places(model))
  <2> HIDE DEF P, next, back
  <2>1. frames' \in Seq(P)
    BY <1>4, <1>5
  <2>2. QED
    BY <2>1 DEF P
<1>7. QED
  BY <1>1, <1>4, <1>6, StepKeeps DEF HandlerInv, TypeOK, Crashed

LEMMA ReturnKeeps ==
  ASSUME HandlerInv, Return
  PROVE  HandlerInv'
<1>1. /\ Running /\ frames' = SubSeq(frames, 1, Len(frames) - 1)
      /\ faults' = faults \cup (IF Len(frames) = 1 THEN UNION {Lose(heap[v]) : v \in Vars} ELSE {})
      /\ UNCHANGED <<model, request, heap, last, answers>>
  BY DEF Return
<1>2. frames' \in Seq(Places(model))
  <2> DEFINE P == Places(model)
  <2>1. frames \in Seq(P) /\ Len(frames) \in Nat \ {0}
    BY <1>1, TopInside DEF HandlerInv
  <2> HIDE DEF P
  <2>2. \A i \in 1 .. Len(frames) - 1 : frames[i] \in P
    BY <2>1
  <2>3. 1 \in Int /\ Len(frames) - 1 \in Int
    BY <2>1
  <2>4. SubSeq(frames, 1, Len(frames) - 1) \in Seq(P)
    BY <2>2, <2>3, SubSeqProperties
  <2>5. QED
    BY <1>1, <2>4 DEF P
<1>3. faults' \subseteq faults \cup {"leak"}
  BY <1>1 DEF Lose
<1>4. faults' \in SUBSET Faults /\ (Crashed' => Crashed)
  BY <1>3 DEF HandlerInv, TypeOK, Faults, Crashed
<1>5. QED
  BY <1>1, <1>2, <1>4, StepKeeps DEF HandlerInv, TypeOK

(* A handler begins at the first step of its function, and with nothing.    *)
LEMMA DispatchKeeps ==
  ASSUME HandlerInv, NEW f \in Requests \cup Events, Dispatch(f)
  PROVE  HandlerInv'
<1>1. /\ f \in DOMAIN Code[model] /\ request' = f /\ frames' = <<Frame(f)>>
      /\ request = None /\ f # None
      /\ UNCHANGED <<model, heap, last, answers, faults>>
  BY HandlerAssumption DEF Dispatch
<1>2. CASE ~Crashed
  <2>1. model \in Models /\ WellFormed(Code[model], f)
    BY <1>1, HandlerAssumption DEF HandlerInv, TypeOK
  <2>2. Frame(f) \in Places(model) /\ Frame(f) \in [f : DOMAIN Code[model], label : Labels, at : Nat \ {0}]
    <3>1. "main" \in DOMAIN Code[model][f] /\ "main" \in Labels
      BY <2>1 DEF WellFormed
    <3>2. QED
      BY <1>1, <3>1 DEF Frame, Places
  <2> DEFINE P == Places(model)
             F == [f : DOMAIN Code[model], label : Labels, at : Nat \ {0}]
             x == Frame(f)
  <2>3. x \in P /\ x \in F /\ frames' = <<x>>
    BY <1>1, <2>2
  <2> HIDE DEF P, F, x
  <2>4. frames' \in Seq(P) /\ frames' \in Seq(F)
    BY <2>3
  <2>5. TypeOK'
    <3>1. frames' \in Seq([f : DOMAIN Code[model'], label : Labels, at : Nat \ {0}])
      BY <1>1, <2>4 DEF F
    <3>2. QED
      BY <1>1, <3>1 DEF HandlerInv, TypeOK
  <2>6. frames' \in Seq(Places(model'))
    BY <1>1, <2>4 DEF P
  <2>7. QED
    BY <1>1, <1>2, <2>5, <2>6 DEF HandlerInv, Crashed
<1>3. ~Crashed
  BY <1>1 DEF HandlerInv, Start, Crashed
<1>4. QED
  BY <1>2, <1>3

LEMMA IdleKeeps ==
  ASSUME HandlerInv, Idle
  PROVE  HandlerInv'
<1>1. /\ request' = None /\ frames' = << >> /\ heap' = [v \in Vars |-> "null"]
      /\ last' = "ok" /\ answers' = 0 /\ faults' = {} /\ model' = model
  BY DEF Idle
<1>2. TypeOK'
  BY <1>1 DEF HandlerInv, TypeOK, Heap, Outcomes
<1>3. Start' /\ ~Running' /\ ~Crashed'
  BY <1>1 DEF Start, Running, Crashed
<1>4. frames' \in Seq(Places(model'))
  BY <1>1
<1>5. QED
  BY <1>2, <1>3, <1>4 DEF HandlerInv

LEMMA HandlerInvariant == Spec => []HandlerInv
<1>1. Init => HandlerInv
  <2> SUFFICES ASSUME Init PROVE HandlerInv
    OBVIOUS
  <2>1. /\ model \in Models /\ request = None /\ frames = << >> /\ Start
        /\ heap = [v \in Vars |-> "null"] /\ last = "ok" /\ answers = 0 /\ faults = {}
    BY DEF Init, Start
  <2>2. TypeOK
    BY <2>1 DEF TypeOK, Heap, Outcomes
  <2>3. QED
    BY <2>1, <2>2 DEF HandlerInv, Running, Crashed
<1>2. HandlerInv /\ [Next]_vars => HandlerInv'
  <2> SUFFICES ASSUME HandlerInv, [Next]_vars PROVE HandlerInv'
    OBVIOUS
  <2>1. CASE \E f \in Requests \cup Events : Dispatch(f)
    BY <2>1, DispatchKeeps
  <2>2. CASE Idle
    BY <2>2, IdleKeeps
  <2>3. CASE \E o \in Outcomes : Command_(o)
    BY <2>3, CommandKeeps
  <2>4. CASE Wait \/ Branch \/ Lines \/ Release
    BY <2>4, WaitKeeps, BranchKeeps, LinesKeeps, ReleaseKeeps
  <2>5. CASE Pointer \/ MovePointer
    BY <2>5, PointerKeeps
  <2>6. CASE Answer \/ CallStep \/ Return
    BY <2>6, AnswerKeeps, CallKeeps, ReturnKeeps
  <2>7. CASE UNCHANGED vars
    BY <2>7 DEF vars, HandlerInv, TypeOK, Running, Crashed, Start
  <2>8. QED
    BY <2>1, <2>2, <2>3, <2>4, <2>5, <2>6, <2>7, Zenon DEF Next, Step_
<1>3. QED
  BY <1>1, <1>2, PTL DEF Spec

(* A handler is at a step of a function of its model, or behind the last    *)
(* step of a block (processRequest, ril-core.c).                            *)
THEOREM HandlersTypeCorrect == Spec => []TypeOK
<1>1. HandlerInv => TypeOK
  BY DEF HandlerInv
<1>2. QED
  BY <1>1, HandlerInvariant, PTL

-----------------------------------------------------------------------------
(* The handlers that keep the discipline of HandlerCode.                    *)

(* A step with op comes before the place i.                                 *)
Passed(b, op, i) == \E j \in DOMAIN b : j < i /\ b[j].op = op

Kinds(c, k) == IF HasLine(c, k) THEN {"line"} ELSE {"line", "bare"}

(* What a handler has at the place i of the block l: its response, how many *)
(* answers it has given, and the outcome of its last command.               *)
Fits(c, k, l, i, r, n, o) ==
  /\ n = IF Passed(c[l], "answer", i) THEN 1 ELSE 0
  /\ r \in IF Passed(c[l], "free", i) THEN {"null", "freed"} ELSE {"null", "line", "bare"}
  /\ k = 0 => r = "null"
  /\ l = "main" /\ i <= k => r = "null"
  /\ l = "main" /\ k > 0 /\ i = k + 1 /\ o \in c["main"][k + 1].among => r \in Kinds(c, k)
  /\ Looked(k, l, i) /\ ~Passed(c[l], "free", i) => r \in Kinds(c, k)

LEMMA PassedNext ==
  ASSUME NEW b, DOMAIN b \subseteq Nat, NEW op, NEW i \in DOMAIN b
  PROVE  Passed(b, op, i + 1) <=> Passed(b, op, i) \/ b[i].op = op
BY DEF Passed

LEMMA PassedNone ==
  ASSUME NEW b, DOMAIN b \subseteq Nat \ {0}, NEW op
  PROVE  ~Passed(b, op, 1)
BY DEF Passed

LEMMA PassedOnce ==
  ASSUME NEW b, DOMAIN b \subseteq Nat, NEW op, NEW i \in DOMAIN b, Once(b, op), b[i].op = op
  PROVE  ~Passed(b, op, i)
BY DEF Passed, Once

LEMMA PassedAll ==
  ASSUME NEW b, NEW n \in Nat, DOMAIN b = 1 .. n, NEW op, Once(b, op)
  PROVE  Passed(b, op, n + 1)
BY DEF Passed, Once

(* What is not the ending is before it.                                     *)
LEMMA NotEnding ==
  ASSUME NEW c, NEW k, NEW l, DOMAIN c[l] \subseteq Nat, \A j \in DOMAIN c[l] : Allowed(c, k, l, j),
         NEW i \in DOMAIN c[l], c[l][i].op \notin Ending
  PROVE  ~Passed(c[l], "answer", i) /\ ~Passed(c[l], "free", i)
<1>1. ASSUME NEW j \in DOMAIN c[l], j < i PROVE c[l][j].op \notin Ending
  BY <1>1 DEF Allowed
<1>2. QED
  BY <1>1 DEF Passed, Ending

(* Behind a jump, and behind a step that neither answers nor frees.         *)
LEMMA FitsJump ==
  ASSUME NEW c, NEW k \in Nat, NEW l, DOMAIN c[l] \subseteq Nat, \A j \in DOMAIN c[l] : Allowed(c, k, l, j),
         NEW i \in DOMAIN c[l], c[l][i].op \notin Ending, NEW to, DOMAIN c[to] \subseteq Nat \ {0},
         to # "main", NEW r, NEW n, NEW o, Fits(c, k, l, i, r, n, o)
  PROVE  Fits(c, k, to, 1, r, n, o)
<1>1. n = 0 /\ r \in {"null", "line", "bare"} /\ (k = 0 => r = "null")
  BY NotEnding DEF Fits
<1>2. ~Passed(c[to], "answer", 1) /\ ~Passed(c[to], "free", 1)
  BY PassedNone
<1>3. QED
  BY <1>1, <1>2 DEF Fits, Looked

LEMMA FitsNext ==
  ASSUME NEW c, NEW k \in Nat, NEW l, DOMAIN c[l] \subseteq Nat, \A j \in DOMAIN c[l] : Allowed(c, k, l, j),
         NEW i \in DOMAIN c[l], c[l][i].op \notin Ending, l = "main" => k = 0 \/ i \notin {k, k + 1},
         NEW r, NEW n, NEW o, Fits(c, k, l, i, r, n, o), NEW p
  PROVE  Fits(c, k, l, i + 1, r, n, p)
<1>1. n = 0 /\ r \in {"null", "line", "bare"} /\ ~Passed(c[l], "free", i) /\ i \in Nat
  BY NotEnding DEF Fits
<1>2. ~Passed(c[l], "answer", i + 1) /\ ~Passed(c[l], "free", i + 1)
  BY NotEnding, PassedNext DEF Ending
<1>3. /\ k = 0 => r = "null"
      /\ l = "main" /\ i <= k => r = "null"
      /\ Looked(k, l, i) => r \in Kinds(c, k)
  BY <1>1 DEF Fits
<1>4. l = "main" /\ i + 1 <= k => r = "null"
  BY <1>1, <1>3
<1>5. ~(l = "main" /\ k > 0 /\ i + 1 = k + 1)
  BY <1>1
<1>6. Looked(k, l, i + 1) => Looked(k, l, i)
  BY <1>1 DEF Looked
<1>7. QED
  BY <1>1, <1>2, <1>3, <1>4, <1>5, <1>6 DEF Fits

(* The command of the discipline, and the look at its outcome.              *)
LEMMA FitsCommand ==
  ASSUME NEW c, NEW k \in Nat, DOMAIN c["main"] \subseteq Nat \ {0},
         \A j \in DOMAIN c["main"] : Allowed(c, k, "main", j),
         k \in DOMAIN c["main"], c["main"][k].op \in Asking,
         NEW r \in {"null", "line", "bare"}, NEW n, NEW o, NEW q, NEW p,
         Fits(c, k, "main", k, q, n, o), p \in c["main"][k + 1].among => r \in Kinds(c, k)
  PROVE  Fits(c, k, "main", k + 1, r, n, p)
<1>1. c["main"][k].op \notin Ending /\ k > 0
  BY DEF Ending, Asking
<1>2. ~Passed(c["main"], "answer", k) /\ ~Passed(c["main"], "free", k)
  BY <1>1, NotEnding
<1>3. n = 0
  BY <1>2 DEF Fits
<1>4. ~Passed(c["main"], "answer", k + 1) /\ ~Passed(c["main"], "free", k + 1)
  BY <1>1, <1>2, PassedNext DEF Ending
<1>5. ~(k + 1 <= k) /\ ~Looked(k, "main", k + 1)
  BY DEF Looked
<1>6. QED
  BY <1>1, <1>3, <1>4, <1>5 DEF Fits

LEMMA FitsLook ==
  ASSUME NEW c, NEW k \in Nat \ {0}, DOMAIN c["main"] \subseteq Nat \ {0},
         \A j \in DOMAIN c["main"] : Allowed(c, k, "main", j),
         k + 1 \in DOMAIN c["main"], c["main"][k + 1].op = "unless",
         NEW r, NEW n, NEW o \in c["main"][k + 1].among, Fits(c, k, "main", k + 1, r, n, o)
  PROVE  Fits(c, k, "main", k + 2, r, n, o)
<1>1. c["main"][k + 1].op \notin Ending
  BY DEF Ending
<1>2. ~Passed(c["main"], "answer", k + 1) /\ ~Passed(c["main"], "free", k + 1)
  BY <1>1, NotEnding
<1>3. n = 0 /\ r \in {"null", "line", "bare"} /\ r \in Kinds(c, k)
  BY <1>2 DEF Fits
<1>4. ~Passed(c["main"], "answer", (k + 1) + 1) /\ ~Passed(c["main"], "free", (k + 1) + 1)
  BY <1>1, <1>2, PassedNext DEF Ending
<1>5. (k + 1) + 1 = k + 2 /\ ~(k + 2 <= k) /\ k + 2 # k + 1 /\ k # 0
  OBVIOUS
<1>6. QED
  BY <1>3, <1>4, <1>5 DEF Fits

(* The ending.                                                              *)
LEMMA EndingLate ==
  ASSUME NEW c, NEW k \in Nat, OneResponse(c, k), NEW l \in DOMAIN c, DOMAIN c[l] \subseteq Nat \ {0},
         NEW i \in DOMAIN c[l], c[l][i].op \in Ending, l = "main"
  PROVE  k = 0 \/ Looked(k, l, i)
<1> SUFFICES ASSUME k > 0 PROVE i > k + 1
  BY DEF Looked
<1>1. /\ k + 1 \in DOMAIN c["main"] /\ c["main"][k].op \in Asking
      /\ c["main"][k + 1].op = "unless"
  BY DEF OneResponse
<1>2. \A j \in DOMAIN c[l] : j > i => c[l][j].op \in Ending
  BY DEF OneResponse, Allowed
<1>3. i # k + 1 /\ ~(k + 1 > i)
  BY <1>1, <1>2 DEF Ending
<1>4. QED
  BY <1>3

LEMMA FitsAnswer ==
  ASSUME NEW c, NEW k \in Nat, OneResponse(c, k), NEW l \in DOMAIN c, DOMAIN c[l] \subseteq Nat \ {0},
         NEW i \in DOMAIN c[l], c[l][i].op = "answer",
         NEW r, NEW n, NEW o, Fits(c, k, l, i, r, n, o)
  PROVE  Fits(c, k, l, i + 1, r, n + 1, o) /\ (c[l][i].var = "r" => Owned(r))
<1>1. /\ \A j \in DOMAIN c[l] : Allowed(c, k, l, j)
      /\ Once(c[l], "answer")
  BY DEF OneResponse
<1>2. ~Passed(c[l], "answer", i) /\ Passed(c[l], "answer", i + 1)
  BY <1>1, PassedOnce, PassedNext
<1>3. Passed(c[l], "free", i + 1) <=> Passed(c[l], "free", i)
  BY PassedNext
<1>4. n = 0
  BY <1>2 DEF Fits
<1>5. l = "main" => k = 0 \/ Looked(k, l, i)
  BY EndingLate DEF Ending
<1>6. i \in Nat /\ (l = "main" => k = 0 \/ (Looked(k, l, i + 1) /\ i + 1 # k + 1 /\ ~(i + 1 <= k)))
  BY <1>5 DEF Looked
<1>7. ~Passed(c[l], "free", i) /\ Looked(k, l, i) => r \in Kinds(c, k)
  BY DEF Fits
<1>8. Looked(k, l, i + 1) => Looked(k, l, i)
  BY <1>5 DEF Looked
<1>9. Fits(c, k, l, i + 1, r, n + 1, o)
  BY <1>2, <1>3, <1>4, <1>6, <1>7, <1>8 DEF Fits
<1>10. ASSUME c[l][i].var = "r" PROVE Owned(r)
  <2>1. Looked(k, l, i) /\ \A j \in DOMAIN c[l] : j < i => c[l][j].op # "free"
    BY <1>1, <1>10 DEF Allowed, NoVar
  <2>2. r \in Kinds(c, k)
    BY <1>7, <2>1 DEF Passed
  <2>3. QED
    BY <2>2 DEF Kinds, Owned
<1>11. QED
  BY <1>9, <1>10

LEMMA FitsFree ==
  ASSUME NEW c, NEW k \in Nat, OneResponse(c, k), NEW l \in DOMAIN c, DOMAIN c[l] \subseteq Nat \ {0},
         NEW i \in DOMAIN c[l], c[l][i].op = "free",
         NEW r, NEW n, NEW o, Fits(c, k, l, i, r, n, o)
  PROVE  /\ Fits(c, k, l, i + 1, IF r = "null" THEN r ELSE "freed", n, o)
         /\ r \notin {"freed", "wild", "inside"}
<1>1. \A j \in DOMAIN c[l] : Allowed(c, k, l, j)
  BY DEF OneResponse
<1>2. Passed(c[l], "free", i + 1)
  BY PassedNext
<1>3. Passed(c[l], "answer", i + 1) <=> Passed(c[l], "answer", i)
  BY PassedNext
<1>4. l = "main" => k = 0 \/ Looked(k, l, i)
  BY EndingLate DEF Ending
<1>5. i \in Nat /\ (l = "main" => k = 0 \/ (i + 1 # k + 1 /\ ~(i + 1 <= k)))
  BY <1>4 DEF Looked
<1>6. k = 0 => r = "null"
  BY DEF Fits
<1>7. k > 0 => ~Passed(c[l], "free", i)
  BY PassedOnce DEF OneResponse
<1>8. r \in {"null", "line", "bare"}
  BY <1>6, <1>7 DEF Fits
<1>9. Fits(c, k, l, i + 1, IF r = "null" THEN r ELSE "freed", n, o)
  BY <1>2, <1>3, <1>5, <1>6, <1>8 DEF Fits
<1>10. QED
  BY <1>8, <1>9

(* A handler with the code c is at the place i of its block l, or has       *)
(* returned.                                                                *)
Stands(c, k, l, i) ==
  /\ frames = <<[f |-> request, label |-> l, at |-> i]>>
  /\ faults = {} /\ \A v \in Vars \ {"r"} : heap[v] = "null"
  /\ Fits(c, k, l, i, heap["r"], answers, last)

Follows(c, k) ==
  \/ frames = << >> /\ faults = {} /\ answers = 1
  \/ \E l \in DOMAIN c : \E i \in 1 .. Len(c[l]) + 1 : Stands(c, k, l, i)

(* What the steps see of a handler that stands at a place.                  *)
LEMMA Standing ==
  ASSUME WellFormed(Code[model], request), NEW c, c = Code[model][request],
         NEW l \in DOMAIN c, NEW i \in 1 .. Len(c[l]) + 1,
         frames = <<[f |-> request, label |-> l, at |-> i]>>
  PROVE  /\ Running /\ Len(frames) = 1 /\ Top = [f |-> request, label |-> l, at |-> i] /\ Block = c[l]
         /\ DOMAIN c[l] = 1 .. Len(c[l]) /\ Len(c[l]) \in Nat
<1>1. Running /\ Len(frames) = 1 /\ Top = [f |-> request, label |-> l, at |-> i]
  BY DEF Running, Top
<1>2. Block = c[l]
  BY <1>1 DEF Block
<1>3. DOMAIN c[l] = 1 .. Len(c[l]) /\ Len(c[l]) \in Nat
  <2> DEFINE R == Range(c[l])
             b == c[l]
  <2>1. b \in Seq(R)
    BY DEF WellFormed
  <2> HIDE DEF R, b
  <2>2. DOMAIN b = 1 .. Len(b) /\ Len(b) \in Nat
    BY <2>1
  <2>3. QED
    BY <2>2 DEF b
<1>4. QED
  BY <1>1, <1>2, <1>3

LEMMA StandingAt ==
  ASSUME WellFormed(Code[model], request), NEW c, c = Code[model][request],
         NEW l \in DOMAIN c, NEW i \in 1 .. Len(c[l]) + 1,
         frames = <<[f |-> request, label |-> l, at |-> i]>>, NEW ops, At(ops)
  PROVE  i \in DOMAIN c[l] /\ Now = c[l][i] /\ c[l][i].op \in ops
<1>1. /\ Top = [f |-> request, label |-> l, at |-> i] /\ Block = c[l]
      /\ DOMAIN c[l] = 1 .. Len(c[l]) /\ Len(c[l]) \in Nat
  BY Standing
<1>2. Now = c[l][i] /\ Now.op \in ops /\ i <= Len(c[l])
  BY <1>1 DEF At, Now
<1>3. QED
  BY <1>1, <1>2

LEMMA Advanced ==
  ASSUME WellFormed(Code[model], request), NEW c, c = Code[model][request], NEW k,
         NEW l \in DOMAIN c, NEW i \in DOMAIN c[l], i \in 1 .. Len(c[l]) + 1,
         frames = <<[f |-> request, label |-> l, at |-> i]>>, Advance, request' = request,
         faults' = {}, \A v \in Vars \ {"r"} : heap'[v] = "null",
         Fits(c, k, l, i + 1, heap'["r"], answers', last')
  PROVE  Follows(c, k)'
<1>1. /\ Len(frames) = 1 /\ Top = [f |-> request, label |-> l, at |-> i]
      /\ DOMAIN c[l] = 1 .. Len(c[l]) /\ Len(c[l]) \in Nat
  BY Standing
<1>2. frames' = <<[f |-> request, label |-> l, at |-> i + 1]>>
  <2>1. [Top EXCEPT !.at = @ + 1] = [f |-> request, label |-> l, at |-> i + 1]
    BY <1>1
  <2>2. frames' = [frames EXCEPT ![1] = [f |-> request, label |-> l, at |-> i + 1]]
    BY <1>1, <2>1 DEF Advance, Move
  <2>3. QED
    BY <2>2
<1>3. i + 1 \in 1 .. Len(c[l]) + 1
  BY <1>1
<1>4. Stands(c, k, l, i + 1)'
  BY <1>2 DEF Stands
<1>5. QED
  BY <1>3, <1>4 DEF Follows

LEMMA Jumped ==
  ASSUME WellFormed(Code[model], request), NEW c, c = Code[model][request], NEW k,
         NEW l \in DOMAIN c, NEW i \in 1 .. Len(c[l]) + 1, NEW to \in DOMAIN c,
         frames = <<[f |-> request, label |-> l, at |-> i]>>, Jump(to), request' = request,
         faults' = {}, \A v \in Vars \ {"r"} : heap'[v] = "null",
         Fits(c, k, to, 1, heap'["r"], answers', last')
  PROVE  Follows(c, k)'
<1>1. Len(frames) = 1 /\ Top = [f |-> request, label |-> l, at |-> i]
  BY Standing
<1>2. frames' = <<[f |-> request, label |-> to, at |-> 1]>>
  <2>1. [Top EXCEPT !.label = to, !.at = 1] = [f |-> request, label |-> to, at |-> 1]
    <3> DEFINE t == Top
    <3>1. t = [f |-> request, label |-> l, at |-> i]
      BY <1>1
    <3> HIDE DEF t
    <3> DEFINE u == [t EXCEPT !.label = to]
    <3>2. u = [f |-> request, label |-> to, at |-> i]
      BY <3>1
    <3> HIDE DEF u
    <3>3. [u EXCEPT !.at = 1] = [f |-> request, label |-> to, at |-> 1]
      BY <3>2
    <3>4. QED
      BY <3>3 DEF u, t
  <2>2. frames' = [frames EXCEPT ![1] = [f |-> request, label |-> to, at |-> 1]]
    BY <1>1, <2>1 DEF Jump, Move
  <2>3. QED
    BY <2>2
<1>3. 1 \in 1 .. Len(c[to]) + 1
  <2> DEFINE R == Range(c[to])
             b == c[to]
  <2>1. b \in Seq(R)
    BY DEF WellFormed
  <2> HIDE DEF R, b
  <2>2. Len(b) \in Nat
    BY <2>1
  <2>3. QED
    BY <2>2 DEF b
<1>4. Stands(c, k, to, 1)'
  BY <1>2 DEF Stands
<1>5. QED
  BY <1>3, <1>4 DEF Follows

(* The handler at work has the code c, which keeps the discipline.          *)
Subject(c, k) ==
  /\ WellFormed(Code[model], request) /\ c = Code[model][request]
  /\ k \in Nat /\ OneResponse(c, k) /\ heap \in [Vars -> Heap]

LEMMA Disciplines ==
  ASSUME NEW c, NEW k, Subject(c, k), NEW l \in DOMAIN c, NEW i \in 1 .. Len(c[l]) + 1,
         Stands(c, k, l, i), NEW ops, At(ops)
  PROVE  /\ i \in DOMAIN c[l] /\ Now = c[l][i] /\ c[l][i].op \in ops
         /\ DOMAIN c[l] \subseteq Nat \ {0} /\ \A j \in DOMAIN c[l] : Allowed(c, k, l, j)
         /\ Now.op \in Jumps => /\ Now.to \in DOMAIN c /\ Now.to # "main"
                                /\ DOMAIN c[Now.to] \subseteq Nat \ {0}
<1>1. WellFormed(Code[model], request) /\ c = Code[model][request] /\ OneResponse(c, k)
  BY DEF Subject
<1>2. frames = <<[f |-> request, label |-> l, at |-> i]>>
  BY DEF Stands
<1>3. i \in DOMAIN c[l] /\ Now = c[l][i] /\ c[l][i].op \in ops
  BY <1>1, <1>2, StandingAt
<1>4. ASSUME NEW m \in DOMAIN c PROVE DOMAIN c[m] \subseteq Nat \ {0}
  <2> DEFINE R == Range(c[m])
             b == c[m]
  <2>1. b \in Seq(R)
    BY <1>1 DEF WellFormed
  <2> HIDE DEF R, b
  <2>2. DOMAIN b \subseteq Nat \ {0}
    BY <2>1
  <2>3. QED
    BY <2>2 DEF b
<1>5. \A j \in DOMAIN c[l] : Allowed(c, k, l, j)
  BY <1>1 DEF OneResponse
<1>6. ASSUME Now.op \in Jumps PROVE Now.to \in DOMAIN c /\ Now.to # "main"
  <2>1. Now \in Range(c[l])
    BY <1>3 DEF Range
  <2>2. Now.to \in DOMAIN c
    BY <1>1, <1>6, <2>1 DEF WellFormed
  <2>3. Now.to # "main"
    BY <1>3, <1>5, <1>6 DEF Allowed
  <2>4. QED
    BY <2>2, <2>3
<1>7. QED
  BY <1>3, <1>4, <1>5, <1>6

LEMMA CommandFollows ==
  ASSUME NEW c, NEW k, Subject(c, k), NEW l \in DOMAIN c, NEW i \in 1 .. Len(c[l]) + 1,
         Stands(c, k, l, i), NEW o \in Outcomes, Command_(o)
  PROVE  Follows(c, k)'
<1>1. At(Asking) /\ Advance /\ last' = o /\ UNCHANGED <<model, request, answers>>
  BY DEF Command_
<1>2. /\ i \in DOMAIN c[l] /\ Now = c[l][i] /\ c[l][i].op \in Asking
      /\ DOMAIN c[l] \subseteq Nat \ {0} /\ \A j \in DOMAIN c[l] : Allowed(c, k, l, j)
  BY <1>1, Disciplines
<1>3. /\ WellFormed(Code[model], request) /\ c = Code[model][request] /\ k \in Nat
      /\ OneResponse(c, k) /\ heap \in [Vars -> Heap]
  BY DEF Subject
<1>4. /\ frames = <<[f |-> request, label |-> l, at |-> i]>>
      /\ faults = {} /\ \A v \in Vars \ {"r"} : heap[v] = "null"
      /\ Fits(c, k, l, i, heap["r"], answers, last)
  BY DEF Stands
<1>5. c[l][i].op \notin Ending /\ Now.var = IF l = "main" /\ i = k THEN "r" ELSE NoVar
  BY <1>2 DEF Allowed, Ending, Asking
<1>6. CASE l = "main" /\ i = k
  <2>1. Now.var = "r" /\ Now.var # NoVar /\ heap["r"] = "null"
    BY <1>2, <1>4, <1>5, <1>6 DEF Fits, NoVar
  <2>2. k > 0 /\ c["main"][k].op \in Asking /\ c["main"][k + 1].among \subseteq {"ok", "refused"}
    BY <1>2, <1>3, <1>6 DEF OneResponse
  <2>3. PICK h \in {"null", "line", "bare"} :
           /\ heap' = [heap EXCEPT !["r"] = h] /\ faults' = {}
           /\ o = "ok" => h = "line" \/ (h = "bare" /\ Now.op # "ask")
           /\ o = "refused" => h = "bare"
    <3>1. \/ o = "lost" /\ UNCHANGED <<heap, faults>>
          \/ \E h \in {"null", "line", "bare"} :
                /\ Assign("r", h, {})
                /\ o = "ok" => h = "line" \/ (h = "bare" /\ Now.op # "ask")
                /\ o = "refused" => h = "bare"
      BY <2>1, Zenon DEF Command_
    <3>2. CASE o = "lost" /\ UNCHANGED <<heap, faults>>
      <4>1. heap' = [heap EXCEPT !["r"] = "null"]
        BY <1>3, <2>1, <3>2
      <4>2. QED
        BY <1>4, <3>2, <4>1
    <3>3. CASE \E h \in {"null", "line", "bare"} :
                /\ Assign("r", h, {})
                /\ o = "ok" => h = "line" \/ (h = "bare" /\ Now.op # "ask")
                /\ o = "refused" => h = "bare"
      BY <1>4, <2>1, <3>3 DEF Assign, Lose, Owned
    <3>4. QED
      BY <3>1, <3>2, <3>3
  <2>4. heap'["r"] = h /\ \A v \in Vars \ {"r"} : heap'[v] = "null"
    BY <1>3, <1>4, <2>3 DEF Vars
  <2>5. o \in c["main"][k + 1].among => h \in Kinds(c, k)
    BY <1>2, <1>6, <2>2, <2>3 DEF Kinds, HasLine
  <2>6. Fits(c, k, "main", k + 1, h, answers, o)
    <3>1. Fits(c, k, "main", k, heap["r"], answers, last)
      BY <1>4, <1>6
    <3>2. /\ DOMAIN c["main"] \subseteq Nat \ {0} /\ \A j \in DOMAIN c["main"] : Allowed(c, k, "main", j)
          /\ k \in DOMAIN c["main"]
      BY <1>2, <1>6
    <3>3. QED
      BY <1>3, <2>2, <2>5, <3>1, <3>2, FitsCommand
  <2>7. QED
    BY <1>1, <1>2, <1>3, <1>4, <1>6, <2>3, <2>4, <2>6, Advanced
<1>7. CASE ~(l = "main" /\ i = k)
  <2>1. UNCHANGED <<heap, faults>>
    BY <1>5, <1>7 DEF Command_
  <2>2. l = "main" => k = 0 \/ i \notin {k, k + 1}
    BY <1>2, <1>3, <1>7 DEF OneResponse, Asking
  <2>3. Fits(c, k, l, i + 1, heap["r"], answers, o)
    BY <1>2, <1>3, <1>4, <1>5, <2>2, FitsNext
  <2>4. QED
    BY <1>1, <1>2, <1>3, <1>4, <2>1, <2>3, Advanced
<1>8. QED
  BY <1>6, <1>7

(* A raw command that is waited for changes neither the place nor the heap.  *)
LEMMA WaitFollows ==
  ASSUME NEW c, NEW k, Subject(c, k), NEW l \in DOMAIN c, NEW i \in 1 .. Len(c[l]) + 1,
         Stands(c, k, l, i), Wait
  PROVE  Follows(c, k)'
<1>1. At({"raw"}) /\ last' = Silent /\ UNCHANGED <<model, request, frames, heap, answers, faults>>
  BY DEF Wait
<1>2. c[l][i].op = "raw"
  BY <1>1, Disciplines
<1>3. ~(l = "main" /\ k > 0 /\ i = k + 1)
  BY <1>2 DEF Subject, OneResponse
<1>4. Fits(c, k, l, i, heap["r"], answers, last')
  BY <1>3 DEF Stands, Fits
<1>5. Stands(c, k, l, i)'
  BY <1>1, <1>4 DEF Stands
<1>6. QED
  BY <1>5 DEF Follows

(* A step that changes nothing but the place.                               *)
LEMMA BranchFollows ==
  ASSUME NEW c, NEW k, Subject(c, k), NEW l \in DOMAIN c, NEW i \in 1 .. Len(c[l]) + 1,
         Stands(c, k, l, i), Branch \/ Lines
  PROVE  Follows(c, k)'
<1>1. At({"unless", "maybe", "goto", "lined", "parse", "read", "scan", "look"})
  BY DEF Branch, Lines, At
<1>2. /\ i \in DOMAIN c[l] /\ Now = c[l][i] /\ c[l][i].op \in {"unless", "maybe", "goto", "lined", "parse", "read", "scan", "look"}
      /\ DOMAIN c[l] \subseteq Nat \ {0} /\ \A j \in DOMAIN c[l] : Allowed(c, k, l, j)
  BY <1>1, Disciplines
<1>3. /\ WellFormed(Code[model], request) /\ c = Code[model][request] /\ k \in Nat
      /\ OneResponse(c, k) /\ heap \in [Vars -> Heap]
  BY DEF Subject
<1>4. /\ frames = <<[f |-> request, label |-> l, at |-> i]>>
      /\ faults = {} /\ \A v \in Vars \ {"r"} : heap[v] = "null"
      /\ Fits(c, k, l, i, heap["r"], answers, last)
  BY DEF Stands
<1>5. /\ c[l][i].op \in {"unless", "maybe", "goto", "parse", "read", "scan", "look"}
      /\ c[l][i].op \notin Ending /\ c[l][i].op \notin Asking
  BY <1>2 DEF Allowed, Ending, Asking
<1>6. ASSUME Jump(Now.to), Now.op \in Jumps, UNCHANGED <<request, heap, last, answers, faults>>
      PROVE  Follows(c, k)'
  <2> DEFINE to == Now.to
  <2>1. to \in DOMAIN c /\ to # "main" /\ DOMAIN c[to] \subseteq Nat \ {0}
    BY <1>1, <1>6, Disciplines
  <2> HIDE DEF to
  <2>2. Fits(c, k, to, 1, heap["r"], answers, last)
    BY <1>2, <1>3, <1>4, <1>5, <2>1, FitsJump
  <2>3. Jump(to)
    BY <1>6 DEF to
  <2>4. QED
    BY <1>3, <1>4, <1>6, <2>1, <2>2, <2>3, Jumped
<1>7. ASSUME Advance, UNCHANGED <<request, heap, last, answers, faults>>,
             l = "main" /\ k > 0 /\ i = k + 1 => last \in Now.among
      PROVE  Follows(c, k)'
  <2>1. Fits(c, k, l, i + 1, heap["r"], answers, last)
    <3>1. CASE l = "main" /\ k > 0 /\ i = k + 1
      <4>1. k \in Nat \ {0} /\ c["main"][k + 1].op = "unless" /\ last \in c["main"][k + 1].among
        BY <1>2, <1>3, <1>7, <3>1 DEF OneResponse
      <4>2. /\ DOMAIN c["main"] \subseteq Nat \ {0} /\ \A j \in DOMAIN c["main"] : Allowed(c, k, "main", j)
            /\ k + 1 \in DOMAIN c["main"] /\ Fits(c, k, "main", k + 1, heap["r"], answers, last)
        BY <1>2, <1>4, <3>1
      <4>3. Fits(c, k, "main", k + 2, heap["r"], answers, last)
        BY <4>1, <4>2, FitsLook
      <4>4. i + 1 = k + 2
        BY <1>3, <3>1
      <4>5. QED
        BY <3>1, <4>3, <4>4
    <3>2. CASE ~(l = "main" /\ k > 0 /\ i = k + 1)
      <4>1. l = "main" => k = 0 \/ i \notin {k, k + 1}
        BY <1>2, <1>3, <1>5, <3>2 DEF OneResponse
      <4>2. QED
        BY <1>2, <1>3, <1>4, <1>5, <4>1, FitsNext
    <3>3. QED
      BY <3>1, <3>2
  <2>2. QED
    BY <1>2, <1>3, <1>4, <1>7, <2>1, Advanced
<1>8. CASE Branch
  <2>1. UNCHANGED <<request, heap, last, answers, faults>> /\ Now.op # "lined"
    BY <1>2, <1>5, <1>8 DEF Branch
  <2>2. \/ Jump(Now.to) /\ Now.op \in Jumps
        \/ Advance /\ (Now.op = "unless" => last \in Now.among)
    BY <1>8, <2>1 DEF Branch, JumpIf, Jumps, At
  <2>3. l = "main" /\ k > 0 /\ i = k + 1 => Now.op = "unless"
    BY <1>2, <1>3 DEF OneResponse
  <2>4. QED
    BY <1>6, <1>7, <2>1, <2>2, <2>3
<1>9. CASE Lines
  <2>1. Now.op \in {"parse", "read", "scan", "look"}
    BY <1>9 DEF Lines, At
  <2>2. Now.var = "r" /\ Looked(k, l, i) /\ (Now.op \in {"parse", "read"} => HasLine(c, k))
    BY <1>2, <2>1 DEF Allowed
  <2>3. heap["r"] \in Kinds(c, k)
    BY <1>2, <1>4, <1>5, <2>2, NotEnding DEF Fits
  <2>4. heap[Now.var] \in Needs(Now.op)
    BY <2>1, <2>2, <2>3 DEF Kinds, Needs
  <2>5. /\ Advance \/ (Now.op \in {"parse", "scan"} /\ Jump(Now.to))
        /\ UNCHANGED <<request, heap, last, answers, faults>>
    BY <1>9, <2>4 DEF Lines
  <2>6. ~(i = k + 1)
    BY <1>2, <1>3, <2>2 DEF Looked
  <2>7. QED
    BY <1>6, <1>7, <2>5, <2>6 DEF Jumps
<1>10. QED
  BY <1>8, <1>9

LEMMA ReleaseFollows ==
  ASSUME NEW c, NEW k, Subject(c, k), NEW l \in DOMAIN c, NEW i \in 1 .. Len(c[l]) + 1,
         Stands(c, k, l, i), Release
  PROVE  Follows(c, k)'
<1>1. At({"free", "shed"})
  BY DEF Release
<1>2. /\ i \in DOMAIN c[l] /\ Now = c[l][i] /\ c[l][i].op \in {"free", "shed"}
      /\ DOMAIN c[l] \subseteq Nat \ {0} /\ \A j \in DOMAIN c[l] : Allowed(c, k, l, j)
  BY <1>1, Disciplines
<1>3. /\ WellFormed(Code[model], request) /\ c = Code[model][request] /\ k \in Nat
      /\ OneResponse(c, k) /\ heap \in [Vars -> Heap]
  BY DEF Subject
<1>4. /\ frames = <<[f |-> request, label |-> l, at |-> i]>>
      /\ faults = {} /\ \A v \in Vars \ {"r"} : heap[v] = "null"
      /\ Fits(c, k, l, i, heap["r"], answers, last)
  BY DEF Stands
<1>5. c[l][i].op = "free" /\ Now.op = "free" /\ Now.var = "r"
  BY <1>2 DEF Allowed, Ending, Asking
<1>6. /\ Fits(c, k, l, i + 1, IF heap["r"] = "null" THEN heap["r"] ELSE "freed", answers, last)
      /\ heap["r"] \notin {"freed", "wild", "inside"}
  BY <1>2, <1>3, <1>4, <1>5, FitsFree
<1>7. /\ Advance /\ faults' = faults /\ UNCHANGED <<model, request, last, answers>>
      /\ heap' = [heap EXCEPT !["r"] = IF heap["r"] = "null" THEN heap["r"] ELSE "freed"]
  BY <1>5, <1>6 DEF Release
<1>8. /\ heap'["r"] = IF heap["r"] = "null" THEN heap["r"] ELSE "freed"
      /\ \A v \in Vars \ {"r"} : heap'[v] = "null"
  BY <1>3, <1>4, <1>7 DEF Vars
<1>9. QED
  BY <1>2, <1>3, <1>4, <1>6, <1>7, <1>8, Advanced

LEMMA AnswerFollows ==
  ASSUME NEW c, NEW k, Subject(c, k), NEW l \in DOMAIN c, NEW i \in 1 .. Len(c[l]) + 1,
         Stands(c, k, l, i), Answer
  PROVE  Follows(c, k)'
<1>1. At({"answer"})
  BY DEF Answer
<1>2. /\ i \in DOMAIN c[l] /\ Now = c[l][i] /\ c[l][i].op \in {"answer"}
      /\ DOMAIN c[l] \subseteq Nat \ {0} /\ \A j \in DOMAIN c[l] : Allowed(c, k, l, j)
  BY <1>1, Disciplines
<1>3. /\ WellFormed(Code[model], request) /\ c = Code[model][request] /\ k \in Nat
      /\ OneResponse(c, k) /\ heap \in [Vars -> Heap]
  BY DEF Subject
<1>4. /\ frames = <<[f |-> request, label |-> l, at |-> i]>>
      /\ faults = {} /\ \A v \in Vars \ {"r"} : heap[v] = "null"
      /\ Fits(c, k, l, i, heap["r"], answers, last)
  BY DEF Stands
<1>5. c[l][i].op = "answer" /\ (Now.var = NoVar \/ Now.var = "r")
  BY <1>2 DEF Allowed
<1>6. Fits(c, k, l, i + 1, heap["r"], answers + 1, last) /\ (Now.var = "r" => Owned(heap["r"]))
  BY <1>2, <1>3, <1>4, <1>5, FitsAnswer
<1>7. /\ Advance /\ answers' = answers + 1
      /\ UNCHANGED <<model, request, heap, last, faults>>
  BY <1>5, <1>6 DEF Answer
<1>8. QED
  BY <1>2, <1>3, <1>4, <1>6, <1>7, Advanced

(* The others are not steps of such a handler.                              *)
LEMMA OthersFollow ==
  ASSUME NEW c, NEW k, Subject(c, k), NEW l \in DOMAIN c, NEW i \in 1 .. Len(c[l]) + 1,
         Stands(c, k, l, i), Pointer \/ MovePointer \/ CallStep
  PROVE  FALSE
<1> DEFINE ops == {"make", "null", "wild", "shift", "call"}
<1>1. At(ops)
  BY DEF Pointer, MovePointer, CallStep, At
<1>2. i \in DOMAIN c[l] /\ c[l][i].op \in ops /\ \A j \in DOMAIN c[l] : Allowed(c, k, l, j)
  BY <1>1, Disciplines
<1>3. QED
  BY <1>2 DEF Allowed, Ending, Asking

LEMMA ReturnFollows ==
  ASSUME NEW c, NEW k, Subject(c, k), NEW l \in DOMAIN c, NEW i \in 1 .. Len(c[l]) + 1,
         Stands(c, k, l, i), Return
  PROVE  Follows(c, k)'
<1>1. /\ WellFormed(Code[model], request) /\ c = Code[model][request] /\ k \in Nat
      /\ OneResponse(c, k) /\ heap \in [Vars -> Heap]
  BY DEF Subject
<1>2. /\ frames = <<[f |-> request, label |-> l, at |-> i]>>
      /\ faults = {} /\ \A v \in Vars \ {"r"} : heap[v] = "null"
      /\ Fits(c, k, l, i, heap["r"], answers, last)
  BY DEF Stands
<1>3. /\ Len(frames) = 1 /\ Top.at = i /\ Block = c[l]
      /\ DOMAIN c[l] = 1 .. Len(c[l]) /\ Len(c[l]) \in Nat
  BY <1>1, <1>2, Standing
<1>4. i = Len(c[l]) + 1
  BY <1>3 DEF Return
<1>5. Passed(c[l], "answer", i) /\ (k > 0 => Passed(c[l], "free", i))
  BY <1>1, <1>3, <1>4, PassedAll DEF OneResponse
<1>6. answers = 1 /\ heap["r"] \in {"null", "freed"}
  BY <1>1, <1>2, <1>5 DEF Fits
<1>7. \A v \in Vars : Lose(heap[v]) = {}
  BY <1>2, <1>6 DEF Lose, Owned
<1>8. frames' = << >> /\ faults' = {} /\ answers' = 1
  <2>1. frames' = SubSeq(frames, 1, 0)
    BY <1>3 DEF Return
  <2>2. faults' = faults \cup UNION {Lose(heap[v]) : v \in Vars} /\ answers' = answers
    BY <1>3 DEF Return
  <2>3. QED
    BY <1>2, <1>6, <1>7, <2>1, <2>2
<1>9. QED
  BY <1>8 DEF Follows

LEMMA StepFollows ==
  ASSUME NEW c, NEW k, Subject(c, k), Follows(c, k), Step_
  PROVE  Follows(c, k)'
<1>1. Running
  BY DEF Step_, Command_, Wait, Branch, Lines, Release, Pointer, MovePointer, Answer, CallStep, Return, At
<1>2. PICK l \in DOMAIN c : \E i \in 1 .. Len(c[l]) + 1 : Stands(c, k, l, i)
  BY <1>1 DEF Follows, Running
<1>3. PICK i \in 1 .. Len(c[l]) + 1 : Stands(c, k, l, i)
  BY <1>2
<1>4. CASE \E o \in Outcomes : Command_(o)
  BY <1>3, <1>4, CommandFollows
<1>5. CASE Branch \/ Lines
  BY <1>3, <1>5, BranchFollows
<1>6. CASE Release
  BY <1>3, <1>6, ReleaseFollows
<1>7. CASE Answer
  BY <1>3, <1>7, AnswerFollows
<1>8. CASE Pointer \/ MovePointer \/ CallStep
  BY <1>3, <1>8, OthersFollow
<1>9. CASE Return
  BY <1>3, <1>9, ReturnFollows
<1>10. CASE Wait
  BY <1>3, <1>10, WaitFollows
<1>11. QED
  BY <1>4, <1>5, <1>6, <1>7, <1>8, <1>9, <1>10, Zenon DEF Step_

LEMMA DispatchFollows ==
  ASSUME HandlerInv, NEW f \in Requests \cup Events, Dispatch(f), NEW c, c = Code[model][f],
         NEW k \in Nat, OneResponse(c, k)
  PROVE  Follows(c, k)'
<1>1. /\ request = None /\ f \in DOMAIN Code[model] /\ request' = f /\ frames' = <<Frame(f)>>
      /\ UNCHANGED <<model, heap, last, answers, faults>>
  BY DEF Dispatch
<1>2. model \in Models /\ Start
  BY <1>1 DEF HandlerInv, TypeOK
<1>3. WellFormed(Code[model], f)
  BY <1>1, <1>2, HandlerAssumption
<1>4. "main" \in DOMAIN c /\ DOMAIN c["main"] \subseteq Nat \ {0} /\ Len(c["main"]) \in Nat
  <2> DEFINE R == Range(c["main"])
             b == c["main"]
  <2>1. "main" \in DOMAIN c /\ b \in Seq(R)
    BY <1>3 DEF WellFormed
  <2> HIDE DEF R, b
  <2>2. DOMAIN b \subseteq Nat \ {0} /\ Len(b) \in Nat
    BY <2>1
  <2>3. QED
    BY <2>1, <2>2 DEF b
<1>5. heap = [v \in Vars |-> "null"] /\ answers = 0 /\ faults = {} /\ last = "ok"
  BY <1>2 DEF Start
<1>6. heap["r"] = "null" /\ \A v \in Vars \ {"r"} : heap[v] = "null"
  BY <1>5 DEF Vars
<1>7. ~Passed(c["main"], "answer", 1) /\ ~Passed(c["main"], "free", 1)
  BY <1>4, PassedNone
<1>8. ~(k > 0 /\ 1 = k + 1) /\ ~Looked(k, "main", 1)
  BY DEF Looked
<1>9. Fits(c, k, "main", 1, heap["r"], answers, last)
  BY <1>5, <1>6, <1>7, <1>8 DEF Fits
<1>10. Stands(c, k, "main", 1)'
  BY <1>1, <1>5, <1>6, <1>9 DEF Stands, Frame
<1>11. 1 \in 1 .. Len(c["main"]) + 1
  BY <1>4
<1>12. QED
  BY <1>4, <1>10, <1>11 DEF Follows

DisciplineInv ==
  request # None =>
    /\ request \in DOMAIN Code[model]
    /\ \A k \in Nat : OneResponse(Code[model][request], k) => Follows(Code[model][request], k)

LEMMA DisciplineStep ==
  ASSUME HandlerInv, DisciplineInv, [Next]_vars
  PROVE  DisciplineInv'
<1>1. ASSUME NEW f \in Requests \cup Events, Dispatch(f) PROVE DisciplineInv'
  <2>1. f \in DOMAIN Code[model] /\ request' = f /\ model' = model
    BY <1>1 DEF Dispatch
  <2>2. PICK c : c = Code[model][f]
    OBVIOUS
  <2>3. ASSUME NEW k \in Nat, OneResponse(c, k) PROVE Follows(c, k)'
    BY <1>1, <2>2, <2>3, DispatchFollows
  <2>4. c = Code[model'][request'] /\ request' \in DOMAIN Code[model']
    BY <2>1, <2>2
  <2>5. QED
    BY <2>3, <2>4 DEF DisciplineInv
<1>2. CASE Idle
  BY <1>2 DEF Idle, DisciplineInv
<1>3. CASE Step_
  <2>1. UNCHANGED <<model, request>> /\ Running
    BY <1>3 DEF Step_, Command_, Wait, Branch, Lines, Release, Pointer, MovePointer, Answer, CallStep,
                Return, Fault, At
  <2>2. /\ request # None /\ request \in DOMAIN Code[model] /\ model \in Models
        /\ heap \in [Vars -> Heap] /\ WellFormed(Code[model], request)
    BY <2>1, HandlerAssumption DEF HandlerInv, TypeOK, DisciplineInv
  <2>3. PICK c : c = Code[model][request]
    OBVIOUS
  <2>4. ASSUME NEW k \in Nat, OneResponse(c, k) PROVE Follows(c, k)'
    <3>1. Subject(c, k) /\ Follows(c, k)
      BY <2>2, <2>3, <2>4 DEF Subject, DisciplineInv
    <3>2. QED
      BY <1>3, <3>1, StepFollows
  <2>5. c = Code[model'][request'] /\ request' \in DOMAIN Code[model']
    BY <2>1, <2>2, <2>3
  <2>6. QED
    BY <2>4, <2>5 DEF DisciplineInv
<1>4. CASE UNCHANGED vars
  BY <1>4 DEF vars, DisciplineInv, Follows, Stands
<1>5. QED
  BY <1>1, <1>2, <1>3, <1>4, Zenon DEF Next

(* A handler that keeps the discipline has answered its request once when   *)
(* it returns, has freed its response, frees nothing twice and reads no     *)
(* line that is not there, however the modem answers (ril-core.c and the    *)
(* files of its requests).                                                  *)
THEOREM DisciplineSuffices ==
  Spec => [](request # None /\ Disciplined(Code[model][request]) =>
                faults = {} /\ (Returned => answers = 1))
<1>1. Init => DisciplineInv
  BY DEF Init, DisciplineInv
<1>2. HandlerInv /\ DisciplineInv /\ [Next]_vars => DisciplineInv'
  BY DisciplineStep
<1>3. HandlerInv /\ DisciplineInv =>
        (request # None /\ Disciplined(Code[model][request]) => faults = {} /\ (Returned => answers = 1))
  <2> SUFFICES ASSUME HandlerInv, DisciplineInv, request # None, Disciplined(Code[model][request])
               PROVE  faults = {} /\ (Returned => answers = 1)
    OBVIOUS
  <2> DEFINE c == Code[model][request]
  <2>1. PICK k \in Nat : OneResponse(c, k)
    BY DEF Disciplined
  <2>2. Follows(c, k)
    BY <2>1 DEF DisciplineInv
  <2>3. QED
    BY <2>2 DEF Follows, Stands, Returned, Running
<1>4. QED
  BY <1>1, <1>2, <1>3, HandlerInvariant, PTL DEF Spec
=============================================================================
