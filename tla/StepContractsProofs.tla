------------------------- MODULE StepContractsProofs -------------------------
(***************************************************************************)
(* StepContracts for every set of paths and every number of steps.  The    *)
(* argument: a normalized contract agrees with the tree it was normalized  *)
(* against (lemma NormalIsCoherent), a contract that agrees with a tree is *)
(* a fixed point there (lemma CoherentIsStable), and the tree a step was   *)
(* normalized against is the one its predecessor is authorized to leave.   *)
(* The second pass meets the same trees, and so does the execution as long *)
(* as every step leaves what its contract describes.                       *)
(***************************************************************************)
EXTENDS StepContracts, TLAPS

-----------------------------------------------------------------------------
(* Normalization.                                                          *)

\* The fields of an effective contract.
LEMMA NormalFields ==
    ASSUME NEW t \in SUBSET Paths, NEW c \in Contracts
    PROVE  LET n == Normalize(t, c) IN
           /\ n \in Contracts
           /\ n.write = (c.write \cup (c.create \ c.write)) \cap t
           /\ n.create = (c.write \cup (c.create \ c.write)) \ t
           /\ n.delete = (c.delete \ (c.write \cup c.create)) \cap t
           /\ n.read = ((c.read \cup n.write \cup n.delete) \ n.create) \cap t
<1> DEFINE a == Canonical(c)
<1> DEFINE b == Settle(t, a)
<1> DEFINE n == Readable(t, b)
<1>1. /\ a \in Contracts
      /\ a.read = c.read /\ a.write = c.write
      /\ a.create = c.create \ c.write /\ a.delete = c.delete \ (c.write \cup c.create)
  BY DEF Canonical, Contracts
<1> HIDE DEF a
<1>2. /\ b \in Contracts
      /\ b.read = a.read /\ b.write = (a.write \cup a.create) \cap t
      /\ b.create = (a.write \cup a.create) \ t /\ b.delete = a.delete \cap t
  BY <1>1 DEF Settle, Contracts
<1> HIDE DEF b
<1>3. /\ n \in Contracts
      /\ n.write = b.write /\ n.create = b.create /\ n.delete = b.delete
      /\ n.read = ((b.read \cup b.write \cup b.delete) \ b.create) \cap t
  BY <1>2 DEF Readable, Contracts
<1> QED  BY <1>1, <1>2, <1>3 DEF Normalize, a, b

\* Whatever the planner wrote, the effective contract agrees with the tree.
LEMMA NormalIsCoherent ==
    ASSUME NEW t \in SUBSET Paths, NEW c \in Contracts
    PROVE  Normalize(t, c) \in Contracts /\ Coherent(t, Normalize(t, c))
<1> DEFINE n == Normalize(t, c)
<1>1. /\ n \in Contracts
      /\ n.write = (c.write \cup (c.create \ c.write)) \cap t
      /\ n.create = (c.write \cup (c.create \ c.write)) \ t
      /\ n.delete = (c.delete \ (c.write \cup c.create)) \cap t
      /\ n.read = ((c.read \cup n.write \cup n.delete) \ n.create) \cap t
  BY NormalFields
<1> HIDE DEF n
<1>2. Coherent(t, n)
  BY <1>1 DEF Coherent, Contracts
<1> QED  BY <1>1, <1>2 DEF n

\* Normalization drops deletions and nothing else, and grants nothing.
LEMMA NormalNarrows ==
    ASSUME NEW t \in SUBSET Paths, NEW c \in Contracts
    PROVE  Narrows(Normalize(t, c), c)
<1> DEFINE n == Normalize(t, c)
<1>1. /\ n.write = (c.write \cup (c.create \ c.write)) \cap t
      /\ n.create = (c.write \cup (c.create \ c.write)) \ t
      /\ n.delete = (c.delete \ (c.write \cup c.create)) \cap t
      /\ n.read = ((c.read \cup n.write \cup n.delete) \ n.create) \cap t
  BY NormalFields
<1> HIDE DEF n
<1>2. n.delete \subseteq c.delete /\ n.write \cup n.create = c.write \cup c.create
  BY <1>1
<1>3. n.read \subseteq c.read \cup Mutates(c)
  BY <1>1 DEF Mutates
<1> QED  BY <1>2, <1>3 DEF Narrows, n

\* A contract that agrees with a tree is left alone there, without a record.
LEMMA CoherentIsStable ==
    ASSUME NEW t \in SUBSET Paths, NEW c \in Contracts, Coherent(t, c)
    PROVE  Normalize(t, c) = c /\ Notes(t, c) = Nothing
<1> DEFINE n == Normalize(t, c)
<1>1. /\ n \in Contracts
      /\ n.write = (c.write \cup (c.create \ c.write)) \cap t
      /\ n.create = (c.write \cup (c.create \ c.write)) \ t
      /\ n.delete = (c.delete \ (c.write \cup c.create)) \cap t
      /\ n.read = ((c.read \cup n.write \cup n.delete) \ n.create) \cap t
  BY NormalFields
<1> HIDE DEF n
<1>2. /\ c.write \subseteq t /\ c.delete \subseteq t /\ c.read \subseteq t
      /\ c.create \cap t = {} /\ c.write \cap c.delete = {}
      /\ c.write \subseteq c.read /\ c.delete \subseteq c.read
  BY DEF Coherent
<1>3. n.write = c.write /\ n.create = c.create
  BY <1>1, <1>2
<1>4. n.delete = c.delete
  BY <1>1, <1>2
<1>5. n.read = c.read
  BY <1>1, <1>2, <1>3, <1>4
<1>6. n = c
  BY <1>1, <1>3, <1>4, <1>5 DEF Contracts
<1> DEFINE s == Settle(t, Canonical(c))
<1>7. s.write = n.write /\ s.create = n.create /\ s.delete = n.delete
  BY DEF n, Normalize, Readable, Settle, Canonical, Contracts
<1>8. Canonical(c).delete = c.delete \ (c.write \cup c.create)
  BY DEF Canonical, Contracts
<1>9. /\ (c.write \cap c.create) \cup (c.delete \cap (c.write \cup c.create)) = {}
      /\ c.write \ t = {} /\ (c.create \ c.write) \cap t = {}
      /\ Canonical(c).delete \ t = {}
      /\ (s.write \cup s.delete) \ c.read = {}
      /\ c.read \ (t \ s.create) = {}
  <2> HIDE DEF s
  <2> QED  BY <1>2, <1>3, <1>4, <1>7, <1>8
<1>10. Notes(t, c) = Nothing
  BY <1>9 DEF Notes, Nothing
<1> QED  BY <1>6, <1>10 DEF n

\* The tree a step is authorized to leave is a tree.
LEMMA AfterIsATree ==
    ASSUME NEW t \in SUBSET Paths, NEW c \in Contracts
    PROVE  After(t, c) \in SUBSET Paths
BY DEF After, Contracts

-----------------------------------------------------------------------------
(* Types.                                                                  *)

\* It holds of a run without a plan.
LEMMA TypeInit == ASSUME Init PROVE TypeOK
<1>1. NoContract \in Contracts
  BY DEF NoContract, Contracts
<1> QED  BY <1>1, StepsAssumption DEF Init, TypeOK, StepIds

\* Every step keeps it.
LEMMA TypeNext == ASSUME TypeOK, [Next]_vars PROVE TypeOK'
<1> USE StepsAssumption DEF TypeOK, StepIds
<1>1. NoContract \in Contracts
  BY DEF NoContract, Contracts
<1>2. CASE Answer
  <2>1. RawContracts \subseteq Contracts
    BY DEF RawContracts
  <2> QED  BY <1>2, <2>1 DEF Answer, FromTheBase
<1>3. CASE NormalizeStep
  <2>1. facts \in SUBSET Paths /\ plan[k] \in Contracts
    BY <1>3 DEF NormalizeStep
  <2>2. Normalize(facts, plan[k]) \in Contracts
    BY <2>1, NormalIsCoherent
  <2>3. plan'[k] = Normalize(facts, plan[k]) /\ plan' \in [StepIds -> Contracts]
    BY <1>3, <2>2 DEF NormalizeStep
  <2>4. facts' \in SUBSET Paths
    BY <1>3, <2>1, <2>2, <2>3, AfterIsATree DEF NormalizeStep
  <2> QED  BY <1>3, <2>3, <2>4 DEF NormalizeStep, Preparing
<1>4. CASE JudgePlan
  BY <1>4 DEF JudgePlan, FromTheBase, Preparing
<1>5. CASE Reenter
  BY <1>5 DEF Reenter, FromTheBase
<1>6. CASE Approve
  BY <1>6 DEF Approve, FromTheBase
<1>7. CASE CallWorker
  <2>1. Normalize(tree, plan[k]) \in Contracts
    BY <1>7, NormalIsCoherent DEF CallWorker
  <2> QED  BY <1>7, <2>1 DEF CallWorker, drawn
<1>8. CASE Accept
  <2> DEFINE f == IF tree' = After(tree, call) THEN "exact" ELSE "loose"
  <2>1. f \in {"none", "exact", "loose", "left"} /\ EndStep(f) /\ phase = "judge"
    BY <1>8 DEF Accept
  <2>2. tree' \in SUBSET Paths
    BY <1>8 DEF Accept
  <2> HIDE DEF f
  <2> QED  BY <1>1, <2>1, <2>2 DEF EndStep, drawn
<1>9. CASE Retry
  BY <1>1, <1>9 DEF Retry, drawn
<1>10. CASE Abandon
  BY <1>1, <1>10 DEF Abandon, EndStep, drawn
<1>11. CASE Skip
  BY <1>1, <1>11 DEF Skip, EndStep, drawn
<1>12. CASE NextPlan
  BY <1>1, <1>12 DEF NextPlan
<1>13. CASE UNCHANGED vars
  BY <1>13 DEF vars
<1> QED  BY <1>2, <1>3, <1>4, <1>5, <1>6, <1>7, <1>8, <1>9, <1>10, <1>11, <1>12, <1>13 DEF Next

\* The run, the plan and every contract keep their shape, and no worker is
\* called beyond the plan.
THEOREM TypeCorrect == Spec => []TypeOK
<1>1. Init => TypeOK
  BY TypeInit
<1>2. TypeOK /\ [Next]_vars => TypeOK'
  BY TypeNext
<1> QED  BY <1>1, <1>2, PTL DEF Spec

-----------------------------------------------------------------------------
(* The inductive invariant.                                                *)

\* The tree the loop has reached: what the step before is authorized to leave.
Reached == IF k = 1 THEN base ELSE After(starts[k - 1], plan[k - 1])

\* A step agrees with the tree it was normalized against, and that tree is the
\* one its predecessor leaves.
Chained(s) ==
    /\ Coherent(starts[s], plan[s])
    /\ starts[s] = IF s = 1 THEN base ELSE After(starts[s - 1], plan[s - 1])

FirstPass ==
    phase = "normalize" =>
        /\ \A s \in 1..(k - 1) : Chained(s) /\ Narrows(plan[s], raw[s])
        /\ \A s \in StepIds : s >= k => plan[s] = raw[s]

Asked == phase \in {"validate", "approval"} => \A s \in StepIds : Narrows(plan[s], raw[s])

Effective ==
    phase \in {"validate", "approval", "execute", "judge"} =>
        /\ \A s \in StepIds : Chained(s)
        /\ Idle = {}

Facts == phase \in {"normalize", "validate"} => facts = Reached

Executed ==
    /\ phase \notin {"execute", "judge"} => tree = base
    /\ phase \in {"execute", "judge"} /\ AsProjected => tree = Reached

Called == phase = "judge" => call = Normalize(tree, plan[k])

IInv == TypeOK /\ FirstPass /\ Asked /\ Effective /\ Facts /\ Executed /\ Called

\* It holds of a run without a plan.
LEMMA IInvInit == ASSUME Init PROVE IInv
<1>1. TypeOK
  BY TypeInit
<1> QED  BY <1>1 DEF Init, IInv, FirstPass, Asked, Effective, Facts, Executed, Called

\* The tree a step was normalized against is the one the loop reaches it on.
LEMMA ReachedIsStart ==
    ASSUME TypeOK, k \in StepIds, Chained(k)
    PROVE  Reached = starts[k]
BY DEF Reached, Chained

\* The second pass repeats the first.
LEMMA SecondPassIsStable ==
    ASSUME IInv, phase = "validate", k \in StepIds
    PROVE  /\ facts = starts[k] /\ Coherent(facts, plan[k])
           /\ Normalize(facts, plan[k]) = plan[k]
           /\ Notes(facts, plan[k]) = Nothing
<1>1. facts = starts[k] /\ Coherent(facts, plan[k])
  BY ReachedIsStart DEF IInv, Effective, Facts, Chained
<1> QED  BY <1>1, CoherentIsStable DEF IInv, TypeOK

\* Normalizing a fresh plan keeps it,
LEMMA NormalizeFirst == ASSUME IInv, NormalizeStep, phase = "normalize" PROVE IInv'
<1> USE StepsAssumption DEF StepIds
<1>1. TypeOK /\ TypeOK'
  BY TypeNext DEF IInv, Next
<1>2. /\ k \in StepIds /\ k' = k + 1 /\ phase' = "normalize"
      /\ base' = base /\ raw' = raw /\ tree' = tree /\ call' = call /\ fate' = fate
      /\ plan' = [plan EXCEPT ![k] = Normalize(facts, @)]
      /\ starts' = [starts EXCEPT ![k] = facts]
      /\ facts' = After(facts, plan'[k])
  BY DEF NormalizeStep, Preparing
<1>3. /\ facts = Reached /\ plan[k] = raw[k]
      /\ \A s \in 1..(k - 1) : Chained(s) /\ Narrows(plan[s], raw[s])
      /\ \A s \in StepIds : s >= k => plan[s] = raw[s]
  BY <1>2 DEF IInv, FirstPass, Facts
<1>4. plan'[k] = Normalize(facts, plan[k]) /\ starts'[k] = facts
  BY <1>1, <1>2 DEF TypeOK
<1>5. \A s \in StepIds \ {k} : plan'[s] = plan[s] /\ starts'[s] = starts[s]
  BY <1>1, <1>2 DEF TypeOK
<1>6. Coherent(starts'[k], plan'[k]) /\ Narrows(plan'[k], raw[k])
  BY <1>1, <1>2, <1>3, <1>4, NormalIsCoherent, NormalNarrows DEF TypeOK
<1>7. \A s \in 1..(k - 1) : Chained(s)' /\ Narrows(plan'[s], raw'[s])
  BY <1>1, <1>2, <1>3, <1>5 DEF Chained, TypeOK
<1>8. \A s \in StepIds : s = k => Chained(s)'
  <2>1. starts'[k] = IF k = 1 THEN base ELSE After(starts[k - 1], plan[k - 1])
    BY <1>3, <1>4 DEF Reached
  <2>2. k # 1 => k - 1 \in StepIds \ {k}
    BY <1>1, <1>2 DEF TypeOK
  <2>3. starts'[k] = IF k = 1 THEN base' ELSE After(starts'[k - 1], plan'[k - 1])
    BY <1>2, <1>5, <2>1, <2>2
  <2> QED  BY <1>6, <2>3 DEF Chained
<1>9. FirstPass'
  <2>1. \A s \in 1..(k' - 1) : s \in 1..(k - 1) \/ s = k
    BY <1>1, <1>2 DEF TypeOK
  <2>2. \A s \in StepIds : s >= k' => plan'[s] = raw'[s]
    BY <1>1, <1>2, <1>3, <1>5 DEF TypeOK
  <2>3. \A s \in 1..(k' - 1) : Chained(s)' /\ Narrows(plan'[s], raw'[s])
    BY <1>2, <1>6, <1>7, <1>8, <2>1
  <2> QED  BY <2>2, <2>3 DEF FirstPass
<1>10. Facts'
  <2>1. k' # 1 /\ k' - 1 = k
    BY <1>1, <1>2 DEF TypeOK
  <2> QED  BY <1>2, <1>4, <2>1 DEF Facts, Reached
<1> QED  BY <1>1, <1>2, <1>9, <1>10 DEF IInv, Asked, Effective, Executed, Called

\* so does normalizing an approved one,
LEMMA NormalizeAgain == ASSUME IInv, NormalizeStep, phase = "validate" PROVE IInv'
<1> USE StepsAssumption DEF StepIds
<1>1. TypeOK /\ TypeOK'
  BY TypeNext DEF IInv, Next
<1>2. /\ k \in StepIds /\ k' = k + 1 /\ phase' = "validate"
      /\ base' = base /\ raw' = raw /\ tree' = tree /\ call' = call /\ fate' = fate
      /\ plan' = [plan EXCEPT ![k] = Normalize(facts, @)]
      /\ starts' = [starts EXCEPT ![k] = facts]
      /\ facts' = After(facts, plan'[k])
  BY DEF NormalizeStep, Preparing
<1>3. facts = starts[k] /\ Normalize(facts, plan[k]) = plan[k]
  BY <1>2, SecondPassIsStable
<1>4. plan' = plan /\ starts' = starts
  BY <1>1, <1>2, <1>3 DEF TypeOK
<1>5. Effective'
  BY <1>2, <1>4 DEF IInv, Effective, Chained, Idle
<1>6. Facts'
  <2>1. k' # 1 /\ k' - 1 = k
    BY <1>1, <1>2 DEF TypeOK
  <2> QED  BY <1>2, <1>3, <1>4, <2>1 DEF Facts, Reached
<1> QED  BY <1>1, <1>2, <1>4, <1>5, <1>6 DEF IInv, FirstPass, Asked, Executed, Called

\* and so do the judgement of a plan,
LEMMA JudgeKeeps == ASSUME IInv, JudgePlan PROVE IInv'
<1> USE StepsAssumption DEF StepIds
<1>1. TypeOK /\ TypeOK'
  BY TypeNext DEF IInv, Next
<1>2. /\ Preparing /\ k = Steps + 1 /\ k' = 1 /\ facts' = base
      /\ base' = base /\ raw' = raw /\ plan' = plan /\ starts' = starts
      /\ tree' = tree /\ call' = call /\ fate' = fate
      /\ phase' = IF Idle # {} THEN "ask"
                  ELSE IF phase = "normalize" THEN "validate" ELSE "approval"
  BY DEF JudgePlan, FromTheBase
<1>3. \A s \in StepIds : Chained(s) /\ Narrows(plan[s], raw[s])
  <2>1. CASE phase = "normalize"
    BY <1>2, <2>1 DEF IInv, FirstPass
  <2>2. CASE phase = "validate"
    BY <2>2 DEF IInv, Asked, Effective
  <2> QED  BY <1>2, <2>1, <2>2 DEF Preparing
<1>4. Effective' /\ Asked'
  BY <1>2, <1>3 DEF Effective, Asked, Chained, Idle
<1>5. Executed'
  BY <1>2 DEF IInv, Executed, Preparing
<1> QED  BY <1>1, <1>2, <1>4, <1>5 DEF IInv, FirstPass, Facts, Reached, Called

\* the other steps of planning
LEMMA PlanningKeeps == ASSUME IInv, Answer \/ Reenter \/ Approve \/ NextPlan PROVE IInv'
<1> USE StepsAssumption DEF StepIds
<1>1. TypeOK /\ TypeOK'
  BY TypeNext DEF IInv, Next
<1> USE DEF IInv, FirstPass, Asked, Effective, Facts, Executed, Called, FromTheBase
<1>2. CASE Answer
  BY <1>1, <1>2 DEF Answer, Reached
<1>3. CASE Reenter
  <2>1. CASE phase = "normalize" /\ plan' = raw /\ FromTheBase("normalize")
    BY <1>1, <1>3, <2>1 DEF Reenter, Reached
  <2>2. CASE phase \in {"validate", "approval"} /\ UNCHANGED plan /\ FromTheBase("validate")
    BY <1>1, <1>3, <2>2 DEF Reenter, Reached, Chained, Idle
  <2> QED  BY <1>3, <2>1, <2>2 DEF Reenter
<1>4. CASE Approve
  BY <1>1, <1>4 DEF Approve, Reached, Chained, Idle
<1>5. CASE NextPlan
  BY <1>1, <1>5 DEF NextPlan
<1> QED  BY <1>2, <1>3, <1>4, <1>5

\* and the calls to a worker.
LEMMA CallKeeps == ASSUME IInv, CallWorker \/ Retry PROVE IInv'
<1>1. TypeOK /\ TypeOK'
  BY TypeNext DEF IInv, Next
<1> USE DEF IInv, FirstPass, Asked, Effective, Facts, Executed, Called, drawn
<1>2. CASE CallWorker
  BY <1>1, <1>2 DEF CallWorker, Reached, Chained, Idle, AsProjected
<1>3. CASE Retry
  BY <1>1, <1>3 DEF Retry, Reached, Chained, Idle, AsProjected
<1> QED  BY <1>2, <1>3

\* A step that ended otherwise than exactly breaks the projection; one that
\* ended exactly leaves the next step the tree it was normalized against.
LEMMA EndKeeps == ASSUME IInv, Accept \/ Abandon \/ Skip PROVE IInv'
<1> USE StepsAssumption DEF StepIds
<1>1. TypeOK /\ TypeOK'
  BY TypeNext DEF IInv, Next
<1>2. PICK f : EndStep(f) /\ (f = "exact" => phase = "judge" /\ tree' = After(tree, call))
  BY DEF Accept, Abandon, Skip
<1>3. /\ k \in StepIds /\ phase \in {"execute", "judge"}
      /\ phase' = "execute" /\ k' = k + 1
      /\ base' = base /\ raw' = raw /\ plan' = plan /\ starts' = starts
      /\ fate' = [fate EXCEPT ![k] = f]
  BY <1>1, <1>2 DEF EndStep, drawn, Accept, Abandon, Skip, TypeOK
<1>4. Effective'
  BY <1>3 DEF IInv, Effective, Chained, Idle
<1>5. ASSUME AsProjected' PROVE tree' = Reached'
  <2>1. fate'[k] = f /\ k \in 1..(k' - 1)
    BY <1>1, <1>3 DEF TypeOK
  <2>2. f = "exact"
    BY <1>5, <2>1 DEF AsProjected
  <2>3. AsProjected
    BY <1>1, <1>3, <1>5 DEF AsProjected, TypeOK
  <2>4. tree = Reached /\ Chained(k) /\ call = Normalize(tree, plan[k]) /\ tree' = After(tree, call)
    BY <1>2, <1>3, <2>2, <2>3 DEF IInv, Executed, Effective, Called
  <2>5. tree = starts[k] /\ Coherent(tree, plan[k])
    BY <1>1, <1>3, <2>4, ReachedIsStart DEF Chained
  <2>6. call = plan[k]
    BY <1>1, <1>3, <2>4, <2>5, CoherentIsStable DEF TypeOK
  <2>7. k' # 1 /\ k' - 1 = k
    BY <1>1, <1>3 DEF TypeOK
  <2> QED  BY <1>3, <2>4, <2>5, <2>6, <2>7 DEF Reached
<1> QED  BY <1>1, <1>3, <1>4, <1>5 DEF IInv, FirstPass, Asked, Facts, Executed, Called

\* Every step keeps it.
LEMMA IInvNext == ASSUME IInv, [Next]_vars PROVE IInv'
<1>1. CASE UNCHANGED vars
  BY <1>1 DEF vars, IInv, TypeOK, FirstPass, Asked, Effective, Facts, Executed, Called,
              Reached, Chained, Idle, AsProjected
<1>2. CASE NormalizeStep
  BY <1>2, NormalizeFirst, NormalizeAgain DEF NormalizeStep, Preparing
<1> QED  BY <1>1, <1>2, JudgeKeeps, PlanningKeeps, CallKeeps, EndKeeps DEF Next

\* It holds at every moment.
LEMMA Inductive == Spec => []IInv
<1>1. Init => IInv
  BY IInvInit
<1>2. IInv /\ [Next]_vars => IInv'
  BY IInvNext
<1> QED  BY <1>1, <1>2, PTL DEF Spec

-----------------------------------------------------------------------------
(* The properties.                                                         *)

\* A worker is only ever called with a contract its own tree agrees with,
\* whatever the planner wrote and the earlier steps did.
THEOREM WorkersAgreeWithTheirTree == Spec => []CallsCoherent
<1>1. IInv => CallsCoherent
  BY NormalIsCoherent DEF IInv, TypeOK, Called, CallsCoherent
<1> QED  BY <1>1, Inductive, PTL

\* The second normalization of a plan changes neither its contracts nor its
\* records: the bytes bound by the approval are the ones a resume recomputes.
THEOREM SecondNormalizationIsSilent == Spec => []PlanIsStable
<1>1. IInv => PlanIsStable
  BY SecondPassIsStable DEF PlanIsStable
<1> QED  BY <1>1, Inductive, PTL

\* Nothing a worker is called with goes beyond the approved plan, nor the
\* approved plan beyond the planner's answer.
THEOREM NothingIsGranted == Spec => []ScopeNeverGrows
<1>1. IInv => ScopeNeverGrows
  BY NormalNarrows DEF IInv, TypeOK, Asked, Called, ScopeNeverGrows
<1> QED  BY <1>1, Inductive, PTL

\* As long as the steps leave what their contracts describe, each worker is
\* called with the very contract that was approved, and it has work to do.
THEOREM ProjectionIsTheTree == Spec => []ProjectionExact
<1>1. ASSUME IInv, phase = "judge", AsProjected
      PROVE  call = plan[k] /\ Mutates(call) # {}
  <2>1. k \in StepIds /\ tree = Reached /\ Chained(k) /\ Idle = {}
    BY <1>1 DEF IInv, TypeOK, Executed, Effective
  <2>2. tree = starts[k] /\ Coherent(tree, plan[k])
    BY <1>1, <2>1, ReachedIsStart DEF IInv, Chained
  <2>3. call = plan[k]
    BY <1>1, <2>1, <2>2, CoherentIsStable DEF IInv, TypeOK, Called
  <2>4. Mutates(plan[k]) # {}
    BY <2>1 DEF Idle
  <2> QED  BY <2>3, <2>4
<1>2. IInv => ProjectionExact
  BY <1>1 DEF ProjectionExact
<1> QED  BY <1>2, Inductive, PTL
=============================================================================
