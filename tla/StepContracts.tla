---------------------------- MODULE StepContracts ----------------------------
(***************************************************************************)
(* The contract of a step, from the planner's answer to the worker's call  *)
(* (planning/protocol.py, planning/normalization.py,                       *)
(* plan_repository_validation.py, orchestration/worker_attempt.py).  The   *)
(* planner classifies paths blindly; Git decides what each mutation really *)
(* is.  A plan is normalized step by step against the tree the earlier     *)
(* steps are authorized to produce, normalized again when the run (re)     *)
(* enters its preparation and when a milestone is installed, and each step *)
(* once more against the tree that is really there.  A file is a path that *)
(* exists or not; its content is abstracted.                               *)
(***************************************************************************)
EXTENDS Naturals

CONSTANTS
    Paths,      \* repository-relative paths the parser admits
    Steps,      \* steps of a plan
    RawReads,   \* READ_SETs a planner may write
    Strict      \* scope mode: work outside the contract is discarded

ASSUME StepsAssumption == Steps \in Nat \ {0}
ASSUME ReadsAssumption == RawReads \subseteq SUBSET Paths
ASSUME ScopeAssumption == Strict \in BOOLEAN

StepIds == 1..Steps

Contracts == [read : SUBSET Paths, write : SUBSET Paths,
              create : SUBSET Paths, delete : SUBSET Paths]

Mutates(c) == c.write \cup c.create \cup c.delete

\* What the parser lets through: any overlap, but at least one mutation.
RawContracts == {c \in Contracts : c.read \in RawReads /\ Mutates(c) # {}}

NoContract == [read |-> {}, write |-> {}, create |-> {}, delete |-> {}]

VARIABLES
    base,       \* the tree the plan starts from
    raw,        \* the contracts the planner declared
    plan,       \* the effective contracts
    facts,      \* TreeFacts: the tree the loop over the steps has reached
    starts,     \* history: the tree each step was normalized against
    k,          \* the step the loop is at
    phase,
    tree,       \* the worktree
    call,       \* the contract the worker of step k was called with
    fate        \* how each step ended

vars == <<base, raw, plan, facts, starts, k, phase, tree, call, fate>>
drawn == <<base, raw, plan, facts, starts>>

-----------------------------------------------------------------------------
(* normalize_step_contract                                                 *)

\* One path, one mutation: WRITE before CREATE before DELETE.
Canonical(c) ==
    [c EXCEPT !.create = @ \ c.write, !.delete = @ \ (c.write \cup c.create)]

\* Existence decides between WRITE and CREATE; a missing DELETE goes away.
Settle(t, c) ==
    [c EXCEPT !.write  = (c.write \cup c.create) \cap t,
              !.create = (c.write \cup c.create) \ t,
              !.delete = @ \cap t]

\* A surviving mutation of an existing path is readable, a CREATE is not.
Readable(t, c) ==
    [c EXCEPT !.read = ((@ \cup c.write \cup c.delete) \ c.create) \cap t]

\* Slip: the reads are completed before existence has settled the mutations.
NormalizeReadsFirst(t, c) == Settle(t, Readable(t, Canonical(c)))

\* Slip: a CREATE of an existing path stays what the planner called it.
NormalizeWritesOnly(t, c) ==
    Readable(t, [Canonical(c) EXCEPT !.write = @ \cap t,
                                     !.create = @ \cup (c.write \ t),
                                     !.delete = @ \cap t])

Normalize(t, c) == Readable(t, Settle(t, Canonical(c)))

\* The records of the rules applied: they are part of the plan's bytes.
Notes(t, c) ==
    LET n == Settle(t, Canonical(c)) IN
    [conflict |-> (c.write \cap c.create) \cup (c.delete \cap (c.write \cup c.create)),
     write_missing |-> c.write \ t,
     create_existing |-> (c.create \ c.write) \cap t,
     delete_missing |-> Canonical(c).delete \ t,
     added_read |-> (n.write \cup n.delete) \ c.read,
     dropped_read |-> c.read \ (t \ n.create)]

Nothing == [conflict |-> {}, write_missing |-> {}, create_existing |-> {},
            delete_missing |-> {}, added_read |-> {}, dropped_read |-> {}]

\* TreeFacts.after: the tree a step is authorized to produce.
After(t, c) == (t \cup c.write \cup c.create) \ c.delete

-----------------------------------------------------------------------------
(* The plan: parsed, normalized, validated, approved.                      *)

Init ==
    /\ base \in SUBSET Paths /\ tree = base /\ facts = base
    /\ raw = [s \in StepIds |-> NoContract] /\ plan = raw
    /\ starts = [s \in StepIds |-> base]
    /\ k = 1 /\ phase = "ask" /\ call = NoContract
    /\ fate = [s \in StepIds |-> "none"]

Preparing == phase \in {"normalize", "validate"}

\* The loop over the steps restarts from the tree the plan starts from.
FromTheBase(p) == phase' = p /\ k' = 1 /\ facts' = base

\* parse_task_plan_v2: the answer is a plan the grammar admits.
Answer ==
    /\ phase = "ask"
    /\ raw' \in [StepIds -> RawContracts]
    /\ plan' = raw'
    /\ FromTheBase("normalize")
    /\ UNCHANGED <<base, starts, tree, call, fate>>

NormalizeStep ==
    /\ Preparing /\ k \in StepIds
    /\ plan' = [plan EXCEPT ![k] = Normalize(facts, @)]
    /\ starts' = [starts EXCEPT ![k] = facts]
    /\ facts' = After(facts, plan'[k])
    /\ k' = k + 1
    /\ UNCHANGED <<base, raw, phase, tree, call, fate>>

\* Slip: a contradiction is looked for in the last step only.
IdleAtTheEnd == {s \in {Steps} : Mutates(plan[s]) = {}}

\* NO_MUTATION_REMAINS: a step left with nothing to do is the planner's to correct.
Idle == {s \in StepIds : Mutates(plan[s]) = {}}

\* Both passes judge the plan the same way; the second one is the run's own.
JudgePlan ==
    /\ Preparing /\ k = Steps + 1
    /\ FromTheBase(IF Idle # {} THEN "ask"
                   ELSE IF phase = "normalize" THEN "validate" ELSE "approval")
    /\ UNCHANGED <<base, raw, plan, starts, tree, call, fate>>

\* A stop before the approval: the resume starts from the raw answer again,
\* or from the persisted effective plan.
Reenter ==
    /\ \/ phase = "normalize" /\ plan' = raw /\ FromTheBase("normalize")
       \/ phase \in {"validate", "approval"} /\ UNCHANGED plan /\ FromTheBase("validate")
    /\ UNCHANGED <<base, raw, starts, tree, call, fate>>

\* The effective plan is what the run executes; its raw text is not read again.
Approve ==
    /\ phase = "approval"
    /\ raw' = plan
    /\ FromTheBase("execute")
    /\ UNCHANGED <<base, plan, starts, tree, call, fate>>

-----------------------------------------------------------------------------
(* The steps.                                                              *)

\* The contract is settled against the tree the worker will receive.  What is
\* left of it is only written down: the worker is called even with nothing to do.
CallWorker ==
    /\ phase = "execute" /\ k \in StepIds
    /\ call' = Normalize(tree, plan[k])
    /\ phase' = "judge"
    /\ UNCHANGED <<drawn, k, tree, fate>>

\* The paths whose change is kept: all of them in soft mode.
Scope == IF Strict THEN Mutates(call) ELSE Paths

EndStep(f) ==
    /\ fate' = [fate EXCEPT ![k] = f]
    /\ k' = k + 1 /\ phase' = "execute" /\ call' = NoContract
    /\ UNCHANGED drawn

\* An accepted tree differs from the one before within the scope, in existence
\* or in content, and need not be what the contract asked for.
Accept ==
    /\ phase = "judge"
    /\ tree' \in {t \in SUBSET Paths : t \ Scope = tree \ Scope}
    /\ tree' # tree \/ tree \cap Scope # {}
    /\ EndStep(IF tree' = After(tree, call) THEN "exact" ELSE "loose")

\* A failed attempt leaves the tree it found; the step is called again or left.
Retry ==
    /\ phase = "judge"
    /\ phase' = "execute" /\ call' = NoContract
    /\ UNCHANGED <<drawn, k, tree, fate>>

Abandon == phase = "judge" /\ EndStep("left") /\ UNCHANGED tree

\* A step whose dependency was left is not called.
Skip ==
    /\ phase = "execute" /\ k \in StepIds
    /\ \E s \in 1..(k - 1) : fate[s] = "left"
    /\ EndStep("left") /\ UNCHANGED tree

\* NEXT: the planner's continuation starts from the tree that was reached.
NextPlan ==
    /\ phase = "execute" /\ k = Steps + 1
    /\ phase' = "ask" /\ k' = 1
    /\ base' = tree /\ facts' = tree
    /\ starts' = [s \in StepIds |-> tree]
    /\ fate' = [s \in StepIds |-> "none"]
    /\ raw' = [s \in StepIds |-> NoContract] /\ plan' = raw'
    /\ UNCHANGED <<tree, call>>

Next ==
    \/ Answer \/ NormalizeStep \/ JudgePlan \/ Reenter \/ Approve
    \/ CallWorker \/ Accept \/ Retry \/ Abandon \/ Skip \/ NextPlan

Spec == Init /\ [][Next]_vars

-----------------------------------------------------------------------------
(* Properties.                                                             *)

\* Every variable stays in its domain, the loop never runs past the plan, and
\* a worker is only ever called for a step of it.
TypeOK ==
    /\ base \in SUBSET Paths /\ facts \in SUBSET Paths /\ tree \in SUBSET Paths
    /\ raw \in [StepIds -> Contracts] /\ plan \in [StepIds -> Contracts]
    /\ starts \in [StepIds -> SUBSET Paths]
    /\ k \in 1..(Steps + 1) /\ (phase = "judge" => k \in StepIds)
    /\ phase \in {"ask", "normalize", "validate", "approval", "execute", "judge"}
    /\ call \in Contracts
    /\ fate \in [StepIds -> {"none", "exact", "loose", "left"}]

Coherent(t, c) ==
    /\ c.write \cup c.delete \subseteq c.read /\ c.read \subseteq t
    /\ c.create \cap t = {}
    /\ c.write \cap c.delete = {}

\* normalize_step_contract's promise at the line that matters: whatever the
\* planner wrote and whatever the earlier steps did, the worker is called with
\* a contract its own tree agrees with.
CallsCoherent == phase = "judge" => Coherent(tree, call)

\* The plan is normalized again at every entry and at every milestone.  The
\* second pass neither changes a contract nor adds a record, so the bytes the
\* approval is bound to are the bytes a resume finds (normalization.py:142).
PlanIsStable ==
    phase = "validate" /\ k \in StepIds =>
        /\ Normalize(facts, plan[k]) = plan[k]
        /\ Notes(facts, plan[k]) = Nothing

\* c grants no more than d: a deletion may go away, nothing becomes one, and a
\* file to write or to create stays a file to write or to create.
Narrows(c, d) ==
    /\ c.delete \subseteq d.delete
    /\ c.write \cup c.create = d.write \cup d.create
    /\ c.read \subseteq d.read \cup Mutates(d)

\* What the worker may do was approved, and what is approved was asked for,
\* however often the contract was normalized in between.
ScopeNeverGrows ==
    /\ phase \in {"validate", "approval"} => \A s \in StepIds : Narrows(plan[s], raw[s])
    /\ phase = "judge" => Narrows(call, plan[k])

\* Every earlier step left exactly the tree its contract describes.
AsProjected == \A s \in 1..(k - 1) : fate[s] = "exact"

\* The projection is the tree: as long as the steps do what they are told, a
\* worker is called with the very contract that was approved, and with work.
ProjectionExact ==
    phase = "judge" /\ AsProjected => call = plan[k] /\ Mutates(call) # {}

\* "A step left with no mutation at all is reported for the planner to
\* correct" (normalization.py:17): no worker is called with nothing to do.
CalledWithWork == phase = "judge" => Mutates(call) # {}
=============================================================================
