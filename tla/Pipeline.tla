------------------------------- MODULE Pipeline -------------------------------
(***************************************************************************)
(* The coordinator of one run from its first implementation step to its    *)
(* terminal state (orchestration/pipeline_v2.py), with the operations      *)
(* run_composition.py, gates.py, audit.py and step_execution.py bind to    *)
(* it, and the resume of run_resume.py.  One driver owns the run here:     *)
(* who may drive it is RunOwnership's subject.                             *)
(*                                                                         *)
(* `pc' names the operation the driver is inside.  What a resume can see   *)
(* (checkpoint, branch, evidence, ...) is durable; `pc', `iter', `index'   *)
(* and `audited' are the driver's memory and a stop loses them.            *)
(***************************************************************************)
EXTENDS Naturals, Sequences, FiniteSets

CONSTANTS Steps,             \* implementation steps of every plan
          MaxIterations,     \* budget.max_iterations
          AuditRepairs,      \* budget.audit_repairs
          ApprovalRequired,  \* approval.require_plan_approval
          PublishEnabled,    \* publish.enabled
          Verdicts,          \* the gate verdicts the checks may give
          WallClock,         \* may budget.max_wall_clock_hours expire?
          StopPoints,        \* the operations a stop may strike
          MaxStops           \* bound on the stops of a behaviour

ASSUME StepsAssumption == Steps \in Nat \ {0}
ASSUME BudgetAssumption == MaxIterations \in Nat \ {0} /\ AuditRepairs \in Nat
ASSUME SwitchAssumption == /\ ApprovalRequired \in BOOLEAN
                           /\ PublishEnabled \in BOOLEAN
                           /\ WallClock \in BOOLEAN
ASSUME VerdictsAssumption == Verdicts \subseteq {"green", "red", "hard"}
ASSUME StopsAssumption == MaxStops \in Nat

VARIABLES
    run,         \* disposition, reason and completion_kind of state.json
    checkpoint,  \* resume_checkpoint.json; `green' counts the accepted commits
    identity,    \* the iteration plan_identity of state.json was computed for
    branch,      \* the commits of the run branch above base_sha
    evidence,    \* per iteration, evidence.json: the tree judged, the verdict
    accepted,    \* per iteration, accepted.json
    reports,     \* per iteration, the audit/NNN/report.json files
    answer,      \* per iteration, the continuation's raw.txt files
    records,     \* per iteration, iteration.json
    settled,     \* per iteration, the steps recorded FAILED_CONTINUED or skipped
    published,   \* commits of the published candidate, 0 before
    spent,       \* the wall-clock budget is exhausted
    pauseWanted, \* pause_requested of state.json
    pc, iter, index, audited,
    stops,       \* history: the stops so far
    fragile      \* history: one of them struck a fragile window

durable == <<identity, branch, evidence, accepted, reports, answer, records, settled>>
signals == <<spent, pauseWanted>>
locals  == <<iter, index, audited>>
vars == <<run, checkpoint, durable, published, signals, pc, locals, stops, fragile>>

Iterations  == 1 .. MaxIterations
StepIndices == 0 .. Steps - 1

ExecutionPhases == { "implement_step", "deterministic_gate", "audit", "planner",
                     "candidate_ready", "candidate_push", "publish" }
Operations == { "enter", "step", "execute", "working", "stepped", "pausing",
                "gate", "checking", "judge", "audit", "auditing", "report",
                "reported", "outcome", "decide", "asking", "close", "prepare",
                "guard", "spec", "ready", "create", "push", "pushed", "publish",
                "budget", "partial", "partial_end", "off" }

\* A commit is known by its subject and the run trailer: the step id of
\* metaharness(Sxx), or the cycle of metaharness(audit).
Commits == [kind : {"step", "audit"}, iteration : Nat, step : Nat]

NoEvidence   == [head |-> 0, verdict |-> "none"]
NotAccepted  == [head |-> 0, state |-> "none"]
NoFingerprint      == [answer |-> "none", report |-> "clean", head |-> 0, verdict |-> "none"]
NoRecord     == [status |-> "open", green |-> FALSE, end |-> 0, print |-> NoFingerprint]

Machine(d, r, k) == [disposition |-> d, reason |-> r, kind |-> k]
Checkpoint(p, i, s, g) == [phase |-> p, iteration |-> i, step |-> s, green |-> g]

Init == /\ run = Machine("RUNNING", "none", "none")
        /\ checkpoint = Checkpoint("implement_step", 1, 0, 0)
        /\ identity = 1
        /\ branch = <<>>
        /\ evidence = [n \in Iterations |-> NoEvidence]
        /\ accepted = [n \in Iterations |-> NotAccepted]
        /\ reports = [n \in Iterations |-> <<>>]
        /\ answer = [n \in Iterations |-> "none"]
        /\ records = [n \in Iterations |-> NoRecord]
        /\ settled = [n \in Iterations |-> {}]
        /\ published = 0
        /\ spent = FALSE /\ pauseWanted = FALSE
        /\ pc = "enter" /\ iter = 1 /\ index = 0 /\ audited = FALSE
        /\ stops = 0 /\ fragile = FALSE

-----------------------------------------------------------------------------
(* The driver, its boundaries and its exits.                               *)

At(op) == run.disposition = "RUNNING" /\ pc = op

Tip == Len(branch)

\* _boundary: the durable name of the next operation, at the current head.
Boundary(phase, step, next) ==
    /\ checkpoint' = Checkpoint(phase, iter, step, Tip)
    /\ pc' = next

Goto(next) == pc' = next /\ UNCHANGED checkpoint

\* The driver leaves with one durable disposition; the checkpoint stays.
Leave(disposition, reason) ==
    /\ run' = Machine(disposition, reason, run.kind)
    /\ Goto("off")

Fail(reason) == Leave("FAILED", reason)

history == <<stops, fragile>>
Driving == UNCHANGED <<run, published, history>>
Idle    == UNCHANGED <<published, history>>

\* BudgetExhausted is raised by the guards that precede a step attempt, an
\* audit, a continuation and a new iteration, and by the attempt ladders.
GuardedOperations == {"execute", "working", "audit", "auditing", "decide", "guard"}

OutOfBudget ==
    /\ \E op \in GuardedOperations : At(op)
    /\ spent
    /\ Goto("budget")
    /\ Driving /\ UNCHANGED <<durable, signals, locals>>

\* The same guard, passed: the worker, the auditor or the planner is called.
Admit ==
    /\ ~spent
    /\ \/ At("execute") /\ Goto("working")
       \/ At("audit") /\ Goto("auditing")
       \/ At("decide") /\ Goto("asking")
    /\ Driving /\ UNCHANGED <<durable, signals, locals>>

-----------------------------------------------------------------------------
(* _run: where a claimed run enters the pipeline.                          *)

EnterPlanner ==
    /\ At("enter") /\ checkpoint.phase = "planner"
    /\ IF evidence[iter].verdict = "none"
       THEN Fail("RESUME_INTEGRITY_FAILURE")
       ELSE Goto("outcome") /\ UNCHANGED run
    /\ Idle /\ UNCHANGED <<durable, signals, locals>>

EnterSpent ==
    /\ At("enter") /\ checkpoint.phase # "planner"
    /\ spent
    /\ Goto("budget")
    /\ Driving /\ UNCHANGED <<durable, signals, locals>>

EntryOf(phase) ==
    CASE phase = "implement_step"     -> "step"
      [] phase = "deterministic_gate" -> "gate"
      [] phase = "audit"              -> IF reports[iter] = <<>> THEN "judge" ELSE "gate"
      [] phase = "candidate_ready"    -> "create"
      [] phase = "candidate_push"     -> "push"
      [] phase = "publish"            -> "publish"

Enter ==
    /\ At("enter") /\ checkpoint.phase # "planner"
    /\ ~spent
    /\ IF /\ checkpoint.phase = "audit" /\ reports[iter] = <<>>
          /\ evidence[iter].verdict = "none"
       THEN Fail("RESUME_INTEGRITY_FAILURE") /\ UNCHANGED index
       ELSE /\ Goto(EntryOf(checkpoint.phase))
            /\ index' = checkpoint.step
            /\ UNCHANGED run
    /\ audited' = FALSE
    /\ Idle /\ UNCHANGED <<durable, signals, iter>>

-----------------------------------------------------------------------------
(* The steps of one plan.                                                  *)

\* Slip: the boundary after the last step still names a step.
StepBoundaryBeyond ==
    /\ At("step")
    /\ IF index <= Steps
       THEN Boundary("implement_step", index, "execute")
       ELSE Boundary("deterministic_gate", 0, "gate")
    /\ audited' = FALSE
    /\ Driving /\ UNCHANGED <<durable, signals, iter, index>>

\* The loop over the steps from step_index, then the gate's boundary.
StepBoundary ==
    /\ At("step")
    /\ IF index < Steps
       THEN Boundary("implement_step", index, "execute")
       ELSE Boundary("deterministic_gate", 0, "gate")
    /\ audited' = FALSE
    /\ Driving /\ UNCHANGED <<durable, signals, iter, index>>

\* An accepted tree is committed; a no-change outcome leaves the head alone.
AcceptStep ==
    /\ At("working")
    /\ \/ branch' = Append(branch, [kind |-> "step", iteration |-> iter, step |-> index])
       \/ UNCHANGED branch
    /\ settled' = [settled EXCEPT ![iter] = @ \ {index}]
    /\ Goto("stepped")
    /\ Driving
    /\ UNCHANGED <<identity, evidence, accepted, reports, answer, records, signals, locals>>

\* The ladder is exhausted on a fixable failure and the green tree restored,
\* or the step depends on a settled one and no worker is called at all.
SettleStep ==
    /\ At("working") \/ (At("execute") /\ settled[iter] # {})
    /\ settled' = [settled EXCEPT ![iter] = @ \cup {index}]
    /\ Goto("stepped")
    /\ Driving
    /\ UNCHANGED <<identity, branch, evidence, accepted, reports, answer, records,
                   signals, locals>>

\* The green tree cannot be restored (ROLLBACK_FAILED), a secret is staged...
FatalStep ==
    /\ At("working")
    /\ Fail("FATAL")
    /\ Idle /\ UNCHANGED <<durable, signals, locals>>

\* Slip: the pause leaves before the next boundary is durable.
PauseWithoutBoundary ==
    /\ At("stepped")
    /\ Goto(IF pauseWanted THEN "pausing" ELSE "step")
    /\ index' = index + 1
    /\ Driving /\ UNCHANGED <<durable, signals, iter, audited>>

\* _pause_after_step: a pause is honoured after the next boundary.
AfterStep ==
    /\ At("stepped")
    /\ IF pauseWanted
       THEN IF index + 1 < Steps
            THEN Boundary("implement_step", index + 1, "pausing")
            ELSE Boundary("deterministic_gate", 0, "pausing")
       ELSE Goto("step")
    /\ index' = index + 1
    /\ Driving /\ UNCHANGED <<durable, signals, iter, audited>>

Pause ==
    /\ At("pausing")
    /\ Leave("WAIT_EXTERNAL", "PAUSED")
    /\ pauseWanted' = FALSE
    /\ Idle /\ UNCHANGED <<durable, spent, locals>>

-----------------------------------------------------------------------------
(* One gate episode of an iteration: checks, audits and their repairs.     *)

\* run_gate moves evidence.json aside before anything else, so whatever
\* accepted.json was bound to is no longer the evidence beside it.
ArchiveEvidence ==
    /\ At("gate")
    /\ evidence' = [evidence EXCEPT ![iter] = NoEvidence]
    /\ accepted' = [accepted EXCEPT ![iter].state = IF @ = "none" THEN @ ELSE "unbound"]
    /\ Goto("checking")
    /\ Driving
    /\ UNCHANGED <<identity, branch, reports, answer, records, settled, signals, locals>>

RunChecks ==
    /\ At("checking")
    /\ \E v \in Verdicts :
          evidence' = [evidence EXCEPT ![iter] = [head |-> Tip, verdict |-> v]]
    /\ Goto("judge")
    /\ Driving
    /\ UNCHANGED <<identity, branch, accepted, reports, answer, records, settled,
                   signals, locals>>

Verdict    == evidence[iter].verdict
Repaired   == reports[iter] # <<>>
NothingToAudit == Tip = 0 /\ settled[iter] = {}

\* Slip: a resumed episode starts its audits at one again.
MayAuditAgain == ~audited \/ Len(reports[iter]) < AuditRepairs

\* The loop runs from len(reports) + 1 to audit_repairs.
MayAudit == Len(reports[iter]) < AuditRepairs

SpecQuestioned == \E i \in DOMAIN reports[iter] : reports[iter][i] = "SPEC_DECISION"

JudgeSpecDecision ==
    /\ At("judge") /\ ~audited /\ SpecQuestioned
    /\ Leave("WAIT_HUMAN", "SPEC_DECISION_REQUIRED")
    /\ Idle /\ UNCHANGED <<durable, signals, locals>>

\* Hard failures stop inside the audit loop and after each of its audits.
JudgeHard ==
    /\ At("judge") /\ (audited \/ ~SpecQuestioned)
    /\ Verdict = "hard" /\ (audited \/ MayAudit)
    /\ Fail("FATAL")
    /\ Idle /\ UNCHANGED <<durable, signals, locals>>

\* GateAcceptanceService.accept: written once, then only re-read, and the
\* stored acceptance must carry the hash of the evidence beside it.
AcceptGate ==
    /\ At("judge") /\ (audited \/ ~SpecQuestioned)
    /\ Verdict = "green"
    /\ Repaired \/ (MayAudit /\ NothingToAudit)
    /\ CASE accepted[iter].state = "none" ->
              /\ accepted' = [accepted EXCEPT ![iter] = [head |-> Tip, state |-> "bound"]]
              /\ Goto("outcome") /\ UNCHANGED run
         [] accepted[iter] = [head |-> Tip, state |-> "bound"] ->
              /\ Goto("outcome") /\ UNCHANGED <<accepted, run>>
         [] OTHER -> Fail("RESUME_INTEGRITY_FAILURE") /\ UNCHANGED accepted
    /\ Idle
    /\ UNCHANGED <<identity, branch, evidence, reports, answer, records, settled,
                   signals, locals>>

ToAudit ==
    /\ At("judge") /\ (audited \/ ~SpecQuestioned)
    /\ MayAudit /\ Verdict # "hard"
    /\ ~(Repaired /\ Verdict = "green") /\ ~NothingToAudit
    /\ Boundary("audit", 0, "audit")
    /\ Driving /\ UNCHANGED <<durable, signals, locals>>

\* Slip: a red gate is simply tried again.
LeaveGateWhenGreen ==
    /\ At("judge") /\ (audited \/ ~SpecQuestioned)
    /\ ~MayAudit
    /\ ~(Repaired /\ Verdict = "green") /\ ~(audited /\ Verdict = "hard")
    /\ Goto(IF Verdict = "green" THEN "outcome" ELSE "gate")
    /\ Driving /\ UNCHANGED <<durable, signals, locals>>

\* The loop is over, or AuditRepairs allows none: the continuation decides.
LeaveGate ==
    /\ At("judge") /\ (audited \/ ~SpecQuestioned)
    /\ ~MayAudit
    /\ ~(Repaired /\ Verdict = "green") /\ ~(audited /\ Verdict = "hard")
    /\ Goto("outcome")
    /\ Driving /\ UNCHANGED <<durable, signals, locals>>

\* The auditor's edits are committed before its report is durable.
Audit ==
    /\ At("auditing")
    /\ \/ branch' = Append(branch, [kind |-> "audit", iteration |-> iter, step |-> 0])
       \/ UNCHANGED branch
    /\ Goto("report")
    /\ Driving
    /\ UNCHANGED <<identity, evidence, accepted, reports, answer, records, settled,
                   signals, locals>>

\* A report is clean, or leaves REMAINING items, or asks a product decision.
Findings == {"clean", "remaining", "SPEC_DECISION"}

Report ==
    /\ At("report")
    /\ \E f \in Findings : reports' = [reports EXCEPT ![iter] = Append(@, f)]
    /\ Goto("reported")
    /\ Driving
    /\ UNCHANGED <<identity, branch, evidence, accepted, answer, records, settled,
                   signals, locals>>

LastReport == IF Repaired THEN reports[iter][Len(reports[iter])] ELSE "clean"

\* Slip: the gate is not run again on what the auditor committed.
TrustAudit ==
    /\ At("reported")
    /\ IF LastReport = "SPEC_DECISION"
       THEN Leave("WAIT_HUMAN", "SPEC_DECISION_REQUIRED") /\ UNCHANGED audited
       ELSE /\ Boundary("deterministic_gate", 0, "judge")
            /\ audited' = TRUE
            /\ UNCHANGED run
    /\ Idle /\ UNCHANGED <<durable, signals, iter, index>>

\* Every audit is followed by a boundary and a gate of its own.
AfterReport ==
    /\ At("reported")
    /\ IF LastReport = "SPEC_DECISION"
       THEN Leave("WAIT_HUMAN", "SPEC_DECISION_REQUIRED") /\ UNCHANGED audited
       ELSE /\ Boundary("deterministic_gate", 0, "gate")
            /\ audited' = TRUE
            /\ UNCHANGED run
    /\ Idle /\ UNCHANGED <<durable, signals, iter, index>>

\* The gate refuses an empty candidate whose checks are red: no audit can
\* repair it.  DETERMINISTIC_GATE_FAILED is fixable, so Escape projects it.
EmptyAndRed == At("judge") /\ ~SpecQuestioned /\ MayAudit /\ NothingToAudit /\ Verdict = "red"

-----------------------------------------------------------------------------
(* _continue: the continuation decides, the iteration is closed.           *)

PlannerBoundary ==
    /\ At("outcome")
    /\ Boundary("planner", 0, "decide")
    /\ Driving /\ UNCHANGED <<durable, signals, locals>>

\* COMPLETE is refused while the gate is red or the audit or the planner
\* still lists remaining work.  "rejected" stands for answers that all failed
\* validation; NEXT carries the remaining work the planner named.
Answers ==
    {"NEXT", "NEXT_SAME", "SPEC_DECISION", "rejected"} \cup
    IF Verdict = "green" /\ LastReport # "remaining" THEN {"COMPLETE"} ELSE {}

\* Slip: the planner is asked again although its answer is on disk.
DecideAgain ==
    /\ At("asking")
    /\ \E a \in Answers : answer' = [answer EXCEPT ![iter] = a]
    /\ Goto("close")
    /\ Driving
    /\ UNCHANGED <<identity, branch, evidence, accepted, reports, records, settled,
                   signals, locals>>

\* raw.txt is durable before it is parsed: a paid answer is read again.
Decide ==
    /\ At("asking")
    /\ IF answer[iter] = "none"
       THEN \E a \in Answers : answer' = [answer EXCEPT ![iter] = a]
       ELSE UNCHANGED answer
    /\ Goto("close")
    /\ Driving
    /\ UNCHANGED <<identity, branch, evidence, accepted, reports, records, settled,
                   signals, locals>>

\* stagnation_fingerprint: remaining work, tree and gate failures.
Fingerprint == [answer |-> answer[iter], report |-> LastReport, head |-> Tip, verdict |-> Verdict]

Stagnant == iter > 1 /\ records[iter - 1].print = Fingerprint

Ends == IF iter = MaxIterations \/ Stagnant THEN "PARTIAL" ELSE "NEXT"

\* close_iteration writes iteration.json at the current head.
Record(status) ==
    records' = [records EXCEPT ![iter] =
                   [status |-> status, green |-> Verdict = "green", end |-> Tip,
                    print |-> IF status = "SPEC_DECISION" THEN NoFingerprint ELSE Fingerprint]]

CloseSpec ==
    /\ At("close") /\ answer[iter] = "SPEC_DECISION"
    /\ Record("SPEC_DECISION")
    /\ Goto("spec")
    /\ Driving
    /\ UNCHANGED <<identity, branch, evidence, accepted, reports, answer, settled,
                   signals, locals>>

CloseComplete ==
    /\ At("close") /\ answer[iter] = "COMPLETE"
    /\ Record("COMPLETE")
    /\ run' = [run EXCEPT !.kind = "COMPLETE"]
    /\ Goto("ready")
    /\ Idle
    /\ UNCHANGED <<identity, branch, evidence, accepted, reports, answer, settled,
                   signals, locals>>

CloseNext ==
    /\ At("close") /\ answer[iter] \in {"NEXT", "NEXT_SAME"}
    /\ Record(Ends)
    /\ Goto(IF Ends = "PARTIAL" THEN "partial" ELSE "prepare")
    /\ Driving
    /\ UNCHANGED <<identity, branch, evidence, accepted, reports, answer, settled,
                   signals, locals>>

AskHuman ==
    /\ At("spec")
    /\ Leave("WAIT_HUMAN", "SPEC_DECISION_REQUIRED")
    /\ Idle /\ UNCHANGED <<durable, signals, locals>>

\* prepare_next_iteration publishes the new plan's identity; the checkpoint
\* still names the continuation of the iteration it closes.
PrepareNext ==
    /\ At("prepare")
    /\ identity' = iter + 1
    /\ iter' = iter + 1 /\ index' = 0 /\ audited' = FALSE
    /\ Goto("guard")
    /\ Driving
    /\ UNCHANGED <<branch, evidence, accepted, reports, answer, records, settled, signals>>

NextBoundary ==
    /\ At("guard") /\ ~spent
    /\ Boundary("implement_step", 0, "step")
    /\ Driving /\ UNCHANGED <<durable, signals, locals>>

-----------------------------------------------------------------------------
(* The two ends: the candidate is published, or the run is PARTIAL.        *)

CandidateBoundary ==
    /\ \/ At("ready")  /\ Boundary("candidate_ready", 0, "create")
       \/ At("create") /\ Boundary("candidate_push", 0, "push")
       \/ At("pushed") /\ Boundary("publish", 0, "publish")
    /\ Driving /\ UNCHANGED <<durable, signals, locals>>

PushCandidate ==
    /\ At("push")
    /\ Goto("pushed")
    /\ Driving /\ UNCHANGED <<durable, signals, locals>>

\* Without publication the completed phase is candidate_push again.
Publish ==
    /\ At("publish")
    /\ published' = Tip
    /\ run' = Machine("COMPLETED", "none", run.kind)
    /\ checkpoint' = IF PublishEnabled THEN checkpoint
                     ELSE Checkpoint("candidate_push", iter, 0, Tip)
    /\ pc' = "off"
    /\ UNCHANGED <<durable, signals, locals, history>>

\* budget_partial rephases the checkpoint, keeping its iteration and commit.
Rephase ==
    /\ At("budget")
    /\ checkpoint' = Checkpoint("planner", checkpoint.iteration, 0, checkpoint.green)
    /\ pc' = "partial"
    /\ Driving /\ UNCHANGED <<durable, signals, locals>>

\* The newest green iteration.json whose commit the branch still holds.
GreenEnds == { n \in 1 .. iter : records[n].green /\ records[n].end <= Tip }

\* Slip: the milestone in flight is dropped even when its gate was green.
PreviousHead ==
    LET ends == { n \in GreenEnds : n < iter } IN
    IF ends = {} THEN 0
    ELSE records[CHOOSE n \in ends : \A m \in ends : m <= n].end

AcceptedHead ==
    IF GreenEnds = {} THEN 0
    ELSE records[CHOOSE n \in GreenEnds : \A m \in GreenEnds : m <= n].end

\* Slip: the PARTIAL exit keeps whatever the branch holds.
KeepEverything ==
    /\ At("partial")
    /\ records' = [records EXCEPT ![iter].status = "PARTIAL"]
    /\ Goto("partial_end")
    /\ Driving
    /\ UNCHANGED <<identity, branch, evidence, accepted, reports, answer, settled,
                   signals, locals>>

\* _partial: the record is marked, the branch is rewound and pushed.
RewindToAccepted ==
    /\ At("partial")
    /\ records' = [records EXCEPT ![iter].status = "PARTIAL"]
    /\ branch' = SubSeq(branch, 1, AcceptedHead)
    /\ Goto("partial_end")
    /\ Driving
    /\ UNCHANGED <<identity, evidence, accepted, reports, answer, settled, signals, locals>>

FinishPartial ==
    /\ At("partial_end")
    /\ run' = Machine("COMPLETED", "none", "PARTIAL")
    /\ Goto("off")
    /\ Idle /\ UNCHANGED <<durable, signals, locals>>

-----------------------------------------------------------------------------
(* Stops and resumes.                                                      *)

\* Slip: only step commits are recognized.
OwnStepCommit(c) ==
    checkpoint.phase = "implement_step" /\ c.kind = "step" /\ c.step = checkpoint.step

\* _adopt_completed_commit: the one commit the checkpoint's own operation
\* made after the checkpoint was written.
OwnCommit(c) ==
    \/ checkpoint.phase = "implement_step" /\ c.kind = "step" /\ c.step = checkpoint.step
    \/ checkpoint.phase = "audit" /\ c.kind = "audit" /\ c.iteration = checkpoint.iteration

Adoptable == Tip = checkpoint.green + 1 /\ OwnCommit(branch[Tip])

\* Slip: the commit is adopted, its step is not passed.
AdoptedInPlace == [checkpoint EXCEPT !.green = Tip]

\* The checkpoint the adopted operation would have written next.
Adopted ==
    IF checkpoint.phase = "implement_step" /\ checkpoint.step + 1 < Steps
    THEN Checkpoint("implement_step", checkpoint.iteration, checkpoint.step + 1, Tip)
    ELSE Checkpoint("deterministic_gate", checkpoint.iteration, 0, Tip)

\* prepare_resume: what Git and the durable plan must still prove.
ResumeHolds ==
    /\ checkpoint.green <= Tip
    /\ checkpoint.green = Tip \/ Adoptable
    /\ ApprovalRequired => identity = checkpoint.iteration

\* The three windows in which a stop costs the run: after accepted.json and
\* before the planner boundary, from the next plan's identity to its first
\* boundary, and inside the PARTIAL exit.
InFragileWindow == \/ pc \in {"outcome", "partial", "partial_end"}
                   \/ identity # checkpoint.iteration

CanStop == /\ run.disposition = "RUNNING" /\ pc \in StopPoints
           /\ stops < MaxStops
           /\ stops' = stops + 1
           /\ fragile' = (fragile \/ InFragileWindow)

\* A stop loses the driver's memory, not its durable state.
Struck(disposition, reason) ==
    /\ run' = Machine(disposition, reason, run.kind)
    /\ pc' = "off" /\ iter' = 1 /\ index' = 0 /\ audited' = FALSE
    /\ UNCHANGED <<checkpoint, durable, published, signals>>

\* KeyboardInterrupt: a failure a resume may claim.
Interrupt == CanStop /\ Struck("FAILED", "INTERRUPTED")

\* The provider, the agent or the remote is unavailable: a transient failure.
Unavailable ==
    /\ CanStop /\ pc \in {"working", "auditing", "asking", "push"}
    /\ Struck("WAIT_EXTERNAL", "UNAVAILABLE")

\* A fixable failure escapes its loop.  project_exception lets it be resumed
\* when the resume gate passes without touching the worktree.
Projected == Struck(IF ResumeHolds THEN "WAIT_EXTERNAL" ELSE "FAILED", "ESCAPED")

Escape == CanStop /\ Projected

RefusedAnswer == At("close") /\ answer[iter] = "rejected" /\ Projected /\ UNCHANGED history
RefusedGate   == EmptyAndRed /\ Projected /\ UNCHANGED history

\* The reasons the resume eligibility accepts on a stopped run.
Resumable == \/ run.disposition = "WAIT_EXTERNAL"
             \/ run.disposition = "FAILED" /\ run.reason = "INTERRUPTED"

\* Orchestrator.resume: the gate, the adopted checkpoint, the claim.
Resume ==
    /\ Resumable
    /\ IF ResumeHolds
       THEN /\ run' = Machine("RUNNING", "none", run.kind)
            /\ checkpoint' = IF checkpoint.green = Tip THEN checkpoint ELSE Adopted
            /\ pc' = "enter"
            /\ iter' = checkpoint.iteration
       ELSE /\ run' = Machine("FAILED", "RESUME_INTEGRITY_FAILURE", run.kind)
            /\ UNCHANGED <<checkpoint, pc, iter>>
    /\ UNCHANGED <<durable, published, signals, index, audited, history>>

\* The clock runs whether or not the run does.
Expire ==
    /\ WallClock /\ ~spent
    /\ run.disposition \in {"RUNNING", "WAIT_EXTERNAL", "FAILED"}
    /\ spent' = TRUE
    /\ UNCHANGED <<run, checkpoint, durable, published, pauseWanted, pc, locals, history>>

\* pause_run accepts a request only while a step is running.
RequestPause ==
    /\ \E op \in {"execute", "working"} : At(op)
    /\ ~pauseWanted
    /\ pauseWanted' = TRUE
    /\ UNCHANGED <<run, checkpoint, durable, published, spent, pc, locals, history>>

\* A run that can no longer be resumed, or that an operator leaves alone.
Rest ==
    /\ run.disposition # "RUNNING"
    /\ UNCHANGED vars

-----------------------------------------------------------------------------

Drive ==
    \/ OutOfBudget \/ Admit
    \/ EnterPlanner \/ EnterSpent \/ Enter
    \/ StepBoundary \/ AcceptStep \/ SettleStep \/ FatalStep \/ AfterStep \/ Pause
    \/ ArchiveEvidence \/ RunChecks
    \/ JudgeSpecDecision \/ JudgeHard \/ AcceptGate \/ ToAudit \/ LeaveGate
    \/ Audit \/ Report \/ AfterReport
    \/ PlannerBoundary \/ Decide \/ CloseSpec \/ CloseComplete \/ CloseNext \/ AskHuman
    \/ RefusedAnswer \/ RefusedGate
    \/ PrepareNext \/ NextBoundary
    \/ CandidateBoundary \/ PushCandidate \/ Publish
    \/ Rephase \/ RewindToAccepted \/ FinishPartial

Next == Drive \/ Interrupt \/ Unavailable \/ Escape \/ Resume \/ Expire \/ RequestPause \/ Rest

Spec == Init /\ [][Next]_vars

\* The driver is one thread that is never blocked for good: every call it
\* makes to an agent, a check or a remote has a timeout.
FairSpec == Spec /\ WF_vars(Drive)

-----------------------------------------------------------------------------
(* Properties.                                                             *)

AnswerCodes == {"none", "NEXT", "NEXT_SAME", "SPEC_DECISION", "COMPLETE", "rejected"}

Machines ==
    [ disposition : {"RUNNING", "WAIT_EXTERNAL", "WAIT_HUMAN", "COMPLETED", "FAILED"},
      reason : {"none", "PAUSED", "SPEC_DECISION_REQUIRED", "INTERRUPTED",
                "UNAVAILABLE", "ESCAPED", "FATAL", "RESUME_INTEGRITY_FAILURE"},
      kind : {"none", "COMPLETE", "PARTIAL"} ]

Checkpoints == [ phase : ExecutionPhases, iteration : Iterations,
                 step : StepIndices, green : Nat ]

Judgements  == [ head : Nat, verdict : Verdicts \cup {"none"} ]
Acceptances == [ head : Nat, state : {"none", "bound", "unbound"} ]

Prints  == [ answer : AnswerCodes, report : Findings, head : Nat,
             verdict : Verdicts \cup {"none"} ]
Records == [ status : {"open", "NEXT", "COMPLETE", "PARTIAL", "SPEC_DECISION"},
             green : BOOLEAN, end : Nat, print : Prints ]

\* Every durable file and every local has its shape.
TypeOK ==
    /\ run \in Machines
    /\ checkpoint \in Checkpoints
    /\ identity \in Iterations
    /\ branch \in Seq(Commits)
    /\ evidence \in [Iterations -> Judgements]
    /\ accepted \in [Iterations -> Acceptances]
    /\ reports \in [Iterations -> Seq(Findings)]
    /\ answer \in [Iterations -> AnswerCodes]
    /\ records \in [Iterations -> Records]
    /\ settled \in [Iterations -> SUBSET StepIndices]
    /\ published \in Nat
    /\ spent \in BOOLEAN /\ pauseWanted \in BOOLEAN
    /\ pc \in Operations /\ iter \in Iterations /\ index \in 0 .. Steps
    /\ audited \in BOOLEAN
    /\ stops \in 0 .. MaxStops /\ fragile \in BOOLEAN

\* A commit that closed a milestone on a green gate stays on the run branch:
\* no resume, no adoption and no PARTIAL rewind ever drops it (_partial,
\* rewind_worktree).
MilestonesKept == \A n \in Iterations : records[n].green => records[n].end <= Tip

\* A PARTIAL run leaves the branch at the last green milestone or at the
\* base: work no gate accepted is never left on it (_partial).
PartialIsAccepted ==
    run.kind = "PARTIAL" /\ run.disposition = "COMPLETED" =>
        Tip \in {0} \cup { records[n].end : n \in {m \in Iterations : records[m].green} }

\* What is published is the very tree the iteration's last gate judged green,
\* with no audit finding open, however many stops lie in between.
PublishedIsJudged ==
    published # 0 => /\ published = Tip
                     /\ evidence[iter] = [head |-> Tip, verdict |-> "green"]
                     /\ LastReport # "remaining"
                     /\ records[iter].status = "COMPLETE"

\* A resume never restarts the audit loop: the reports of one iteration stay
\* within budget.audit_repairs (_gate counts the durable reports).
AuditsBounded == \A n \in Iterations : Len(reports[n]) <= AuditRepairs

\* Each step of each iteration is committed at most once and in plan order,
\* before that iteration's audits: adoption never replays a committed step.
Precedes(c, d) ==
    \/ c.iteration < d.iteration
    \/ /\ c.iteration = d.iteration
       /\ \/ c.kind = "step" /\ d.kind = "step" /\ c.step < d.step
          \/ d.kind = "audit"

CommitsInOrder ==
    \A i, j \in DOMAIN branch : i < j => Precedes(branch[i], branch[j])

\* A paused run has nothing to adopt: its checkpoint names an operation that
\* made no commit yet, at the current head (_pause_after_step).
PausedAtBoundary ==
    run.reason = "PAUSED" =>
        /\ checkpoint.green = Tip
        /\ checkpoint.phase = "implement_step" =>
              ~ \E i \in DOMAIN branch : /\ branch[i].kind = "step"
                                         /\ branch[i].iteration = checkpoint.iteration
                                         /\ branch[i].step >= checkpoint.step

\* Outside those windows a stop, wherever it strikes, never makes the run
\* unresumable: no integrity failure, no escape that cannot be claimed.
StopsAreResumable ==
    /\ run.disposition = "FAILED"
    /\ run.reason \in {"RESUME_INTEGRITY_FAILURE", "ESCAPED"}
    => fragile

\* A paid continuation answer is never replaced by another one: a resume reads
\* raw.txt again, so a milestone has one decision (PlannerContinue.decide).
OneAnswer == [][\A n \in Iterations : answer[n] # "none" => answer'[n] = answer[n]]_vars

\* The driver of a running run always reaches an end: a publication, a
\* partial completion, a wait or a failure.
DriverLeaves == run.disposition = "RUNNING" ~> run.disposition # "RUNNING"

-----------------------------------------------------------------------------
(* What the repository says of the coordinator and the code does not do.   *)

\* spec-autonomie-v4.md, V4.4: a stop at any phase followed by a resume gives a
\* run that ends; gates.py (complete evidence is reused) and pipeline_v2.py
\* (running out of budget is never a failure) say it of two of the windows.
ResumeNeverRefused == run.reason # "RESUME_INTEGRITY_FAILURE"

\* architecture.md: a gate that fails hard fails closed, so no worker is ever
\* called on top of it.
HardGateFailsClosed == At("working") => \A n \in 1 .. iter : evidence[n].verdict # "hard"

=============================================================================
