---------------------------- MODULE StepAttempts ----------------------------
(***************************************************************************)
(* The steps of one iteration: the bounded ladder of worker calls a step   *)
(* may spend, the judgement of what an untrusted worker left behind, the   *)
(* exact rollback, and the commit and record of an accepted step.          *)
(*                                                                         *)
(* One action is one call to the worker, one operation on Git or one       *)
(* durable write, so a stop may fall between any two of them.  A stop      *)
(* loses the driver's memory; a resume starts from the checkpoint.         *)
(*                                                                         *)
(* The worktree is the set of kinds of paths that differ from the step's   *)
(* parent: "in" the declared sets of the step, "out" of them, "denied" by  *)
(* the scope policy, declared but carrying a "secret", or "alien": changed *)
(* by somebody outside the run while no worker is called.  The Git         *)
(* ownership is one word: "own" as the harness left it, or what the worker *)
(* did to it: a "commit" on the run branch, a local "branch", a linked     *)
(* "worktree", or a ref "pushed", moved or deleted.                        *)
(***************************************************************************)
EXTENDS Naturals, Sequences

CONSTANTS
    Steps,        \* steps of the plan
    DependsOn,    \* the earlier step a step depends on; 0: none
    Attempts,     \* budget.step_attempts
    Fallbacks,    \* executor fallbacks configured for a step
    Strict,       \* scope mode "strict"
    PerStepGate,  \* gate.per_step names a check
    Contents,     \* what a worker may leave: sets of kinds of changed paths
    MaxResumes    \* bound: resumes of the run

StepIds  == 1 .. Steps
Kinds    == {"in", "out", "denied", "secret", "alien"}
Declared == {"in", "secret"}

ASSUME PlanAssumption ==
    /\ Steps \in Nat \ {0}
    /\ DependsOn \in [StepIds -> 0 .. Steps]
    /\ \A s \in StepIds : DependsOn[s] < s
ASSUME BudgetAssumption == Attempts \in Nat \ {0} /\ Fallbacks \in Nat
ASSUME OptionAssumption == Strict \in BOOLEAN /\ PerStepGate \in BOOLEAN
ASSUME ContentAssumption == Contents \subseteq SUBSET (Kinds \ {"alien"})
ASSUME BoundAssumption  == MaxResumes \in Nat

VARIABLES
    counter,     \* recovery_counters["agent-step:cycle:step"]
    record,      \* step.json
    branch,      \* commits of the run branch above the iteration's start
    accepted,    \* accepted_steps of state.json
    checkpoint,  \* step_index, and last_green_commit as a position on branch
    disposition, reason,
    dirt, refs,  \* the worktree and the Git ownership
    pc, step, fallback, report, failure,   \* the driver's memory
    calls, resumes, intruded                      \* history

durable == <<counter, record, branch, accepted, checkpoint>>
run     == <<disposition, reason>>
tree    == <<dirt, refs>>
memory  == <<step, fallback, report, failure>>
history == <<calls, resumes, intruded>>
vars    == <<durable, run, tree, pc, memory, history>>

Owners   == {"own", "commit", "branch", "worktree", "pushed"}
Reports  == {"ok", "mismatch", "auth", "timeout", "exit", "committed"}

\* The failure codes, by the class that decides who may act next.
Fatal     == {"drift", "foreign", "denied", "secret", "rollback", "operator", "integrity"}
Transient == {"timeout", "runtime", "auth"}
Fixable   == {"scope", "git", "mismatch", "gate", "commit_gate"}
Settled   == {"FAILED_CONTINUED", "SKIPPED_DEPENDENCY"}

Failure(code, after, status) == [code |-> code, after |-> after, status |-> status]
NoFailure == Failure("none", "same", "known")

Init ==
    /\ counter = [s \in StepIds |-> 0]
    /\ record = [s \in StepIds |-> "none"]
    /\ branch = <<>> /\ accepted = {}
    /\ checkpoint = [step |-> 1, green |-> 0]
    /\ disposition = "RUNNING" /\ reason = "none"
    /\ dirt = {} /\ refs = "own"
    /\ pc = "boundary" /\ step = 1 /\ fallback = 0
    /\ report = "ok" /\ failure = NoFailure
    /\ calls = [s \in StepIds |-> 0] /\ resumes = 0 /\ intruded = FALSE

At(operation) == pc = operation
Goto(operation) == pc' = operation

\* What the driver no longer needs is reset, so that no state differs by it.
Forget == fallback' = 0 /\ report' = "ok" /\ failure' = NoFailure

NextStep == step' = step + 1 /\ Forget /\ Goto("boundary")

\* persist_exit: the run leaves its driver, and its memory with it.
Leave(d, r) ==
    /\ disposition' = d /\ reason' = r
    /\ pc' = "off" /\ step' = 1 /\ Forget

-----------------------------------------------------------------------------
(* The loop over the steps.                                                *)

\* _boundary: the checkpoint of the step about to run, or of the gate.
Boundary ==
    /\ At("boundary")
    /\ checkpoint' = [step |-> step, green |-> Len(branch)]
    /\ IF step \in StepIds THEN Goto("start") /\ UNCHANGED <<run, memory>>
       ELSE Leave("RUNNING", "gate")
    /\ UNCHANGED <<counter, record, branch, accepted, tree, history>>

\* Slip: only a dependency that failed skips its dependents.
DependencyFailed == DependsOn[step] # 0 /\ record[DependsOn[step]] = "FAILED_CONTINUED"

DependencySettled == DependsOn[step] # 0 /\ record[DependsOn[step]] \in Settled

SkipDependent ==
    /\ At("start") /\ DependencySettled
    /\ record' = [record EXCEPT ![step] = "SKIPPED_DEPENDENCY"]
    /\ NextStep
    /\ UNCHANGED <<counter, branch, accepted, checkpoint, run, tree, history>>

\* archive_attempt: the record leaves with the other files of its attempt.
Archived == [record EXCEPT ![step] = "none"]

\* The record of an earlier attempt is archived; the boundary the step is
\* held to is Git as it is found now, a worktree left by a worker included.
StartStep ==
    /\ At("start") /\ ~DependencySettled
    /\ record' = Archived
    /\ refs' = "own"
    /\ Goto("try")
    /\ UNCHANGED <<counter, branch, accepted, checkpoint, run, dirt, memory, history>>

\* BudgetExhausted: the run ends PARTIAL on what it accepted.
OutOfTime ==
    /\ At("try")
    /\ Leave("COMPLETED", "PARTIAL")
    /\ UNCHANGED <<durable, tree, history>>

-----------------------------------------------------------------------------
(* One attempt: the worker's call and the judgement of what it left.       *)

Refused(code, after, status) ==
    /\ failure' = Failure(code, after, status)
    /\ report' = "ok"
    /\ Goto("recover")
    /\ UNCHANGED <<step, fallback, history>>

\* What the scope policy of the run refuses, and what the diff scan finds.
Denied      == "denied" \in dirt
HoldsSecret == "secret" \in dirt

TreeNow == IF dirt = {} THEN "same" ELSE "changed"

Drift ==
    /\ At("try") /\ dirt # {}
    /\ Refused("drift", "unknown", "lost")
    /\ UNCHANGED <<durable, run, tree>>

CallCap == Attempts + MaxResumes + 1  \* bound: calls counted, one beyond the promise

\* The Codex and Claude adapters report a moved HEAD; an external one does not.
HeadReported(told, git) == told = "committed" => git = "commit"

CallWorker ==
    /\ At("try") /\ dirt = {}
    /\ dirt' \in Contents
    /\ \E told \in Reports, git \in IF refs = "own" THEN Owners ELSE {refs} :
          HeadReported(told, git) /\ report' = told /\ refs' = git
    /\ calls' = [calls EXCEPT ![step] = IF @ < CallCap THEN @ + 1 ELSE @]
    /\ Goto("judge")
    /\ UNCHANGED <<durable, run, step, fallback, failure, resumes, intruded>>

\* A remote ref, or any ref but the run branch and those the worker created.
Foreign == refs = "pushed"

\* audit_git_mutation: a push, a foreign ref or a deleted branch.
JudgeForeign ==
    /\ At("judge") /\ Foreign
    /\ Refused("foreign", TreeNow, "lost")
    /\ UNCHANGED <<durable, run, tree>>

\* A soft reset, HEAD attached again, the created branches deleted.
TakenBack == "own"

\* recover_worker_git_state: the worker's references go, its content stays.
TakeGitBack ==
    /\ At("judge") /\ refs \in {"commit", "branch"}
    /\ \/ refs' = TakenBack /\ UNCHANGED <<pc, memory, history>>
       \/ Refused("rollback", TreeNow, "lost") /\ UNCHANGED refs
    /\ UNCHANGED <<durable, run, dirt>>

GitSettled == refs \in {"own", "worktree"}

\* A contract mismatch is judged before the boundary and the process outcome.
JudgeMismatch ==
    /\ At("judge") /\ GitSettled /\ report = "mismatch"
    /\ \/ refs = "worktree" /\ Refused("git", TreeNow, "known") /\ UNCHANGED record
       \/ /\ refs = "own" /\ ~(dirt \subseteq Declared)
          /\ Refused("scope", TreeNow, "known") /\ UNCHANGED record
       \/ /\ refs = "own" /\ dirt \subseteq Declared
          /\ record' = [record EXCEPT ![step] = "FAILED"]
          /\ Refused("mismatch", TreeNow, "known")
    /\ UNCHANGED <<counter, branch, accepted, checkpoint, run, tree>>

JudgeWorktree ==
    /\ At("judge") /\ refs = "worktree" /\ report # "mismatch"
    /\ Refused("git", "unknown", "known")
    /\ UNCHANGED <<durable, run, tree>>

\* AGENT_AUTH_FAILURE and the exit reasons, once Git is proven.
ExitCode == [auth |-> "auth", timeout |-> "timeout", exit |-> "runtime", committed |-> "scope"]

JudgeExit ==
    /\ At("judge") /\ refs = "own" /\ report \in DOMAIN ExitCode
    /\ Refused(ExitCode[report], TreeNow, "known")
    /\ UNCHANGED <<durable, run, tree>>

\* The tree of a worker that says it is done.
Kept == IF Strict THEN dirt \ {"out"} ELSE dirt

JudgeTree ==
    /\ At("judge") /\ refs = "own" /\ report = "ok"
    /\ \/ dirt = {} /\ Refused("mismatch", "same", "known") /\ UNCHANGED <<record, dirt>>
       \/ Denied /\ Refused("denied", "changed", "known") /\ UNCHANGED <<record, dirt>>
       \/ /\ dirt # {} /\ ~Denied /\ Kept # dirt
          /\ Refused("rollback", "changed", "known") /\ UNCHANGED <<record, dirt>>
       \/ /\ dirt # {} /\ ~Denied /\ Kept = {}
          /\ dirt' = {} /\ Refused("scope", "same", "known") /\ UNCHANGED record
       \/ /\ ~Denied /\ Kept # {}
          /\ dirt' = Kept
          /\ record' = [record EXCEPT ![step] = "COMPLETED"]
          /\ Goto("gate") /\ UNCHANGED <<memory, history>>
    /\ UNCHANGED <<counter, branch, accepted, checkpoint, run, refs>>

\* run_per_step_gate, before the step's own commit.
PassGate ==
    /\ At("gate")
    /\ Goto("verify")
    /\ UNCHANGED <<durable, run, tree, memory, history>>

Regress ==
    /\ At("gate") /\ PerStepGate
    /\ Refused("gate", TreeNow, "known")
    /\ UNCHANGED <<durable, run, tree>>

-----------------------------------------------------------------------------
(* admit_step_retry: the rollback, and the same executor once more.        *)

Unchanged == UNCHANGED <<durable, run, tree, step, fallback, report, history>>

NotRecoverable ==
    /\ At("recover") /\ failure.code \in Fatal
    /\ Goto("escalate") /\ UNCHANGED failure
    /\ Unchanged

\* Without both trees and the status nothing can be proven restored.
Unprovable ==
    /\ At("recover") /\ failure.code \notin Fatal
    /\ failure.after = "unknown" \/ failure.status = "lost"
    /\ failure' = [failure EXCEPT !.code = "operator"]
    /\ Goto("escalate")
    /\ Unchanged

Provable == /\ At("recover") /\ failure.code \notin Fatal
            /\ failure.after # "unknown" /\ failure.status = "known"

\* CandidateAttemptTransaction.abort before its rollback: ownership, declared
\* scope whatever the scope mode is, and the security scan, in this order.
Objections ==
    IF refs \notin {"own", "pushed"} THEN {"git"}
    ELSE IF ~(dirt \subseteq Declared) THEN {"scope"}
    ELSE IF HoldsSecret THEN {"secret"}
    ELSE {}

AbortRefused ==
    /\ Provable
    /\ \E code \in IF Objections = {} THEN {"operator"} ELSE Objections :
          failure' = Failure(code, TreeNow, failure.status)
    /\ Goto("escalate")
    /\ Unchanged

FallbackIds == IF Fallbacks <= Attempts - 1 THEN Fallbacks ELSE Attempts - 1

\* Slip: nothing is reserved for the fallbacks.
RetryUnreserved == counter[step] < Attempts - 1

\* One attempt stays reserved for every fallback not used yet.
RetryLeft == counter[step] + (FallbackIds - fallback) < Attempts - 1

\* restore_candidate_state: every differing path is put back, and the whole
\* snapshot compared, or GitError.
RolledBack == {}

\* Slip: a failed attempt is retried on top of what it left.
AbortKeepingTree ==
    /\ Provable /\ Objections = {}
    /\ failure' = [failure EXCEPT !.after = "same"]
    /\ Goto(IF failure.code \in {"mismatch", "auth"} THEN "escalate" ELSE "retry")
    /\ UNCHANGED <<durable, run, tree, step, fallback, report, history>>

Abort ==
    /\ Provable /\ Objections = {}
    /\ dirt' = RolledBack
    /\ failure' = [failure EXCEPT !.after = "same"]
    /\ Goto(IF failure.code \in {"mismatch", "auth"} THEN "escalate" ELSE "retry")
    /\ UNCHANGED <<durable, run, refs, step, fallback, report, history>>

\* Slip: a refused admission is asked for again instead of escalated.
RetryAgain ==
    /\ At("retry")
    /\ \/ /\ RetryLeft
          /\ counter' = [counter EXCEPT ![step] = @ + 1]
          /\ Goto("try")
       \/ ~RetryLeft /\ Goto("recover") /\ UNCHANGED counter
    /\ UNCHANGED <<record, branch, accepted, checkpoint, run, tree, memory, history>>

\* RecoveryCoordinator.admit: the durable counter pays before the call.
Retry ==
    /\ At("retry")
    /\ \/ /\ RetryLeft
          /\ counter' = [counter EXCEPT ![step] = @ + 1]
          /\ record' = Archived
          /\ Goto("try")
          /\ failure' = NoFailure
       \/ ~RetryLeft /\ Goto("escalate") /\ UNCHANGED <<counter, record, failure>>
    /\ UNCHANGED <<branch, accepted, checkpoint, run, tree, step, fallback, report,
                   history>>

\* Slip: the ladder does not end at its last rung.
MayEscalateAgain ==
    /\ failure.after = "same" /\ failure.code \notin Fatal \cup {"mismatch", "auth"}
    /\ counter[step] < Attempts - 1

\* The next executor of the frozen ladder, paid for by the same budget.
MayEscalate ==
    /\ failure.after = "same" /\ failure.code \notin Fatal \cup {"mismatch", "auth"}
    /\ fallback < FallbackIds /\ counter[step] < Attempts - 1

\* Slip: a fallback is not paid for.
EscalateFree ==
    /\ At("escalate") /\ MayEscalate
    /\ fallback' = fallback + 1
    /\ record' = Archived
    /\ failure' = NoFailure
    /\ Goto("try")
    /\ UNCHANGED <<counter, branch, accepted, checkpoint, run, tree, step, report, history>>

Escalate ==
    /\ At("escalate") /\ MayEscalate
    /\ counter' = [counter EXCEPT ![step] = @ + 1]
    /\ fallback' = fallback + 1
    /\ record' = Archived
    /\ failure' = NoFailure
    /\ Goto("try")
    /\ UNCHANGED <<branch, accepted, checkpoint, run, tree, step, report, history>>

\* v2_failed keeps the record of the attempt, or writes one.
RecordFailure == record' = [record EXCEPT ![step] = IF @ = "none" THEN "FAILED" ELSE @]

\* A fatal failure ends the run, a transient one parks it, an ordinary one
\* costs the step only.
GiveUp ==
    /\ At("escalate") /\ ~MayEscalate
    /\ \/ failure.code \in Fatal /\ Leave("FAILED", failure.code) /\ RecordFailure
       \/ failure.code \in Transient /\ Leave("WAIT_EXTERNAL", failure.code) /\ RecordFailure
       \/ failure.code \in Fixable /\ Goto("abandon") /\ UNCHANGED <<run, record, memory>>
    /\ UNCHANGED <<counter, branch, accepted, checkpoint, tree, history>>

\* _mark_failed_continue: the last green tree is proven, then the step settled.
Abandon ==
    /\ At("abandon")
    /\ \/ /\ refs \in {"own", "pushed"} /\ ~HoldsSecret
          /\ dirt' = RolledBack /\ Goto("settle") /\ UNCHANGED <<run, record, memory>>
       \/ /\ refs \in {"own", "pushed"} /\ HoldsSecret
          /\ Leave("FAILED", "secret") /\ RecordFailure /\ UNCHANGED dirt
       \/ Leave("FAILED", "rollback") /\ RecordFailure /\ UNCHANGED dirt
    /\ UNCHANGED <<counter, branch, accepted, checkpoint, refs, history>>

Settle ==
    /\ At("settle")
    /\ record' = [record EXCEPT ![step] = "FAILED_CONTINUED"]
    /\ NextStep
    /\ UNCHANGED <<counter, branch, accepted, checkpoint, run, tree, history>>

-----------------------------------------------------------------------------
(* The acceptance of a step: verification, commit gate, commit and record. *)

\* What the run branch and the references say a resume may start from.
Tip == Len(branch)
Adoptable ==
    /\ Tip = checkpoint.green + 1
    /\ branch[Tip].step = checkpoint.step
ResumeHolds ==
    /\ refs \in {"own", "worktree"}
    /\ checkpoint.green = Tip \/ Adoptable

\* project_exception: a fixable failure outside its ladder may be resumed
\* when the resume gate passes without touching the worktree.
Projected(code) == Leave(IF ResumeHolds THEN "WAIT_EXTERNAL" ELSE "FAILED", code)

\* step_verification: what the worker's report says of its own tests.
Verdicts == {"passed", "deferred", "failed"}

Verify ==
    /\ At("verify")
    /\ \E verdict \in Verdicts :
          IF verdict = "failed" THEN Projected("commit_gate")
          ELSE Goto("freeze") /\ UNCHANGED <<run, memory>>
    /\ UNCHANGED <<durable, tree, history>>

\* read_step_candidate refuses what write_step_candidate did not write.
Unproven == Leave("FAILED", "integrity")

\* step_candidate.json, written before the commit boundary is crossed; a resume
\* replays the step from its last commit, and archives it.
FreezeCandidate ==
    /\ At("freeze")
    /\ (Goto("commit") /\ UNCHANGED <<run, memory>>) \/ Unproven
    /\ UNCHANGED <<durable, tree, history>>

\* commit_safety_gate: the tree is still the judged one, then it is scanned.
\* Slip: the gate commits the tree it finds.
TrustTree == FALSE

GateObjects == "alien" \in dirt

Committed == Append(branch, [step |-> step, content |-> dirt])

Commit ==
    /\ At("commit") /\ ~GateObjects /\ ~HoldsSecret
    /\ branch' = Committed
    /\ dirt' = {}
    /\ Goto("finalize")
    /\ UNCHANGED <<counter, record, accepted, checkpoint, run, refs, memory, history>>

CommitRefused ==
    /\ At("commit")
    /\ \/ GateObjects /\ Projected("commit_gate")
       \/ ~GateObjects /\ HoldsSecret /\ Leave("FAILED", "secret")
    /\ UNCHANGED <<durable, tree, history>>

\* accepted_step_record: the commit, its parent and what it still defers.
AcceptedRecord == [record EXCEPT ![step] = "ACCEPTED"]

\* _finalize_accepted_step, as the files and then the state.
FinalizeFiles ==
    /\ At("finalize")
    /\ record' = AcceptedRecord
    /\ Goto("accept")
    /\ UNCHANGED <<counter, branch, accepted, checkpoint, run, tree, memory, history>>

FinalizeState ==
    /\ At("accept")
    /\ accepted' = accepted \cup {step}
    /\ NextStep
    /\ UNCHANGED <<counter, record, branch, checkpoint, run, tree, history>>

-----------------------------------------------------------------------------
(* Stops and resumes.                                                      *)

\* Ctrl-C: the worker's process group is killed, the run may be resumed.
Interrupt ==
    /\ pc # "off"
    /\ Leave("FAILED", "INTERRUPTED")
    /\ UNCHANGED <<durable, tree, history>>

\* A full disk, a Git error: an internal error that escapes every loop.
Escape ==
    /\ pc # "off"
    /\ Projected("INTERNAL_HARNESS_ERROR")
    /\ UNCHANGED <<durable, tree, history>>

Resumable == pc = "off" /\ \/ disposition = "WAIT_EXTERNAL"
                           \/ disposition = "FAILED" /\ reason = "INTERRUPTED"

\* _adopt_completed_commit: the commit of the step the checkpoint names.
Restored ==
    IF checkpoint.green = Tip THEN checkpoint
    ELSE [step |-> checkpoint.step + 1, green |-> Tip]

\* prepare_resume refuses a path the policy denies before it rewinds it away.
Resume ==
    /\ Resumable /\ resumes < MaxResumes
    /\ ResumeHolds /\ ~Denied
    /\ checkpoint' = Restored
    /\ dirt' = {}
    /\ disposition' = "RUNNING" /\ reason' = "none"
    /\ step' = Restored.step /\ Forget /\ Goto("boundary")
    /\ resumes' = resumes + 1
    /\ UNCHANGED <<counter, record, branch, accepted, refs, calls, intruded>>

ResumeRefused ==
    /\ Resumable /\ ~(ResumeHolds /\ ~Denied)
    /\ disposition' = "FAILED"
    /\ reason' = IF ResumeHolds THEN "denied" ELSE "integrity"
    /\ UNCHANGED <<durable, tree, pc, memory, history>>

\* Somebody edits the worktree; during a call it would pass for the worker's.
Intrude ==
    /\ ~intruded /\ pc # "judge"
    /\ dirt' = dirt \cup {"alien"}
    /\ intruded' = TRUE
    /\ UNCHANGED <<durable, run, refs, pc, memory, calls, resumes>>

Rest == pc = "off" /\ UNCHANGED vars

-----------------------------------------------------------------------------

Drive ==
    \/ Boundary \/ SkipDependent \/ StartStep
    \/ OutOfTime \/ Drift \/ CallWorker
    \/ JudgeForeign \/ TakeGitBack \/ JudgeMismatch \/ JudgeWorktree
    \/ JudgeExit \/ JudgeTree \/ PassGate \/ Regress
    \/ NotRecoverable \/ Unprovable \/ AbortRefused \/ Abort \/ Retry
    \/ Escalate \/ GiveUp \/ Abandon \/ Settle
    \/ Verify \/ FreezeCandidate \/ Commit \/ CommitRefused \/ FinalizeFiles \/ FinalizeState

Next == Drive \/ Interrupt \/ Escape \/ Resume \/ ResumeRefused \/ Intrude \/ Rest

Spec == Init /\ [][Next]_vars

\* The driver is one thread, and every worker and check has a timeout.
FairSpec == Spec /\ WF_vars(Drive)

-----------------------------------------------------------------------------
(* Properties.                                                             *)

Operations == { "off", "boundary", "start", "try", "judge", "gate", "recover", "retry",
                "escalate", "abandon", "settle", "verify", "freeze", "commit", "finalize", "accept" }
Codes    == Fatal \cup Transient \cup Fixable
Failures == [ code : Codes \cup {"none"}, after : {"same", "changed", "unknown"},
              status : {"known", "lost"} ]
Records  == Settled \cup {"none", "FAILED", "COMPLETED", "ACCEPTED"}
Commits  == [step : StepIds, content : SUBSET Kinds]

\* Every durable file and every local has its shape.
TypeOK ==
    /\ counter \in [StepIds -> Nat]
    /\ record \in [StepIds -> Records]
    /\ branch \in Seq(Commits)
    /\ accepted \subseteq StepIds
    /\ checkpoint \in [step : 1 .. Steps + 1, green : Nat]
    /\ disposition \in {"RUNNING", "FAILED", "WAIT_EXTERNAL", "COMPLETED"}
    /\ reason \in Codes \cup {"none", "gate", "PARTIAL", "INTERRUPTED", "INTERNAL_HARNESS_ERROR"}
    /\ dirt \subseteq Kinds /\ refs \in Owners
    /\ pc \in Operations /\ step \in 1 .. Steps + 1 /\ fallback \in 0 .. FallbackIds
    /\ report \in Reports /\ failure \in Failures
    /\ calls \in [StepIds -> Nat] /\ resumes \in 0 .. MaxResumes
    /\ intruded \in BOOLEAN

\* A step costs at most budget.step_attempts worker calls, and one more for
\* every resume that enters it again: retries and fallbacks are paid for by a
\* durable counter no resume restarts (_execute_step_attempts, admit).
CallsBounded == \A s \in StepIds : calls[s] <= Attempts + resumes

\* Without a resume, a step is given up for a retryable failure only after
\* every configured fallback was called: the ladder keeps one attempt for each
\* (_execute_step_attempts: "a configured escalation is always reachable").
EscalationReached ==
    /\ At("escalate") /\ ~MayEscalate /\ resumes = 0
    /\ failure.after = "same" /\ failure.code \notin Fatal \cup {"mismatch", "auth"}
    => fallback = FallbackIds

\* Every accepted commit holds admitted work and no secret, of a step later
\* than the commits below it: no retry, takeover or resume commits a step
\* twice, what the scope policy refused, or an edit slipped in between the
\* judgement and the commit (run_attempt, commit_safety_gate).
CommitsAreClean ==
    \A i \in 1 .. Len(branch) :
        /\ branch[i].content # {}
        /\ branch[i].content \subseteq (IF Strict THEN {"in"} ELSE {"in", "out"})
        /\ \A j \in 1 .. i - 1 : branch[j].step < branch[i].step

\* Whatever path led there, a worker is called on the exact tree of its
\* parent: no leftover of a failed attempt, an abandoned step or an
\* interrupted call reaches it, and the fatal drift check of run_attempt only
\* ever fires on an edit made outside the run.
CallsStartClean == pc \in {"boundary", "start", "try"} => dirt \subseteq {"alien"}

\* A step is committed only above the commit of the step it depends on, and
\* never together with a record that settled it without one
\* (execute_cycle_step, the transitive chain of DEPENDS_ON).
DependenciesHold ==
    \A i \in 1 .. Len(branch) : LET d == DependsOn[branch[i].step] IN
        /\ d # 0 => \E j \in 1 .. i - 1 : branch[j].step = d
        /\ record[branch[i].step] \notin Settled

\* _finalize_accepted_step, "Record one committed step durably; idempotent
\* across a resume": between two steps every commit of the branch is among the
\* accepted steps the publication reads its deferred verifications from.
CommitsAreRecorded ==
    At("boundary") =>
        \A i \in 1 .. Len(branch) : branch[i].step \in accepted

\* The driver always reaches an end of its own: the ladder of every step is
\* finite, and so is the plan.
DriverLeaves == pc # "off" ~> pc = "off"

=============================================================================
