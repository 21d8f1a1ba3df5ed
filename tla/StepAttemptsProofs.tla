-------------------------- MODULE StepAttemptsProofs --------------------------
(***************************************************************************)
(* Proofs about StepAttempts, for any plan, budget, ladder of fallbacks,   *)
(* scope mode and number of resumes, and any worker.  Each part of Inv has *)
(* a lemma that the actions preserve it; the actions that do not touch the *)
(* part are gathered in a lemma of their own (the ...Quiet lemmas).        *)
(***************************************************************************)
EXTENDS StepAttempts, TLAPS

\* The driver's step is a step of the plan, except at the boundaries.
InPlan == pc \notin {"off", "boundary"} => step \in StepIds

\* Step s is still to be entered by this driver, or entered and not called.
Entering(s) ==
    /\ pc # "off"
    /\ step < s \/ (step = s /\ pc \in {"boundary", "start", "try"})

\* Every call but the first of each driver is paid for before it is made.
Paid == \A s \in StepIds :
    /\ counter[s] <= Attempts - 1
    /\ calls[s] <= counter[s] + 1 + resumes
    /\ Entering(s) => calls[s] <= counter[s] + resumes

\* While no resume has entered a step twice, the counter of the step leaves an
\* attempt for every fallback not used yet, and later counters are at zero.
Reserved ==
    resumes = 0 /\ pc # "off" =>
        \A s \in StepIds :
            /\ step < s => counter[s] = 0
            /\ step = s /\ pc \in {"boundary", "start"} => counter[s] = 0 /\ fallback = 0
            /\ step = s => counter[s] + (FallbackIds - fallback) <= Attempts - 1

\* Where a call may follow without a rollback, nothing of the run is left in
\* the worktree; a failure proven to be rolled back has left nothing either.
Clean ==
    /\ pc \in { "boundary", "start", "try", "retry", "settle", "finalize", "accept" } =>
          dirt \subseteq {"alien"}
    /\ pc \in {"recover", "escalate"} /\ failure.after = "same" => dirt \subseteq {"alien"}

Admitted == IF Strict THEN {"in"} ELSE {"in", "out"}

\* What a worker left is its own; what was judged is admitted, up to a secret
\* the commit gate will find and an edit it will refuse.
Judged ==
    /\ pc = "judge" => "alien" \notin dirt
    /\ pc \in {"gate", "verify", "freeze", "commit"} =>
          /\ dirt \ {"alien"} # {}
          /\ dirt \ {"alien", "secret"} \subseteq Admitted

Finalizing == {"finalize", "accept"}

\* The first n commits are of steps before s.
Before(n, s) == \A i \in 1 .. n : branch[i].step < s

\* The checkpoint names the step that is being run, above the commits of the
\* steps before it; the branch is where it left it, or one commit of this step
\* ahead.
Fits ==
    /\ checkpoint.green <= Tip /\ Tip <= checkpoint.green + 1
    /\ Before(checkpoint.green, checkpoint.step)
    /\ Tip = checkpoint.green + 1 => branch[Tip].step = checkpoint.step
    /\ pc \notin {"off", "boundary"} => step = checkpoint.step
    /\ pc \in Finalizing => Tip = checkpoint.green + 1
    /\ pc \notin {"off", "boundary"} \cup Finalizing => Tip = checkpoint.green
    /\ pc = "boundary" => Before(Tip, step)

CommittedAt(e) == \E j \in 1 .. Tip : branch[j].step = e

Done(e) == record[e] \in Settled \/ CommittedAt(e)

\* Every step the run is past is settled or committed, and a step that is being
\* worked on is not settled and has what it depends on committed.
Pasts ==
    /\ \A e \in StepIds : e < checkpoint.step => Done(e)
    /\ pc = "boundary" => \A e \in StepIds : e < step => Done(e)
    /\ pc \notin {"off", "boundary", "start"} =>
          /\ record[step] \notin Settled
          /\ DependsOn[step] # 0 => CommittedAt(DependsOn[step])

\* The inductive invariant.
Inv ==
    /\ TypeOK /\ InPlan /\ Paid /\ Reserved /\ Clean
    /\ Judged /\ Fits /\ Pasts /\ CommitsAreClean /\ DependenciesHold

-----------------------------------------------------------------------------

\* What the literals of the actions are.
LEMMA Shapes ==
    /\ Fatal \cup Transient \cup Fixable \subseteq Codes
    /\ {"drift", "foreign", "denied", "secret", "rollback", "operator", "integrity"} = Fatal
    /\ {"timeout", "runtime", "auth"} = Transient
    /\ {"scope", "git", "mismatch", "gate", "commit_gate"} = Fixable
    /\ {"none", "FAILED", "COMPLETED", "ACCEPTED"} \cup {"FAILED_CONTINUED", "SKIPPED_DEPENDENCY"}
          \subseteq Records
    /\ "ok" \in Reports /\ "own" \in Owners
    /\ TreeNow \in {"same", "changed"}
BY DEF Codes, Fatal, Transient, Fixable, Records, Settled, Reports, Owners, TreeNow

\* Failures are built from a code, a tree and a status.
LEMMA FailureShape ==
    /\ NoFailure \in Failures
    /\ \A c \in Codes, a \in {"same", "changed", "unknown"}, s \in {"known", "lost"} :
          Failure(c, a, s) \in Failures
    /\ \A f \in Failures : /\ [f EXCEPT !.after = "same"] \in Failures
                            /\ [f EXCEPT !.code = "operator"] \in Failures
                            /\ f.code \in Codes \cup {"none"}
                            /\ f.after \in {"same", "changed", "unknown"}
                            /\ f.status \in {"known", "lost"}
BY DEF Failures, Failure, NoFailure, Codes, Fatal, Transient, Fixable

\* What the assumptions say of the numbers the proofs use.
LEMMA Ranges ==
    /\ 1 \in 1 .. Steps + 1
    /\ Steps \in Nat
    /\ Attempts \in Nat \ {0}
    /\ MaxResumes \in Nat
    /\ \A s \in StepIds : s \in Nat /\ s \in 1 .. Steps + 1 /\ s + 1 \in 1 .. Steps + 1
    /\ 0 \in 0 .. FallbackIds /\ FallbackIds \in Nat /\ FallbackIds <= Attempts - 1
    /\ \A c \in Contents : c \subseteq Kinds /\ "alien" \notin c
    /\ CallCap \in Nat
BY PlanAssumption, BudgetAssumption, BoundAssumption, ContentAssumption DEF
   StepIds, FallbackIds, CallCap

\* Every step keeps the shapes, and the driver's step in the plan.
LEMMA TypeStep ==
    ASSUME TypeOK, InPlan, Next
    PROVE  TypeOK' /\ InPlan'
<1> USE DEF At, Goto, durable, run, tree, memory, history
<1>1. CASE Boundary
  <2>1. Len(branch) \in Nat /\ (step \in 1 .. Steps + 1)
    BY DEF TypeOK
  <2>2. checkpoint' \in [step : 1 .. Steps + 1, green : Nat]
    BY <1>1, <2>1 DEF Boundary
  <2> QED
    BY <1>1, <2>2, Shapes, FailureShape, Ranges DEF Boundary, Leave, Forget, TypeOK,
       InPlan, Operations
<1>2. CASE SkipDependent
  BY <1>2, Shapes, FailureShape, Ranges DEF SkipDependent, DependencySettled,
      NextStep, Forget, TypeOK, InPlan, Operations
<1>3. CASE StartStep
  BY <1>3, Shapes, FailureShape, Ranges DEF StartStep, DependencySettled,
      Archived, TypeOK, InPlan, Operations
<1>4. CASE OutOfTime
  BY <1>4, Shapes, FailureShape, Ranges DEF OutOfTime, Leave, Forget, TypeOK,
      InPlan, Operations
<1>5. CASE Drift
  BY <1>5, Shapes, FailureShape, Ranges DEF Drift, Refused, TypeOK, InPlan,
      Operations
<1>6. CASE CallWorker
  <2>1. dirt' \subseteq Kinds /\ refs' \in Owners /\ report' \in Reports
    BY <1>6, Ranges DEF CallWorker, TypeOK
  <2>2. step \in StepIds /\ calls' \in [StepIds -> Nat]
    BY <1>6 DEF CallWorker, InPlan, TypeOK
  <2>3. /\ pc' = "judge"
        /\ UNCHANGED <<durable, run, step, fallback, failure, resumes, intruded>>
    BY <1>6 DEF CallWorker
  <2> QED  BY <2>1, <2>2, <2>3 DEF TypeOK, InPlan, Operations
<1>7. CASE JudgeForeign
  BY <1>7, Shapes, FailureShape, Ranges DEF JudgeForeign, Foreign, Refused,
      TypeOK, InPlan, Operations
<1>8. CASE TakeGitBack
  <2>1. refs' \in Owners /\ failure' \in Failures /\ report' \in Reports
    BY <1>8, Shapes, FailureShape DEF TakeGitBack, TakenBack, Refused, TypeOK
  <2>2. /\ pc' \in {pc, "recover"} /\ step \in StepIds
        /\ UNCHANGED <<durable, run, dirt, step, fallback, history>>
    BY <1>8 DEF TakeGitBack, Refused, InPlan
  <2> QED  BY <2>1, <2>2 DEF TypeOK, InPlan, Operations
<1>9. CASE JudgeMismatch
  <2>1. failure' \in Failures
    BY <1>9, Shapes, FailureShape DEF JudgeMismatch, Refused, TypeOK
  <2>2. record' \in [StepIds -> Records]
    BY <1>9, Shapes DEF JudgeMismatch, TypeOK
  <2> QED
    BY <1>9, <2>1, <2>2, Shapes DEF JudgeMismatch, Refused, TypeOK, InPlan,
       Operations
<1>10. CASE JudgeWorktree
  BY <1>10, Shapes, FailureShape, Ranges DEF JudgeWorktree, Refused, TypeOK,
      InPlan, Operations
<1>11. CASE JudgeExit
  <2>1. ExitCode[report] \in Codes
    BY <1>11, Shapes DEF JudgeExit, ExitCode
  <2>2. failure' \in Failures
    BY <1>11, <2>1, Shapes, FailureShape DEF JudgeExit, Refused
  <2> QED
    BY <1>11, <2>2, Shapes DEF JudgeExit, Refused, TypeOK, InPlan, Operations
<1>12. CASE JudgeTree
  <2>1. failure' \in Failures /\ report' \in Reports /\ pc' \in Operations
    BY <1>12, Shapes, FailureShape DEF JudgeTree, Refused, TypeOK, Operations
  <2>2. record' \in [StepIds -> Records]
    BY <1>12, Shapes DEF JudgeTree, TypeOK
  <2>3. dirt' \subseteq Kinds
    BY <1>12 DEF JudgeTree, TypeOK, Kept
  <2>4. UNCHANGED <<counter, branch, accepted, checkpoint, disposition, reason, refs,
                    step, fallback, calls, resumes, intruded>>
    BY <1>12 DEF JudgeTree, Refused
  <2>5. step \in StepIds
    BY <1>12 DEF JudgeTree, InPlan
  <2> QED
    BY <2>1, <2>2, <2>3, <2>4, <2>5 DEF TypeOK, InPlan
<1>13. CASE PassGate
  BY <1>13, Shapes, FailureShape, Ranges DEF PassGate, TypeOK, InPlan,
      Operations
<1>14. CASE Regress
  BY <1>14, Shapes, FailureShape, Ranges DEF Regress, Refused, TypeOK, InPlan,
      Operations
<1>15. CASE NotRecoverable
  BY <1>15, Shapes, FailureShape, Ranges DEF NotRecoverable, Unchanged,
      TypeOK, InPlan, Operations
<1>16. CASE Unprovable
  BY <1>16, Shapes, FailureShape, Ranges DEF Unprovable, Unchanged, TypeOK,
      InPlan, Operations
<1>17. CASE AbortRefused
  <2>1. \A c \in Objections : c \in Codes
    BY Shapes DEF Objections
  <2>2. /\ failure'.code \in Codes
        /\ failure' = [code |-> failure'.code, after |-> TreeNow, status |-> failure.status]
    BY <1>17, <2>1, Shapes DEF AbortRefused, Failure
  <2>3. failure.status \in {"known", "lost"}
    BY FailureShape DEF TypeOK
  <2>4. failure' \in Failures
    BY <2>2, <2>3, Shapes DEF Failures
  <2> QED
    BY <1>17, <2>4 DEF AbortRefused, Provable, Unchanged, TypeOK, InPlan, Operations
<1>18. CASE Abort
  BY <1>18, Shapes, FailureShape, Ranges DEF Abort, Provable, Objections,
      RolledBack, Declared, HoldsSecret, TypeOK, InPlan, Operations
<1>19. CASE Retry
  <2>1. step \in StepIds
    BY <1>19 DEF Retry, InPlan
  <2>2. record' \in [StepIds -> Records] /\ counter' \in [StepIds -> Nat]
    <3>1. counter[step] + 1 \in Nat
      BY <2>1 DEF TypeOK
    <3>2. record' \in [StepIds -> Records]
      BY <1>19, Shapes DEF Retry, Archived, TypeOK
    <3>3. counter' \in [StepIds -> Nat]
      BY <1>19, <3>1 DEF Retry, TypeOK
    <3> QED  BY <3>2, <3>3
  <2> QED
    BY <1>19, <2>1, <2>2, FailureShape DEF Retry, TypeOK, InPlan, Operations
<1>20. CASE Escalate
  <2>1. step \in StepIds
    BY <1>20 DEF Escalate, InPlan
  <2>2. record' \in [StepIds -> Records] /\ counter' \in [StepIds -> Nat]
    BY <1>20, <2>1, Shapes DEF Escalate, Archived, TypeOK
  <2>3. fallback' \in 0 .. FallbackIds
    BY <1>20, Ranges DEF Escalate, MayEscalate, TypeOK
  <2> QED
    BY <1>20, <2>1, <2>2, <2>3, FailureShape DEF Escalate, TypeOK, InPlan,
       Operations
<1>21. CASE GiveUp
  <2>1. step \in StepIds /\ failure \in Failures
    BY <1>21 DEF GiveUp, InPlan, TypeOK
  <2>2. record' \in [StepIds -> Records]
    BY <1>21, <2>1, Shapes DEF GiveUp, RecordFailure, TypeOK
  <2>3. CASE failure.code \in Fatal /\ Leave("FAILED", failure.code)
    BY <1>21, <2>2, <2>3, Shapes, FailureShape, Ranges DEF GiveUp, Leave,
       Forget, TypeOK, InPlan, Operations
  <2>4. CASE failure.code \in Transient /\ Leave("WAIT_EXTERNAL", failure.code)
    BY <1>21, <2>2, <2>4, Shapes, FailureShape, Ranges DEF GiveUp, Leave,
       Forget, TypeOK, InPlan, Operations
  <2>5. CASE Goto("abandon") /\ UNCHANGED <<run, record, memory>>
    BY <1>21, <2>1, <2>2, <2>5 DEF GiveUp, TypeOK, InPlan, Operations
  <2> QED  BY <1>21, <2>3, <2>4, <2>5 DEF GiveUp
<1>22. CASE Abandon
  <2>1. step \in StepIds
    BY <1>22 DEF Abandon, InPlan
  <2>2. record' \in [StepIds -> Records] /\ dirt' \subseteq Kinds
    BY <1>22, <2>1, Shapes DEF Abandon, RecordFailure, RolledBack, TypeOK
  <2>3. CASE Goto("settle") /\ UNCHANGED <<run, record, memory>>
    BY <1>22, <2>1, <2>2, <2>3 DEF Abandon, TypeOK, InPlan, Operations
  <2>4. CASE Leave("FAILED", "secret") \/ Leave("FAILED", "rollback")
    BY <1>22, <2>2, <2>4, Shapes, FailureShape, Ranges DEF Abandon, Leave,
       Forget, TypeOK, InPlan, Operations
  <2> QED  BY <1>22, <2>3, <2>4 DEF Abandon
<1>23. CASE Settle
  BY <1>23, Shapes, FailureShape, Ranges DEF Settle, NextStep, Forget, TypeOK,
      InPlan, Operations
<1>24. CASE Verify
  BY <1>24, Shapes, FailureShape, Ranges DEF Verify, Verdicts, Projected,
      Leave, ResumeHolds, Forget, Tip, Adoptable, TypeOK, InPlan, Operations
<1>25. CASE FreezeCandidate
  BY <1>25, Shapes, FailureShape, Ranges DEF FreezeCandidate, Unproven, Leave,
      Forget, TypeOK, InPlan, Operations
<1>26. CASE Commit
  <2>1. step \in StepIds
    BY <1>26 DEF Commit, InPlan
  <2>2. [step |-> step, content |-> dirt] \in Commits
    BY <2>1 DEF Commits, TypeOK
  <2>3. branch' \in Seq(Commits)
    BY <1>26, <2>2 DEF Commit, Committed, TypeOK
  <2> QED
    BY <1>26, <2>1, <2>3 DEF Commit, TypeOK, InPlan, Operations
<1>27. CASE CommitRefused
  BY <1>27, Shapes, FailureShape, Ranges DEF CommitRefused, GateObjects,
      Projected, HoldsSecret, Leave, ResumeHolds, Forget, Tip, Adoptable,
      TypeOK, InPlan, Operations
<1>28. CASE FinalizeFiles
  BY <1>28, Shapes, FailureShape, Ranges DEF FinalizeFiles, AcceptedRecord,
      TypeOK, InPlan, Operations
<1>29. CASE FinalizeState
  BY <1>29, Shapes, FailureShape, Ranges DEF FinalizeState, NextStep, Forget,
      TypeOK, InPlan, Operations
<1>30. CASE Interrupt
  BY <1>30, Shapes, FailureShape, Ranges DEF Interrupt, Leave, Forget, TypeOK,
      InPlan, Operations
<1>31. CASE Escape
  BY <1>31, Shapes, FailureShape, Ranges DEF Escape, Projected, Leave,
      ResumeHolds, Forget, Tip, Adoptable, TypeOK, InPlan, Operations
<1>32. CASE Resume
  <2>1. Restored \in [step : 1 .. Steps + 1, green : Nat]
    <3>1. CASE checkpoint.green = Tip
      BY <3>1 DEF Restored, TypeOK
    <3>2. CASE checkpoint.green # Tip
      <4>1. /\ Tip \in 1 .. Len(branch)
            /\ Tip \in Nat
            /\ branch[Tip].step = checkpoint.step
        BY <1>32, <3>2 DEF Resume, ResumeHolds, Adoptable, Tip, TypeOK
      <4>2. branch[Tip] \in Commits
        BY <4>1 DEF TypeOK
      <4>3. checkpoint.step + 1 \in 1 .. Steps + 1
        BY <4>1, <4>2, Ranges DEF Commits
      <4> QED  BY <3>2, <4>1, <4>3 DEF Restored
    <3> QED  BY <3>1, <3>2
  <2>2. resumes' \in 0 .. MaxResumes
    BY <1>32, Ranges DEF Resume, TypeOK
  <2>3. /\ step' \in 1 .. Steps + 1
        /\ checkpoint' \in [step : 1 .. Steps + 1, green : Nat]
    BY <1>32, <2>1 DEF Resume
  <2> QED
    BY <1>32, <2>2, <2>3, Shapes, FailureShape, Ranges DEF Resume, Forget,
       TypeOK, InPlan, Operations
<1>33. CASE ResumeRefused
  BY <1>33, Shapes, FailureShape, Ranges DEF ResumeRefused, Resumable,
      ResumeHolds, Denied, Tip, Adoptable, TypeOK, InPlan, Operations
<1>34. CASE Intrude
  <2>1. dirt' \subseteq Kinds
    BY <1>34 DEF Intrude, TypeOK, Kinds
  <2> QED
    BY <1>34, <2>1 DEF Intrude, TypeOK, InPlan
<1>35. CASE Rest
  BY <1>35, Shapes, FailureShape, Ranges DEF Rest, vars, TypeOK, InPlan,
      Operations
<1> QED  BY <1>1, <1>2, <1>3, <1>4, <1>5, <1>6, <1>7, <1>8, <1>9, <1>10,
      <1>11, <1>12, <1>13, <1>14, <1>15, <1>16, <1>17, <1>18, <1>19, <1>20,
      <1>21, <1>22, <1>23, <1>24, <1>25, <1>26, <1>27, <1>28, <1>29, <1>30,
      <1>31, <1>32, <1>33, <1>34, <1>35 DEF Next, Drive

-----------------------------------------------------------------------------
(* The budget of a step.                                                   *)

\* Only a call, a payment and a resume touch the budget; no other step enters
\* a step of the plan that was left.
LEMMA PaidQuiet ==
    ASSUME TypeOK, InPlan, Next, ~CallWorker, ~Retry, ~Escalate, ~Resume
    PROVE  /\ UNCHANGED <<counter, calls, resumes>>
           /\ \A s \in StepIds : Entering(s)' => Entering(s)
<1> USE DEF At, Goto, durable, run, tree, memory, history
<1>1. CASE Boundary \/ SkipDependent \/ StartStep \/ OutOfTime \/ Drift
  BY <1>1 DEF Boundary, Leave, Forget, SkipDependent, NextStep, StartStep,
      OutOfTime, Drift, Refused, Entering, TypeOK, StepIds, vars
<1>2. CASE JudgeForeign \/ TakeGitBack \/ JudgeMismatch \/ JudgeWorktree \/
         JudgeExit \/ JudgeTree
  BY <1>2 DEF JudgeForeign, Refused, TakeGitBack, JudgeMismatch, GitSettled,
      JudgeWorktree, JudgeExit, JudgeTree, Entering, TypeOK, StepIds, vars
<1>3. CASE PassGate \/ Regress \/ NotRecoverable \/ Unprovable \/
         AbortRefused \/ Abort
  BY <1>3 DEF PassGate, Regress, Refused, NotRecoverable, Unchanged,
      Unprovable, AbortRefused, Provable, Abort, Entering, TypeOK, StepIds,
      vars
<1>4. CASE GiveUp \/ Abandon \/ Settle
  BY <1>4 DEF GiveUp, Leave, Forget, Abandon, Settle, NextStep, Entering,
      TypeOK, StepIds, vars
<1>5. CASE Verify \/ FreezeCandidate \/ Commit \/ CommitRefused \/
         FinalizeFiles \/ FinalizeState
  BY <1>5 DEF Verify, Projected, Leave, Forget, FreezeCandidate, Unproven,
      Commit, CommitRefused, FinalizeFiles, FinalizeState, NextStep, Entering,
      TypeOK, StepIds, vars
<1>6. CASE Interrupt \/ Escape \/ ResumeRefused \/ Intrude \/ Rest
  BY <1>6 DEF Interrupt, Leave, Forget, Escape, Projected, ResumeRefused,
      Intrude, Rest, Entering, TypeOK, StepIds, vars
<1> QED  BY <1>1, <1>2, <1>3, <1>4, <1>5, <1>6 DEF Next, Drive

\* A payment makes room for one more call.
LEMMA PaidTry ==
    ASSUME TypeOK, Paid, step \in StepIds, counter[step] < Attempts - 1,
           pc \in {"retry", "escalate"}, pc' = "try",
           counter' = [counter EXCEPT ![step] = @ + 1],
           UNCHANGED <<step, calls, resumes>>
    PROVE  Paid'
<1> SUFFICES ASSUME NEW s \in StepIds
             PROVE  /\ counter'[s] <= Attempts - 1
                    /\ calls[s] <= counter'[s] + 1 + resumes
                    /\ Entering(s)' => calls[s] <= counter'[s] + resumes
  BY DEF Paid
<1>1. /\ counter[s] <= Attempts - 1
      /\ calls[s] <= counter[s] + 1 + resumes
      /\ Entering(s) => calls[s] <= counter[s] + resumes
  BY DEF Paid
<1>2. counter[s] \in Nat /\ calls[s] \in Nat /\ resumes \in Nat /\ Attempts \in Nat
  BY Ranges DEF TypeOK
<1>3. CASE s = step
  <2>1. counter'[s] = counter[s] + 1
    BY <1>3 DEF TypeOK
  <2> QED  BY <1>1, <1>2, <1>3, <2>1
<1>4. CASE s # step
  <2>1. counter'[s] = counter[s]
    BY <1>4 DEF TypeOK
  <2>2. Entering(s)' => Entering(s)
    BY <1>4 DEF Entering
  <2> QED  BY <1>1, <2>1, <2>2
<1> QED  BY <1>3, <1>4

\* Every step keeps the calls paid.
LEMMA PaidStep ==
    ASSUME TypeOK, InPlan, Paid, Next
    PROVE  Paid'
<1> USE DEF At, Goto, durable, run, tree, memory, history
<1>1. CASE ~CallWorker /\ ~Retry /\ ~Escalate /\ ~Resume
  BY <1>1, PaidQuiet DEF Paid
<1>2. CASE CallWorker
  BY <1>2 DEF CallWorker, Paid, Entering, TypeOK, InPlan, StepIds
<1>3. CASE Retry
  <2>1. CASE RetryLeft
    <3>1. counter[step] < Attempts - 1
      BY <1>3, <2>1, Ranges DEF Retry, RetryLeft, TypeOK, InPlan
    <3> QED  BY <1>3, <2>1, <3>1, PaidTry DEF Retry, InPlan
  <2>2. CASE ~RetryLeft
    BY <1>3, <2>2 DEF Retry, Paid, Entering
  <2> QED  BY <2>1, <2>2
<1>4. CASE Escalate
  BY <1>4, PaidTry DEF Escalate, MayEscalate, InPlan
<1>5. CASE Resume
  BY <1>5 DEF Resume, Paid, Entering, TypeOK, StepIds
<1> QED  BY <1>1, <1>2, <1>3, <1>4, <1>5

\* Only a resume starts a driver.
LEMMA PcOff ==
    ASSUME Next, ~Resume, pc = "off"
    PROVE  pc' = "off"
BY DEF At, Goto, memory, Next, Interrupt, Escape, ResumeRefused, Intrude, Rest,
   Drive, Boundary, SkipDependent, StartStep, OutOfTime, Drift, CallWorker,
   JudgeForeign, TakeGitBack, JudgeMismatch, JudgeWorktree, JudgeExit,
   JudgeTree, PassGate, Regress, NotRecoverable, Unprovable, AbortRefused,
   Abort, Retry, Escalate, GiveUp, Abandon, Settle, Verify, FreezeCandidate,
   Commit, CommitRefused, FinalizeFiles, FinalizeState, CallCap, GitSettled,
   Unchanged, Provable, Unproven, vars

\* The counters, the step and the rung move by a payment, the end of a step
\* and a resume only.
LEMMA LadderQuiet ==
    ASSUME TypeOK, Next, ~SkipDependent, ~Settle, ~FinalizeState, ~Retry, ~Escalate, ~Resume
    PROVE  \/ pc' = "off"
           \/ /\ UNCHANGED <<counter, step, fallback, resumes>>
              /\ pc' \in {"boundary", "start"} => pc \in {"boundary", "start"}
<1> USE DEF At, Goto, durable, run, tree, memory, history
<1>1. CASE Boundary \/ StartStep \/ OutOfTime \/ Drift
  BY <1>1 DEF Boundary, Leave, Forget, StartStep, OutOfTime, Drift, Refused,
      TypeOK, vars
<1>2. CASE JudgeForeign \/ TakeGitBack \/ JudgeMismatch \/ JudgeWorktree \/
         JudgeExit \/ JudgeTree \/ CallWorker
  BY <1>2 DEF JudgeForeign, Refused, TakeGitBack, JudgeMismatch, GitSettled,
      JudgeWorktree, JudgeExit, JudgeTree, CallWorker, CallCap, TypeOK, vars
<1>3. CASE PassGate \/ Regress \/ NotRecoverable \/ Unprovable \/
         AbortRefused \/ Abort
  BY <1>3 DEF PassGate, Regress, Refused, NotRecoverable, Unchanged,
      Unprovable, AbortRefused, Provable, Abort, TypeOK, vars
<1>4. CASE GiveUp \/ Abandon
  BY <1>4 DEF GiveUp, Leave, Forget, Abandon, TypeOK, vars
<1>5. CASE Verify \/ FreezeCandidate \/ Commit \/ CommitRefused \/ FinalizeFiles
  BY <1>5 DEF Verify, Projected, Leave, Forget, FreezeCandidate, Unproven,
      Commit, CommitRefused, FinalizeFiles, TypeOK, vars
<1>6. CASE Interrupt \/ Escape \/ ResumeRefused \/ Intrude \/ Rest
  BY <1>6 DEF Interrupt, Leave, Forget, Escape, Projected, ResumeRefused,
      Intrude, Rest, TypeOK, vars
<1> QED  BY <1>1, <1>2, <1>3, <1>4, <1>5, <1>6 DEF Next, Drive

\* Every step keeps the attempts of the fallbacks.
LEMMA ReservedStep ==
    ASSUME TypeOK, InPlan, Reserved, Next
    PROVE  Reserved'
<1> USE DEF At, Goto, durable, run, tree, memory, history
<1> SUFFICES ASSUME resumes' = 0, pc' # "off", NEW s \in StepIds
             PROVE  /\ step' < s => counter'[s] = 0
                    /\ step' = s /\ pc' \in {"boundary", "start"} => counter'[s] = 0 /\ fallback' = 0
                    /\ step' = s => counter'[s] + (FallbackIds - fallback') <= Attempts - 1
  BY DEF Reserved
<1>1. /\ step \in Nat
      /\ s \in Nat
      /\ s <= Steps
      /\ counter[s] \in Nat
      /\ fallback \in Nat
      /\ fallback <= FallbackIds
      /\ FallbackIds \in Nat /\ Attempts \in Nat /\ FallbackIds <= Attempts - 1
  BY Ranges DEF TypeOK, StepIds
<1>2. CASE SkipDependent \/ Settle \/ FinalizeState
  <2>1. /\ step' = step + 1 /\ fallback' = 0 /\ UNCHANGED <<counter, resumes>>
        /\ pc # "off"
    BY <1>2 DEF SkipDependent, Settle, FinalizeState, NextStep, Forget
  <2>2. step < s => counter[s] = 0
    BY <2>1 DEF Reserved
  <2> QED  BY <1>1, <2>1, <2>2
<1>3. CASE Retry
  <2>1. /\ step \in StepIds
        /\ resumes = 0
        /\ UNCHANGED <<step, fallback>>
        /\ pc' \notin {"boundary", "start"}
        /\ ((RetryLeft /\ counter' = [counter EXCEPT ![step] = @ + 1]) \/ UNCHANGED counter)
    BY <1>3 DEF Retry, InPlan
  <2>2. /\ step < s => counter[s] = 0
        /\ step = s => counter[s] + (FallbackIds - fallback) <= Attempts - 1
    BY <1>3, <2>1 DEF Retry, Reserved
  <2>3. step # s => counter'[s] = counter[s]
    BY <2>1 DEF TypeOK
  <2>4. step = s => \/ counter'[s] = counter[s]
                    \/ counter'[s] = counter[s] + 1 /\ counter[s] + (FallbackIds - fallback) < Attempts - 1
    BY <2>1 DEF TypeOK, RetryLeft
  <2> QED  BY <1>1, <2>1, <2>2, <2>3, <2>4
<1>4. CASE Escalate
  <2>1. /\ step \in StepIds /\ resumes = 0 /\ UNCHANGED step /\ pc' = "try"
        /\ fallback' = fallback + 1 /\ counter' = [counter EXCEPT ![step] = @ + 1]
    BY <1>4 DEF Escalate, InPlan
  <2>2. /\ step < s => counter[s] = 0
        /\ step = s => counter[s] + (FallbackIds - fallback) <= Attempts - 1
    BY <1>4, <2>1 DEF Escalate, Reserved
  <2>3. counter'[s] = IF step = s THEN counter[s] + 1 ELSE counter[s]
    BY <2>1 DEF TypeOK
  <2> QED  BY <1>1, <2>1, <2>2, <2>3
<1>5. CASE Resume
  BY <1>5 DEF Resume, TypeOK
<1>6. CASE ~SkipDependent /\ ~Settle /\ ~FinalizeState /\ ~Retry /\ ~Escalate /\ ~Resume
  <2>1. pc # "off"
    BY <1>6, PcOff
  <2> QED  BY <1>6, <2>1, LadderQuiet DEF Reserved
<1> QED  BY <1>2, <1>3, <1>4, <1>5, <1>6

\* A driver that may not escalate has used its last fallback: a counter at
\* its limit leaves none to be used.
LEMMA ReachedAtTheEnd ==
    ASSUME TypeOK, InPlan, Reserved
    PROVE  EscalationReached
<1> SUFFICES ASSUME pc = "escalate", ~MayEscalate, resumes = 0, failure.after = "same",
                    failure.code \notin Fatal \cup {"mismatch", "auth"}
             PROVE  fallback = FallbackIds
  BY DEF EscalationReached, At
<1>1. step \in StepIds /\ counter[step] \in Nat /\ fallback \in 0 .. FallbackIds
  BY DEF InPlan, TypeOK
<1>2. counter[step] + (FallbackIds - fallback) <= Attempts - 1
  BY <1>1 DEF Reserved
<1>3. fallback >= FallbackIds \/ counter[step] >= Attempts - 1
  BY <1>1, Ranges DEF MayEscalate
<1> QED  BY <1>1, <1>2, <1>3, Ranges

-----------------------------------------------------------------------------
(* The worktree.                                                           *)

\* Every step keeps the worktree clean where it has to be.
LEMMA CleanStep ==
    ASSUME TypeOK, Clean, Next
    PROVE  Clean'
<1> USE DEF At, Goto, durable, run, tree, memory, history
<1>1. CASE Boundary \/ SkipDependent \/ StartStep \/ OutOfTime \/ Drift \/
         CallWorker
  BY <1>1 DEF Boundary, Leave, Forget, SkipDependent, NextStep, StartStep,
      OutOfTime, Drift, Refused, Failure, CallWorker, CallCap, Clean, vars
<1>2. CASE JudgeForeign \/ TakeGitBack
  BY <1>2 DEF JudgeForeign, Refused, TreeNow, Failure, TakeGitBack, Clean,
      vars
<1>3. CASE JudgeMismatch \/ JudgeWorktree \/ JudgeExit
  BY <1>3 DEF JudgeMismatch, GitSettled, Refused, TreeNow, Failure,
      JudgeWorktree, JudgeExit, Clean, vars
<1>4. CASE JudgeTree
  BY <1>4 DEF JudgeTree, Refused, Denied, Kept, Failure, Clean, vars
<1>5. CASE PassGate \/ Regress \/ NotRecoverable \/ AbortRefused \/ Abort
  BY <1>5 DEF PassGate, Regress, Refused, TreeNow, Failure, NotRecoverable,
      Unchanged, AbortRefused, Provable, Abort, RolledBack, Clean, vars
<1>6. CASE Retry \/ Escalate \/ GiveUp \/ Abandon \/ Settle
  BY <1>6 DEF Retry, Escalate, MayEscalate, GiveUp, Leave, Forget, Abandon,
      RolledBack, Settle, NextStep, Clean, vars
<1>7. CASE Verify \/ FreezeCandidate \/ Commit \/ CommitRefused \/
         FinalizeFiles \/ FinalizeState
  BY <1>7 DEF Verify, Projected, Leave, Forget, FreezeCandidate, Unproven,
      Commit, CommitRefused, FinalizeFiles, FinalizeState, NextStep, Clean,
      vars
<1>8. CASE Interrupt \/ Escape \/ Resume \/ ResumeRefused \/ Intrude \/ Rest
  BY <1>8 DEF Interrupt, Leave, Forget, Escape, Projected, Resume, Denied,
      ResumeRefused, Intrude, Rest, Clean, vars
<1>9. CASE Unprovable
  <2>1. failure'.after = failure.after
    BY <1>9 DEF Unprovable, TypeOK, Failures
  <2> QED  BY <1>9, <2>1 DEF Unprovable, Unchanged, Clean
<1> QED  BY <1>1, <1>2, <1>3, <1>4, <1>5, <1>6, <1>7, <1>8, <1>9 DEF Next, Drive

\* Every step keeps what was judged.
LEMMA JudgedStep ==
    ASSUME TypeOK, Judged, Next
    PROVE  Judged'
<1> USE DEF At, Goto, durable, run, tree, memory, history
<1>1. CASE Boundary \/ SkipDependent \/ StartStep \/ OutOfTime \/ Drift
  BY <1>1, Ranges DEF Boundary, Leave, Forget, SkipDependent, NextStep,
      StartStep, OutOfTime, Drift, Refused, Failure, Judged, Admitted, TypeOK,
      Kinds, vars
<1>2. CASE CallWorker
  BY <1>2, Ranges DEF CallWorker, CallCap, Judged, Admitted, TypeOK, Kinds,
      vars
<1>3. CASE JudgeForeign \/ TakeGitBack
  BY <1>3, Ranges DEF JudgeForeign, Refused, TreeNow, Failure, TakeGitBack,
      Judged, Admitted, TypeOK, Kinds, vars
<1>4. CASE JudgeMismatch \/ JudgeWorktree \/ JudgeExit
  BY <1>4, Ranges DEF JudgeMismatch, GitSettled, Refused, TreeNow, Failure,
      JudgeWorktree, JudgeExit, Judged, Admitted, TypeOK, Kinds, vars
<1>5. CASE PassGate \/ Regress \/ NotRecoverable \/ Unprovable \/
         AbortRefused \/ Abort
  BY <1>5, Ranges DEF PassGate, Regress, Refused, TreeNow, Failure,
      NotRecoverable, Unchanged, Unprovable, AbortRefused, Provable, Abort,
      RolledBack, Judged, Admitted, TypeOK, Kinds, vars
<1>6. CASE Retry \/ Escalate \/ GiveUp \/ Abandon \/ Settle
  BY <1>6, Ranges DEF Retry, Escalate, MayEscalate, GiveUp, Leave, Forget,
      Abandon, RolledBack, Settle, NextStep, Judged, Admitted, TypeOK, Kinds,
      vars
<1>7. CASE Verify \/ FreezeCandidate \/ Commit \/ CommitRefused \/
         FinalizeFiles \/ FinalizeState
  BY <1>7, Ranges DEF Verify, Projected, Leave, Forget, FreezeCandidate,
      Unproven, Commit, CommitRefused, FinalizeFiles, FinalizeState, NextStep,
      Judged, Admitted, TypeOK, Kinds, vars
<1>8. CASE Interrupt \/ Escape \/ Resume \/ ResumeRefused \/ Intrude \/ Rest
  BY <1>8, Ranges DEF Interrupt, Leave, Forget, Escape, Projected, Resume,
      Denied, ResumeRefused, Intrude, Rest, Judged, Admitted, TypeOK, Kinds,
      vars
<1>9. CASE JudgeTree
  <2>1. CASE ~Denied /\ Kept # {} /\ dirt' = Kept
    <3>1. "alien" \notin dirt /\ "denied" \notin dirt /\ dirt \subseteq Kinds
      BY <1>9, <2>1 DEF JudgeTree, Judged, Denied, TypeOK
    <3>2. Kept \subseteq dirt /\ (Strict => "out" \notin Kept)
      BY DEF Kept
    <3>3. dirt' \ {"alien"} # {} /\ dirt' \ {"alien", "secret"} \subseteq Admitted
      BY <2>1, <3>1, <3>2 DEF Kinds, Admitted
    <3> QED  BY <2>1, <3>1, <3>2, <3>3 DEF Judged
  <2>2. CASE pc' = "recover"
    BY <2>2 DEF Judged
  <2> QED  BY <1>9, <2>1, <2>2 DEF JudgeTree, Refused
<1> QED  BY <1>1, <1>2, <1>3, <1>4, <1>5, <1>6, <1>7, <1>8, <1>9 DEF Next, Drive

-----------------------------------------------------------------------------
(* The branch, the checkpoint and the records.                             *)

\* Between two boundaries the checkpoint stays, and the branch but for the
\* commit; the driver stays on its step and on its side of the commit.
LEMMA PlaceQuiet ==
    ASSUME TypeOK, Next, ~Boundary, ~SkipDependent, ~Settle, ~FinalizeState,
           ~Commit, ~Resume
    PROVE  /\ UNCHANGED <<branch, checkpoint>>
           /\ \/ pc' = "off"
              \/ /\ pc # "off" /\ UNCHANGED step
                 /\ pc' = "boundary" <=> pc = "boundary"
                 /\ pc' \in Finalizing <=> pc \in Finalizing
<1> USE DEF At, Goto, durable, run, tree, memory, history
<1>1. CASE StartStep \/ OutOfTime \/ Drift
  BY <1>1 DEF StartStep, OutOfTime, Leave, Forget, Drift, Refused, Finalizing,
      TypeOK, vars
<1>2. CASE JudgeForeign \/ TakeGitBack \/ JudgeMismatch \/ JudgeWorktree \/
         JudgeExit \/ JudgeTree \/ CallWorker
  BY <1>2 DEF JudgeForeign, Refused, TakeGitBack, JudgeMismatch, GitSettled,
      JudgeWorktree, JudgeExit, JudgeTree, CallWorker, CallCap, Finalizing,
      TypeOK, vars
<1>3. CASE PassGate \/ Regress \/ NotRecoverable \/ Unprovable \/
         AbortRefused \/ Abort
  BY <1>3 DEF PassGate, Regress, Refused, NotRecoverable, Unchanged,
      Unprovable, AbortRefused, Provable, Abort, Finalizing, TypeOK, vars
<1>4. CASE Retry \/ Escalate \/ GiveUp \/ Abandon
  BY <1>4 DEF Retry, Escalate, GiveUp, Leave, Forget, Abandon, Finalizing,
      TypeOK, vars
<1>5. CASE Verify \/ FreezeCandidate \/ CommitRefused \/ FinalizeFiles
  BY <1>5 DEF Verify, Projected, Leave, Forget, FreezeCandidate, Unproven,
      CommitRefused, FinalizeFiles, Finalizing, TypeOK, vars
<1>6. CASE Interrupt \/ Escape \/ ResumeRefused \/ Intrude \/ Rest
  BY <1>6 DEF Interrupt, Leave, Forget, Escape, Projected, ResumeRefused,
      Intrude, Rest, Finalizing, TypeOK, vars
<1> QED  BY <1>1, <1>2, <1>3, <1>4, <1>5, <1>6 DEF Next, Drive

\* The branch and the checkpoint in numbers.
LEMMA BranchShape ==
    ASSUME TypeOK
    PROVE  /\ Tip \in Nat
           /\ \A i \in 1 .. Tip : branch[i] \in Commits /\ branch[i].step \in StepIds
           /\ checkpoint.green \in Nat
           /\ checkpoint.step \in 1 .. Steps + 1
           /\ checkpoint.step \in Nat
           /\ step \in 1 .. Steps + 1 /\ step \in Nat /\ Steps \in Nat
<1>1. branch \in Seq(Commits) /\ Tip = Len(branch)
  BY DEF TypeOK, Tip
<1>2. Tip \in Nat /\ \A i \in 1 .. Tip : branch[i] \in Commits
  BY <1>1
<1>3. \A i \in 1 .. Tip : branch[i].step \in StepIds
  BY <1>2 DEF Commits
<1>4. checkpoint.green \in Nat /\ checkpoint.step \in 1 .. Steps + 1
  BY DEF TypeOK
<1> QED  BY <1>2, <1>3, <1>4, Ranges DEF TypeOK

\* A commit goes above the branch, for the driver's step.
LEMMA CommitAppends ==
    ASSUME TypeOK, InPlan, Commit
    PROVE  /\ Tip' = Tip + 1
           /\ \A i \in 1 .. Tip : branch'[i] = branch[i]
           /\ branch'[Tip + 1] = [step |-> step, content |-> dirt]
           /\ step \in StepIds
<1>1. /\ [step |-> step, content |-> dirt] \in Commits
      /\ branch \in Seq(Commits)
      /\ step \in StepIds
  BY DEF Commit, At, Commits, TypeOK, InPlan
<1>2. branch' = Append(branch, [step |-> step, content |-> dirt])
  BY DEF Commit, Committed
<1> QED  BY <1>1, <1>2 DEF Tip

\* Every step keeps branch and checkpoint together.
LEMMA FitsStep ==
    ASSUME TypeOK, InPlan, Fits, Next
    PROVE  Fits'
<1> USE DEF At, Goto, durable, run, tree, memory, history
<1>1. CASE Boundary
  <2>1. checkpoint' = [step |-> step, green |-> Tip] /\ UNCHANGED branch
        /\ (pc' = "off" \/ (pc' = "start" /\ UNCHANGED step)) /\ Before(Tip, step)
    <3>1. /\ checkpoint' = [step |-> step, green |-> Tip] /\ UNCHANGED branch
          /\ pc' = "off" \/ (pc' = "start" /\ UNCHANGED step)
      BY <1>1 DEF Boundary, Leave, Tip
    <3>2. Before(Tip, step)
      BY <1>1 DEF Boundary, Fits
    <3> QED  BY <3>1, <3>2
  <2>2. Tip' = Tip /\ checkpoint'.green = Tip /\ checkpoint'.step = step
    BY <2>1 DEF Tip
  <2>3. \A i \in 1 .. checkpoint'.green : branch'[i].step < checkpoint'.step
    BY <2>1, <2>2 DEF Before
  <2>4. pc' = "off" \/ (pc' = "start" /\ step' = checkpoint'.step)
    BY <2>1, <2>2
  <2> QED  BY <2>2, <2>3, <2>4, BranchShape DEF Fits, Before, Finalizing
<1>2. CASE SkipDependent \/ Settle \/ FinalizeState
  <2>1. /\ step' = step + 1
        /\ pc' = "boundary"
        /\ UNCHANGED <<branch, checkpoint>>
        /\ step = checkpoint.step
    BY <1>2 DEF SkipDependent, Settle, FinalizeState, NextStep, Fits
  <2>2. Before(Tip, step + 1)
    <3>1. Tip = checkpoint.green \/ Tip = checkpoint.green + 1
      BY BranchShape DEF Fits
    <3> QED  BY <2>1, <3>1, BranchShape DEF Fits, Before, StepIds
  <2> QED  BY <2>1, <2>2, BranchShape DEF Fits, Tip, Before, Finalizing
<1>3. CASE Commit
  <2>1. /\ pc' = "finalize"
        /\ UNCHANGED <<checkpoint, step>>
        /\ Tip = checkpoint.green
        /\ step = checkpoint.step
    BY <1>3 DEF Commit, Fits, Finalizing
  <2> QED  BY <1>3, <2>1, CommitAppends, BranchShape DEF Fits, Before, Finalizing
<1>4. CASE Resume
  <2>1. /\ checkpoint' = Restored
        /\ step' = Restored.step
        /\ pc' = "boundary"
        /\ UNCHANGED branch
        /\ (checkpoint.green = Tip \/ Adoptable)
    BY <1>4 DEF Resume, ResumeHolds
  <2>2. CASE checkpoint.green = Tip
    BY <2>1, <2>2, BranchShape DEF Restored, Fits, Tip, Before, Finalizing
  <2>3. CASE checkpoint.green # Tip
    <3>1. Tip = checkpoint.green + 1 /\ branch[Tip].step = checkpoint.step
      BY <2>1, <2>3 DEF Adoptable
    <3>2. /\ checkpoint' = [step |-> checkpoint.step + 1, green |-> Tip]
          /\ step' = checkpoint.step + 1
      BY <2>1, <2>3 DEF Restored
    <3>3. Before(Tip, checkpoint.step + 1)
      BY <3>1, BranchShape DEF Fits, Before, StepIds
    <3> QED  BY <2>1, <3>2, <3>3, BranchShape DEF Fits, Tip, Before, Finalizing
  <2> QED  BY <2>2, <2>3
<1>5. CASE ~Boundary /\ ~SkipDependent /\ ~Settle /\ ~FinalizeState /\ ~Commit /\ ~Resume
  BY <1>5, PlaceQuiet DEF Fits, Tip, Before, Finalizing
<1> QED  BY <1>1, <1>2, <1>3, <1>4, <1>5

\* Every step keeps the commits admitted and in order.
LEMMA CommitsStep ==
    ASSUME TypeOK, InPlan, Judged, Fits, CommitsAreClean, Next
    PROVE  CommitsAreClean'
<1> USE DEF At, Goto, durable, run, tree, memory, history
<1>1. CASE Commit
  <2>1. /\ dirt # {}
        /\ dirt \subseteq Admitted
        /\ Tip = checkpoint.green
        /\ step = checkpoint.step
    BY <1>1 DEF Commit, Judged, GateObjects, HoldsSecret, Fits, Finalizing
  <2>2. \A i \in 1 .. Tip : branch[i].step < step
    BY <2>1 DEF Fits, Before
  <2> SUFFICES ASSUME NEW i \in 1 .. Tip + 1
               PROVE  /\ branch'[i].content # {} /\ branch'[i].content \subseteq Admitted
                      /\ \A j \in 1 .. i - 1 : branch'[j].step < branch'[i].step
    BY <1>1, CommitAppends DEF CommitsAreClean, Tip, Admitted
  <2>3. CASE i = Tip + 1
    <3>1. \A j \in 1 .. i - 1 : branch'[j] = branch[j] /\ branch[j].step < step
      BY <1>1, <2>2, <2>3, CommitAppends, BranchShape
    <3>2. branch'[i].step = step /\ branch'[i].content = dirt
      BY <1>1, <2>3, CommitAppends
    <3> QED  BY <2>1, <3>1, <3>2
  <2>4. CASE i \in 1 .. Tip
    <3>1. branch'[i] = branch[i] /\ \A j \in 1 .. i - 1 : branch'[j] = branch[j]
      BY <1>1, <2>4, CommitAppends, BranchShape
    <3> QED  BY <2>4, <3>1 DEF CommitsAreClean, Tip, Admitted
  <2> QED  BY <2>3, <2>4, BranchShape
<1>2. CASE ~Commit
  <2>1. UNCHANGED branch
    <3>1. CASE Boundary \/ SkipDependent \/ Settle \/ FinalizeState \/ Resume
      BY <3>1 DEF Boundary, SkipDependent, Settle, FinalizeState, Resume
    <3> QED  BY <1>2, <3>1, PlaceQuiet
  <2> QED  BY <2>1 DEF CommitsAreClean
<1> QED  BY <1>1, <1>2

\* A driver writes the record of its own step only; beyond the start of the
\* step it never writes that the step was settled.
LEMMA RecordQuiet ==
    ASSUME TypeOK, InPlan, Next
    PROVE  /\ \A s \in StepIds : s # step => record'[s] = record[s]
           /\ pc \in {"off", "boundary"} \cup Finalizing =>
                 record' = record \/ (pc \in Finalizing /\ record'[step] \notin Settled)
           /\ pc' \notin {"off", "boundary", "start"} =>
                 \/ StartStep
                 \/ /\ pc \notin {"off", "boundary", "start"} /\ step' = step
                    /\ record'[step] = record[step] \/ record'[step] \notin Settled
<1> USE DEF At, Goto, durable, run, tree, memory, history
<1>1. CASE Boundary \/ SkipDependent \/ OutOfTime \/ Drift
  BY <1>1 DEF Boundary, Leave, Forget, SkipDependent, NextStep, OutOfTime,
      Drift, Refused, Settled, Finalizing, TypeOK, InPlan, vars
<1>2. CASE StartStep
  BY <1>2 DEF StartStep, Archived, Settled, Finalizing, TypeOK, InPlan, vars
<1>3. CASE JudgeForeign \/ TakeGitBack \/ JudgeMismatch \/ JudgeWorktree \/
         JudgeExit \/ JudgeTree \/ CallWorker
  BY <1>3 DEF JudgeForeign, Refused, TakeGitBack, JudgeMismatch, GitSettled,
      JudgeWorktree, JudgeExit, JudgeTree, CallWorker, CallCap, Settled,
      Finalizing, TypeOK, InPlan, vars
<1>4. CASE PassGate \/ Regress \/ NotRecoverable \/ Unprovable \/
         AbortRefused \/ Abort
  BY <1>4 DEF PassGate, Regress, Refused, NotRecoverable, Unchanged,
      Unprovable, AbortRefused, Provable, Abort, Settled, Finalizing, TypeOK,
      InPlan, vars
<1>5. CASE Retry
  BY <1>5 DEF Retry, Archived, Settled, Finalizing, TypeOK, InPlan, vars
<1>6. CASE Escalate
  BY <1>6 DEF Escalate, Archived, Settled, Finalizing, TypeOK, InPlan, vars
<1>7. CASE GiveUp
  BY <1>7 DEF GiveUp, Leave, RecordFailure, Forget, Settled, Finalizing,
      TypeOK, InPlan, vars
<1>8. CASE Abandon
  BY <1>8 DEF Abandon, Leave, RecordFailure, Forget, Settled, Finalizing,
      TypeOK, InPlan, vars
<1>9. CASE Settle
  BY <1>9 DEF Settle, NextStep, Forget, Settled, Finalizing, TypeOK, InPlan,
      vars
<1>10. CASE Verify \/ FreezeCandidate \/ Commit \/ CommitRefused \/
         FinalizeFiles \/ FinalizeState
  BY <1>10 DEF Verify, Projected, Leave, Forget, FreezeCandidate, Unproven,
      Commit, CommitRefused, FinalizeFiles, AcceptedRecord, FinalizeState,
      NextStep, Settled, Finalizing, TypeOK, InPlan, vars
<1>11. CASE Interrupt \/ Escape \/ Resume \/ ResumeRefused \/ Intrude \/ Rest
  BY <1>11 DEF Interrupt, Leave, Forget, Escape, Projected, Resume,
      ResumeRefused, Intrude, Rest, Settled, Finalizing, TypeOK, InPlan, vars
<1> QED  BY <1>1, <1>2, <1>3, <1>4, <1>5, <1>6, <1>7, <1>8, <1>9, <1>10, <1>11
   DEF Next, Drive

\* No step takes a commit back.
LEMMA CommitsStay ==
    ASSUME TypeOK, InPlan, Next
    PROVE  /\ Tip' >= Tip
           /\ Tip' \in Nat
           /\ \A i \in 1 .. Tip : branch'[i] = branch[i]
           /\ \A e : CommittedAt(e) => CommittedAt(e)'
<1>1. CASE Commit
  BY <1>1, CommitAppends, BranchShape DEF CommittedAt
<1>2. CASE ~Commit
  <2>1. UNCHANGED branch
    <3>1. CASE Boundary \/ SkipDependent \/ Settle \/ FinalizeState \/ Resume
      BY <3>1 DEF Boundary, SkipDependent, Settle, FinalizeState, Resume
    <3> QED  BY <1>2, <3>1, PlaceQuiet
  <2> QED  BY <2>1, BranchShape DEF CommittedAt, Tip
<1> QED  BY <1>1, <1>2

\* What the checkpoint is past stays settled or committed.
LEMMA DoneStays ==
    ASSUME TypeOK, InPlan, Fits, Next, NEW e \in StepIds, e < checkpoint.step, Done(e)
    PROVE  Done(e)'
<1>1. e # step \/ pc \in {"off", "boundary"}
  BY BranchShape DEF Fits, StepIds
<1>2. record'[e] = record[e]
  BY <1>1, RecordQuiet DEF Finalizing
<1> QED  BY <1>2, CommitsStay DEF Done

\* Every step keeps the past settled or committed.
LEMMA PastsStep ==
    ASSUME TypeOK, InPlan, Fits, Pasts, Next
    PROVE  Pasts'
<1> USE DEF At, Goto, durable, run, tree, memory, history
<1>1. ASSUME NEW e \in StepIds, e < checkpoint.step
      PROVE  Done(e)'
  BY <1>1, DoneStays DEF Pasts
<1>2. ASSUME NEW e \in StepIds, e < checkpoint'.step
      PROVE  Done(e)'
  <2>1. CASE Boundary
    <3>1. pc = "boundary" /\ checkpoint'.step = step /\ UNCHANGED <<record, branch>>
      BY <2>1 DEF Boundary
    <3>2. Done(e)
      BY <1>2, <3>1 DEF Pasts
    <3> QED  BY <3>1, <3>2 DEF Done, CommittedAt, Tip
  <2>2. CASE Resume
    <3>1. checkpoint' = Restored /\ UNCHANGED <<record, branch>> /\ (checkpoint.green = Tip \/ Adoptable)
      BY <2>2 DEF Resume, ResumeHolds
    <3>2. CASE e < checkpoint.step
      BY <1>1, <3>2
    <3>3. CASE ~(e < checkpoint.step)
      <4>1. /\ e = checkpoint.step
            /\ Tip = checkpoint.green + 1
            /\ branch[Tip].step = e
        BY <1>2, <3>1, <3>3, BranchShape DEF Restored, Adoptable, StepIds
      <4>2. CommittedAt(e)
        BY <4>1, BranchShape DEF CommittedAt
      <4> QED  BY <4>2, CommitsStay DEF Done
    <3> QED  BY <3>2, <3>3
  <2>3. CASE ~Boundary /\ ~Resume
    <3>1. UNCHANGED checkpoint
      <4>1. CASE SkipDependent \/ Settle \/ FinalizeState \/ Commit
        BY <4>1 DEF SkipDependent, Settle, FinalizeState, Commit
      <4> QED  BY <2>3, <4>1, PlaceQuiet
    <3> QED  BY <1>1, <1>2, <3>1
  <2> QED  BY <2>1, <2>2, <2>3
<1>3. ASSUME pc' = "boundary", NEW e \in StepIds, e < step'
      PROVE  Done(e)'
  <2>1. CASE SkipDependent \/ Settle \/ FinalizeState
    <3>1. /\ step' = step + 1 /\ step = checkpoint.step /\ step \in StepIds
          /\ FinalizeState => Tip = checkpoint.green + 1
      BY <2>1 DEF SkipDependent, Settle, FinalizeState, NextStep, Fits,
         Finalizing, InPlan
    <3>2. CASE e = step
      <4>1. CASE FinalizeState
        <5>1. CommittedAt(e)
          BY <3>1, <3>2, <4>1, BranchShape DEF Fits, CommittedAt
        <5> QED  BY <5>1, CommitsStay DEF Done
      <4>2. CASE SkipDependent \/ Settle
        <5>1. record'[e] \in Settled
          BY <3>1, <3>2, <4>2 DEF SkipDependent, Settle, Settled, TypeOK
        <5> QED  BY <5>1 DEF Done
      <4> QED  BY <2>1, <4>1, <4>2
    <3>3. CASE e # step
      <4>1. e < checkpoint.step
        BY <1>3, <3>1, <3>3, BranchShape DEF StepIds
      <4> QED  BY <1>1, <4>1
    <3> QED  BY <3>2, <3>3
  <2>2. CASE Resume
    <3>1. step' = checkpoint'.step
      BY <2>2 DEF Resume
    <3> QED  BY <1>2, <1>3, <3>1
  <2>3. CASE ~SkipDependent /\ ~Settle /\ ~FinalizeState /\ ~Resume
    <3>1. pc = "boundary" /\ UNCHANGED step
      <4>1. ~Boundary /\ ~Commit
        BY <1>3 DEF Boundary, Commit, Leave
      <4> QED  BY <1>3, <2>3, <4>1, PlaceQuiet
    <3>2. record' = record
      BY <3>1, RecordQuiet DEF Finalizing
    <3>3. Done(e)
      BY <1>3, <3>1 DEF Pasts
    <3> QED  BY <3>2, <3>3, CommitsStay DEF Done
  <2> QED  BY <2>1, <2>2, <2>3
<1>4. ASSUME pc' \notin {"off", "boundary", "start"}
      PROVE  /\ record'[step'] \notin Settled
             /\ (DependsOn[step'] # 0 => CommittedAt(DependsOn[step])')
  <2>1. CASE StartStep
    <3>1. /\ /\ step' = step
          /\ step \in StepIds
          /\ step = checkpoint.step
          /\ ~DependencySettled
          /\ record'[step] = "none"
      BY <2>1 DEF StartStep, Archived, InPlan, Fits, Finalizing, TypeOK
    <3>2. ASSUME DependsOn[step] # 0
          PROVE  CommittedAt(DependsOn[step])'
      <4>1. DependsOn[step] \in StepIds /\ DependsOn[step] < checkpoint.step
        BY <3>1, <3>2, PlanAssumption DEF StepIds
      <4>2. CommittedAt(DependsOn[step])
        BY <3>1, <3>2, <4>1 DEF Pasts, Done, DependencySettled
      <4>3. PICK j \in 1 .. Tip : branch[j].step = DependsOn[step]
        BY <4>2 DEF CommittedAt
      <4>4. j \in 1 .. Tip' /\ branch'[j].step = DependsOn[step']
        BY <3>1, <4>3, CommitsStay, BranchShape
      <4> QED  BY <4>4 DEF CommittedAt
    <3> QED  BY <3>1, <3>2 DEF Settled
  <2>2. CASE ~StartStep
    <3>1. /\ pc \notin {"off", "boundary", "start"} /\ step' = step
          /\ record'[step] = record[step] \/ record'[step] \notin Settled
      BY <1>4, <2>2, RecordQuiet
    <3> QED  BY <3>1, CommitsStay DEF Pasts
  <2> QED  BY <2>1, <2>2
<1> QED  BY <1>2, <1>3, <1>4 DEF Pasts

\* Every step keeps commits above what they depend on.
LEMMA DependenciesStep ==
    ASSUME TypeOK, InPlan, Fits, Pasts, DependenciesHold, Next
    PROVE  DependenciesHold'
<1> SUFFICES ASSUME NEW i \in 1 .. Tip'
             PROVE  /\ DependsOn[branch'[i].step] # 0 =>
                          \E j \in 1 .. i - 1 : branch'[j].step = DependsOn[branch'[i].step]
                    /\ record'[branch'[i].step] \notin Settled
  BY DEF DependenciesHold, Tip
<1>1. CASE i \in 1 .. Tip
  <2>1. branch'[i] = branch[i] /\ branch[i].step \in StepIds
        /\ \A j \in 1 .. i - 1 : branch'[j] = branch[j]
    BY <1>1, CommitsStay, BranchShape
  <2>2. /\ record[branch[i].step] \notin Settled
        /\ DependsOn[branch[i].step] # 0 =>
              \E j \in 1 .. i - 1 : branch[j].step = DependsOn[branch[i].step]
    BY <1>1 DEF DependenciesHold, Tip
  <2> SUFFICES record'[branch[i].step] \notin Settled
    BY <2>1, <2>2
  <2>3. CASE branch[i].step # step
    BY <2>1, <2>2, <2>3, RecordQuiet
  <2>4. CASE branch[i].step = step
    <3>1. pc \in {"off", "boundary"} \cup Finalizing
      BY <1>1, <2>1, <2>4, BranchShape DEF Fits, Before, StepIds
    <3>2. record' = record \/ record'[step] \notin Settled
      BY <3>1, RecordQuiet
    <3> QED  BY <2>2, <2>4, <3>2
  <2> QED  BY <2>3, <2>4
<1>2. CASE i \notin 1 .. Tip
  <2>1. Commit
    <3>1. ~(UNCHANGED branch)
      BY <1>2 DEF Tip
    <3>2. CASE Boundary \/ SkipDependent \/ Settle \/ FinalizeState \/ Resume
      BY <3>1, <3>2 DEF Boundary, SkipDependent, Settle, FinalizeState, Resume
    <3> QED  BY <3>1, <3>2, PlaceQuiet
  <2>2. /\ i = Tip + 1
        /\ branch'[i].step = step
        /\ \A j \in 1 .. Tip : branch'[j] = branch[j]
    BY <1>2, <2>1, CommitAppends, BranchShape
  <2>3. /\ record' = record /\ record[step] \notin Settled
        /\ DependsOn[step] # 0 => CommittedAt(DependsOn[step])
    BY <2>1 DEF Commit, At, Pasts
  <2> QED  BY <2>2, <2>3, BranchShape DEF CommittedAt
<1> QED  BY <1>1, <1>2

-----------------------------------------------------------------------------
(* The invariant and what follows from it.                                 *)

\* The first driver starts on an empty branch, with nothing spent.
LEMMA InvInit == Init => Inv
<1> SUFFICES ASSUME Init PROVE Inv
  OBVIOUS
<1> USE DEF Init
<1>1. TypeOK
  <2>1. <<>> \in Seq(Commits) /\ checkpoint \in [step : 1 .. Steps + 1, green : Nat]
    BY Ranges
  <2>2. /\ counter \in [StepIds -> Nat] /\ calls \in [StepIds -> Nat]
        /\ record \in [StepIds -> Records]
    BY Shapes
  <2>3. "ok" \in Reports /\ "own" \in Owners /\ NoFailure \in Failures
    BY Shapes, FailureShape
  <2>4. /\ branch \in Seq(Commits) /\ report \in Reports /\ refs \in Owners
        /\ failure \in Failures
    BY <2>1, <2>3
  <2>5. /\ step \in 1 .. Steps + 1 /\ fallback \in 0 .. FallbackIds
        /\ resumes \in 0 .. MaxResumes
    BY Ranges
  <2>6. /\ /\ accepted \subseteq StepIds
        /\ dirt \subseteq Kinds
        /\ intruded \in BOOLEAN
        /\ disposition \in {"RUNNING", "FAILED", "WAIT_EXTERNAL", "COMPLETED"}
        /\ reason = "none" /\ pc = "boundary"
    OBVIOUS
  <2> QED  BY <2>1, <2>2, <2>4, <2>5, <2>6 DEF TypeOK, Operations
<1>2. InPlan /\ Reserved
  BY Ranges DEF InPlan, Reserved
<1>3. Paid
  BY Ranges DEF Paid, Entering
<1>4. Clean /\ Judged
  BY DEF Clean, Judged
<1>5. Fits /\ Pasts
  BY DEF Fits, Before, Tip, Finalizing, Pasts, StepIds
<1>6. CommitsAreClean /\ DependenciesHold
  BY DEF CommitsAreClean, DependenciesHold
<1> QED  BY <1>1, <1>2, <1>3, <1>4, <1>5, <1>6 DEF Inv

\* A stutter keeps every part.
LEMMA InvStutter ==
    ASSUME Inv, UNCHANGED vars
    PROVE  Inv'
<1> USE DEF vars, durable, run, tree, memory, history
<1>1. TypeOK' /\ InPlan'
  BY DEF Inv, TypeOK, InPlan
<1>2. Paid' /\ Reserved'
  BY DEF Inv, Paid, Entering, Reserved
<1>3. Clean' /\ Judged'
  BY DEF Inv, Clean, Judged
<1>4. Fits' /\ Pasts'
  BY DEF Inv, Fits, Before, Tip, Pasts, Done, CommittedAt
<1>5. CommitsAreClean' /\ DependenciesHold'
  BY DEF Inv, CommitsAreClean, DependenciesHold
<1> QED  BY <1>1, <1>2, <1>3, <1>4, <1>5 DEF Inv

\* The invariant holds of every behaviour.
THEOREM Invariant == Spec => []Inv
<1>1. Inv /\ [Next]_vars => Inv'
  <2> SUFFICES ASSUME Inv, [Next]_vars PROVE Inv'
    OBVIOUS
  <2>1. CASE Next
    <3>1. TypeOK' /\ InPlan'
      BY <2>1, TypeStep DEF Inv
    <3>2. Paid' /\ Reserved'
      BY <2>1, PaidStep, ReservedStep DEF Inv
    <3>3. Clean' /\ Judged'
      BY <2>1, CleanStep, JudgedStep DEF Inv
    <3>4. Fits' /\ Pasts'
      BY <2>1, FitsStep, PastsStep DEF Inv
    <3>5. CommitsAreClean' /\ DependenciesHold'
      BY <2>1, CommitsStep, DependenciesStep DEF Inv
    <3> QED  BY <3>1, <3>2, <3>3, <3>4, <3>5 DEF Inv
  <2>2. CASE UNCHANGED vars
    BY <2>2, InvStutter
  <2> QED  BY <2>1, <2>2
<1> QED  BY <1>1, InvInit, PTL DEF Spec

\* Every durable file and every local has its shape.
THEOREM TypeCorrect == Spec => []TypeOK
<1>1. Inv => TypeOK
  BY DEF Inv
<1> QED  BY <1>1, Invariant, PTL

\* However a run is stopped and resumed, a step costs at most
\* budget.step_attempts calls and one more for each resume: every call after
\* the first of a driver is paid from the durable counter (Paid).
THEOREM CallsAreBounded == Spec => []CallsBounded
<1>1. Inv => CallsBounded
  BY Ranges DEF Inv, Paid, CallsBounded, TypeOK
<1> QED  BY <1>1, Invariant, PTL

\* A ladder that was not resumed never ends below its last rung (Reserved).
THEOREM EveryFallbackIsTried == Spec => []EscalationReached
<1>1. Inv => EscalationReached
  BY ReachedAtTheEnd DEF Inv
<1> QED  BY <1>1, Invariant, PTL

\* Whatever led to a call, it starts on the exact tree of its parent (Clean).
THEOREM CallsStartOnTheParent == Spec => []CallsStartClean
<1>1. Inv => CallsStartClean
  BY DEF Inv, Clean, CallsStartClean
<1> QED  BY <1>1, Invariant, PTL

\* For any worker and any intruder: only admitted work is committed, without a
\* secret, and each step at most once, in the order of the plan.
THEOREM OnlyAdmittedWorkIsCommitted == Spec => []CommitsAreClean
<1>1. Inv => CommitsAreClean
  BY DEF Inv
<1> QED  BY <1>1, Invariant, PTL

\* A step is committed above what it depends on, and never also settled (Pasts).
THEOREM DependenciesAreCommitted == Spec => []DependenciesHold
<1>1. Inv => DependenciesHold
  BY DEF Inv
<1> QED  BY <1>1, Invariant, PTL

-----------------------------------------------------------------------------
(* Why a driver leaves: between two resumes its steps descend.             *)

\* The steps a driver has before it, and one for leaving.
StepsLeft == IF pc = "off" THEN 0 ELSE Steps + 2 - step

\* The calls the durable counter still admits for the step.
CallsLeft == IF step \in StepIds THEN Attempts - counter[step] ELSE 0

\* How far an operation is from the end of its attempt; what a worker did to
\* Git is taken back before it is judged.
Place ==
    IF      pc = "off"     THEN 0 ELSE IF pc \in {"settle", "accept"}   THEN 1
    ELSE IF pc \in {"abandon", "finalize"} THEN 2
    ELSE IF pc \in {"escalate", "commit"}  THEN 3
    ELSE IF pc \in {"retry", "freeze"}     THEN 4
    ELSE IF pc \in {"recover", "verify"}   THEN 5
    ELSE IF pc = "gate"    THEN 6
    ELSE IF pc = "judge"   THEN IF refs \in {"commit", "branch"} THEN 8 ELSE 7
    ELSE IF pc = "try"     THEN 9 ELSE IF pc = "start" THEN 10 ELSE 11

\* The lexicographic order of the three.
Descends ==
    \/ StepsLeft' < StepsLeft
    \/ StepsLeft' = StepsLeft /\ CallsLeft' < CallsLeft
    \/ StepsLeft' = StepsLeft /\ CallsLeft' = CallsLeft /\ Place' < Place

\* The order is that of three natural numbers.
LEMMA Measured ==
    ASSUME Inv
    PROVE  StepsLeft \in Nat /\ CallsLeft \in Nat /\ Place \in Nat
<1>1. StepsLeft \in Nat
  BY Ranges DEF Inv, TypeOK, StepsLeft
<1>2. CallsLeft \in Nat
  BY Ranges DEF Inv, TypeOK, Paid, CallsLeft
<1>3. Place \in Nat
  BY DEF Place
<1> QED  BY <1>1, <1>2, <1>3

\* A driver that leaves descends,
LEMMA LeavingDescends ==
    ASSUME Inv, pc # "off", pc' = "off"
    PROVE  Descends
BY Ranges DEF Inv, TypeOK, StepsLeft, Descends

\* and so does one that turns to the next step,
LEMMA NextDescends ==
    ASSUME Inv, pc # "off", NextStep
    PROVE  Descends
BY Ranges DEF Inv, TypeOK, NextStep, Goto, StepsLeft, Descends

\* pays for a call,
LEMMA PaymentDescends ==
    ASSUME Inv, step \in StepIds, pc # "off", pc' # "off", step' = step,
           counter' = [counter EXCEPT ![step] = @ + 1]
    PROVE  Descends
<1>1. counter[step] \in Nat /\ counter'[step] = counter[step] + 1
  BY DEF Inv, TypeOK
<1>2. StepsLeft' = StepsLeft
  BY DEF StepsLeft
<1>3. CallsLeft' < CallsLeft
  BY <1>1, Ranges DEF CallsLeft
<1> QED  BY <1>2, <1>3 DEF Descends

\* or goes on with its attempt.
LEMMA AttemptDescends ==
    ASSUME pc # "off", pc' # "off", UNCHANGED <<step, counter>>, Place' < Place
    PROVE  Descends
BY DEF StepsLeft, CallsLeft, Descends

\* Every step of a driver is one of these.
LEMMA DriverSteps ==
    ASSUME Inv, Drive \/ Interrupt \/ Escape
    PROVE  Descends
<1> USE DEF At, Goto, Leave, Projected, Unproven, Refused, Forget, durable, memory, tree
<1>1. CASE Boundary
  BY <1>1, LeavingDescends, AttemptDescends DEF Boundary, Place
<1>2. CASE SkipDependent \/ Settle \/ FinalizeState
  BY <1>2, NextDescends DEF SkipDependent, Settle, FinalizeState
<1>3. CASE StartStep \/ Drift
  BY <1>3, AttemptDescends DEF StartStep, Drift, Place
<1>4. CASE OutOfTime \/ CommitRefused \/ Interrupt \/ Escape
  BY <1>4, LeavingDescends DEF OutOfTime, CommitRefused, Interrupt, Escape
<1>5. CASE CallWorker
  BY <1>5, AttemptDescends DEF CallWorker, Place
<1>6. CASE JudgeForeign \/ JudgeWorktree \/ JudgeExit
  BY <1>6, AttemptDescends DEF JudgeForeign, JudgeWorktree, JudgeExit, Place
<1>7. CASE TakeGitBack
  BY <1>7, AttemptDescends DEF TakeGitBack, TakenBack, Place
<1>8. CASE JudgeMismatch \/ JudgeTree
  BY <1>8, AttemptDescends DEF JudgeMismatch, JudgeTree, Place
<1>9. CASE PassGate \/ Regress
  BY <1>9, AttemptDescends DEF PassGate, Regress, Place
<1>10. CASE NotRecoverable \/ Unprovable \/ AbortRefused \/ Abort
  BY <1>10, AttemptDescends DEF NotRecoverable, Unprovable, AbortRefused, Abort, Provable,
     Unchanged, Place
<1>11. CASE Retry
  <2>1. step \in StepIds
    BY <1>11 DEF Inv, InPlan, Retry
  <2>2. CASE RetryLeft
    BY <1>11, <2>1, <2>2, PaymentDescends DEF Retry
  <2>3. CASE ~RetryLeft
    BY <1>11, <2>3, AttemptDescends DEF Retry, Place
  <2> QED  BY <2>2, <2>3
<1>12. CASE Escalate
  <2>1. step \in StepIds
    BY <1>12 DEF Inv, InPlan, Escalate
  <2> QED  BY <1>12, <2>1, PaymentDescends DEF Escalate
<1>13. CASE GiveUp
  BY <1>13, LeavingDescends, AttemptDescends DEF GiveUp, Place
<1>14. CASE Abandon
  BY <1>14, LeavingDescends, AttemptDescends DEF Abandon, Place
<1>15. CASE Verify \/ FreezeCandidate
  BY <1>15, LeavingDescends, AttemptDescends DEF Verify, FreezeCandidate, Place
<1>16. CASE Commit \/ FinalizeFiles
  BY <1>16, AttemptDescends DEF Commit, FinalizeFiles, Place
<1> QED
  BY <1>1, <1>2, <1>3, <1>4, <1>5, <1>6, <1>7, <1>8, <1>9, <1>10, <1>11, <1>12, <1>13,
     <1>14, <1>15, <1>16 DEF Drive

\* A driver takes finitely many steps, whatever its workers, checks and Git do:
\* each lowers three natural numbers in their lexicographic order, and only a
\* resume raises them.  What DriverLeaves adds is that a driver that has not
\* left has a step to take (_execute_step_attempts).
THEOREM DriversDescend ==
    Spec => /\ [](StepsLeft \in Nat /\ CallsLeft \in Nat /\ Place \in Nat)
            /\ [][Drive \/ Interrupt \/ Escape => Descends]_vars
            /\ [][~Resume => Descends \/ UNCHANGED <<StepsLeft, CallsLeft, Place>>]_vars
<1> DEFINE Natural == StepsLeft \in Nat /\ CallsLeft \in Nat /\ Place \in Nat
<1>1. Inv => Natural
  BY Measured
<1>2. Inv /\ [Next]_vars => [Drive \/ Interrupt \/ Escape => Descends]_vars
  BY DriverSteps
<1>3. Inv /\ [Next]_vars
        => [~Resume => Descends \/ UNCHANGED <<StepsLeft, CallsLeft, Place>>]_vars
  <2>1. ResumeRefused \/ Intrude \/ Rest => UNCHANGED <<StepsLeft, CallsLeft, Place>>
    <3> SUFFICES ASSUME ResumeRefused \/ Intrude \/ Rest PROVE UNCHANGED <<pc, step, counter, refs>>
      BY DEF StepsLeft, CallsLeft, Place
    <3> QED  BY DEF ResumeRefused, Intrude, Rest, vars, durable, memory, tree
  <2> QED  BY <2>1, DriverSteps DEF Next
<1> QED  BY <1>1, <1>2, <1>3, Invariant, PTL DEF Spec

=============================================================================
