---------------------------- MODULE PipelineProofs ----------------------------
(***************************************************************************)
(* What Pipeline keeps for every plan, budget and placement of stops.      *)
(***************************************************************************)
EXTENDS Pipeline, WellFoundedInduction, TLAPS

Work      == {"implement_step", "deterministic_gate", "audit"}
Candidate == {"candidate_ready", "candidate_push", "publish"}

\* The checkpoint phases the driver may be inside an operation with.
PhasesAt(op) ==
    CASE op \in {"step", "execute", "working", "stepped"}     -> {"implement_step"}
      [] op = "pausing"                           -> {"implement_step", "deterministic_gate"}
      [] op \in {"gate", "checking", "judge"}     -> {"deterministic_gate", "audit"}
      [] op \in {"audit", "auditing", "report", "reported"}   -> {"audit"}
      [] op = "outcome"                -> {"deterministic_gate", "audit", "planner"}
      [] op \in {"decide", "asking", "close", "spec", "ready", "prepare", "guard",
                 "partial", "partial_end"}                    -> {"planner"}
      [] op = "create"                                        -> {"candidate_ready"}
      [] op \in {"push", "pushed"}                            -> {"candidate_push"}
      [] op = "publish"                                       -> {"publish"}
      [] OTHER                                                -> ExecutionPhases

Here == checkpoint.iteration

ReportOf(n) == IF reports[n] = <<>> THEN "clean" ELSE reports[n][Len(reports[n])]

\* The evidence of iteration n, when there is some, is of the current head.
Fresh(n) == evidence[n].verdict # "none" => evidence[n].head = Tip

\* The head was judged green and the last report leaves nothing to do.
Good(n) == /\ evidence[n] = [head |-> Tip, verdict |-> "green"]
           /\ ReportOf(n) # "remaining"

Settled(n) == Fresh(n) /\ (answer[n] = "COMPLETE" => Good(n))
Judged(n)  == Good(n) /\ records[n].status = "COMPLETE"

-----------------------------------------------------------------------------
(* The parts of the invariant.                                             *)

StepInPlan    == pc \in {"execute", "working", "stepped"} => index < Steps
IterationLeft == pc = "prepare" => iter < MaxIterations
AuditLeft     == pc \in {"audit", "auditing", "report"} => Len(reports[iter]) < AuditRepairs

PhaseInPlace == checkpoint.phase \in PhasesAt(pc)

SameIteration ==
    /\ pc \notin {"guard", "budget", "partial", "partial_end", "off"} => iter = Here
    /\ pc = "guard" => iter = Here + 1

EnterAtGreen == pc = "enter" => checkpoint.green = Tip

\* The checkpoint is behind the branch, never ahead of it, until the PARTIAL
\* exit rewinds; a planner boundary is at the head unless the budget put it there.
GreenHeld ==
    /\ pc = "budget" => spent
    /\ pc \notin {"partial_end", "off"} =>
          /\ checkpoint.green <= Tip
          /\ checkpoint.phase = "planner" /\ ~spent => checkpoint.green = Tip

NoEarlyAnswer ==
    /\ checkpoint.phase \in Work => answer[Here] = "none"
    /\ \A n \in Iterations : n > Here => answer[n] = "none"

\* What a resume would find, if the branch is still where the checkpoint says.
FreshDurably ==
    checkpoint.green = Tip =>
        /\ checkpoint.phase = "audit" => Fresh(Here)
        /\ checkpoint.phase = "planner" /\ ~spent => Settled(Here)

FreshNow ==
    /\ pc = "judge" => Fresh(iter)
    /\ pc \in {"asking", "close"} => Settled(iter)
    /\ pc \in {"outcome", "decide"} /\ ~spent => Settled(iter)

CandidateJudged ==
    /\ checkpoint.phase \in Candidate => Judged(Here)
    /\ pc = "ready" => Judged(iter)

PublishedJudged ==
    published # 0 => /\ run.disposition = "COMPLETED"
                     /\ published = Tip
                     /\ Judged(iter)

TypeInv  == TypeOK /\ StepInPlan /\ IterationLeft
AuditInv == AuditLeft /\ AuditsBounded
JudgeInv == /\ PhaseInPlace /\ SameIteration /\ EnterAtGreen /\ GreenHeld /\ NoEarlyAnswer
            /\ FreshDurably /\ FreshNow /\ CandidateJudged /\ PublishedJudged

-----------------------------------------------------------------------------
(* Type correctness.                                                       *)

\* Of a nonempty set of iterations one is the newest.
LEMMA NewestExists ==
    ASSUME NEW S \in SUBSET Iterations, S # {}
    PROVE  \E n \in S : \A m \in S : m <= n
  <1> DEFINE Left == { k \in Nat : MaxIterations - k \in S }
  <1>1. \A n \in S : /\ n \in Nat
                     /\ MaxIterations - n \in Left
    BY BudgetAssumption DEF Iterations
  <1>2. PICK x \in Left : \A y \in Left : ~ (<<y, x>> \in OpToRel(<, Nat))
    <2>1. Left \subseteq Nat /\ Left # {}
      BY <1>1
    <2> HIDE DEF Left
    <2> QED BY <2>1, WFMin, NatLessThanWellFounded, Zenon
  <1>3. \A y \in Left : x <= y
    <2> TAKE y \in Left
    <2>1. x \in Nat /\ y \in Nat OBVIOUS
    <2>2. ~ (y < x)
      BY <1>2, <2>1, Zenon DEF OpToRel
    <2> QED BY <2>1, <2>2
  <1>4. \A m \in S : m <= MaxIterations - x
    <2> TAKE m \in S
    <2>1. x <= MaxIterations - m BY <1>1, <1>3
    <2> QED BY <1>1, <2>1, BudgetAssumption
  <1> QED BY <1>4

\* What _partial rewinds to is a commit the branch holds, or the base.
LEMMA AcceptedHeadHeld ==
    ASSUME TypeOK
    PROVE  AcceptedHead \in 0 .. Tip
  <1>0. Tip \in Nat BY DEF TypeOK, Tip
  <1>1. CASE GreenEnds = {} BY <1>0, <1>1 DEF AcceptedHead
  <1>2. CASE GreenEnds # {}
    <2> DEFINE n == CHOOSE n \in GreenEnds : \A m \in GreenEnds : m <= n
    <2>1. GreenEnds \in SUBSET Iterations
      BY BudgetAssumption DEF GreenEnds, TypeOK, Iterations
    <2>2. n \in GreenEnds
      BY <1>2, <2>1, NewestExists
    <2>3. records[n].end \in Nat /\ records[n].end <= Tip
      BY <2>1, <2>2 DEF GreenEnds, TypeOK, Records
    <2> QED BY <1>0, <1>2, <2>3 DEF AcceptedHead
  <1> QED BY <1>1, <1>2

\* The postures the coordinator writes are postures.
LEMMA MachineType ==
    ASSUME TypeOK,
           NEW d \in {"RUNNING", "WAIT_EXTERNAL", "WAIT_HUMAN", "COMPLETED", "FAILED"},
           NEW r \in {"none", "PAUSED", "SPEC_DECISION_REQUIRED", "INTERRUPTED",
                      "UNAVAILABLE", "ESCAPED", "FATAL", "RESUME_INTEGRITY_FAILURE"}
    PROVE  Machine(d, r, run.kind) \in Machines
  BY DEF TypeOK, Machine, Machines

\* So are the checkpoints it writes,
LEMMA CheckpointType ==
    ASSUME TypeOK, NEW p \in ExecutionPhases, NEW s \in StepIndices
    PROVE  /\ Checkpoint(p, iter, s, Tip) \in Checkpoints
           /\ Checkpoint(p, Here, s, Tip) \in Checkpoints
           /\ Checkpoint(p, Here, s, checkpoint.green) \in Checkpoints
  BY DEF TypeOK, Checkpoint, Checkpoints, Tip, Here

\* the fingerprints an iteration is compared by,
LEMMA PrintType ==
    ASSUME TypeOK
    PROVE  Fingerprint \in Prints /\ NoFingerprint \in Prints
  <1>1. LastReport \in Findings
    BY DEF TypeOK, LastReport, Repaired, Findings
  <1>2. evidence[iter] \in Judgements /\ answer[iter] \in AnswerCodes /\ Tip \in Nat
    BY DEF TypeOK, Tip
  <1> QED BY <1>1, <1>2
          DEF Fingerprint, NoFingerprint, Prints, Verdict, Judgements, AnswerCodes, Findings

\* and the records of the iterations.
LEMMA RecordType ==
    ASSUME TypeOK, NEW s \in {"NEXT", "COMPLETE", "PARTIAL", "SPEC_DECISION"}, Record(s)
    PROVE  records' \in [Iterations -> Records]
  BY PrintType DEF TypeOK, Record, Records, Tip

\* It holds of a run that starts.
LEMMA TypeInit == Init => TypeInv
  <1> SUFFICES ASSUME Init PROVE TypeInv OBVIOUS
  <1>1. 1 \in Iterations /\ 0 \in StepIndices
    BY StepsAssumption, BudgetAssumption DEF Iterations, StepIndices
  <1>2. run \in Machines /\ checkpoint \in Checkpoints
    BY <1>1 DEF Init, Machines, Machine, Checkpoints, Checkpoint, ExecutionPhases
  <1>3. NoEvidence \in Judgements /\ NotAccepted \in Acceptances
    BY DEF NoEvidence, Judgements, NotAccepted, Acceptances
  <1>4. NoRecord \in Records
    BY DEF NoRecord, NoFingerprint, Records, Prints, AnswerCodes, Findings
  <1>5. StepInPlan /\ IterationLeft
    BY DEF Init, StepInPlan, IterationLeft
  <1>6. <<>> \in Seq(Commits) /\ <<>> \in Seq(Findings)
    OBVIOUS
  <1>7. pc \in Operations /\ "none" \in AnswerCodes
    BY DEF Init, Operations, AnswerCodes
  <1>8. /\ evidence \in [Iterations -> Judgements]
        /\ accepted \in [Iterations -> Acceptances]
        /\ reports \in [Iterations -> Seq(Findings)]
        /\ answer \in [Iterations -> AnswerCodes]
        /\ records \in [Iterations -> Records]
        /\ settled \in [Iterations -> SUBSET StepIndices]
    BY <1>3, <1>4, <1>6, <1>7 DEF Init
  <1>9. /\ identity \in Iterations /\ branch \in Seq(Commits) /\ published \in Nat
        /\ iter \in Iterations /\ index \in 0 .. Steps /\ stops \in 0 .. MaxStops
    <2> USE DEF Init
    <2>1. identity \in Iterations /\ iter \in Iterations BY <1>1
    <2>2. branch \in Seq(Commits) BY <1>6
    <2>3. published \in Nat OBVIOUS
    <2>4. index \in 0 .. Steps BY StepsAssumption
    <2>5. stops \in 0 .. MaxStops BY StopsAssumption
    <2> QED BY <2>1, <2>2, <2>3, <2>4, <2>5
  <1>10. /\ spent \in BOOLEAN /\ pauseWanted \in BOOLEAN
         /\ audited \in BOOLEAN /\ fragile \in BOOLEAN
    BY Zenon DEF Init
  <1> QED
    BY <1>2, <1>5, <1>7, <1>8, <1>9, <1>10 DEF TypeInv, TypeOK

\* Type correctness is preserved: one step per action of Next.
LEMMA TypeNext == TypeInv /\ [Next]_vars => TypeInv'
  <1> SUFFICES ASSUME TypeInv, [Next]_vars PROVE TypeInv' OBVIOUS
  <1> USE DEF TypeInv, TypeOK, StepInPlan, IterationLeft, At, Goto, Driving, Idle,
              durable, signals, locals, history
  <1>1. CASE OutOfBudget
    BY <1>1 DEF OutOfBudget, GuardedOperations, Operations
  <1>2. CASE Admit
    BY <1>2 DEF Admit, Operations
  <1>3. CASE EnterPlanner
    <2>1. run' \in Machines
      BY <1>3, MachineType DEF EnterPlanner, Fail, Leave
    <2> QED BY <1>3, <2>1 DEF EnterPlanner, Fail, Leave, Operations
  <1>4. CASE EnterSpent
    BY <1>4 DEF EnterSpent, Operations
  <1>5. CASE Enter
    <2>1. run' \in Machines
      BY <1>5, MachineType DEF Enter, Fail, Leave
    <2>2. index' \in 0 .. Steps
      BY <1>5, StepsAssumption DEF Enter, Checkpoints, StepIndices
    <2>3. pc' \in {"off", "step", "gate", "judge", "create", "push", "publish"}
      BY <1>5 DEF Enter, Fail, Leave, EntryOf, Checkpoints, ExecutionPhases
    <2> QED BY <1>5, <2>1, <2>2, <2>3 DEF Enter, Fail, Leave, Operations
  <1>6. CASE StepBoundary
    <2>1. checkpoint' \in Checkpoints
      BY <1>6, CheckpointType, StepsAssumption
         DEF StepBoundary, Boundary, ExecutionPhases, StepIndices
    <2> QED BY <1>6, <2>1 DEF StepBoundary, Boundary, Operations
  <1>7. CASE AcceptStep \/ SettleStep
    <2>1. branch' \in Seq(Commits)
      <3>1. [kind |-> "step", iteration |-> iter, step |-> index] \in Commits
        BY StepsAssumption, BudgetAssumption DEF Commits, Iterations
      <3>2. \A c \in Commits : Append(branch, c) \in Seq(Commits)
        OBVIOUS
      <3>3. \/ UNCHANGED branch
            \/ branch' = Append(branch, [kind |-> "step", iteration |-> iter, step |-> index])
        BY <1>7 DEF AcceptStep, SettleStep
      <3> QED BY <3>1, <3>2, <3>3, Zenon
    <2>2. settled' \in [Iterations -> SUBSET StepIndices]
      <3>1. index \in StepIndices
        BY <1>7, StepsAssumption DEF AcceptStep, SettleStep, StepIndices
      <3>2. settled[iter] \ {index} \in SUBSET StepIndices
        OBVIOUS
      <3>3. settled[iter] \cup {index} \in SUBSET StepIndices
        BY <3>1
      <3> QED BY <1>7, <3>2, <3>3 DEF AcceptStep, SettleStep
    <2> QED BY <1>7, <2>1, <2>2 DEF AcceptStep, SettleStep, Operations
  <1>8. CASE FatalStep
    BY <1>8, MachineType DEF FatalStep, Fail, Leave, Operations
  <1>9. CASE AfterStep
    <2>1. checkpoint' \in Checkpoints
      BY <1>9, CheckpointType, StepsAssumption
         DEF AfterStep, Boundary, ExecutionPhases, StepIndices
    <2>2. index' \in 0 .. Steps
      BY <1>9, StepsAssumption DEF AfterStep
    <2> QED BY <1>9, <2>1, <2>2 DEF AfterStep, Boundary, Operations
  <1>10. CASE Pause
    BY <1>10, MachineType DEF Pause, Leave, Operations
  <1>11. CASE ArchiveEvidence \/ RunChecks
    <2>1. evidence' \in [Iterations -> Judgements]
      <3>1. NoEvidence \in Judgements
        BY DEF NoEvidence, Judgements
      <3>2. \A v \in Verdicts : [head |-> Tip, verdict |-> v] \in Judgements
        BY DEF Judgements, Tip
      <3> QED BY <1>11, <3>1, <3>2 DEF ArchiveEvidence, RunChecks
    <2>2. accepted' \in [Iterations -> Acceptances]
      <3>1. CASE ArchiveEvidence
        <4>1. [accepted[iter] EXCEPT !.state = IF @ = "none" THEN @ ELSE "unbound"]
                 \in Acceptances
          BY DEF Acceptances
        <4> QED BY <3>1, <4>1 DEF ArchiveEvidence
      <3> QED BY <1>11, <3>1 DEF RunChecks
    <2> QED BY <1>11, <2>1, <2>2 DEF ArchiveEvidence, RunChecks, Operations
  <1>12. CASE JudgeSpecDecision \/ JudgeHard \/ AskHuman
    BY <1>12, MachineType DEF JudgeSpecDecision, JudgeHard, AskHuman, Fail, Leave, Operations
  <1>13. CASE AcceptGate
    <2>1. run' \in Machines
      BY <1>13, MachineType DEF AcceptGate, Fail, Leave
    <2>2. accepted' \in [Iterations -> Acceptances]
      BY <1>13 DEF AcceptGate, Acceptances, Tip
    <2>3. pc' \in {"outcome", "off"} /\ checkpoint' = checkpoint
      BY <1>13 DEF AcceptGate, Fail, Leave
    <2> QED BY <1>13, <2>1, <2>2, <2>3 DEF AcceptGate, Operations
  <1>14. CASE ToAudit \/ LeaveGate
    <2>1. checkpoint' \in Checkpoints
      BY <1>14, CheckpointType, StepsAssumption
         DEF ToAudit, LeaveGate, Boundary, ExecutionPhases, StepIndices
    <2> QED BY <1>14, <2>1 DEF ToAudit, LeaveGate, Boundary, Operations
  <1>15. CASE Audit
    <2>1. branch' \in Seq(Commits)
      <3>1. [kind |-> "audit", iteration |-> iter, step |-> 0] \in Commits
        BY BudgetAssumption DEF Commits, Iterations
      <3>2. \A c \in Commits : Append(branch, c) \in Seq(Commits)
        OBVIOUS
      <3>3. \/ UNCHANGED branch
            \/ branch' = Append(branch, [kind |-> "audit", iteration |-> iter, step |-> 0])
        BY <1>15 DEF Audit
      <3> QED BY <3>1, <3>2, <3>3, Zenon
    <2> QED BY <1>15, <2>1 DEF Audit, Operations
  <1>16. CASE Report
    <2>1. reports' \in [Iterations -> Seq(Findings)]
      BY <1>16 DEF Report
    <2> QED BY <1>16, <2>1 DEF Report, Operations
  <1>17. CASE AfterReport
    <2>1. run' \in Machines
      BY <1>17, MachineType DEF AfterReport, Leave
    <2>2. checkpoint' \in Checkpoints
      BY <1>17, CheckpointType, StepsAssumption
         DEF AfterReport, Leave, Boundary, ExecutionPhases, StepIndices
    <2>3. audited' \in BOOLEAN /\ pc' \in {"off", "gate"}
      BY <1>17 DEF AfterReport, Leave, Boundary
    <2> QED BY <1>17, <2>1, <2>2, <2>3 DEF AfterReport, Operations
  <1>18. CASE PlannerBoundary \/ NextBoundary \/ CandidateBoundary
    <2>1. checkpoint' \in Checkpoints
      BY <1>18, CheckpointType, StepsAssumption
         DEF PlannerBoundary, NextBoundary, CandidateBoundary, Boundary, ExecutionPhases, StepIndices
    <2> QED BY <1>18, <2>1
            DEF PlannerBoundary, NextBoundary, CandidateBoundary, Boundary, Operations
  <1>19. CASE Decide
    <2>1. Answers \subseteq AnswerCodes
      BY DEF Answers, AnswerCodes
    <2>2. answer' \in [Iterations -> AnswerCodes]
      BY <1>19, <2>1 DEF Decide
    <2> QED BY <1>19, <2>2 DEF Decide, Operations
  <1>20. CASE CloseSpec
    BY <1>20, RecordType DEF CloseSpec, Operations
  <1>21. CASE CloseComplete
    <2>1. run' \in Machines
      BY <1>21 DEF CloseComplete, Machines
    <2> QED BY <1>21, <2>1, RecordType DEF CloseComplete, Operations
  <1>22. CASE CloseNext
    <2>1. records' \in [Iterations -> Records]
      BY <1>22, RecordType DEF CloseNext, Ends
    <2>2. pc' = "prepare" => iter < MaxIterations
      BY <1>22, BudgetAssumption DEF CloseNext, Ends, Iterations
    <2> QED BY <1>22, <2>1, <2>2 DEF CloseNext, Operations
  <1>23. CASE PrepareNext
    <2>1. iter + 1 \in Iterations
      BY <1>23, BudgetAssumption DEF PrepareNext, Iterations
    <2>2. 0 \in 0 .. Steps
      BY StepsAssumption
    <2> QED BY <1>23, <2>1, <2>2, Zenon DEF PrepareNext, Operations
  <1>24. CASE PushCandidate
    BY <1>24 DEF PushCandidate, Operations
  <1>25. CASE Publish
    <2>1. run' \in Machines
      BY <1>25, MachineType DEF Publish
    <2>2. checkpoint' \in Checkpoints
      BY <1>25, CheckpointType, StepsAssumption
         DEF Publish, ExecutionPhases, StepIndices
    <2>3. published' \in Nat
      BY <1>25 DEF Publish, Tip
    <2> QED BY <1>25, <2>1, <2>2, <2>3 DEF Publish, Operations
  <1>26. CASE Rephase
    <2>1. checkpoint' \in Checkpoints
      BY <1>26, CheckpointType, StepsAssumption DEF Rephase, ExecutionPhases, StepIndices, Here
    <2> QED BY <1>26, <2>1 DEF Rephase, Operations
  <1>27. CASE RewindToAccepted
    <2>1. branch' \in Seq(Commits)
      BY <1>27, AcceptedHeadHeld DEF RewindToAccepted, Tip
    <2>2. records' \in [Iterations -> Records]
      BY <1>27 DEF RewindToAccepted, Records
    <2> QED BY <1>27, <2>1, <2>2 DEF RewindToAccepted, Operations
  <1>28. CASE FinishPartial
    <2>1. run' \in Machines
      BY <1>28 DEF FinishPartial, Machine, Machines
    <2> QED BY <1>28, <2>1 DEF FinishPartial, Operations
  <1>29. CASE Interrupt \/ Unavailable \/ Escape \/ RefusedAnswer \/ RefusedGate
    <2>1. Struck(run.disposition', run.reason') /\ run' \in Machines
      BY <1>29, MachineType
         DEF Interrupt, Unavailable, Escape, RefusedAnswer, RefusedGate, Projected, Struck, Machine
    <2>2. CanStop \/ UNCHANGED history
      BY <1>29 DEF Interrupt, Unavailable, Escape, RefusedAnswer, RefusedGate
    <2>3. stops' \in 0 .. MaxStops
      BY <2>2, StopsAssumption DEF CanStop
    <2>4. fragile' \in BOOLEAN
      BY <2>2, Zenon DEF CanStop, InFragileWindow
    <2>5. 1 \in Iterations /\ 0 \in 0 .. Steps
      BY BudgetAssumption, StepsAssumption DEF Iterations
    <2> QED BY <2>1, <2>3, <2>4, <2>5 DEF Struck, Operations
  <1>30. CASE Resume
    <2>1. run' \in Machines
      BY <1>30, MachineType DEF Resume
    <2>2. Adopted \in Checkpoints
      <3>1. checkpoint.step + 1 < Steps => checkpoint.step + 1 \in StepIndices
        BY StepsAssumption DEF Checkpoints, StepIndices
      <3>2. 0 \in StepIndices
        BY StepsAssumption DEF StepIndices
      <3> QED BY <3>1, <3>2, CheckpointType DEF Adopted, ExecutionPhases, Here
    <2>3. /\ checkpoint' \in Checkpoints /\ iter' \in Iterations
          /\ pc' \in {pc, "enter"} /\ (pc' = pc \/ pc' = "enter")
      BY <1>30, <2>2 DEF Resume, Checkpoints
    <2>4. pc' = "prepare" => iter' < MaxIterations
      BY <1>30 DEF Resume
    <2> QED BY <1>30, <2>1, <2>3, <2>4 DEF Resume, Operations
  <1>31. CASE Expire \/ RequestPause
    BY <1>31 DEF Expire, RequestPause
  <1>32. CASE UNCHANGED vars
    BY <1>32 DEF vars
  <1> QED
    BY <1>1, <1>2, <1>3, <1>4, <1>5, <1>6, <1>7, <1>8, <1>9, <1>10, <1>11, <1>12, <1>13,
       <1>14, <1>15, <1>16, <1>17, <1>18, <1>19, <1>20, <1>21, <1>22, <1>23, <1>24, <1>25,
       <1>26, <1>27, <1>28, <1>29, <1>30, <1>31, <1>32
       DEF Next, Drive, Rest

\* It holds at every moment.
LEMMA TypeAlways == Spec => []TypeInv
  <1> QED BY TypeInit, TypeNext, PTL DEF Spec

\* The driver's memory and every durable file keep their shape, whatever the
\* plan, the budgets and the stops.
THEOREM TypeCorrect == Spec => []TypeOK
  <1>1. TypeInv => TypeOK BY DEF TypeInv
  <1> QED BY <1>1, TypeAlways, PTL

-----------------------------------------------------------------------------
(* The audits of an iteration: the driver carries the permission it checked *)
(* from the judgement to the report, over the auditor's call.               *)

\* It holds of a run that starts.
LEMMA AuditInit == Init => AuditInv
  BY BudgetAssumption DEF Init, AuditInv, AuditLeft, AuditsBounded, Iterations

\* The reports change in one action only, and only the gate opens an audit.
LEMMA ReportsKept ==
    ASSUME [Next]_vars, ~Report
    PROVE  UNCHANGED reports
  BY DEF vars, durable, signals, locals, history, Driving, Idle, Next, Drive, Rest,
         OutOfBudget, Admit, EnterPlanner, EnterSpent, Enter, StepBoundary, AcceptStep,
         SettleStep, FatalStep, AfterStep, Pause, ArchiveEvidence, RunChecks,
         JudgeSpecDecision, JudgeHard, AcceptGate, ToAudit, LeaveGate, Audit, AfterReport,
         PlannerBoundary, Decide, CloseSpec, CloseComplete, CloseNext, AskHuman,
         RefusedAnswer, RefusedGate, PrepareNext, NextBoundary, CandidateBoundary,
         PushCandidate, Publish, Rephase, RewindToAccepted, FinishPartial, Interrupt,
         Unavailable, Escape, Projected, Struck, Resume, Expire, RequestPause

\* Inside an audit the iteration does not move, and an audit begins where
\* the loop has one left.
LEMMA AuditEntered ==
    ASSUME TypeInv, [Next]_vars, pc' \in {"audit", "auditing", "report"}
    PROVE  /\ iter' = iter /\ reports' = reports
           /\ pc \in {"audit", "auditing", "report"} \/ MayAudit
  <1> USE DEF Goto, At, durable, signals, locals, history, Driving, Idle
  <1>1. CASE pc' # pc
    <2>1. ~Report BY <1>1 DEF Report
    <2>2. ToAudit \/ Admit \/ Audit
      BY <1>1 DEF vars, Next, Drive, Rest, Leave, Fail, Boundary, Struck, Projected,
         OutOfBudget, EnterPlanner, EnterSpent, Enter, EntryOf, TypeInv, TypeOK, Checkpoints,
         ExecutionPhases, StepBoundary, AcceptStep,
         SettleStep, FatalStep, AfterStep, Pause, ArchiveEvidence, RunChecks,
         JudgeSpecDecision, JudgeHard, AcceptGate, LeaveGate, Report, AfterReport,
         PlannerBoundary, Decide, CloseSpec, CloseComplete, CloseNext, AskHuman,
         RefusedAnswer, RefusedGate, PrepareNext, NextBoundary, CandidateBoundary,
         PushCandidate, Publish, Rephase, RewindToAccepted, FinishPartial, Interrupt,
         Unavailable, Escape, Resume, Expire, RequestPause
    <2> QED BY <2>1, <2>2, ReportsKept, <1>1 DEF ToAudit, Boundary, Admit, Audit
  <1>2. CASE pc' = pc
    <2>1. ~Report BY <1>2 DEF Report
    <2>2. iter' = iter
      BY <1>2 DEF vars, Next, Drive, Rest, Leave, Fail, Boundary, Struck, Projected,
         OutOfBudget, Admit, EnterPlanner, EnterSpent, Enter, StepBoundary, AcceptStep,
         SettleStep, FatalStep, AfterStep, Pause, ArchiveEvidence, RunChecks,
         JudgeSpecDecision, JudgeHard, AcceptGate, ToAudit, LeaveGate, Audit, AfterReport,
         PlannerBoundary, Decide, CloseSpec, CloseComplete, CloseNext, AskHuman,
         RefusedAnswer, RefusedGate, PrepareNext, NextBoundary, CandidateBoundary,
         PushCandidate, Publish, Rephase, RewindToAccepted, FinishPartial, Interrupt,
         Unavailable, Escape, Resume, Expire, RequestPause, Report
    <2> QED BY <1>2, <2>1, <2>2, ReportsKept
  <1> QED BY <1>1, <1>2

\* Every step keeps it.
LEMMA AuditNext == TypeInv /\ AuditInv /\ [Next]_vars => AuditInv'
  <1> SUFFICES ASSUME TypeInv, AuditInv, [Next]_vars PROVE AuditInv' OBVIOUS
  <1>1. AuditLeft'
    BY AuditEntered DEF AuditInv, AuditLeft, MayAudit
  <1>2. AuditsBounded'
    <2>1. CASE Report
      <3>1. Len(reports[iter]) < AuditRepairs
        BY <2>1 DEF AuditInv, AuditLeft, Report, At
      <3>2. \A n \in Iterations : n # iter => reports'[n] = reports[n]
        BY <2>1 DEF Report, TypeInv, TypeOK
      <3>3. Len(reports'[iter]) = Len(reports[iter]) + 1
        BY <2>1 DEF Report, TypeInv, TypeOK
      <3>4. Len(reports[iter]) \in Nat
        BY DEF TypeInv, TypeOK
      <3>5. Len(reports'[iter]) <= AuditRepairs
        BY <3>1, <3>3, <3>4, BudgetAssumption
      <3> QED BY <3>2, <3>5 DEF AuditInv, AuditsBounded
    <2>2. CASE ~Report
      BY <2>2, ReportsKept DEF AuditInv, AuditsBounded
    <2> QED BY <2>1, <2>2
  <1> QED BY <1>1, <1>2 DEF AuditInv

\* However often the run is stopped and resumed, the audits of one iteration
\* stay within budget.audit_repairs (_gate counts the durable reports).
THEOREM AuditsAreBounded == Spec => []AuditsBounded
  <1>1. AuditInv => AuditsBounded BY DEF AuditInv
  <1> QED BY <1>1, AuditInit, AuditNext, TypeAlways, PTL DEF Spec

-----------------------------------------------------------------------------
(* One decision per milestone.                                             *)

\* Only the continuation writes an answer, and only where none is.
LEMMA AnswerKept ==
    ASSUME TypeInv, [Next]_vars
    PROVE  \A n \in Iterations : answer[n] # "none" => answer'[n] = answer[n]
  <1>1. CASE Decide
    BY <1>1 DEF Decide, TypeInv, TypeOK
  <1>2. CASE ~Decide
    BY <1>2
    DEF vars, durable, signals, locals, history, Driving, Idle, Next, Drive, Rest,
         OutOfBudget, Admit, EnterPlanner, EnterSpent, Enter, StepBoundary, AcceptStep,
         SettleStep, FatalStep, AfterStep, Pause, ArchiveEvidence, RunChecks,
         JudgeSpecDecision, JudgeHard, AcceptGate, ToAudit, LeaveGate, Audit, Report,
         AfterReport, PlannerBoundary, CloseSpec, CloseComplete, CloseNext, AskHuman,
         RefusedAnswer, RefusedGate, PrepareNext, NextBoundary, CandidateBoundary,
         PushCandidate, Publish, Rephase, RewindToAccepted, FinishPartial, Interrupt,
         Unavailable, Escape, Projected, Struck, Resume, Expire, RequestPause
  <1> QED BY <1>1, <1>2

\* A continuation answer that was paid for is the milestone's only one, for
\* any number of stops and resumes (PlannerContinue.decide).
THEOREM AnswerIsFinal == Spec => OneAnswer
  <1>1. TypeInv /\ [Next]_vars =>
          [\A n \in Iterations : answer[n] # "none" => answer'[n] = answer[n]]_vars
    BY AnswerKept
  <1> QED BY <1>1, TypeAlways, PTL DEF Spec, OneAnswer

-----------------------------------------------------------------------------
(* What is published was judged.  The driver's judgement is memory: between *)
(* the gate and the publication any number of stops may lose it, and what   *)
(* carries it is the checkpoint (FreshDurably, CandidateJudged), which      *)
(* counts only while the branch is where the checkpoint left it (EnterAtGreen). *)

\* It holds of a run that starts.
LEMMA JudgeInit == Init => JudgeInv
  <1> SUFFICES ASSUME Init PROVE JudgeInv OBVIOUS
  <1> USE DEF Init, Checkpoint, Machine, Here, Tip
  <1>1. PhaseInPlace /\ SameIteration /\ EnterAtGreen /\ GreenHeld /\ FreshNow
    BY DEF PhaseInPlace, PhasesAt, ExecutionPhases, SameIteration, EnterAtGreen, GreenHeld,
           FreshNow
  <1>2. NoEarlyAnswer
    BY BudgetAssumption DEF NoEarlyAnswer, Iterations
  <1>3. FreshDurably /\ CandidateJudged /\ PublishedJudged
    BY DEF FreshDurably, CandidateJudged, Candidate, PublishedJudged
  <1> QED BY <1>1, <1>2, <1>3 DEF JudgeInv

\* The invariant is preserved: one step per action, split where the action
\* moves the judgement from the disk to the driver or back.
LEMMA JudgeNext == TypeInv /\ JudgeInv /\ [Next]_vars => JudgeInv'
  <1> SUFFICES ASSUME TypeInv, JudgeInv, [Next]_vars PROVE JudgeInv' OBVIOUS
  <1> USE DEF JudgeInv, PhaseInPlace, SameIteration, EnterAtGreen, GreenHeld, NoEarlyAnswer,
              FreshDurably, FreshNow, CandidateJudged, PublishedJudged,
              PhasesAt, Here, Tip, Work, Candidate, Fresh, Good, Settled, Judged, ReportOf,
              At, Goto, Driving, Idle, durable, signals, locals, history
  <1>t. /\ checkpoint.phase \in ExecutionPhases /\ checkpoint.green \in Nat
        /\ checkpoint.iteration \in Iterations /\ iter \in Iterations
        /\ Len(branch) \in Nat
    BY DEF TypeInv, TypeOK, Checkpoints
  <1>1. CASE OutOfBudget \/ Admit
    BY <1>t, <1>1 DEF OutOfBudget, Admit, GuardedOperations
  <1>2. CASE EnterPlanner \/ EnterSpent
    BY <1>t, <1>2 DEF EnterPlanner, EnterSpent, Fail, Leave
  <1>3. CASE Enter
    BY <1>t, <1>3 DEF Enter, Fail, Leave, EntryOf, ExecutionPhases, Machine
  <1>4. CASE StepBoundary \/ AfterStep
    BY <1>t, <1>4 DEF StepBoundary, AfterStep, Boundary, Checkpoint
  <1>5. CASE AcceptStep \/ SettleStep
    BY <1>t, <1>5 DEF AcceptStep, SettleStep, TypeInv, TypeOK
  <1>6. CASE FatalStep \/ Pause \/ JudgeSpecDecision \/ JudgeHard \/ AskHuman
    BY <1>t, <1>6
       DEF FatalStep, Pause, JudgeSpecDecision, JudgeHard, AskHuman, Fail, Leave, Machine
  <1>7. CASE ArchiveEvidence
    BY <1>t, <1>7 DEF ArchiveEvidence, NoEvidence, TypeInv, TypeOK
  <1>8. CASE RunChecks
    BY <1>t, <1>8 DEF RunChecks, TypeInv, TypeOK
  <1>9. CASE AcceptGate
    BY <1>t, <1>9 DEF AcceptGate, Fail, Leave, Machine
  <1>10. CASE LeaveGate
    BY <1>t, <1>10 DEF LeaveGate
  <1>11. CASE ToAudit
    BY <1>t, <1>11 DEF ToAudit, Boundary, Checkpoint
  <1>12. CASE Audit
    BY <1>t, <1>12 DEF Audit, TypeInv, TypeOK
  <1>13. CASE Report
    BY <1>t, <1>13 DEF Report, TypeInv, TypeOK
  <1>14. CASE AfterReport
    BY <1>t, <1>14 DEF AfterReport, Leave, Boundary, Checkpoint, Machine
  <1>15. CASE PlannerBoundary
    BY <1>t, <1>15 DEF PlannerBoundary, Boundary, Checkpoint
  <1>16. CASE NextBoundary
    <2>1. /\ pc = "guard" /\ pc' = "step" /\ iter' = iter /\ iter = checkpoint.iteration + 1
          /\ checkpoint'.phase = "implement_step" /\ checkpoint'.iteration = iter
          /\ checkpoint'.green = Len(branch)
          /\ UNCHANGED <<run, branch, evidence, answer, reports, records, published, spent>>
      BY <1>t, <1>16 DEF NextBoundary, Boundary, Checkpoint
    <2>2. NoEarlyAnswer'
      <3>1. \A n \in Iterations : n > iter => n > Here
        BY <1>t, <2>1, BudgetAssumption DEF Iterations
      <3>2. iter > Here
        BY <1>t, <2>1, BudgetAssumption DEF Iterations
      <3> QED BY <1>t, <2>1, <3>1, <3>2
    <2>3. PhaseInPlace' /\ SameIteration' /\ EnterAtGreen' /\ GreenHeld'
      BY <1>t, <2>1
    <2>4. FreshDurably' /\ FreshNow' /\ CandidateJudged' /\ PublishedJudged'
      BY <1>t, <2>1
    <2> QED BY <2>2, <2>3, <2>4
  <1>17. CASE CandidateBoundary
    BY <1>t, <1>17 DEF CandidateBoundary, Boundary, Checkpoint
  <1>18. CASE Decide
    <2>1. /\ pc = "asking" /\ pc' = "close" /\ checkpoint.phase = "planner"
          /\ iter = checkpoint.iteration /\ published = 0
          /\ UNCHANGED <<run, checkpoint, iter, branch, evidence, reports, records, published, spent>>
      BY <1>18 DEF Decide
    <2>2. \A n \in Iterations : n # iter => answer'[n] = answer[n]
      BY <1>t, <1>18 DEF Decide, TypeInv, TypeOK
    <2>3. Settled(iter)
      BY <2>1
    <2>4. answer'[iter] = "COMPLETE" => Good(iter)
      <3>1. answer'[iter] = "COMPLETE" /\ answer[iter] # "COMPLETE" => "COMPLETE" \in Answers
        BY <1>t, <1>18 DEF Decide, TypeInv, TypeOK
      <3>2. "COMPLETE" \in Answers => Verdict = "green" /\ LastReport # "remaining"
        BY DEF Answers
      <3>3. Verdict = "green" /\ LastReport # "remaining" => Good(iter)
        BY <1>t, <2>3 DEF Verdict, LastReport, Repaired, TypeInv, TypeOK, Judgements
      <3> QED BY <2>3, <3>1, <3>2, <3>3
    <2>5. Settled(iter)'
      BY <2>1, <2>3, <2>4
    <2>6. NoEarlyAnswer'
      <3>1. \A n \in Iterations : n > Here => n # iter
        BY <1>t, <2>1, BudgetAssumption DEF Iterations
      <3> QED BY <2>1, <2>2, <3>1
    <2>7. FreshDurably'
      BY <2>1, <2>5
    <2>8. FreshNow'
      BY <2>1, <2>5
    <2> QED BY <2>1, <2>6, <2>7, <2>8
  <1>19. CASE CloseSpec
    BY <1>t, <1>19 DEF CloseSpec, Record, TypeInv, TypeOK
  <1>20. CASE CloseComplete
    BY <1>t, <1>20 DEF CloseComplete, Record, TypeInv, TypeOK
  <1>21. CASE CloseNext
    BY <1>t, <1>21 DEF CloseNext, Record, TypeInv, TypeOK
  <1>22. CASE PrepareNext \/ PushCandidate
    BY <1>t, <1>22 DEF PrepareNext, PushCandidate
  <1>23. CASE Publish
    BY <1>t, <1>23 DEF Publish, Checkpoint, Machine, TypeInv, TypeOK, ExecutionPhases
  <1>24. CASE Rephase
    BY <1>t, <1>24 DEF Rephase, Checkpoint
  <1>25. CASE RewindToAccepted
    BY <1>t, <1>25 DEF RewindToAccepted, TypeInv, TypeOK
  <1>26. CASE FinishPartial
    BY <1>t, <1>26 DEF FinishPartial, Machine
  <1>27. CASE Interrupt \/ Unavailable \/ Escape \/ RefusedAnswer \/ RefusedGate
    BY <1>t, <1>27
       DEF Interrupt, Unavailable, Escape, RefusedAnswer, RefusedGate, EmptyAndRed, CanStop, Projected, Struck, Machine
  <1>28. CASE Resume
    <2>1. /\ run.disposition \in {"WAIT_EXTERNAL", "FAILED"} /\ published = 0
          /\ UNCHANGED <<branch, evidence, answer, reports, records, published, spent>>
      BY <1>28 DEF Resume, Resumable
    <2>2. CASE ResumeHolds
      <3>1. /\ checkpoint'.iteration = Here /\ checkpoint'.green = Tip
            /\ checkpoint'.phase \in ExecutionPhases
            /\ pc' = "enter" /\ iter' = Here
        BY <1>t, <1>28, <2>2 DEF Resume, Adopted, Checkpoint, ExecutionPhases
      <3>2. \/ checkpoint' = checkpoint
            \/ /\ checkpoint.phase \in Work
               /\ checkpoint'.phase \in {"implement_step", "deterministic_gate"}
        BY <1>28, <2>2 DEF Resume, ResumeHolds, Adopted, Adoptable, OwnCommit, Checkpoint
      <3>3. NoEarlyAnswer' /\ FreshDurably' /\ CandidateJudged'
        BY <2>1, <3>1, <3>2
      <3>4. PhaseInPlace'
        BY <3>1
      <3>5. SameIteration' /\ EnterAtGreen'
        BY <1>t, <2>1, <3>1
      <3>6. GreenHeld'
        BY <1>t, <2>1, <3>1
      <3>7. FreshNow' /\ PublishedJudged'
        BY <2>1, <3>1
      <3> QED BY <3>3, <3>4, <3>5, <3>6, <3>7
    <2>3. CASE ~ResumeHolds
      <3>1. UNCHANGED <<checkpoint, pc, iter>>
        BY <1>28, <2>3 DEF Resume
      <3> QED BY <2>1, <3>1
    <2> QED BY <2>2, <2>3
  <1>29. CASE Expire \/ RequestPause
    BY <1>t, <1>29 DEF Expire, RequestPause
  <1>30. CASE UNCHANGED vars
    BY <1>30 DEF vars
  <1> QED
    BY <1>1, <1>2, <1>3, <1>4, <1>5, <1>6, <1>7, <1>8, <1>9, <1>10, <1>11, <1>12, <1>13,
       <1>14, <1>15, <1>16, <1>17, <1>18, <1>19, <1>20, <1>21, <1>22, <1>23, <1>24, <1>25, <1>26,
       <1>27, <1>28, <1>29, <1>30
       DEF Next, Drive, Rest

\* For every plan, budget and number of stops, the published commit is the tree
\* the iteration's last gate judged green, with no audit finding open
\* (GateAcceptanceService.accept, CandidatePublisher).
THEOREM WhatIsPublished == Spec => []PublishedIsJudged
  <1>1. JudgeInv => PublishedIsJudged
    BY DEF JudgeInv, PublishedJudged, PublishedIsJudged, Judged, Good, ReportOf,
           LastReport, Repaired
  <1> QED BY <1>1, JudgeInit, JudgeNext, TypeAlways, PTL DEF Spec

-----------------------------------------------------------------------------
(* The branch: its commits are in the order of the plan, and it is at most *)
(* one commit ahead of the checkpoint.                                     *)

\* Commit c was made before the operation the checkpoint names.
Earlier(c) ==
    \/ c.iteration < Here
    \/ /\ c.iteration = Here
       /\ checkpoint.phase = "implement_step" => c.kind = "step" /\ c.step < checkpoint.step

\* The commit the checkpoint's own operation makes.
Own == IF checkpoint.phase = "audit"
       THEN [kind |-> "audit", iteration |-> Here, step |-> 0]
       ELSE [kind |-> "step", iteration |-> Here, step |-> checkpoint.step]

\* Whatever the checkpoint counts as accepted was made before its operation.
EarlierBelow == \A i \in DOMAIN branch : i <= checkpoint.green => Earlier(branch[i])

\* The branch is at most one commit further, the one of the checkpoint's own
\* operation, and only where that operation may have made it.
OneAhead ==
    /\ checkpoint.green < Tip =>
          /\ Tip = checkpoint.green + 1
          /\ checkpoint.phase \in {"implement_step", "audit"}
          /\ branch[Tip] = Own
    /\ pc \notin {"stepped", "step", "report", "reported", "partial_end", "off"} =>
          checkpoint.green = Tip
    /\ pc \notin {"partial_end", "off"} => checkpoint.green <= Tip

StepInPlace ==
    /\ pc \in {"execute", "working", "stepped"} => index = checkpoint.step
    /\ pc = "step" => /\ checkpoint.step <= index
                      /\ checkpoint.green < Tip => checkpoint.step < index

OrderInv == EarlierBelow /\ OneAhead /\ StepInPlace /\ CommitsInOrder

\* Every commit of the branch is before the checkpoint's operation or its own.
LEMMA EarlierOrOwn ==
    ASSUME TypeInv, OrderInv, NEW i \in DOMAIN branch, checkpoint.green <= Tip
    PROVE  /\ branch[i] \in Commits /\ i \in 1 .. Tip
           /\ \/ Earlier(branch[i])
              \/ /\ branch[i] = Own /\ checkpoint.green < Tip
                 /\ checkpoint.phase \in {"implement_step", "audit"}
  <1>1. branch[i] \in Commits /\ i \in 1 .. Tip /\ Tip \in Nat /\ checkpoint.green \in Nat
    BY DEF TypeInv, TypeOK, Tip, Checkpoints
  <1>2. CASE i <= checkpoint.green
    BY <1>1, <1>2 DEF OrderInv, EarlierBelow
  <1>3. CASE i > checkpoint.green
    BY <1>1, <1>3 DEF OrderInv, OneAhead
  <1> QED  BY <1>1, <1>2, <1>3

\* A boundary at the head that no commit has passed keeps the order.
LEMMA BoundaryKeepsOrder ==
    ASSUME TypeInv, OrderInv, UNCHANGED branch, checkpoint'.green = Tip,
           \A i \in DOMAIN branch : Earlier(branch[i])', StepInPlace'
    PROVE  OrderInv'
  <1>1. Tip' = Tip /\ Tip \in Nat
    BY DEF TypeInv, TypeOK, Tip
  <1>2. EarlierBelow' /\ CommitsInOrder'
    BY DEF OrderInv, EarlierBelow, CommitsInOrder, Precedes
  <1>3. OneAhead'
    BY <1>1 DEF OneAhead
  <1> QED  BY <1>2, <1>3 DEF OrderInv

\* A boundary inside the iteration that is not before a step of it: every
\* commit is of this iteration or an earlier one.
LEMMA LaterPhaseKeepsOrder ==
    ASSUME TypeInv, OrderInv, UNCHANGED branch, checkpoint.green <= Tip,
           checkpoint'.green = Tip, checkpoint'.iteration = Here,
           checkpoint'.phase # "implement_step", StepInPlace'
    PROVE  OrderInv'
  <1>1. \A i \in DOMAIN branch : branch[i].iteration \in Nat /\ branch[i].iteration <= Here
    <2> TAKE i \in DOMAIN branch
    <2>1. branch[i].iteration \in Nat /\ Here \in Nat
      BY EarlierOrOwn DEF Here, TypeInv, TypeOK, Checkpoints, Commits, Iterations
    <2>2. branch[i].iteration < Here \/ branch[i].iteration = Here
      BY EarlierOrOwn DEF Earlier, Own
    <2> QED  BY <2>1, <2>2
  <1>2. \A i \in DOMAIN branch : Earlier(branch[i])'
    BY <1>1 DEF Earlier, Here, TypeInv, TypeOK, Checkpoints, Iterations
  <1> QED  BY <1>2, BoundaryKeepsOrder

\* A boundary before a step that comes after the one just run.
LEMMA LaterStepKeepsOrder ==
    ASSUME TypeInv, OrderInv, UNCHANGED branch, checkpoint.green <= Tip,
           checkpoint.phase = "implement_step",
           checkpoint'.green = Tip, checkpoint'.iteration = Here,
           checkpoint'.phase = "implement_step", checkpoint'.step \in Nat,
           checkpoint.step <= checkpoint'.step,
           checkpoint.green < Tip => checkpoint.step < checkpoint'.step, StepInPlace'
    PROVE  OrderInv'
  <1>1. \A i \in DOMAIN branch : Earlier(branch[i])'
    <2> TAKE i \in DOMAIN branch
    <2>1. branch[i] \in Commits /\ checkpoint.step \in Nat /\ Here \in Nat
      BY EarlierOrOwn DEF TypeInv, TypeOK, Checkpoints, StepIndices, Here, Iterations
    <2>2. \/ branch[i].iteration < Here
          \/ /\ branch[i].iteration = Here /\ branch[i].kind = "step"
             /\ \/ branch[i].step < checkpoint.step
                \/ branch[i].step = checkpoint.step /\ checkpoint.green < Tip
      BY EarlierOrOwn DEF Earlier, Own
    <2> QED  BY <2>1, <2>2 DEF Earlier, Here, Commits
  <1> QED  BY <1>1, BoundaryKeepsOrder

\* The worker or the auditor commits on top of what came before.
LEMMA CommitKeepsOrder ==
    ASSUME TypeInv, OrderInv, checkpoint.green = Tip, UNCHANGED checkpoint,
           checkpoint.phase \in {"implement_step", "audit"},
           branch' = Append(branch, Own), pc' \in {"stepped", "report"}, StepInPlace'
    PROVE  OrderInv'
  <1>1. /\ Tip \in Nat /\ Tip' = Tip + 1 /\ branch'[Tip'] = Own /\ DOMAIN branch' = 1 .. Tip + 1
        /\ DOMAIN branch = 1 .. Tip
        /\ \A i \in 1 .. Tip : branch'[i] = branch[i] /\ branch[i] \in Commits
    BY DEF TypeInv, TypeOK, Tip
  <1>2. EarlierBelow'
    <2> SUFFICES ASSUME NEW i \in 1 .. Tip + 1, i <= Tip PROVE Earlier(branch[i])'
      BY <1>1 DEF EarlierBelow
    <2>1. i \in 1 .. Tip
      BY <1>1
    <2> QED  BY <1>1, <2>1 DEF OrderInv, EarlierBelow, Earlier, Here
  <1>3. OneAhead'
    BY <1>1 DEF OneAhead, Own, Here
  <1>4. CommitsInOrder'
    <2> SUFFICES ASSUME NEW i \in 1 .. Tip + 1, NEW j \in 1 .. Tip + 1, i < j
                 PROVE  Precedes(branch'[i], branch'[j])
      BY <1>1 DEF CommitsInOrder, Precedes
    <2>1. i \in 1 .. Tip
      BY <1>1
    <2>2. CASE j = Tip + 1
      <3>1. Earlier(branch[i])
        BY <1>1, <2>1 DEF OrderInv, EarlierBelow
      <3> QED  BY <1>1, <2>1, <2>2, <3>1 DEF Earlier, Own, Precedes
    <2>3. CASE j # Tip + 1
      BY <1>1, <2>1, <2>3 DEF OrderInv, CommitsInOrder, Precedes
    <2> QED  BY <2>2, <2>3
  <1> QED  BY <1>2, <1>3, <1>4 DEF OrderInv

\* A prefix of the branch is in order too.
LEMMA RewindKeepsOrder ==
    ASSUME TypeInv, OrderInv, UNCHANGED checkpoint, checkpoint.green = Tip,
           NEW k \in 0 .. Tip, branch' = SubSeq(branch, 1, k), pc' = "partial_end"
    PROVE  OrderInv'
  <1>1. /\ Tip \in Nat /\ Tip' = k /\ DOMAIN branch = 1 .. Tip /\ DOMAIN branch' = 1 .. k
        /\ \A i \in 1 .. k : i \in 1 .. Tip /\ branch'[i] = branch[i]
    BY DEF TypeInv, TypeOK, Tip
  <1>2. EarlierBelow'
    <2> SUFFICES ASSUME NEW i \in 1 .. k PROVE Earlier(branch[i])'
      BY <1>1 DEF EarlierBelow
    <2> QED  BY <1>1 DEF OrderInv, EarlierBelow, Earlier, Here
  <1>3. CommitsInOrder'
    BY <1>1 DEF OrderInv, CommitsInOrder, Precedes
  <1>4. OneAhead' /\ StepInPlace'
    BY <1>1 DEF OneAhead, StepInPlace
  <1> QED  BY <1>2, <1>3, <1>4 DEF OrderInv

\* Without a boundary or a commit only the place of the driver counts.
LEMMA QuietKeepsOrder ==
    ASSUME TypeInv, OrderInv, UNCHANGED <<branch, checkpoint>>,
           \/ checkpoint.green = Tip
           \/ pc' \in {"stepped", "step", "report", "reported"} /\ checkpoint.green <= Tip
           \/ pc' = "off",
           StepInPlace'
    PROVE  OrderInv'
  <1>1. Tip' = Tip /\ Tip \in Nat /\ checkpoint.green \in Nat
    BY DEF TypeInv, TypeOK, Tip, Checkpoints
  <1>2. EarlierBelow' /\ CommitsInOrder'
    BY DEF OrderInv, EarlierBelow, Earlier, Here, CommitsInOrder, Precedes
  <1>3. OneAhead'
    BY <1>1 DEF OrderInv, OneAhead, Own, Here
  <1> QED  BY <1>2, <1>3 DEF OrderInv

\* Every commit of the branch is of the checkpoint's iteration or earlier.
LEMMA NoCommitBeyond ==
    ASSUME TypeInv, OrderInv, checkpoint.green <= Tip, NEW i \in DOMAIN branch
    PROVE  branch[i].iteration \in Nat /\ Here \in Nat /\ branch[i].iteration <= Here
  <1>1. branch[i].iteration \in Nat /\ Here \in Nat
    BY EarlierOrOwn DEF Here, TypeInv, TypeOK, Checkpoints, Commits, Iterations
  <1>2. branch[i].iteration < Here \/ branch[i].iteration = Here
    BY EarlierOrOwn DEF Earlier, Own
  <1> QED  BY <1>1, <1>2

\* The run starts on an empty branch, before its first step.
LEMMA OrderInit == Init => OrderInv
  BY DEF Init, OrderInv, EarlierBelow, OneAhead, StepInPlace, CommitsInOrder, Tip, Checkpoint

\* Boundaries, commits, the PARTIAL rewind and resumes keep the order.
LEMMA OrderNext == TypeInv /\ JudgeInv /\ OrderInv /\ [Next]_vars => OrderInv'
  <1> SUFFICES ASSUME TypeInv, JudgeInv, OrderInv, [Next]_vars PROVE OrderInv' OBVIOUS
  <1> USE DEF At, Goto, Driving, Idle, durable, signals, locals, history
  <1>t. /\ Tip \in Nat /\ checkpoint.green \in Nat /\ checkpoint.step \in Nat
        /\ checkpoint.iteration \in Nat /\ iter \in Nat /\ index \in Nat
        /\ Here = checkpoint.iteration
    BY DEF TypeInv, TypeOK, Checkpoints, Tip, StepIndices, Iterations, Here
  <1>g. /\ pc \notin {"partial_end", "off"} => checkpoint.green <= Tip
        /\ pc \notin {"stepped", "step", "report", "reported", "partial_end", "off"} =>
              checkpoint.green = Tip
    BY DEF OrderInv, OneAhead
  <1>i. /\ pc \notin {"guard", "budget", "partial", "partial_end", "off"} => iter = Here
        /\ pc = "guard" => iter = Here + 1
    BY DEF JudgeInv, SameIteration
  <1>p. /\ pc \in {"step", "execute", "working", "stepped"}
              => checkpoint.phase = "implement_step"
        /\ pc = "auditing" => checkpoint.phase = "audit"
    BY DEF JudgeInv, PhaseInPlace, PhasesAt
  <1>1. CASE \/ OutOfBudget \/ Admit \/ EnterPlanner \/ EnterSpent \/ FatalStep \/ Pause
             \/ ArchiveEvidence \/ RunChecks \/ JudgeSpecDecision \/ JudgeHard
             \/ LeaveGate \/ Decide \/ AskHuman
    <2>1. UNCHANGED <<branch, checkpoint, index>> /\ checkpoint.green = Tip
      BY <1>1, <1>g DEF OutOfBudget, Admit, EnterPlanner, EnterSpent, FatalStep, Pause,
         ArchiveEvidence, RunChecks, JudgeSpecDecision, JudgeHard, LeaveGate, Decide, AskHuman,
         Fail, Leave, GuardedOperations
    <2>2. \/ pc' = "working" /\ pc = "execute"
          \/ pc' \notin {"execute", "working", "stepped", "step"}
      BY <1>1 DEF OutOfBudget, Admit, EnterPlanner, EnterSpent, FatalStep, Pause,
         ArchiveEvidence, RunChecks, JudgeSpecDecision, JudgeHard, LeaveGate, Decide, AskHuman,
         Fail, Leave
    <2>3. StepInPlace'
      BY <2>1, <2>2 DEF OrderInv, StepInPlace
    <2> QED  BY <2>1, <2>3, QuietKeepsOrder
  <1>2. CASE \/ AcceptGate \/ CloseSpec \/ CloseComplete \/ CloseNext \/ PrepareNext
             \/ PushCandidate \/ Report
    <2>1. /\ UNCHANGED <<branch, checkpoint>> /\ checkpoint.green <= Tip
          /\ checkpoint.green = Tip \/ pc' = "reported"
          /\ pc' \notin {"execute", "working", "stepped", "step"}
      BY <1>2, <1>g, <1>t DEF AcceptGate, CloseSpec, CloseComplete, CloseNext, PrepareNext,
         PushCandidate, Report, Fail, Leave
    <2>2. StepInPlace'
      BY <2>1 DEF StepInPlace
    <2> QED  BY <2>1, <2>2, QuietKeepsOrder
  <1>3. CASE \/ FinishPartial \/ Interrupt \/ Unavailable \/ Escape \/ RefusedAnswer
             \/ RefusedGate
    <2>1. UNCHANGED <<branch, checkpoint>> /\ pc' = "off"
      BY <1>3 DEF FinishPartial, Interrupt, Unavailable, Escape, RefusedAnswer, RefusedGate,
         Projected, Struck
    <2>2. StepInPlace'
      BY <2>1 DEF StepInPlace
    <2> QED  BY <2>1, <2>2, QuietKeepsOrder
  <1>4. CASE Enter
    <2>1. /\ UNCHANGED <<branch, checkpoint>> /\ checkpoint.green = Tip
          /\ pc' \notin {"execute", "working", "stepped"}
          /\ (pc' = "step" => index' = checkpoint.step)
      BY <1>4, <1>g DEF Enter, Fail, Leave, EntryOf, TypeInv, TypeOK, Checkpoints,
         ExecutionPhases
    <2>2. StepInPlace'
      BY <2>1, <1>t DEF StepInPlace, Tip
    <2> QED  BY <2>1, <2>2, QuietKeepsOrder
  <1>5. CASE StepBoundary
    <2>1. /\ UNCHANGED <<branch, index>> /\ checkpoint'.green = Tip
          /\ checkpoint'.iteration = Here
          /\ pc = "step" /\ checkpoint.green <= Tip /\ checkpoint.phase = "implement_step"
          /\ checkpoint.step <= index /\ (checkpoint.green < Tip => checkpoint.step < index)
      BY <1>5, <1>g, <1>i, <1>p DEF StepBoundary, Boundary, Checkpoint, OrderInv, StepInPlace
    <2>2. CASE index < Steps
      <3>1. /\ pc' = "execute" /\ checkpoint'.phase = "implement_step"
            /\ checkpoint'.step = index
        BY <1>5, <2>2 DEF StepBoundary, Boundary, Checkpoint
      <3>2. StepInPlace'
        BY <2>1, <3>1 DEF StepInPlace
      <3> QED  BY <1>t, <2>1, <3>1, <3>2, LaterStepKeepsOrder
    <2>3. CASE ~(index < Steps)
      <3>1. pc' = "gate" /\ checkpoint'.phase = "deterministic_gate"
        BY <1>5, <2>3 DEF StepBoundary, Boundary, Checkpoint
      <3>2. StepInPlace'
        BY <3>1 DEF StepInPlace
      <3> QED  BY <2>1, <3>1, <3>2, LaterPhaseKeepsOrder
    <2> QED  BY <2>2, <2>3
  <1>6. CASE AcceptStep
    <2>1. /\ pc = "working" /\ pc' = "stepped" /\ UNCHANGED <<checkpoint, index>>
          /\ checkpoint.green = Tip /\ checkpoint.phase = "implement_step" /\ iter = Here
          /\ index = checkpoint.step
      BY <1>6, <1>g, <1>i, <1>p DEF AcceptStep, OrderInv, StepInPlace
    <2>2. StepInPlace'
      BY <2>1 DEF StepInPlace
    <2>3. UNCHANGED branch \/ branch' = Append(branch, Own)
      BY <1>6, <2>1 DEF AcceptStep, Own
    <2> QED  BY <2>1, <2>2, <2>3, QuietKeepsOrder, CommitKeepsOrder
  <1>7. CASE SettleStep
    <2>1. /\ pc \in {"execute", "working"} /\ pc' = "stepped"
          /\ UNCHANGED <<branch, checkpoint, index>>
          /\ checkpoint.green = Tip /\ index = checkpoint.step
      BY <1>7, <1>g DEF SettleStep, OrderInv, StepInPlace
    <2>2. StepInPlace'
      BY <2>1 DEF StepInPlace
    <2> QED  BY <2>1, <2>2, QuietKeepsOrder
  <1>8. CASE AfterStep
    <2>1. /\ UNCHANGED branch /\ index' = index + 1 /\ pc = "stepped" /\ index = checkpoint.step
          /\ iter = Here /\ checkpoint.green <= Tip /\ checkpoint.phase = "implement_step"
      BY <1>8, <1>g, <1>i, <1>p DEF AfterStep, OrderInv, StepInPlace
    <2>2. CASE pauseWanted
      <3>1. pc' = "pausing" /\ checkpoint'.green = Tip /\ checkpoint'.iteration = Here
        BY <1>8, <2>1, <2>2 DEF AfterStep, Boundary, Checkpoint
      <3>2. StepInPlace'
        BY <3>1 DEF StepInPlace
      <3>3. \/ checkpoint'.phase = "implement_step" /\ checkpoint'.step = index + 1
            \/ checkpoint'.phase = "deterministic_gate"
        BY <1>8, <2>2 DEF AfterStep, Boundary, Checkpoint
      <3> QED  BY <1>t, <2>1, <3>1, <3>2, <3>3, LaterStepKeepsOrder, LaterPhaseKeepsOrder
    <2>3. CASE ~pauseWanted
      <3>1. pc' = "step" /\ UNCHANGED checkpoint
        BY <1>8, <2>3 DEF AfterStep
      <3>2. StepInPlace'
        BY <1>t, <2>1, <3>1 DEF StepInPlace
      <3> QED  BY <2>1, <3>1, <3>2, QuietKeepsOrder
    <2> QED  BY <2>2, <2>3
  <1>9. CASE \/ ToAudit \/ AfterReport \/ PlannerBoundary \/ CandidateBoundary \/ Publish
             \/ Rephase
    <2>1. /\ UNCHANGED branch /\ pc' \notin {"execute", "working", "stepped", "step"}
          /\ checkpoint.green <= Tip
          /\ \/ UNCHANGED checkpoint /\ (checkpoint.green = Tip \/ pc' = "off")
             \/ checkpoint'.green = Tip /\ checkpoint'.iteration = Here
                /\ checkpoint'.phase # "implement_step"
      BY <1>9, <1>g, <1>i, <1>t DEF ToAudit, AfterReport, PlannerBoundary, CandidateBoundary,
         Publish, Rephase, Boundary, Checkpoint, Leave
    <2>2. StepInPlace'
      BY <2>1 DEF StepInPlace
    <2> QED  BY <2>1, <2>2, QuietKeepsOrder, LaterPhaseKeepsOrder
  <1>10. CASE Audit
    <2>1. /\ pc = "auditing" /\ pc' = "report" /\ UNCHANGED checkpoint
          /\ checkpoint.green = Tip /\ checkpoint.phase = "audit" /\ iter = Here
      BY <1>10, <1>g, <1>i, <1>p DEF Audit
    <2>2. StepInPlace'
      BY <2>1 DEF StepInPlace
    <2>3. UNCHANGED branch \/ branch' = Append(branch, Own)
      BY <1>10, <2>1 DEF Audit, Own
    <2> QED  BY <2>1, <2>2, <2>3, QuietKeepsOrder, CommitKeepsOrder
  <1>11. CASE NextBoundary
    <2>1. /\ UNCHANGED <<branch, index>> /\ checkpoint'.green = Tip
          /\ checkpoint'.iteration = Here + 1
          /\ checkpoint'.step = 0 /\ pc' = "step" /\ checkpoint.green <= Tip
      BY <1>11, <1>g, <1>i, <1>t DEF NextBoundary, Boundary, Checkpoint
    <2>2. \A i \in DOMAIN branch : Earlier(branch[i])'
      BY <2>1, NoCommitBeyond DEF Earlier, Here
    <2>3. StepInPlace'
      BY <1>t, <2>1 DEF StepInPlace, Tip
    <2> QED  BY <2>1, <2>2, <2>3, BoundaryKeepsOrder
  <1>12. CASE RewindToAccepted
    <2>1. /\ UNCHANGED checkpoint /\ pc' = "partial_end" /\ checkpoint.green = Tip
          /\ branch' = SubSeq(branch, 1, AcceptedHead)
      BY <1>12, <1>g DEF RewindToAccepted
    <2>2. AcceptedHead \in 0 .. Tip
      BY AcceptedHeadHeld DEF TypeInv
    <2> QED  BY <2>1, <2>2, RewindKeepsOrder
  <1>13. CASE Resume
    <2>1. UNCHANGED <<branch, index>>
      BY <1>13 DEF Resume
    <2>2. CASE ~ResumeHolds
      <3>1. UNCHANGED <<checkpoint, pc>>
        BY <1>13, <2>2 DEF Resume
      <3> QED  BY <2>1, <3>1 DEF OrderInv, EarlierBelow, Earlier, Here, OneAhead, Own, Tip,
               StepInPlace, CommitsInOrder, Precedes
    <2>3. CASE ResumeHolds /\ checkpoint.green = Tip
      <3>1. UNCHANGED checkpoint /\ pc' = "enter"
        BY <1>13, <2>3 DEF Resume
      <3>2. StepInPlace'
        BY <3>1 DEF StepInPlace
      <3> QED  BY <2>1, <2>3, <3>1, <3>2, QuietKeepsOrder
    <2>4. CASE ResumeHolds /\ checkpoint.green # Tip
      <3>1. /\ checkpoint' = Adopted /\ pc' = "enter" /\ checkpoint.green <= Tip
            /\ checkpoint.phase \in {"implement_step", "audit"}
        BY <1>13, <2>4 DEF Resume, ResumeHolds, Adoptable, OwnCommit
      <3>2. StepInPlace'
        BY <3>1 DEF StepInPlace
      <3>3. /\ checkpoint'.green = Tip /\ checkpoint'.iteration = Here
            /\ \/ /\ checkpoint.phase = "implement_step" /\ checkpoint'.phase = "implement_step"
                  /\ checkpoint'.step = checkpoint.step + 1
               \/ checkpoint'.phase = "deterministic_gate"
        BY <3>1, <1>t DEF Adopted, Checkpoint
      <3> QED  BY <1>t, <2>1, <3>1, <3>2, <3>3, LaterStepKeepsOrder, LaterPhaseKeepsOrder
    <2> QED  BY <2>2, <2>3, <2>4
  <1>14. CASE Expire \/ RequestPause \/ UNCHANGED vars
    <2>1. UNCHANGED <<branch, checkpoint, pc, index>>
      BY <1>14 DEF Expire, RequestPause, vars
    <2> QED  BY <2>1 DEF OrderInv, EarlierBelow, Earlier, Here, OneAhead, Own, Tip,
             StepInPlace, CommitsInOrder, Precedes
  <1> QED
    BY <1>1, <1>2, <1>3, <1>4, <1>5, <1>6, <1>7, <1>8, <1>9, <1>10, <1>11, <1>12, <1>13, <1>14
       DEF Next, Drive, Rest

-----------------------------------------------------------------------------
(* A driver is inside an operation exactly while the run is running.       *)

RestInv == /\ pc = "off" <=> run.disposition # "RUNNING"
           /\ run.disposition = "RUNNING" => run.reason = "none"

\* A new run is driven.
LEMMA RestInit == Init => RestInv
  BY DEF Init, RestInv, Machine

\* Whatever takes a driver off the run writes another disposition.
LEMMA RestNext == TypeInv /\ RestInv /\ [Next]_vars => RestInv'
  <1> SUFFICES ASSUME TypeInv, RestInv, [Next]_vars PROVE RestInv' OBVIOUS
  <1> USE DEF RestInv, At, Goto, Driving, Idle, durable, signals, locals, history
  <1>1. CASE \/ OutOfBudget \/ Admit \/ EnterSpent \/ StepBoundary \/ AcceptStep \/ SettleStep
             \/ AfterStep \/ ArchiveEvidence \/ RunChecks \/ ToAudit \/ LeaveGate
             \/ Audit \/ Report
             \/ PlannerBoundary \/ Decide \/ CloseSpec \/ CloseNext \/ PrepareNext
             \/ NextBoundary
             \/ CandidateBoundary \/ PushCandidate \/ Rephase \/ RewindToAccepted
    <2>1. UNCHANGED run /\ run.disposition = "RUNNING" /\ pc' # "off"
      BY <1>1
         DEF OutOfBudget, Admit, EnterSpent, StepBoundary, AcceptStep, SettleStep,
            AfterStep, ArchiveEvidence, RunChecks, ToAudit, LeaveGate, Audit, Report,
            PlannerBoundary, Decide, CloseSpec, CloseNext, PrepareNext, NextBoundary,
            CandidateBoundary, PushCandidate, Rephase, RewindToAccepted,
            GuardedOperations, Boundary
    <2> QED  BY <2>1
  <1>2. CASE CloseComplete
    BY <1>2 DEF CloseComplete, TypeInv, TypeOK, Machines
  <1>3. CASE \/ FatalStep \/ Pause \/ JudgeSpecDecision \/ JudgeHard \/ AskHuman
             \/ FinishPartial \/ Publish
    BY <1>3 DEF FatalStep, Pause, JudgeSpecDecision, JudgeHard, AskHuman, FinishPartial,
       Publish, Fail, Leave, Machine
  <1>4. CASE EnterPlanner \/ Enter \/ AcceptGate \/ AfterReport
    <2>1. run.disposition = "RUNNING" /\
          \/ UNCHANGED run /\ pc' # "off"
          \/ pc' = "off" /\ run'.disposition \in {"FAILED", "WAIT_HUMAN"}
      BY <1>4 DEF EnterPlanner, Enter, AcceptGate, AfterReport, Boundary, Fail, Leave,
         Machine, EntryOf, TypeInv, TypeOK, Checkpoints, ExecutionPhases
    <2> QED  BY <2>1
  <1>5. CASE Interrupt \/ Unavailable \/ Escape \/ RefusedAnswer \/ RefusedGate
    <2>1. pc' = "off" /\ run'.disposition \in {"FAILED", "WAIT_EXTERNAL"}
      BY <1>5 DEF Interrupt, Unavailable, Escape, RefusedAnswer, RefusedGate, Projected,
         Struck, Machine
    <2> QED  BY <2>1
  <1>6. CASE Resume
    BY <1>6 DEF Resume, Resumable, Machine
  <1>7. CASE Expire \/ RequestPause \/ UNCHANGED vars
    BY <1>7 DEF Expire, RequestPause, vars
  <1> QED
    BY <1>1, <1>2, <1>3, <1>4, <1>5, <1>6, <1>7 DEF Next, Drive, Rest

-----------------------------------------------------------------------------
(* Milestones.  What the PARTIAL exit rewinds to is the newest green one,   *)
(* and the milestones rise with the iterations (EndsRise), so that none is  *)
(* above the newest.                                                        *)

Milestones == {0} \cup { records[n].end : n \in {m \in Iterations : records[m].green} }

\* No iteration after the checkpoint's is closed, nor has the driver gone back.
NotAhead ==
    /\ \A n \in Iterations : records[n].green => n <= Here
    /\ pc # "off" => Here <= iter

EndsRise ==
    \A n, m \in Iterations :
        records[n].green /\ records[m].green /\ n < m => records[n].end <= records[m].end

PartialLast ==
    /\ pc = "partial_end" \/ run.kind = "PARTIAL" => Tip \in Milestones
    /\ run.kind = "PARTIAL" => run.disposition = "COMPLETED"

MilestoneInv == NotAhead /\ EndsRise /\ PartialLast /\ MilestonesKept

\* The numbers of a well-typed state.
LEMMA Numbers ==
    ASSUME TypeOK
    PROVE  /\ Tip \in Nat /\ Here \in Iterations /\ Here \in Nat /\ iter \in Iterations
           /\ iter \in Nat
           /\ checkpoint.green \in Nat
           /\ \A n \in Iterations :
                 n \in Nat /\ records[n] \in Records /\ records[n].end \in Nat
  <1>1. Iterations \subseteq Nat
    BY BudgetAssumption DEF Iterations
  <1>2. \A n \in Iterations : records[n] \in Records
    BY DEF TypeOK
  <1>3. \A n \in Iterations : records[n].end \in Nat
    BY <1>2 DEF Records
  <1>4. Tip \in Nat /\ Here \in Iterations /\ iter \in Iterations /\ checkpoint.green \in Nat
    BY DEF TypeOK, Tip, Here, Checkpoints
  <1>5. Here \in Nat /\ iter \in Nat
    BY <1>1, <1>4
  <1> QED  BY <1>1, <1>2, <1>3, <1>4, <1>5

\* What _partial rewinds to: the base, or the newest milestone the branch holds.
LEMMA AcceptedHeadIs ==
    ASSUME TypeOK
    PROVE  \/ GreenEnds = {} /\ AcceptedHead = 0
           \/ \E n \in GreenEnds : /\ \A m \in GreenEnds : m <= n
                                   /\ AcceptedHead = records[n].end
  <1>1. GreenEnds \in SUBSET Iterations
    BY BudgetAssumption DEF GreenEnds, TypeOK, Iterations
  <1> QED  BY <1>1, NewestExists DEF AcceptedHead

\* An operation that closes no iteration and drops no commit.
LEMMA GrowthKeepsMilestones ==
    ASSUME TypeInv, MilestoneInv, TypeOK', UNCHANGED records, Tip <= Tip', Here <= Here',
           pc' # "off" => Here' <= iter',
           pc' # "partial_end", run.kind # "PARTIAL", run'.kind # "PARTIAL"
    PROVE  MilestoneInv'
  <1>1. /\ Tip \in Nat /\ Tip' \in Nat /\ Here \in Nat /\ Here' \in Nat
        /\ \A n \in Iterations : n \in Nat /\ records[n].end \in Nat
    <2>1. TypeOK /\ TypeOK'
      BY DEF TypeInv
    <2>2. Tip' \in Nat /\ Here' \in Nat
      BY <2>1 DEF TypeOK, Tip, Here, Checkpoints, Iterations
    <2> QED  BY <2>1, <2>2, Numbers
  <1>2. MilestonesKept' /\ NotAhead'
    BY <1>1 DEF MilestoneInv, MilestonesKept, NotAhead
  <1>3. EndsRise' /\ PartialLast'
    BY DEF MilestoneInv, EndsRise, PartialLast
  <1> QED  BY <1>2, <1>3 DEF MilestoneInv

\* An iteration is closed at the head, above every milestone so far.
LEMMA CloseKeepsMilestones ==
    ASSUME TypeInv, MilestoneInv, TypeOK', NEW s, Record(s), iter = Here,
           UNCHANGED <<branch, checkpoint, iter>>,
           pc' # "partial_end", run.kind # "PARTIAL", run'.kind # "PARTIAL"
    PROVE  MilestoneInv'
  <1>1. /\ Tip \in Nat /\ Tip' = Tip /\ Here \in Nat /\ Here' = Here /\ iter \in Iterations
        /\ \A n \in Iterations : n \in Nat /\ records[n].end \in Nat
        /\ records'[iter].end = Tip
        /\ \A n \in Iterations : n # iter => records'[n] = records[n]
    <2>1. Tip' = Tip /\ Here' = Here /\ TypeOK
      BY DEF TypeInv, Tip, Here
    <2>2. /\ records'[iter].end = Tip
          /\ \A n \in Iterations : n # iter => records'[n] = records[n]
      BY <2>1 DEF TypeOK, Record
    <2> QED  BY <2>1, <2>2, Numbers
  <1>2. MilestonesKept'
    BY <1>1 DEF MilestoneInv, MilestonesKept
  <1>3. NotAhead'
    BY <1>1 DEF MilestoneInv, NotAhead
  <1>4. EndsRise'
    <2> SUFFICES ASSUME NEW n \in Iterations, NEW m \in Iterations,
                        records'[n].green, records'[m].green, n < m
                 PROVE  records'[n].end <= records'[m].end
      BY DEF EndsRise
    <2>1. n # iter
      BY <1>1 DEF MilestoneInv, NotAhead
    <2>2. records'[n] = records[n] /\ records[n].end <= Tip
      BY <1>1, <2>1 DEF MilestoneInv, MilestonesKept
    <2> QED  BY <1>1, <2>2 DEF MilestoneInv, EndsRise
  <1>5. PartialLast'
    BY DEF PartialLast
  <1> QED  BY <1>2, <1>3, <1>4, <1>5 DEF MilestoneInv

\* The rewind keeps every milestone, for the newest is above the others.
LEMMA RewindKeepsMilestones ==
    ASSUME TypeInv, MilestoneInv, RewindToAccepted
    PROVE  MilestoneInv'
  <1> DEFINE Green == {n \in Iterations : records[n].green}
  <1>1. /\ Tip \in Nat /\ Here \in Nat /\ iter \in Iterations /\ Here <= iter
        /\ Here' = Here /\ iter' = iter /\ pc' = "partial_end"
        /\ run.kind # "PARTIAL" /\ run' = run
        /\ \A n \in Iterations : n \in Nat /\ records[n].end \in Nat
    BY DEF RewindToAccepted, At, Goto, Driving, locals, TypeInv, TypeOK, Tip, Here, Checkpoints,
       Iterations, Records, MilestoneInv, NotAhead, PartialLast
  <1>2. \A n \in Iterations : /\ records'[n].green = records[n].green
                              /\ records'[n].end = records[n].end
    BY DEF RewindToAccepted, TypeInv, TypeOK, Records
  <1>3. GreenEnds = Green
    BY <1>1, BudgetAssumption DEF GreenEnds, MilestoneInv, NotAhead, MilestonesKept, Iterations
  <1>4. AcceptedHead \in 0 .. Tip /\ Tip' = AcceptedHead
    BY <1>1, AcceptedHeadHeld DEF TypeInv, RewindToAccepted, Tip, TypeOK
  <1>5. \A n \in Green : records[n].end <= AcceptedHead
    <2> TAKE n \in Green
    <2>1. PICK m \in Green : n <= m /\ AcceptedHead = records[m].end
      BY <1>3, AcceptedHeadIs DEF TypeInv
    <2> QED  BY <1>1, <2>1 DEF MilestoneInv, EndsRise
  <1>6. AcceptedHead \in Milestones
    BY <1>3, AcceptedHeadIs DEF TypeInv, Milestones
  <1>7. Milestones' = Milestones
    BY <1>2 DEF Milestones
  <1>8. MilestonesKept'
    BY <1>2, <1>4, <1>5 DEF MilestonesKept
  <1>9. NotAhead' /\ EndsRise'
    BY <1>1, <1>2 DEF MilestoneInv, NotAhead, EndsRise
  <1>10. PartialLast'
    BY <1>1, <1>4, <1>6, <1>7 DEF PartialLast
  <1> QED  BY <1>8, <1>9, <1>10 DEF MilestoneInv

\* A new run has no record and no commit.
LEMMA MilestoneInit == Init => MilestoneInv
  BY DEF Init, MilestoneInv, NotAhead, EndsRise, PartialLast, MilestonesKept, NoRecord, Here,
     Checkpoint, Machine, Tip

\* Only the PARTIAL exit shortens the branch, and only the closing of an
\* iteration and that exit write a record.
LEMMA OtherwiseGrows ==
    ASSUME TypeInv, JudgeInv, RestInv, MilestoneInv, Next,
           ~CloseSpec, ~CloseComplete, ~CloseNext, ~RewindToAccepted, ~FinishPartial,
           ~Expire, ~RequestPause, ~Rest
    PROVE  /\ UNCHANGED records /\ Tip <= Tip' /\ Here <= Here'
           /\ pc' # "partial_end" /\ (pc' # "off" => Here' <= iter')
           /\ run.kind # "PARTIAL" /\ run'.kind # "PARTIAL"
  <1> USE DEF At, Goto, Driving, Idle, durable, signals, locals, history
  <1>t. /\ Tip = Len(branch) /\ Tip \in Nat /\ iter \in Nat /\ branch \in Seq(Commits)
        /\ Here \in Nat /\ Here = checkpoint.iteration
        /\ (pc # "off" => Here <= iter)
        /\ (run.kind = "PARTIAL" => run.disposition = "COMPLETED")
    BY DEF TypeInv, TypeOK, Tip, Here, Checkpoints, Iterations, MilestoneInv, NotAhead,
       PartialLast
  <1>n. pc = "guard" => iter = Here + 1
    BY DEF JudgeInv, SameIteration
  <1>i. pc \notin {"guard", "budget", "partial", "partial_end", "off"} => iter = Here
    BY DEF JudgeInv, SameIteration
  <1>1. CASE \/ OutOfBudget \/ Admit \/ EnterPlanner \/ EnterSpent \/ Enter \/ FatalStep
             \/ Pause
             \/ SettleStep \/ ArchiveEvidence \/ RunChecks \/ JudgeSpecDecision \/ JudgeHard
             \/ AcceptGate \/ LeaveGate \/ Report \/ Decide \/ AskHuman \/ PushCandidate
    <2>1. /\ UNCHANGED <<records, branch, checkpoint, iter>> /\ run.disposition = "RUNNING"
          /\ run'.kind = run.kind /\ pc' # "partial_end" /\ pc # "off"
      BY <1>1
         DEF OutOfBudget, Admit, EnterPlanner, EnterSpent, Enter, FatalStep, Pause,
            SettleStep, ArchiveEvidence, RunChecks, JudgeSpecDecision, JudgeHard,
            AcceptGate, LeaveGate, Report, Decide, AskHuman, PushCandidate,
            GuardedOperations, Fail, EntryOf, Leave, Machine, TypeInv, TypeOK,
            Checkpoints, ExecutionPhases
    <2> QED  BY <1>t, <2>1 DEF Tip, Here
  <1>2. CASE \/ StepBoundary \/ AfterStep \/ ToAudit \/ AfterReport \/ PlannerBoundary
             \/ NextBoundary
             \/ CandidateBoundary \/ Publish \/ Rephase
    <2>1. /\ UNCHANGED <<records, branch, iter>> /\ run.disposition = "RUNNING"
          /\ run'.kind = run.kind /\ pc' # "partial_end" /\ pc # "off"
          /\ checkpoint'.iteration \in {iter, Here}
      BY <1>2, <1>t
         DEF StepBoundary, AfterStep, ToAudit, AfterReport, PlannerBoundary,
            NextBoundary, CandidateBoundary, Publish, Rephase, Boundary, Leave, Machine,
            Checkpoint
    <2> QED  BY <1>t, <2>1 DEF Tip, Here
  <1>3. CASE AcceptStep \/ Audit \/ PrepareNext
    <2>1. /\ UNCHANGED <<records, checkpoint>> /\ run.disposition = "RUNNING"
          /\ iter' \in {iter, iter + 1}
          /\ run'.kind = run.kind /\ pc' # "partial_end" /\ pc # "off"
          /\ (UNCHANGED branch \/ \E c : branch' = Append(branch, c))
      BY <1>3, <1>t DEF AcceptStep, Audit, PrepareNext
    <2>2. Tip <= Tip'
      BY <1>t, <2>1 DEF Tip
    <2> QED  BY <1>t, <2>1, <2>2 DEF Here
  <1>4. CASE Interrupt \/ Unavailable \/ Escape \/ RefusedAnswer \/ RefusedGate
    <2>1. /\ UNCHANGED <<records, branch, checkpoint>> /\ run.disposition = "RUNNING"
          /\ run'.kind = run.kind /\ pc' = "off"
      BY <1>4 DEF Interrupt, Unavailable, Escape, RefusedAnswer, RefusedGate, CanStop,
         Struck, Projected, EmptyAndRed, Machine
    <2> QED  BY <1>t, <2>1 DEF Tip, Here
  <1>5. CASE Resume
    <2>1. /\ UNCHANGED <<records, branch>> /\ run.disposition \in {"WAIT_EXTERNAL", "FAILED"}
          /\ run'.kind = run.kind /\ checkpoint'.iteration = Here
          /\ \/ pc' = "enter" /\ iter' = Here
             \/ pc' = "off"
      BY <1>5, <1>t DEF Resume, Resumable, RestInv, Adopted, Checkpoint, Machine
    <2> QED  BY <1>t, <2>1 DEF Tip, Here
  <1> QED
    BY <1>1, <1>2, <1>3, <1>4, <1>5 DEF Next, Drive

\* Closing an iteration and the PARTIAL exit keep the milestones too.
LEMMA MilestoneNext ==
    TypeInv /\ TypeInv' /\ JudgeInv /\ RestInv /\ MilestoneInv /\ [Next]_vars => MilestoneInv'
  <1> SUFFICES ASSUME TypeInv, TypeInv', JudgeInv, RestInv, MilestoneInv, [Next]_vars
               PROVE  MilestoneInv'
    OBVIOUS
  <1>1. CASE CloseSpec \/ CloseComplete \/ CloseNext
    <2>1. /\ iter = Here /\ UNCHANGED <<branch, checkpoint, iter>>
          /\ pc' # "partial_end" /\ run.kind # "PARTIAL" /\ run'.kind # "PARTIAL"
      BY <1>1 DEF CloseSpec, CloseComplete, CloseNext, At, Goto, Driving, Idle, locals,
         JudgeInv, SameIteration, MilestoneInv, PartialLast, TypeInv, TypeOK, Machines
    <2>2. \E s : Record(s)
      BY <1>1 DEF CloseSpec, CloseComplete, CloseNext
    <2> QED  BY <2>1, <2>2, CloseKeepsMilestones DEF TypeInv
  <1>2. CASE RewindToAccepted
    BY <1>2, RewindKeepsMilestones
  <1>3. CASE FinishPartial
    <2>1. /\ UNCHANGED <<records, branch, checkpoint, iter>> /\ pc = "partial_end"
          /\ pc' = "off"
          /\ run'.disposition = "COMPLETED"
      BY <1>3 DEF FinishPartial, At, Goto, Idle, durable, locals, Machine
    <2> QED  BY <2>1 DEF MilestoneInv, NotAhead, EndsRise, PartialLast, MilestonesKept,
       Milestones, Tip, Here
  <1>4. CASE Expire \/ RequestPause \/ Rest \/ UNCHANGED vars
    <2>1. UNCHANGED <<records, branch, checkpoint, iter, pc, run>>
      BY <1>4 DEF Expire, RequestPause, Rest, vars, durable, locals
    <2> QED  BY <2>1 DEF MilestoneInv, NotAhead, EndsRise, PartialLast, MilestonesKept,
       Milestones, Tip, Here
  <1>5. CASE Next /\ ~(\/ CloseSpec \/ CloseComplete \/ CloseNext \/ RewindToAccepted
                       \/ FinishPartial \/ Expire \/ RequestPause \/ Rest)
    BY <1>5, OtherwiseGrows, GrowthKeepsMilestones DEF TypeInv
  <1> QED  BY <1>1, <1>2, <1>3, <1>4, <1>5

-----------------------------------------------------------------------------
(* Stops.  What a resume needs to find, as long as no stop has struck one  *)
(* of the fragile windows.                                                 *)

\* The judgement an operation relies on is there.
JudgedHere ==
    /\ pc \in {"judge", "audit", "auditing", "outcome", "decide", "asking", "close"} =>
          evidence[iter].verdict # "none"
    /\ checkpoint.phase = "audit" /\ reports[Here] = <<>> => evidence[Here].verdict # "none"
    /\ checkpoint.phase = "audit" /\ pc \in {"gate", "checking"} => reports[Here] # <<>>

\* A continuation boundary is only where a gate was judged, except at the end.
PlannerJudged ==
    checkpoint.phase = "planner" /\ pc \notin {"partial", "partial_end"}
        /\ run.disposition # "COMPLETED" => evidence[Here].verdict # "none"

\* A gate that may still run has accepted nothing before.
AcceptedOnce ==
    /\ checkpoint.phase \in Work /\ pc # "outcome" => accepted[Here].state = "none"
    /\ \A n \in Iterations : n > Here => accepted[n].state = "none"

\* The plan the run is bound to is the checkpoint's.
PlanBound ==
    /\ pc \notin {"guard", "budget", "partial", "partial_end", "off"} => identity = Here
    /\ Resumable => identity = Here /\ ResumeHolds

StopInv ==
    /\ JudgedHere
    /\ pc = "guard" => identity = iter
    /\ ~fragile => PlannerJudged /\ AcceptedOnce /\ PlanBound
    /\ StopsAreResumable

\* Inside an operation, outside the PARTIAL exit, the branch is where the
\* checkpoint left it or one commit of its own operation ahead.
LEMMA DriverCouldResume ==
    ASSUME TypeInv, OrderInv, pc \notin {"partial_end", "off"}, identity = Here
    PROVE  ResumeHolds
  <1>1. /\ Tip \in Nat /\ checkpoint.green \in Nat /\ checkpoint.green <= Tip
        /\ checkpoint.green < Tip => /\ Tip = checkpoint.green + 1
                                     /\ checkpoint.phase \in {"implement_step", "audit"}
                                     /\ branch[Tip] = Own
    BY Numbers DEF TypeInv, OrderInv, OneAhead
  <1>2. checkpoint.green < Tip => Adoptable
    BY <1>1 DEF Adoptable, OwnCommit, Own, Here
  <1> QED  BY <1>1, <1>2 DEF ResumeHolds, Here

\* Evidence is written by the gate, which runs before the checkpoint names the
\* continuation.
LEMMA JudgedNext ==
    ASSUME TypeInv, JudgeInv, RestInv, JudgedHere, [Next]_vars
    PROVE  JudgedHere'
  <1> USE DEF JudgedHere, At, Goto, Driving, Idle, durable, signals, locals, history
  <1>t. /\ Here = checkpoint.iteration /\ Here \in Iterations /\ iter \in Iterations
        /\ evidence \in [Iterations -> Judgements] /\ reports \in [Iterations -> Seq(Findings)]
    BY DEF TypeInv, TypeOK, Here, Checkpoints
  <1>i. pc \notin {"guard", "budget", "partial", "partial_end", "off"} => iter = Here
    BY DEF JudgeInv, SameIteration
  <1>p. checkpoint.phase \in PhasesAt(pc)
    BY DEF JudgeInv, PhaseInPlace
  <1>1. CASE \/ OutOfBudget \/ Admit \/ EnterPlanner \/ EnterSpent \/ AcceptStep \/ SettleStep
             \/ FatalStep \/ Pause \/ JudgeSpecDecision \/ JudgeHard \/ AcceptGate \/ LeaveGate
             \/ Audit \/ Decide \/ CloseSpec \/ CloseComplete \/ CloseNext \/ AskHuman
             \/ PrepareNext
             \/ PushCandidate \/ RewindToAccepted \/ FinishPartial
    <2>1. /\ UNCHANGED <<evidence, reports, checkpoint>>
          /\ pc' \notin {"gate", "checking", "judge", "audit"}
          /\ \/ pc' = "off"
             \/ /\ pc' \in {"auditing", "outcome", "decide", "asking", "close"}
                      => evidence[iter].verdict # "none"
                /\ UNCHANGED iter
             \/ pc' = "guard"
      BY <1>1
         DEF OutOfBudget, Admit, EnterPlanner, EnterSpent, AcceptStep, SettleStep,
            FatalStep, Pause, JudgeSpecDecision, JudgeHard, AcceptGate, LeaveGate,
            Audit, Decide, CloseSpec, CloseComplete, CloseNext, AskHuman, PrepareNext,
            PushCandidate, RewindToAccepted, FinishPartial, GuardedOperations, Fail,
            Leave
    <2> QED  BY <2>1 DEF Here
  <1>2. CASE Enter
    BY <1>2, <1>t, <1>i DEF Enter, EntryOf, Fail, Leave, Here, TypeInv, TypeOK, Checkpoints,
       ExecutionPhases
  <1>3. CASE StepBoundary \/ AfterStep \/ AfterReport \/ NextBoundary
             \/ CandidateBoundary \/ Publish \/ Rephase
    <2>1. /\ UNCHANGED <<evidence, reports>>
          /\ pc' \notin {"judge", "audit", "auditing", "outcome", "decide", "asking", "close"}
          /\ checkpoint'.phase # "audit"
             \/ (UNCHANGED checkpoint /\ pc' \notin {"gate", "checking"})
      BY <1>3, <1>p DEF StepBoundary, AfterStep, AfterReport, NextBoundary,
         CandidateBoundary, Publish, Rephase, Boundary, Checkpoint, Leave, PhasesAt
    <2> QED  BY <2>1 DEF Here
  <1>4. CASE ToAudit \/ PlannerBoundary
    BY <1>4, <1>i DEF ToAudit, PlannerBoundary, Boundary, Checkpoint, Here
  <1>5. CASE ArchiveEvidence
    <2>1. /\ UNCHANGED <<reports, checkpoint>> /\ pc = "gate" /\ pc' = "checking"
      BY <1>5 DEF ArchiveEvidence
    <2> QED  BY <1>t, <2>1 DEF Here
  <1>6. CASE RunChecks
    <2>1. /\ UNCHANGED <<reports, checkpoint, iter>> /\ pc = "checking" /\ pc' = "judge"
          /\ evidence'[iter].verdict \in Verdicts
      BY <1>6, <1>t DEF RunChecks
    <2>2. "none" \notin Verdicts
      BY VerdictsAssumption
    <2> QED  BY <1>t, <1>i, <2>1, <2>2 DEF Here
  <1>7. CASE Report
    <2>1. /\ UNCHANGED <<evidence, checkpoint, iter>> /\ pc = "report" /\ pc' = "reported"
          /\ \A n \in Iterations : n # iter => reports'[n] = reports[n]
          /\ reports'[iter] # <<>>
      BY <1>7, <1>t DEF Report
    <2> QED  BY <1>t, <1>i, <2>1 DEF Here
  <1>8. CASE Interrupt \/ Unavailable \/ Escape \/ RefusedAnswer \/ RefusedGate
    <2>1. UNCHANGED <<evidence, reports, checkpoint>> /\ pc' = "off"
      BY <1>8 DEF Interrupt, Unavailable, Escape, RefusedAnswer, RefusedGate, Projected, Struck
    <2> QED  BY <2>1 DEF Here
  <1>9. CASE Resume
    <2>1. UNCHANGED <<evidence, reports>> /\ pc = "off" /\ pc' \in {"off", "enter"}
      BY <1>9 DEF Resume, RestInv, Resumable
    <2>2. \/ UNCHANGED checkpoint
          \/ checkpoint'.phase # "audit"
      BY <1>9 DEF Resume, Adopted, Checkpoint
    <2> QED  BY <2>1, <2>2 DEF Here
  <1>10. CASE Expire \/ RequestPause \/ UNCHANGED vars
    BY <1>10 DEF Expire, RequestPause, vars, Here
  <1> QED
    BY <1>1, <1>2, <1>3, <1>4, <1>5, <1>6, <1>7, <1>8, <1>9, <1>10 DEF Next, Drive, Rest

\* A new run has not stopped.
LEMMA StopInit == Init => StopInv
  BY BudgetAssumption
     DEF Init, StopInv, JudgedHere, PlannerJudged, AcceptedOnce, PlanBound, StopsAreResumable,
         Resumable, Checkpoint, Machine, Here, NotAccepted, Work, Iterations

\* What a strike leaves can be resumed unless its window is fragile.
LEMMA StruckKeeps ==
    ASSUME TypeInv, JudgeInv, OrderInv, RestInv, StopInv, JudgedHere',
           Interrupt \/ Unavailable \/ Escape \/ RefusedAnswer \/ RefusedGate
    PROVE  StopInv'
  <1>1. /\ run.disposition = "RUNNING" /\ pc # "off" /\ pc' = "off"
        /\ UNCHANGED <<checkpoint, branch, identity, evidence, accepted>>
        /\ run'.disposition \in {"FAILED", "WAIT_EXTERNAL"}
        /\ (fragile => fragile')
    BY DEF Interrupt, Unavailable, Escape, RefusedAnswer, RefusedGate, EmptyAndRed, CanStop,
       Projected, Struck, Machine, At, RestInv, history, durable, TypeInv, TypeOK
  <1>2. ~fragile' => ~fragile /\ pc \notin {"outcome", "partial", "partial_end"}
        /\ identity = Here
    BY DEF Interrupt, Unavailable, Escape, RefusedAnswer, RefusedGate, EmptyAndRed, CanStop,
       InFragileWindow, At, history, StopInv, PlanBound, Here, TypeInv, TypeOK
  <1>3. ~fragile' => ResumeHolds
    BY <1>1, <1>2, DriverCouldResume
  <1>4. ResumeHolds' = ResumeHolds
    BY <1>1 DEF ResumeHolds, Adoptable, OwnCommit, Tip
  <1>5. ~fragile' => PlannerJudged' /\ AcceptedOnce' /\ PlanBound'
    BY <1>1, <1>2, <1>3, <1>4 DEF StopInv, PlannerJudged, AcceptedOnce, PlanBound, Here
  <1>6. StopsAreResumable'
    BY <1>1, <1>3 DEF Interrupt, Unavailable, Escape, RefusedAnswer, RefusedGate, Projected,
       Struck, Machine, StopsAreResumable
  <1> QED  BY <1>1, <1>5, <1>6 DEF StopInv

\* Boundaries bind the plan again, and what a stop leaves is what they bound.
LEMMA StopNext ==
    TypeInv /\ JudgeInv /\ OrderInv /\ RestInv /\ StopInv /\ [Next]_vars => StopInv'
  <1> SUFFICES ASSUME TypeInv, JudgeInv, OrderInv, RestInv, StopInv, [Next]_vars PROVE StopInv'
    OBVIOUS
  <1> USE DEF At, Goto, Driving, Idle, durable, signals, locals, history
  <1>j. JudgedHere'
    BY JudgedNext DEF StopInv
  <1>t. /\ Here = checkpoint.iteration /\ Here \in Iterations /\ iter \in Iterations
        /\ Here \in Nat /\ iter \in Nat
        /\ accepted \in [Iterations -> Acceptances]
    BY Numbers DEF TypeInv, TypeOK, Here
  <1>i. /\ pc \notin {"guard", "budget", "partial", "partial_end", "off"} => iter = Here
        /\ pc = "guard" => iter = Here + 1
    BY DEF JudgeInv, SameIteration
  <1>p. checkpoint.phase \in PhasesAt(pc)
    BY DEF JudgeInv, PhaseInPlace
  <1>1. CASE \/ OutOfBudget \/ Admit \/ EnterSpent \/ AcceptStep \/ SettleStep
             \/ ArchiveEvidence
             \/ RunChecks \/ LeaveGate \/ Audit \/ Report \/ Decide \/ CloseSpec
             \/ CloseComplete
             \/ CloseNext \/ PushCandidate \/ RewindToAccepted
    <2>1. /\ run.disposition = "RUNNING" /\ run'.disposition = "RUNNING"
          /\ UNCHANGED <<checkpoint, identity, iter, fragile>>
          /\ pc \notin {"off", "partial_end"} /\ pc' \notin {"off", "guard"}
          /\ pc \in {"guard", "partial", "budget"} => pc' \in {"budget", "partial_end"}
      BY <1>1
         DEF OutOfBudget, Admit, EnterSpent, AcceptStep, SettleStep, ArchiveEvidence,
            RunChecks, LeaveGate, Audit, Report, Decide, CloseSpec, CloseComplete,
            CloseNext, PushCandidate, RewindToAccepted, GuardedOperations, TypeInv,
            TypeOK, Machines
    <2>2. ~fragile => PlanBound'
      BY <2>1 DEF StopInv, PlanBound, Here, Resumable
    <2>3. ~fragile => AcceptedOnce'
      <3>1. CASE ArchiveEvidence
        <4>1. /\ pc = "gate" /\ iter = Here
              /\ \A n \in Iterations : accepted[n].state = "none" => accepted'[n].state = "none"
          BY <3>1, <1>t, <1>i DEF ArchiveEvidence, Acceptances
        <4> QED  BY <2>1, <4>1, <1>t DEF StopInv, AcceptedOnce, Here
      <3>2. CASE ~ArchiveEvidence
        <4>1. /\ UNCHANGED accepted
              /\ pc = "outcome" => checkpoint.phase \notin Work \/ pc' = "outcome"
          BY <1>1, <3>2
             DEF OutOfBudget, Admit, EnterSpent, AcceptStep, SettleStep, RunChecks,
                LeaveGate, Audit, Report, Decide, CloseSpec, CloseComplete, CloseNext,
                PushCandidate, RewindToAccepted, GuardedOperations
        <4> QED  BY <2>1, <4>1, <1>t DEF StopInv, AcceptedOnce, Here
      <3> QED  BY <3>1, <3>2
    <2>4. ~fragile => PlannerJudged'
      <3>1. CASE ArchiveEvidence \/ RunChecks
        <4>1. checkpoint.phase # "planner"
          BY <3>1, <1>p DEF ArchiveEvidence, RunChecks, PhasesAt
        <4> QED  BY <2>1, <4>1 DEF PlannerJudged
      <3>2. CASE ~(ArchiveEvidence \/ RunChecks)
        <4>1. UNCHANGED evidence /\ (pc = "partial" => pc' = "partial_end")
          BY <1>1, <3>2
             DEF OutOfBudget, Admit, EnterSpent, AcceptStep, SettleStep, LeaveGate,
                Audit, Report, Decide, CloseSpec, CloseComplete, CloseNext,
                PushCandidate, RewindToAccepted, GuardedOperations
        <4> QED  BY <2>1, <4>1 DEF StopInv, PlannerJudged, Here
      <3> QED  BY <3>1, <3>2
    <2>5. StopsAreResumable'
      BY <2>1 DEF StopsAreResumable
    <2> QED  BY <1>j, <2>1, <2>2, <2>3, <2>4, <2>5 DEF StopInv
  <1>2. CASE \/ FatalStep \/ Pause \/ JudgeSpecDecision \/ JudgeHard \/ AskHuman
             \/ FinishPartial
    <2>1. /\ run.disposition = "RUNNING"
          /\ UNCHANGED <<checkpoint, branch, identity, accepted, evidence, fragile>>
          /\ pc' = "off" /\ pc \notin {"off", "outcome"}
          /\ run'.disposition \in {"FAILED", "WAIT_HUMAN", "COMPLETED"} \/ pc = "pausing"
          /\ (pc = "partial_end" => run'.disposition = "COMPLETED") /\ pc # "partial"
          /\ run'.reason \in {"FATAL", "PAUSED", "SPEC_DECISION_REQUIRED", "none"}
          /\ run'.disposition = "FAILED" => run'.reason = "FATAL"
      BY <1>2 DEF FatalStep, Pause, JudgeSpecDecision, JudgeHard, AskHuman, FinishPartial,
         Fail, Leave, Machine
    <2>2. Resumable' => pc = "pausing"
      BY <2>1 DEF Resumable
    <2>3. ~fragile => PlanBound'
      <3>1. ~fragile /\ pc = "pausing" => identity = Here /\ ResumeHolds
        BY DriverCouldResume DEF StopInv, PlanBound
      <3> QED  BY <2>1, <2>2, <3>1 DEF PlanBound, Here, ResumeHolds, Adoptable, OwnCommit, Tip
    <2>4. ~fragile => AcceptedOnce' /\ PlannerJudged'
      BY <2>1 DEF StopInv, AcceptedOnce, PlannerJudged, Here
    <2> QED  BY <1>j, <2>1, <2>3, <2>4 DEF StopInv, StopsAreResumable
  <1>3. CASE EnterPlanner
    <2>1. /\ run.disposition = "RUNNING"
          /\ UNCHANGED <<checkpoint, identity, accepted, evidence, fragile>>
          /\ checkpoint.phase = "planner" /\ pc = "enter"
          /\ \/ pc' = "off" /\ run'.disposition = "FAILED"
                /\ run'.reason = "RESUME_INTEGRITY_FAILURE" /\ evidence[iter].verdict = "none"
             \/ pc' = "outcome" /\ UNCHANGED run
      BY <1>3 DEF EnterPlanner, Fail, Leave, Machine
    <2>2. pc' = "off" => fragile
      BY <1>i, <2>1 DEF StopInv, PlannerJudged, Here
    <2> QED  BY <1>j, <2>1, <2>2
             DEF StopInv, StopsAreResumable, PlanBound, AcceptedOnce, PlannerJudged, Here,
                 Resumable, Work
  <1>4. CASE Enter
    <2>1. /\ run.disposition = "RUNNING"
          /\ UNCHANGED <<checkpoint, identity, accepted, evidence, fragile>>
          /\ pc = "enter"
          /\ pc' \notin {"off", "guard", "outcome"} /\ UNCHANGED run
      BY <1>4, <1>i DEF Enter, Fail, Leave, Machine, EntryOf, StopInv, JudgedHere, Here,
         TypeInv, TypeOK, Checkpoints, ExecutionPhases
    <2> QED  BY <1>j, <2>1
             DEF StopInv, StopsAreResumable, PlanBound, AcceptedOnce, PlannerJudged, Here,
                 Resumable
  <1>5. CASE AcceptGate
    <2>1. /\ run.disposition = "RUNNING"
          /\ UNCHANGED <<checkpoint, identity, evidence, fragile, iter>>
          /\ pc = "judge" /\ iter = Here /\ checkpoint.phase \in Work
          /\ \A n \in Iterations : n # iter => accepted'[n] = accepted[n]
      BY <1>5, <1>p, <1>i, <1>t DEF AcceptGate, Fail, Leave, PhasesAt, Work
    <2>2. \/ pc' = "outcome" /\ UNCHANGED run
          \/ pc' = "off" /\ accepted[iter].state # "none" /\ run'.disposition = "FAILED"
      BY <1>5 DEF AcceptGate, Fail, Leave, Machine
    <2>3. ~fragile => pc' = "outcome" /\ UNCHANGED run
      BY <2>1, <2>2 DEF StopInv, AcceptedOnce
    <2>4. ~fragile => PlanBound' /\ AcceptedOnce' /\ PlannerJudged'
      <3>1. \A n \in Iterations : n > Here => accepted'[n] = accepted[n]
        BY <1>t, <2>1
      <3>2. ~fragile => AcceptedOnce'
        BY <2>1, <2>3, <3>1 DEF StopInv, AcceptedOnce, Here
      <3>3. ~fragile => PlanBound' /\ PlannerJudged'
        BY <2>1, <2>3 DEF StopInv, PlanBound, PlannerJudged, Here, Resumable, Work
      <3> QED  BY <3>2, <3>3
    <2>5. StopsAreResumable'
      BY <2>1, <2>3 DEF StopsAreResumable
    <2> QED  BY <1>j, <2>1, <2>2, <2>4, <2>5 DEF StopInv
  <1>6. CASE \/ StepBoundary \/ AfterStep \/ ToAudit \/ AfterReport \/ PlannerBoundary
             \/ CandidateBoundary
             \/ Publish
    <2>1. /\ run.disposition = "RUNNING"
          /\ UNCHANGED <<identity, accepted, evidence, fragile, iter>>
          /\ pc \notin {"guard", "budget", "partial", "partial_end", "off"} /\ iter = Here
          /\ pc' \notin {"guard", "budget", "partial", "partial_end"}
          /\ checkpoint'.iteration = Here
          /\ \/ UNCHANGED run /\ pc' # "off"
             \/ pc' = "off" /\ run'.disposition \in {"WAIT_HUMAN", "COMPLETED"}
          /\ checkpoint'.phase \in Work => checkpoint.phase \in Work /\ pc # "outcome"
          /\ pc # "outcome" => checkpoint'.phase # "planner" \/ UNCHANGED checkpoint
          /\ pc' # "outcome"
      BY <1>6, <1>p, <1>i, <1>t
         DEF StepBoundary, AfterStep, ToAudit, AfterReport, PlannerBoundary,
             CandidateBoundary, Publish, Boundary, Checkpoint, Leave, Machine, PhasesAt, Work
    <2>2. ~fragile => AcceptedOnce' /\ PlannerJudged'
      BY <1>t, <2>1 DEF StopInv, JudgedHere, AcceptedOnce, PlannerJudged, Here
    <2>3. ~fragile => PlanBound'
      BY <2>1 DEF StopInv, PlanBound, Here, Resumable
    <2> QED  BY <1>j, <2>1, <2>2, <2>3 DEF StopInv, StopsAreResumable
  <1>7. CASE PrepareNext
    <2>1. /\ run.disposition = "RUNNING"
          /\ UNCHANGED <<run, checkpoint, accepted, evidence, fragile>>
          /\ pc = "prepare" /\ pc' = "guard" /\ identity' = iter'
      BY <1>7 DEF PrepareNext
    <2> QED  BY <1>j, <2>1
             DEF StopInv, StopsAreResumable, PlanBound, AcceptedOnce, PlannerJudged, Here,
                 Resumable, Work
  <1>8. CASE NextBoundary
    <2>1. /\ run.disposition = "RUNNING"
          /\ UNCHANGED <<run, identity, accepted, evidence, fragile, iter>>
          /\ pc = "guard" /\ pc' = "step" /\ checkpoint'.iteration = iter
          /\ checkpoint'.phase = "implement_step" /\ iter = Here + 1
      BY <1>8, <1>i DEF NextBoundary, Boundary, Checkpoint
    <2>2. ~fragile => AcceptedOnce'
      <3>1. iter > Here /\ \A n \in Iterations : n > iter => n > Here
        BY <1>t, <2>1, Numbers DEF TypeInv
      <3> QED  BY <1>t, <2>1, <3>1 DEF StopInv, AcceptedOnce, Here
    <2>3. ~fragile => PlannerJudged' /\ PlanBound'
      BY <2>1 DEF StopInv, PlannerJudged, PlanBound, Here, Resumable
    <2> QED  BY <1>j, <2>1, <2>2, <2>3 DEF StopInv, StopsAreResumable
  <1>9. CASE Rephase
    <2>1. /\ run.disposition = "RUNNING"
          /\ UNCHANGED <<run, identity, accepted, evidence, fragile, iter>>
          /\ pc' = "partial" /\ checkpoint'.iteration = Here /\ checkpoint'.phase = "planner"
      BY <1>9, <1>t DEF Rephase, Checkpoint
    <2> QED  BY <1>j, <2>1
             DEF StopInv, StopsAreResumable, PlanBound, AcceptedOnce, PlannerJudged, Here,
                 Resumable, Work
  <1>10. CASE Interrupt \/ Unavailable \/ Escape \/ RefusedAnswer \/ RefusedGate
    BY <1>10, <1>j, StruckKeeps
  <1>11. CASE Resume
    <2>1. /\ Resumable /\ pc = "off"
          /\ UNCHANGED <<branch, identity, accepted, evidence, fragile>>
      BY <1>11 DEF Resume, Resumable, RestInv
    <2>2. CASE ResumeHolds
      <3>1. /\ pc' = "enter" /\ iter' = Here /\ run'.disposition = "RUNNING"
            /\ checkpoint'.iteration = Here
            /\ \/ UNCHANGED checkpoint
               \/ checkpoint'.phase \in Work /\ checkpoint.phase \in Work
        BY <1>11, <2>2 DEF Resume, Machine, Adopted, Checkpoint, ResumeHolds, Adoptable,
           OwnCommit, Here, Work
      <3>2. ~fragile => AcceptedOnce' /\ PlannerJudged' /\ PlanBound'
        BY <1>t, <2>1, <3>1 DEF StopInv, AcceptedOnce, PlannerJudged, PlanBound, Here,
           Resumable, Work
      <3> QED  BY <1>j, <2>1, <3>1, <3>2 DEF StopInv, StopsAreResumable
    <2>3. CASE ~ResumeHolds
      <3>1. /\ fragile /\ pc' = pc
        BY <1>11, <2>1, <2>3 DEF Resume, StopInv, PlanBound
      <3> QED  BY <1>j, <2>1, <3>1 DEF StopInv, StopsAreResumable
    <2> QED  BY <2>2, <2>3
  <1>12. CASE Expire \/ RequestPause \/ UNCHANGED vars
    <2>1. UNCHANGED <<run, checkpoint, branch, identity, accepted, evidence, reports, iter, pc,
                      fragile>>
      BY <1>12 DEF Expire, RequestPause, vars
    <2> QED  BY <1>j, <2>1 DEF StopInv, StopsAreResumable, AcceptedOnce, PlannerJudged,
       PlanBound, Resumable, ResumeHolds, Adoptable, OwnCommit, Tip, Here
  <1> QED
    BY <1>1, <1>2, <1>3, <1>4, <1>5, <1>6, <1>7, <1>8, <1>9, <1>10, <1>11, <1>12
       DEF Next, Drive, Rest


\* A pause is taken at a boundary, and a paused run is left as it is until it
\* is resumed.
PauseInv == run.reason = "PAUSED" => checkpoint.green = Tip

\* A pause is honoured right after a boundary only.
LEMMA PauseNext ==
    ASSUME TypeInv, OrderInv, RestInv, PauseInv, [Next]_vars
    PROVE  PauseInv'
  <1> SUFFICES ASSUME run'.reason = "PAUSED" PROVE (checkpoint.green = Tip)'
    BY DEF PauseInv
  <1> USE DEF At, Goto, Driving, Idle, durable, signals, locals, history
  <1>1. CASE \/ OutOfBudget \/ Admit \/ EnterSpent \/ StepBoundary \/ AcceptStep \/ SettleStep
             \/ AfterStep \/ ArchiveEvidence \/ RunChecks \/ ToAudit \/ LeaveGate
             \/ Audit \/ Report
             \/ PlannerBoundary \/ Decide \/ CloseSpec \/ CloseNext \/ PrepareNext
             \/ NextBoundary
             \/ CandidateBoundary \/ PushCandidate \/ Rephase \/ RewindToAccepted
    <2>1. UNCHANGED run /\ run.disposition = "RUNNING"
      BY <1>1
         DEF OutOfBudget, Admit, EnterSpent, StepBoundary, AcceptStep, SettleStep,
            AfterStep, ArchiveEvidence, RunChecks, ToAudit, LeaveGate, Audit, Report,
            PlannerBoundary, Decide, CloseSpec, CloseNext, PrepareNext, NextBoundary,
            CandidateBoundary, PushCandidate, Rephase, RewindToAccepted,
            GuardedOperations, Boundary
    <2> QED  BY <2>1 DEF RestInv
  <1>2. CASE CloseComplete
    BY <1>2 DEF CloseComplete, RestInv, TypeInv, TypeOK, Machines
  <1>3. CASE Pause
    BY <1>3 DEF Pause, Leave, OrderInv, OneAhead, Tip
  <1>4. CASE \/ FatalStep \/ JudgeSpecDecision \/ JudgeHard \/ AskHuman \/ FinishPartial
             \/ Publish
             \/ Interrupt \/ Unavailable \/ Escape \/ RefusedAnswer \/ RefusedGate
    BY <1>4 DEF FatalStep, JudgeSpecDecision, JudgeHard, AskHuman, FinishPartial, Publish,
       Fail, Leave, Interrupt, Unavailable, Escape, RefusedAnswer, RefusedGate, Projected,
       Struck, Machine
  <1>5. CASE EnterPlanner \/ Enter \/ AcceptGate \/ AfterReport
    <2>1. run.disposition = "RUNNING" /\ (UNCHANGED run \/ run'.reason # "PAUSED")
      BY <1>5 DEF EnterPlanner, Enter, AcceptGate, AfterReport, Fail, Leave, Machine
    <2> QED  BY <2>1 DEF RestInv
  <1>6. CASE Resume
    BY <1>6 DEF Resume, Machine
  <1>7. CASE Expire \/ RequestPause \/ UNCHANGED vars
    BY <1>7 DEF Expire, RequestPause, vars, PauseInv, Tip
  <1> QED
    BY <1>1, <1>2, <1>3, <1>4, <1>5, <1>6, <1>7 DEF Next, Drive, Rest

\* The parts together.
PlaceInv == TypeInv /\ JudgeInv /\ OrderInv /\ RestInv

\* The iteration, the phase and the order of the branch, together.
LEMMA PlaceAlways == Spec => []PlaceInv
  <1>1. Init => PlaceInv
    BY TypeInit, JudgeInit, OrderInit, RestInit DEF PlaceInv
  <1>2. PlaceInv /\ [Next]_vars => PlaceInv'
    BY TypeNext, JudgeNext, OrderNext, RestNext DEF PlaceInv
  <1> QED  BY <1>1, <1>2, PTL DEF Spec

\* Each step of each iteration is committed at most once, in the order of the
\* plan and before the iteration's audits, wherever the run was stopped: a
\* resume adopts the one commit the checkpoint's own operation made, or none.
THEOREM CommitsAreInOrder == Spec => []CommitsInOrder
  <1>1. PlaceInv => CommitsInOrder  BY DEF PlaceInv, OrderInv
  <1> QED  BY <1>1, PlaceAlways, PTL

\* A paused run has nothing to adopt, and no commit of the step it will run next.
THEOREM PausesAreAtBoundaries == Spec => []PausedAtBoundary
  <1>1. Init => PauseInv
    BY DEF Init, PauseInv, Machine
  <1>2. PlaceInv /\ PauseInv /\ [Next]_vars => PauseInv'
    BY PauseNext DEF PlaceInv
  <1>3. PlaceInv /\ PauseInv => PausedAtBoundary
    <2> SUFFICES ASSUME PlaceInv, PauseInv, run.reason = "PAUSED" PROVE PausedAtBoundary
      BY DEF PausedAtBoundary
    <2>1. checkpoint.green = Tip
      BY DEF PauseInv
    <2>2. \A i \in DOMAIN branch : Earlier(branch[i]) /\ branch[i] \in Commits
          /\ checkpoint.step \in Nat
      <3> TAKE i \in DOMAIN branch
      <3>1. Tip \in Nat /\ checkpoint.step \in Nat
        BY Numbers DEF PlaceInv, TypeInv, TypeOK, Checkpoints, StepIndices
      <3> QED  BY <2>1, <3>1, EarlierOrOwn DEF PlaceInv
    <2> QED  BY <2>1, <2>2, Numbers
       DEF PausedAtBoundary, Earlier, Here, Commits, PlaceInv, TypeInv
  <1> QED  BY <1>1, <1>2, <1>3, PlaceAlways, PTL DEF Spec

\* The milestones, from the place of the driver and its rest.
LEMMA MilestonesAlways == Spec => []MilestoneInv
  <1>1. PlaceInv /\ PlaceInv' /\ MilestoneInv /\ [Next]_vars => MilestoneInv'
    BY MilestoneNext DEF PlaceInv
  <1> QED  BY <1>1, MilestoneInit, PlaceAlways, PTL DEF Spec

\* No resume, adoption or PARTIAL rewind drops the commit of a green milestone.
THEOREM MilestonesAreKept == Spec => []MilestonesKept
  <1>1. MilestoneInv => MilestonesKept  BY DEF MilestoneInv
  <1> QED  BY <1>1, MilestonesAlways, PTL

\* A PARTIAL run ends at a green milestone or at the base, never on work that no
\* gate accepted.
THEOREM PartialEndsAccepted == Spec => []PartialIsAccepted
  <1>1. MilestoneInv => PartialIsAccepted
    BY DEF MilestoneInv, PartialLast, PartialIsAccepted, Milestones
  <1> QED  BY <1>1, MilestonesAlways, PTL

\* Outside the fragile windows no stop makes a run unresumable, however many
\* stops there are and wherever they strike.
THEOREM StopsCanBeResumed == Spec => []StopsAreResumable
  <1>1. PlaceInv /\ StopInv /\ [Next]_vars => StopInv'
    BY StopNext DEF PlaceInv
  <1>2. StopInv => StopsAreResumable  BY DEF StopInv
  <1> QED  BY <1>1, <1>2, StopInit, PlaceAlways, PTL DEF Spec

-----------------------------------------------------------------------------
(* Descent.  A driver walks through iterations; in each through sections,  *)
(* the steps and the audits of a section take turns, and a turn goes       *)
(* through its operations in order.                                        *)

\* The iterations a driver has ahead, none when there is no driver.
Distance == IF pc = "off" THEN 0 ELSE 1 + MaxIterations - iter

\* The sections of an iteration in their order: the entry, the steps, the gate
\* with its audits, the continuation with the publication, the PARTIAL exit.
Section(op) ==
    IF      op \in {"enter", "guard"}                                    THEN 5
    ELSE IF op \in {"step", "execute", "working", "stepped", "pausing"}  THEN 4
    ELSE IF op \in {"gate", "checking", "judge", "audit", "auditing", "report", "reported"}
                                                                         THEN 3
    ELSE IF op \in {"budget", "partial", "partial_end"}                  THEN 1
    ELSE IF op = "off"                                                   THEN 0
    ELSE 2

\* The steps a plan still has, or the audits the budget still pays for.
Turns == IF      Section(pc) = 4 THEN Steps - index
         ELSE IF Section(pc) = 3 THEN AuditRepairs - Len(reports[iter])
         ELSE 0

\* The operations of one turn in their order.  A report ends a turn: what
\* follows it is the first operation of the next.
Rank(op) ==
    IF      op \in {"outcome"}                           THEN 9
    ELSE IF op \in {"decide"}                            THEN 8
    ELSE IF op \in {"reported", "asking"}                THEN 7
    ELSE IF op \in {"gate", "close"}                     THEN 6
    ELSE IF op \in {"checking", "prepare", "spec", "ready"} THEN 5
    ELSE IF op \in {"step", "judge", "create"}           THEN 4
    ELSE IF op \in {"execute", "audit", "push", "budget"}   THEN 3
    ELSE IF op \in {"working", "auditing", "pushed", "partial"} THEN 2
    ELSE IF op \in {"stepped", "report", "publish", "partial_end"} THEN 1
    ELSE 0

Descends ==
    \/ Distance' < Distance
    \/ /\ Distance' = Distance
       /\ \/ Section(pc') < Section(pc)
          \/ /\ Section(pc') = Section(pc)
             /\ \/ Turns' < Turns
                \/ Turns' = Turns /\ Rank(pc') < Rank(pc)

\* The order is that of four natural numbers.
LEMMA Measured ==
    ASSUME TypeInv, AuditInv
    PROVE  Distance \in Nat /\ Section(pc) \in Nat /\ Turns \in Nat /\ Rank(pc) \in Nat
  <1>1. /\ iter \in Iterations /\ index \in 0 .. Steps
        /\ Len(reports[iter]) \in Nat /\ Len(reports[iter]) <= AuditRepairs
    BY DEF TypeInv, TypeOK, AuditInv, AuditsBounded
  <1>2. Distance \in Nat
    BY <1>1, BudgetAssumption DEF Distance, Iterations
  <1>3. Section(pc) \in Nat /\ Rank(pc) \in Nat
    BY DEF Section, Rank
  <1>4. Turns \in Nat
    BY <1>1, BudgetAssumption, StepsAssumption DEF Turns
  <1> QED  BY <1>2, <1>3, <1>4

\* A driver that leaves descends,
LEMMA LeavingDescends ==
    ASSUME TypeInv, pc # "off", pc' = "off"
    PROVE  Descends
  <1>1. Distance > 0 /\ Distance \in Nat /\ Distance' = 0
    BY BudgetAssumption DEF TypeInv, TypeOK, Distance, Iterations
  <1> QED  BY <1>1 DEF Descends

\* and so does one that enters a later section,
LEMMA SectionDescends ==
    ASSUME TypeInv, pc # "off", iter' = iter, Section(pc') < Section(pc)
    PROVE  Descends
  <1>1. CASE pc' = "off"
    BY <1>1, LeavingDescends
  <1>2. CASE pc' # "off"
    BY <1>2 DEF Descends, Distance
  <1> QED  BY <1>1, <1>2

\* or goes on in its turn.
LEMMA OperationDescends ==
    ASSUME pc # "off", pc' # "off", UNCHANGED <<iter, index, reports>>,
           Section(pc') = Section(pc), Rank(pc') < Rank(pc)
    PROVE  Descends
  BY DEF Descends, Distance, Turns

\* Every step of a driver, and every stop, is one of these, begins the next
\* turn, or begins the next iteration.
LEMMA DriverSteps ==
    ASSUME TypeInv, AuditInv, RestInv, Drive \/ Interrupt \/ Unavailable \/ Escape
    PROVE  Descends
  <1> USE DEF At, Goto, Leave, Fail, Boundary, Driving, Idle, durable, signals, locals, history
  <1>t. /\ iter \in Iterations /\ MaxIterations \in Nat /\ Steps \in Nat /\ AuditRepairs \in Nat
        /\ index \in 0 .. Steps /\ reports \in [Iterations -> Seq(Findings)]
        /\ checkpoint.phase \in ExecutionPhases
    BY BudgetAssumption, StepsAssumption DEF TypeInv, TypeOK, Checkpoints
  <1>1. CASE OutOfBudget
    BY <1>1, SectionDescends DEF OutOfBudget, GuardedOperations, Section
  <1>2. CASE Admit
    BY <1>2, OperationDescends DEF Admit, Section, Rank
  <1>3. CASE EnterPlanner \/ EnterSpent
    BY <1>3, SectionDescends DEF EnterPlanner, EnterSpent, Section
  <1>4. CASE Enter
    BY <1>4, <1>t, SectionDescends DEF Enter, EntryOf, ExecutionPhases, Section
  <1>5. CASE StepBoundary
    <2>1. CASE index < Steps
      BY <1>5, <2>1, OperationDescends DEF StepBoundary, Section, Rank
    <2>2. CASE ~(index < Steps)
      BY <1>5, <2>2, SectionDescends DEF StepBoundary, Section
    <2> QED  BY <2>1, <2>2
  <1>6. CASE AcceptStep \/ SettleStep
    BY <1>6, OperationDescends DEF AcceptStep, SettleStep, Section, Rank
  <1>7. CASE FatalStep \/ Pause \/ JudgeSpecDecision \/ JudgeHard \/ AskHuman \/ FinishPartial
    BY <1>7, LeavingDescends
       DEF FatalStep, Pause, JudgeSpecDecision, JudgeHard, AskHuman, FinishPartial
  <1>8. CASE AfterStep
    <2>1. pc = "stepped" /\ pc' \in {"pausing", "step"} /\ index' = index + 1 /\ iter' = iter
      BY <1>8 DEF AfterStep
    <2>2. Distance' = Distance /\ Section(pc') = Section(pc) /\ Section(pc) = 4
      BY <2>1 DEF Distance, Section
    <2>3. Turns' < Turns
      BY <2>1, <2>2, <1>t DEF Turns
    <2> QED  BY <2>2, <2>3 DEF Descends
  <1>9. CASE ArchiveEvidence \/ RunChecks \/ ToAudit \/ Audit
    BY <1>9, OperationDescends DEF ArchiveEvidence, RunChecks, ToAudit, Audit, Section, Rank
  <1>10. CASE AcceptGate \/ LeaveGate
    BY <1>10, SectionDescends, LeavingDescends DEF AcceptGate, LeaveGate, Section
  <1>11. CASE Report
    <2>1. pc = "report" /\ pc' = "reported" /\ iter' = iter
      BY <1>11 DEF Report
    <2>2. Len(reports[iter]) \in Nat /\ Len(reports'[iter]) = Len(reports[iter]) + 1
      BY <1>11, <1>t DEF Report
    <2>3. Distance' = Distance /\ Section(pc') = Section(pc) /\ Section(pc) = 3
      BY <2>1 DEF Distance, Section
    <2>4. Turns' < Turns
      BY <2>1, <2>2, <2>3, <1>t DEF Turns
    <2> QED  BY <2>3, <2>4 DEF Descends
  <1>12. CASE AfterReport
    BY <1>12, LeavingDescends, OperationDescends DEF AfterReport, Section, Rank
  <1>13. CASE PlannerBoundary \/ Decide \/ CloseSpec \/ CloseComplete
    BY <1>13, OperationDescends DEF PlannerBoundary, Decide, CloseSpec, CloseComplete, Section, Rank
  <1>14. CASE CloseNext
    BY <1>14, SectionDescends, OperationDescends DEF CloseNext, Section, Rank
  <1>15. CASE RefusedAnswer \/ RefusedGate \/ Interrupt \/ Unavailable \/ Escape
    BY <1>15, LeavingDescends
       DEF RestInv, RefusedAnswer, RefusedGate, EmptyAndRed, Interrupt, Unavailable, Escape, CanStop,
           Projected, Struck
  <1>16. CASE PrepareNext
    <2>1. pc = "prepare" /\ pc' = "guard" /\ iter' = iter + 1
      BY <1>16 DEF PrepareNext
    <2>2. Distance' < Distance
      BY <2>1, <1>t DEF Distance, Iterations
    <2> QED  BY <2>2 DEF Descends
  <1>17. CASE NextBoundary
    BY <1>17, SectionDescends DEF NextBoundary, Section
  <1>18. CASE CandidateBoundary \/ PushCandidate
    BY <1>18, OperationDescends DEF CandidateBoundary, PushCandidate, Section, Rank
  <1>19. CASE Publish
    BY <1>19, LeavingDescends DEF Publish
  <1>20. CASE Rephase \/ RewindToAccepted
    BY <1>20, OperationDescends DEF Rephase, RewindToAccepted, Section, Rank
  <1> QED
    BY <1>1, <1>2, <1>3, <1>4, <1>5, <1>6, <1>7, <1>8, <1>9, <1>10, <1>11, <1>12, <1>13,
       <1>14, <1>15, <1>16, <1>17, <1>18, <1>19, <1>20 DEF Drive

\* A driver takes finitely many steps, whatever the plan, the verdicts, the
\* reports and the answers: each lowers four natural numbers in their
\* lexicographic order, and only a resume raises them.  What DriverLeaves adds
\* is that a driver that has not left has a step to take (_run, _gate,
\* _continue).
THEOREM DriversDescend ==
    Spec => /\ [](/\ Distance \in Nat /\ Section(pc) \in Nat
                  /\ Turns \in Nat /\ Rank(pc) \in Nat)
            /\ [][Drive \/ Interrupt \/ Unavailable \/ Escape => Descends]_vars
            /\ [][~Resume => Descends \/ UNCHANGED <<Distance, pc, Turns>>]_vars
  <1> DEFINE Natural == /\ Distance \in Nat /\ Section(pc) \in Nat
                        /\ Turns \in Nat /\ Rank(pc) \in Nat
  <1>1. TypeInv /\ AuditInv => Natural
    BY Measured
  <1>2. PlaceInv /\ AuditInv /\ [Next]_vars
          => [Drive \/ Interrupt \/ Unavailable \/ Escape => Descends]_vars
    BY DriverSteps DEF PlaceInv
  <1>3. PlaceInv /\ AuditInv /\ [Next]_vars
          => [~Resume => Descends \/ UNCHANGED <<Distance, pc, Turns>>]_vars
    <2>1. Expire \/ RequestPause \/ Rest => UNCHANGED <<Distance, pc, Turns>>
      <3> SUFFICES ASSUME Expire \/ RequestPause \/ Rest
                   PROVE  UNCHANGED <<pc, iter, index, reports>>
        BY DEF Distance, Turns
      <3> QED  BY DEF Expire, RequestPause, Rest, vars, durable, locals
    <2> QED  BY <2>1, DriverSteps DEF Next, PlaceInv
  <1> QED  BY <1>1, <1>2, <1>3, TypeAlways, PlaceAlways, AuditInit, AuditNext, PTL DEF Spec

=============================================================================
