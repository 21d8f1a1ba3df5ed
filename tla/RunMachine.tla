------------------------------ MODULE RunMachine ------------------------------
(***************************************************************************)
(* The pure run state machine of metaharness/models.py: the phases, the    *)
(* dispositions, the one transition function and the derived outcome.      *)
(* Nothing here is stored; RunStore and RunOwnership hold the state.       *)
(***************************************************************************)
EXTENDS Naturals

\* RunPhase: the durable operation a run is at.
Phases == { "context", "planner", "plan_approval", "worktree_setup",
            "implement_step", "deterministic_gate", "audit",
            "candidate_ready", "candidate_push", "publish" }

NoPhase == "no_phase"

\* RunDisposition, and its two derived classes.
Dispositions == { "RUNNING", "WAIT_EXTERNAL", "WAIT_HUMAN", "COMPLETED", "FAILED" }
Waiting  == { "WAIT_EXTERNAL", "WAIT_HUMAN" }
Terminal == { "COMPLETED", "FAILED" }

\* The reason codes the control flow tells apart, one or two per FailureClass.
\* PUSH_FAILED and EXTERNAL_AUTH_REQUIRED stand for the transient codes,
\* INTERRUPTED, PAUSED and PLAN_REJECTED are the operator boundaries (unknown
\* codes to the table, hence fixable), RESUME_INTEGRITY_FAILURE and
\* BASE_MOVED_SINCE_RUN the fatal ones.
FailureClasses ==
    [ PUSH_FAILED              |-> "transient",
      EXTERNAL_AUTH_REQUIRED   |-> "transient",
      COMMIT_GATE_FAILED       |-> "fixable",
      INTERRUPTED              |-> "fixable",
      PAUSED                   |-> "fixable",
      PLAN_REJECTED            |-> "fixable",
      SPEC_DECISION_REQUIRED   |-> "spec_decision",
      RESUME_INTEGRITY_FAILURE |-> "fatal",
      BASE_MOVED_SINCE_RUN     |-> "fatal" ]

Reasons  == DOMAIN FailureClasses
NoReason == "no_reason"

ClassOf(reason) == FailureClasses[reason]

Machines == [ phase       : Phases \cup {NoPhase},
              disposition : Dispositions,
              reason      : Reasons \cup {NoReason} ]

Machine(p, d, r) == [phase |-> p, disposition |-> d, reason |-> r]

-----------------------------------------------------------------------------
(* The phase graph and the transition function.                            *)

Successors ==
    [ context            |-> {"planner"},
      planner            |-> {"plan_approval", "implement_step", "candidate_ready"},
      plan_approval      |-> {"worktree_setup"},
      worktree_setup     |-> {"implement_step"},
      implement_step     |-> {"implement_step", "deterministic_gate"},
      deterministic_gate |-> {"deterministic_gate", "candidate_ready", "audit", "planner"},
      audit              |-> {"deterministic_gate"},
      candidate_ready    |-> {"candidate_push"},
      candidate_push     |-> {"publish"},
      publish            |-> {} ]

Completable == { "candidate_push", "publish", "planner" }

EventKinds == { "advance", "wait", "fail", "complete", "resume" }

Event(k, t, d, r) == [kind |-> k, target |-> t, disposition |-> d, reason |-> r]
Advance(t) == Event("advance", t, "RUNNING", NoReason)
Wait(d, r) == Event("wait", NoPhase, d, r)
Fail(r)    == Event("fail", NoPhase, "FAILED", r)
Complete   == Event("complete", NoPhase, "COMPLETED", NoReason)
Resume     == Event("resume", NoPhase, "RUNNING", NoReason)

\* Whether transition() raises nothing for event e in machine state m.
Allowed(m, e) ==
    LET resumableFailure == e.kind = "resume" /\ m.disposition = "FAILED"
        approvedPlanGate == /\ e.kind = "resume"
                            /\ m.disposition = "RUNNING"
                            /\ m.phase = "plan_approval"
    IN /\ m.disposition \in Terminal => resumableFailure
       /\ \/ /\ e.kind = "advance"
             /\ m.disposition = "RUNNING"
             /\ m.phase # NoPhase
             /\ e.target \in Successors[m.phase]
          \/ /\ e.kind = "wait"
             /\ e.disposition \in Waiting
             /\ e.disposition = "WAIT_HUMAN" => e.reason = "SPEC_DECISION_REQUIRED"
          \/ e.kind = "fail"
          \/ /\ e.kind = "complete"
             /\ m.disposition = "RUNNING"
             /\ m.phase \in Completable
          \/ /\ e.kind = "resume"
             /\ m.disposition \in Waiting \/ resumableFailure \/ approvedPlanGate

\* The next machine state of an allowed event.
After(m, e) ==
    CASE e.kind = "advance"  -> Machine(e.target, "RUNNING", NoReason)
      [] e.kind = "wait"     -> Machine(m.phase, e.disposition, e.reason)
      [] e.kind = "fail"     -> Machine(m.phase, "FAILED", e.reason)
      [] e.kind = "complete" -> Machine(m.phase, "COMPLETED", NoReason)
      [] e.kind = "resume"   -> Machine(m.phase, "RUNNING", NoReason)

-----------------------------------------------------------------------------
(* The derived outcome.                                                    *)

Statuses == { "running", "waiting_human", "waiting_external", "committed",
              "published", "partial", "failed" }

\* project_run_outcome raises for a WAIT_HUMAN that is not a SPEC decision.
Projectable(m) == m.disposition = "WAIT_HUMAN" => m.reason = "SPEC_DECISION_REQUIRED"

\* Slip: the disposition is stored where its public status belongs.
DispositionAsStatus(m) == m.disposition

StatusOf(m) ==
    CASE m.disposition = "RUNNING"       -> "running"
      [] m.disposition = "COMPLETED"     -> ( IF m.phase = "publish" THEN "published"
                                              ELSE IF m.phase = "planner" THEN "partial"
                                              ELSE "committed" )
      [] m.disposition = "FAILED"        -> "failed"
      [] m.disposition = "WAIT_EXTERNAL" -> "waiting_external"
      [] m.disposition = "WAIT_HUMAN"    -> "waiting_human"

\* RunOutcome.resume_eligible: a resume may claim the run at all.
OutcomeEligible(m) == m.disposition \in {"FAILED", "WAIT_EXTERNAL"}

=============================================================================
