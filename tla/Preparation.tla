---------------------------- MODULE Preparation ----------------------------
(***************************************************************************)
(* A run before its first step: the planner's decision, the authority the  *)
(* plan is bound to (the catalogue of checks, the execution selection, the *)
(* human decision), and the worktree its steps will work in.               *)
(*                                                                         *)
(* Four checkpoints lead there; a resume re-enters prepare_v2_run with the *)
(* plan it has and repeats every operation after the planner, so that each *)
(* must recognise what an earlier driver did.  The TOML may be edited      *)
(* between two drivers; a driver reads it when it starts.                  *)
(***************************************************************************)
EXTENDS PlannerSession

CONSTANTS
    Gates,      \* values of approval.require_plan_approval
    Tomls,      \* bound: versions of the TOML's catalogue and profiles, from 1
    Issues,     \* values of "the run opens an issue"
    MaxFaults   \* bound: failures of Git, of GitHub or of the containment

ASSUME OptionAssumption == Gates \subseteq BOOLEAN /\ Issues \subseteq BOOLEAN
ASSUME EditAssumption == Tomls \in Nat \ {0} /\ MaxFaults \in Nat

VARIABLES
    gated,         \* the run's frozen option: a human decides on the plan
    toml, config,  \* the catalogue and the profiles on disk, and those this driver loaded
    plan,          \* the published plan: the catalogue it was parsed against
    authority,     \* check_authority.json: a version of the catalogue
    selection,     \* execution_selection.json: a version of the profiles
    approval,      \* approval.json: a decision and what it is bound to
    identity,      \* state.json: plan_identity
    desk,          \* the web request that approves: the operation it is at
    worktree,      \* the run branch and its worktree
    wanted, opened, issue,  \* GitHub: whether an issue is wanted, those opened, the one recorded
    setups,        \* recovery_counters["workspace-setup"]
    faults         \* history: failures of Git, of GitHub or of the containment

authorities == <<plan, authority, selection, approval, identity>>
world       == <<gated, toml, config, faults>>
github      == <<wanted, opened, issue>>
site        == <<worktree, setups>>
setupVars   == <<authorities, desk, site, github>>
vars        == <<plannerVars, setupVars, world>>

NoApproval == [decision |-> "none", checks |-> 0, selection |-> 0]
NoIdentity == [checks |-> 0, selection |-> 0]

Phases == {"CONTEXT", "PLANNER", "PLAN_APPROVAL", "WORKTREE_SETUP", "IMPLEMENT_STEP"}

Init ==
    /\ PlannerInit
    /\ gated \in Gates /\ toml = [checks |-> 1, profiles |-> 1] /\ config = toml
    /\ plan = 0 /\ authority = 0 /\ selection = 0
    /\ approval = NoApproval /\ identity = NoIdentity
    /\ desk = "idle" /\ worktree = "none" /\ setups = 0
    /\ wanted \in Issues /\ opened = 0 /\ issue = 0
    /\ faults = 0

\* compute_plan_identity_from_run: the files as they are now.
IdentityNow == [checks |-> authority, selection |-> selection]

-----------------------------------------------------------------------------
(* The plan and its authority.                                             *)

\* The policy the planner was given: the frozen one as soon as there is one.
Owned  == authority # 0
Policy == IF Owned THEN authority ELSE config.checks

PublishPlan ==
    /\ At("publish")
    /\ plan' = Policy
    /\ UNCHANGED <<exchange, checkpoint, answered, resumes, authority, selection,
                   approval, identity, desk, site, github, world>>
    /\ IF answer = "blocked" THEN Leave("WAIT_HUMAN", "SPEC_DECISION_REQUIRED")
       ELSE Forget /\ Goto("planned") /\ UNCHANGED <<disposition, reason>>

\* Slip: the catalogue of today replaces the frozen one.
Refreeze ==
    /\ At("planned")
    /\ authority' = config.checks
    /\ Goto("bind")
    /\ UNCHANGED <<exchange, run, memory, answered, resumes, plan, selection,
                   approval, identity, desk, site, github, world>>

\* write_check_authority: published once, refused with other bytes.
FreezeChecks ==
    /\ At("planned")
    /\ IF authority \in {0, config.checks}
       THEN /\ authority' = config.checks
            /\ Goto("bind")
            /\ UNCHANGED <<exchange, run, memory, answered, resumes>>
       ELSE /\ UNCHANGED authority
            /\ Escape("PLAN_APPROVAL_INVALID")
    /\ UNCHANGED <<plan, selection, approval, identity, desk, site, github, world>>

BindIdentity ==
    /\ At("bind")
    /\ identity' = IdentityNow
    /\ Goto("offer")
    /\ UNCHANGED <<exchange, run, memory, answered, resumes, plan, authority,
                   selection, approval, desk, site, github, world>>

OfferPlan ==
    /\ At("offer")
    /\ checkpoint' = "PLAN_APPROVAL"
    /\ Goto(IF gated THEN "approval" ELSE "select")
    /\ UNCHANGED <<exchange, disposition, reason, memory, answered, resumes,
                   setupVars, world>>

\* resolve_execution_selection: the profiles of the routing, as configured.
Requested == config.profiles

\* ensure_execution_selection: published once, refused when it differs.
SelectProfiles ==
    /\ At("select")
    /\ IF selection \in {0, Requested}
       THEN /\ selection' = Requested
            /\ Goto("bound")
            /\ UNCHANGED <<exchange, run, memory, answered, resumes>>
       ELSE /\ UNCHANGED selection
            /\ Escape("PLAN_APPROVAL_INVALID")
    /\ UNCHANGED <<plan, authority, approval, identity, desk, site, github, world>>

\* validate_execution_selection: every frozen profile is still configured so.
SelectionValid(loaded) == selection = loaded.profiles

\* read_plan_approval: the decision is bound to the files as they are.
DecisionBound ==
    /\ approval.decision = "approve"
    /\ approval.checks = authority /\ approval.selection = selection

AwaitApproval ==
    /\ At("approval") /\ approval.decision # "none"
    /\ UNCHANGED <<setupVars, world>>
    /\ IF approval.decision = "reject"
       THEN /\ Leave("FAILED", "PLAN_REJECTED")
            /\ UNCHANGED <<exchange, checkpoint, answered, resumes>>
       ELSE IF DecisionBound /\ SelectionValid(config)
       THEN Goto("bound") /\ UNCHANGED <<exchange, run, memory, answered, resumes>>
       ELSE Escape("PLAN_APPROVAL_INVALID")

BindSelection ==
    /\ At("bound")
    /\ identity' = IdentityNow
    /\ Goto("boundary")
    /\ UNCHANGED <<exchange, run, memory, answered, resumes, plan, authority,
                   selection, approval, desk, site, github, world>>

-----------------------------------------------------------------------------
(* The web request of the operator's decision; it is not stopped with the  *)
(* driver, and may itself be lost between two of its writes.               *)

OfferedNow ==
    /\ checkpoint = "PLAN_APPROVAL" /\ disposition = "RUNNING"
    /\ gated /\ approval.decision = "none"
    /\ identity.checks = authority

\* The payload of approval.json.
Decision(kind, chosen) == [decision |-> kind, checks |-> authority, selection |-> chosen]

Reject ==
    /\ desk = "idle" /\ OfferedNow
    /\ approval' = Decision("reject", identity.selection)
    /\ UNCHANGED <<plannerVars, plan, authority, selection, identity, desk, site, github, world>>

\* The server's configuration is as old as the server; another choice than
\* the one already frozen is a conflict.
ChooseProfiles ==
    /\ desk = "idle" /\ OfferedNow
    /\ selection' \in 1 .. toml.profiles /\ selection \in {0, selection'}
    /\ desk' = "chosen"
    /\ UNCHANGED <<plannerVars, plan, authority, approval, identity, site, github, world>>

Approve ==
    /\ desk = "chosen"
    /\ IF approval.decision = "none"
       THEN /\ approval' = Decision("approve", selection)
            /\ desk' = "approved"
       ELSE desk' = "idle" /\ UNCHANGED approval
    /\ UNCHANGED <<plannerVars, plan, authority, selection, identity, site, github, world>>

\* update_metadata(expected=...): only the gate the request was validated on.
RecordDecision ==
    /\ desk = "approved"
    /\ identity' = IF checkpoint = "PLAN_APPROVAL" /\ disposition = "RUNNING"
                   THEN IdentityNow ELSE identity
    /\ desk' = "idle"
    /\ UNCHANGED <<plannerVars, plan, authority, selection, approval, site, github, world>>

LoseRequest ==
    /\ desk # "idle"
    /\ desk' = "idle"
    /\ UNCHANGED <<plannerVars, authorities, site, github, world>>

-----------------------------------------------------------------------------
(* The worktree.                                                           *)

EnterSetup ==
    /\ At("boundary")
    /\ checkpoint' = "WORKTREE_SETUP"
    /\ Goto("worktree")
    /\ UNCHANGED <<exchange, disposition, reason, memory, answered, resumes,
                   setupVars, world>>

\* create_run_worktree, unless the resume found the worktree of this run.
CreateWorktree ==
    /\ At("worktree")
    /\ UNCHANGED <<authorities, desk, setups, github, world>>
    /\ IF held = "worktree" \/ worktree = "none"
       THEN /\ worktree' = IF held = "worktree" THEN worktree ELSE "clean"
            /\ Forget /\ Goto("issue")
            /\ UNCHANGED <<exchange, run, answered, resumes>>
       ELSE UNCHANGED worktree /\ Escape("GIT_FAILURE")

\* ensure_github_issue_metadata: a recorded issue is kept, else one is opened;
\* GitHub may open it and its answer be lost.
OpenIssue ==
    /\ At("issue")
    /\ \/ /\ ~wanted \/ issue # 0
          /\ Goto("setup")
          /\ UNCHANGED <<exchange, run, memory, answered, resumes, opened, faults>>
       \/ /\ wanted /\ issue = 0
          /\ opened' = opened + 1
          /\ Goto("opened")
          /\ UNCHANGED <<exchange, run, memory, answered, resumes, faults>>
       \/ /\ wanted /\ issue = 0 /\ faults < MaxFaults
          /\ opened' \in {opened, opened + 1}
          /\ faults' = faults + 1
          /\ Escape("GITHUB_WORKSTREAM_FAILURE")
    /\ UNCHANGED <<authorities, desk, site, wanted, issue, gated, toml, config>>

RecordIssue ==
    /\ At("opened")
    /\ issue' = opened
    /\ Goto("setup")
    /\ UNCHANGED <<exchange, run, memory, answered, resumes, authorities, desk, site,
                   wanted, opened, world>>

\* Git, the base it must find clean, or the remote, fails.
GitFails ==
    /\ pc \in {"context", "worktree", "setup", "settle"}
    /\ faults < MaxFaults
    /\ faults' = faults + 1
    /\ Escape("GIT_FAILURE")
    /\ UNCHANGED <<setupVars, gated, toml, config>>

\* The setup commands write in the worktree while they run.
RunSetup ==
    /\ At("setup")
    /\ worktree' \in {"clean", "dirty"}
    /\ Goto("settle")
    /\ UNCHANGED <<exchange, run, memory, answered, resumes, authorities, desk,
                   setups, github, world>>

\* BudgetExhausted, looked at before every run of the setup: nothing is
\* accepted yet, the run ends PARTIAL.
SetupOutOfTime ==
    /\ At("setup")
    /\ checkpoint' = "PLANNER"
    /\ Leave("COMPLETED", "PARTIAL")
    /\ UNCHANGED <<exchange, answered, resumes, setupVars, world>>

\* contain_trusted_process: the tree is put back as it was before.
Contained == "clean"

\* The commands took away what they wrote: what is left would be a failure.
FinishSetup ==
    /\ At("settle")
    /\ worktree' = Contained
    /\ checkpoint' = "IMPLEMENT_STEP"
    /\ Leave("RUNNING", "pipeline")
    /\ UNCHANGED <<exchange, answered, resumes, authorities, desk, setups, github, world>>

\* Slip: the budget is compared after the retry it should have refused.
SetupLeftOver == setups <= Attempts

\* admit refuses at used >= budget: the first run of the setup is not counted.
SetupLeft == setups < Attempts

FailSetup ==
    /\ At("settle")
    /\ worktree' = Contained
    /\ IF SetupLeft
       THEN setups' = setups + 1 /\ Goto("setup") /\ UNCHANGED <<exchange, run, memory, answered, resumes>>
       ELSE UNCHANGED setups /\ Escape("CHECK_INFRASTRUCTURE_UNAVAILABLE")
    /\ UNCHANGED <<authorities, desk, github, world>>

\* AttemptViolation: what the commands did to HEAD, the branches or the
\* worktrees is never undone; or the tree could not be put back.
EscapeContainment ==
    /\ At("settle") /\ faults < MaxFaults
    /\ faults' = faults + 1
    /\ \/ Escape("AGENT_GIT_VIOLATION")
       \/ /\ worktree = "dirty"
          /\ Leave("FAILED", "ROLLBACK_FAILED")
          /\ UNCHANGED <<exchange, checkpoint, answered, resumes>>
    /\ UNCHANGED <<setupVars, gated, toml, config>>

\* The setup succeeded, the preflight of a check that is blocking did not.
FailPreflight ==
    /\ At("settle")
    /\ worktree' = Contained
    /\ Escape("CHECK_INFRASTRUCTURE_UNAVAILABLE")
    /\ UNCHANGED <<authorities, desk, setups, github, world>>

\* The exits that no retry of the setup precedes.
LeaveSetup == SetupOutOfTime \/ EscapeContainment \/ FailPreflight

-----------------------------------------------------------------------------
(* Stops and resumes.                                                      *)

\* Ctrl-C is recorded; a death leaves the state as it was.
Stop ==
    /\ pc # "off" /\ resumes < MaxResumes
    /\ Leave("FAILED", "INTERRUPTED") \/ Leave(disposition, reason)
    /\ UNCHANGED <<exchange, checkpoint, answered, resumes, setupVars, world>>

EditToml ==
    /\ \E part \in DOMAIN toml :
          toml[part] < Tomls /\ toml' = [toml EXCEPT ![part] = @ + 1]
    /\ UNCHANGED <<plannerVars, setupVars, gated, config, faults>>

Resumable ==
    /\ checkpoint # "IMPLEMENT_STEP"
    /\ \/ disposition \in {"RUNNING", "WAIT_EXTERNAL", "WAIT_HUMAN"}
       \/ disposition = "FAILED" /\ reason = "INTERRUPTED"

\* _existing_setup_worktree: exactly at the run's base, or refused.
SetupRecognised == worktree # "dirty"

\* resume_pre_execution: what the checkpoint names must be what is on disk.
ResumeHolds ==
    /\ checkpoint \in {"PLAN_APPROVAL", "WORKTREE_SETUP"} => identity = IdentityNow
    /\ checkpoint = "WORKTREE_SETUP" =>
          SetupRecognised /\ SelectionValid(toml) /\ (gated => DecisionBound)

Resume ==
    /\ pc = "off" /\ Resumable /\ resumes < MaxResumes
    /\ resumes' = resumes + 1
    /\ config' = toml
    /\ UNCHANGED <<exchange, checkpoint, clock, tries, delay, answered, setupVars,
                   gated, toml, faults>>
    /\ IF ResumeHolds
       THEN /\ disposition' = "RUNNING" /\ reason' = "none"
            /\ held' = IF checkpoint = "WORKTREE_SETUP" /\ worktree # "none"
                       THEN "worktree" ELSE "none"
            /\ Goto(IF checkpoint = "CONTEXT" THEN "context"
                    ELSE IF checkpoint = "PLANNER" THEN "enter" ELSE "planned")
       ELSE /\ disposition' = "FAILED" /\ reason' = "RESUME_INTEGRITY_FAILURE"
            /\ UNCHANGED <<pc, held>>

-----------------------------------------------------------------------------

Drive ==
    \/ PlannerStep /\ UNCHANGED <<setupVars, world>>
    \/ PublishPlan \/ FreezeChecks \/ BindIdentity \/ OfferPlan
    \/ SelectProfiles \/ AwaitApproval \/ BindSelection
    \/ EnterSetup \/ CreateWorktree \/ OpenIssue \/ RecordIssue
    \/ RunSetup \/ FinishSetup \/ FailSetup \/ LeaveSetup

Next ==
    \/ Drive \/ GitFails
    \/ Reject \/ ChooseProfiles \/ Approve \/ RecordDecision \/ LoseRequest
    \/ Stop \/ EditToml \/ Resume

TypeOK ==
    /\ root \subseteq Files /\ answer \in Answers \cup {"none"}
    /\ session \in [latest : Nat, handle : {"none", "known", "changed"}]
    /\ archive \in Seq(SUBSET Files)
    /\ checkpoint \in Phases
    /\ disposition \in {"RUNNING", "WAIT_EXTERNAL", "WAIT_HUMAN", "FAILED", "COMPLETED"}
    /\ clock \in Nat /\ tries \in Nat /\ delay \in Nat
    /\ answered \in Nat /\ resumes \in 0 .. MaxResumes
    /\ gated \in Gates /\ {toml, config} \subseteq [checks : 1 .. Tomls, profiles : 1 .. Tomls]
    /\ plan \in 0 .. toml.checks /\ authority \in 0 .. toml.checks
    /\ selection \in 0 .. toml.profiles /\ desk \in {"idle", "chosen", "approved"}
    /\ worktree \in {"none", "clean", "dirty"}
    /\ setups \in 0 .. Attempts /\ faults \in 0 .. MaxFaults
    /\ wanted \in Issues /\ opened \in Nat /\ issue \in 0 .. opened

\* However often the run is stopped and resumed, one decision pays for no more
\* answers than its budget: an archived attempt is never paid for again
\* (PlannerV2.plan).
AnswersBounded == answered <= Attempts

\* An answer the run could use is the last one it paid for: a stop between the
\* answer and its plan makes nobody ask again (PlannerV2.plan, "the raw
\* response is the paid-call boundary").
PaidOnce == [][(answer \in Good) => answered' = answered]_vars

\* A try of a request starts before the horizon, and every one after the first
\* has waited: the tries are bounded by time alone (_request_json).
TriesHaveRoom ==
    At("call") => clock < Horizon /\ MinUseful * tries <= clock

\* The first step runs what was planned, offered and bound, whatever was
\* stopped, resumed or edited on the way: the checks are those the plan was
\* parsed against, the identity and the decision name the files on disk, the
\* frozen profiles are those this driver is configured with, the worktree is
\* the run's base, and the issue on record is the last one opened
\* (prepare_v2_run).
PreparedAsBound ==
    checkpoint = "IMPLEMENT_STEP" =>
        /\ answer = "ready" /\ authority = plan
        /\ identity = IdentityNow /\ SelectionValid(config)
        /\ gated => DecisionBound
        /\ worktree = "clean"
        /\ wanted => issue = opened /\ issue > 0

\* What suspends or ends a run before its first step is the world, an answer or
\* a decision, never what the run itself left on disk: WAIT_EXTERNAL is "a
\* temporary external condition" (recovery_policy.py, runbook.md).
WaitsForTheWorld ==
    /\ reason \notin {"INTERNAL_HARNESS_ERROR", "PLAN_APPROVAL_INVALID",
                      "RESUME_INTEGRITY_FAILURE"}
    /\ reason = "GIT_FAILURE" => faults > 0

\* "step_attempts is the total ceiling of one autonomous operation: the primary
\* attempt ... consume it" (recovery_policy.py:197, recovery.py:618): a driver
\* alone runs the setup no more often than that.  prepare_workspace counts the
\* retries only.
SetupWithinCeiling == At("settle") /\ resumes = 0 => setups + 1 <= Attempts

Spec     == Init /\ [][Next]_vars
FairSpec == Spec /\ WF_vars(Drive)

\* A driver reaches the end of its part: it leaves, or waits at a gate nobody
\* has decided (PlannerV2.plan, _request_json, prepare_workspace).
DriverLeaves ==
    (pc # "off") ~> (pc = "off" \/ (At("approval") /\ approval.decision = "none"))
=============================================================================
