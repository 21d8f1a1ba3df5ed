----------------------------- MODULE RunOwnership -----------------------------
(***************************************************************************)
(* Who drives one run.  Several processes may: a command line process      *)
(* (`run', `resume', the --auto-resume loop) and the worker threads of one *)
(* or more web servers (web/run_manager.py).  A driver is the worker that  *)
(* executes the pipeline in the run's worktree; a resumer becomes one by   *)
(* Orchestrator.resume: it loads the record, tests eligibility, validates  *)
(* and restores the worktree, and claims the record by compare-and-set.    *)
(*                                                                         *)
(* Each call of the state store is one step here: RunStore implements that *)
(* atomic record (RunStoreProofs, THEOREM Refinement).  The worktree is    *)
(* reduced to the number of accepted commits on the run branch.  What two  *)
(* drivers of one run do to each other is not modelled, only how they come *)
(* to be two.                                                              *)
(***************************************************************************)
EXTENDS Naturals, FiniteSets

CONSTANTS
    Clis,       \* command line processes
    Servers,    \* web server processes
    Threads,    \* worker and request threads of the servers
    ServerOf,   \* ServerOf[t]: the server a thread belongs to
    GateUsed,   \* require_plan_approval
    MaxGen,     \* bound: no resume and no approval starts at a later generation
    MaxHead,    \* bound: commits on the run branch
    MaxDeaths   \* bound: process deaths

ASSUME WorkersAssumption == /\ Clis \cap Threads = {}
                            /\ ServerOf \in [Threads -> Servers]
ASSUME BoundsAssumption  == /\ GateUsed \in BOOLEAN
                            /\ MaxGen \in Nat /\ MaxHead \in Nat /\ MaxDeaths \in Nat

VARIABLES
    record,      \* state.json: disposition, reason, generation, bound identity
    checkpoint,  \* resume_checkpoint.json: the phase and last_green_commit
    head,        \* commits on the run branch after the base
    selection,   \* execution_selection.json exists
    decision,    \* plan_approval.json
    stage,       \* stage[w]: where worker w is
    snap,        \* snap[w]: the record and the checkpoint w loaded
    active,      \* active[s]: the run is in server s's _active_run_ids
    deaths,
    mishaps      \* history: what was done to a run that another worker drives

vars == <<record, checkpoint, head, selection, decision, stage, snap, active,
          deaths, mishaps>>

Workers == Clis \cup Threads

-----------------------------------------------------------------------------
(* Values.                                                                 *)

Stages == { "absent",
            "deciding", "frozen", "published",                  \* approve_run
            "called", "entering", "loaded", "examined", "validated", "ready",
            "claimed", "gate", "passed", "driving", "committed", \* drivers
            "closing" }

DriverStages == {"claimed", "gate", "passed", "driving", "committed"}

\* The stages in which a thread holds its server's _active_run_ids entry.
OwningStages == {"entering", "loaded", "examined", "validated", "ready", "closing"}
                \cup DriverStages

Gate      == "plan_approval"
Execution == "implement_step"

\* RESUME_INTEGRITY_FAILURE, split by what did not match.
FatalReasons == {"plan_identity", "git_identity"}
OwnReasons   == {"none", "transient", "interrupted", "rejected"} \cup FatalReasons

Records == [ disposition : {"RUNNING", "WAIT_EXTERNAL", "COMPLETED", "FAILED"},
             reason : OwnReasons, gen : Nat, bound : BOOLEAN ]

CheckpointsHere == [phase : {Gate, Execution}, green : Nat]

Snapshots == [record : Records, checkpoint : CheckpointsHere]

NewRecord == [disposition |-> "RUNNING", reason |-> "none", gen |-> 1,
              bound |-> ~GateUsed]

FirstCheckpoint == [phase |-> IF GateUsed THEN Gate ELSE Execution, green |-> 0]

NoSnap == [record |-> NewRecord, checkpoint |-> FirstCheckpoint]

Mishaps == {"failed_under_driver", "rewound_under_driver", "gate_stolen"}

Drives(w) == stage[w] \in DriverStages
OtherDriver(w) == \E v \in Workers \ {w} : Drives(v)

\* One store call that writes a posture, and one that only binds the identity.
Posture(d, r) == [disposition |-> d, reason |-> r, gen |-> record.gen + 1,
                  bound |-> record.bound]

Bound == [disposition |-> record.disposition, reason |-> record.reason,
          gen |-> record.gen + 1, bound |-> TRUE]

-----------------------------------------------------------------------------
(* The run was created by one worker, which drives it.                     *)

Init ==
    /\ record = NewRecord
    /\ checkpoint = FirstCheckpoint
    /\ head = 0
    /\ selection = ~GateUsed
    /\ decision = "none"
    /\ \E w \in Workers :
         /\ stage = [v \in Workers |-> IF v # w THEN "absent"
                                       ELSE IF GateUsed THEN "gate" ELSE "driving"]
         /\ active = [s \in Servers |-> w \in Threads /\ ServerOf[w] = s]
    /\ snap = [w \in Workers |-> NoSnap]
    /\ deaths = 0
    /\ mishaps = {}

\* A worker moves on, and gives its server's slot back when it is done.
Move(w, to) == stage' = [stage EXCEPT ![w] = to]

Release(w) == active' = IF w \in Threads THEN [active EXCEPT ![ServerOf[w]] = FALSE]
                                         ELSE active

\* The worker's call ends; its locals are gone.
Return(w) == /\ Move(w, "absent")
             /\ Release(w)
             /\ snap' = [snap EXCEPT ![w] = NoSnap]

-----------------------------------------------------------------------------
(* web/api.approve_run, then server.py's resume_approved_run.              *)

\* The request loads the state and requires the open gate.
Decide(t) ==
    /\ stage[t] = "absent"
    /\ record.gen < MaxGen
    /\ record.disposition = "RUNNING"
    /\ checkpoint.phase = Gate
    /\ snap' = [snap EXCEPT ![t] = [record |-> record, checkpoint |-> checkpoint]]
    /\ Move(t, "deciding")
    /\ UNCHANGED <<record, checkpoint, head, selection, decision, active, deaths, mishaps>>

\* A rejection is published at once, exclusively.
Reject(t) ==
    /\ stage[t] = "deciding"
    /\ decision' = IF decision = "none" THEN "reject" ELSE decision
    /\ Move(t, "absent")
    /\ snap' = [snap EXCEPT ![t] = NoSnap]
    /\ UNCHANGED <<record, checkpoint, head, selection, active, deaths, mishaps>>

\* ensure_execution_selection: the selection is frozen before the decision.
Freeze(t) ==
    /\ stage[t] = "deciding"
    /\ selection' = TRUE
    /\ Move(t, "frozen")
    /\ UNCHANGED <<record, checkpoint, head, decision, snap, active, deaths, mishaps>>

\* Slip: the decision replaces the one on disk.
ReplaceDecision(t) ==
    /\ stage[t] = "frozen"
    /\ decision' = "approve"
    /\ Move(t, "published")
    /\ UNCHANGED <<record, checkpoint, head, selection, snap, active, deaths, mishaps>>

\* _publish_decision: os.link fails when a decision exists (409).
PublishDecision(t) ==
    /\ stage[t] = "frozen"
    /\ decision' = IF decision = "none" THEN "approve" ELSE decision
    /\ Move(t, IF decision = "none" THEN "published" ELSE "absent")
    /\ snap' = [snap EXCEPT ![t] = IF decision = "none" THEN @ ELSE NoSnap]
    /\ UNCHANGED <<record, checkpoint, head, selection, active, deaths, mishaps>>

Observed(w) == /\ record.gen = snap[w].record.gen
               /\ checkpoint.phase = snap[w].checkpoint.phase

\* update_metadata(expected=...): the full plan identity, unless the run moved
\* on; then resume_approved_run, which gives up when the run is active here.
BindIdentity(t) ==
    /\ stage[t] = "published"
    /\ record' = IF Observed(t) THEN Bound ELSE record
    /\ Move(t, IF active[ServerOf[t]] THEN "absent" ELSE "called")
    /\ snap' = [snap EXCEPT ![t] = NoSnap]
    /\ UNCHANGED <<checkpoint, head, selection, decision, active, deaths, mishaps>>

-----------------------------------------------------------------------------
(* The resume request and Orchestrator.resume.                             *)

\* resume_info over a loaded state and the checkpoint on disk.
Resumable(r) ==
    /\ \/ r.disposition \in {"FAILED", "WAIT_EXTERNAL"}
       \/ /\ r.disposition = "RUNNING"
          /\ checkpoint.phase = Gate
          /\ decision = "approve"
    /\ r.reason \notin FatalReasons

\* POST /runs/<id>/resume, which is refused at once for a run that is not
\* resumable, or `metaharness resume' and the auto-resume loop.
Request(w) ==
    /\ stage[w] = "absent"
    /\ record.gen < MaxGen
    /\ w \in Threads => Resumable(record)
    /\ Move(w, IF w \in Threads THEN "called" ELSE "entering")
    /\ UNCHANGED <<record, checkpoint, head, selection, decision, snap, active,
                   deaths, mishaps>>

\* Slip: the active set is not consulted.
AdmitAlways(t) ==
    /\ stage[t] = "called"
    /\ Move(t, "entering")
    /\ active' = [active EXCEPT ![ServerOf[t]] = TRUE]
    /\ UNCHANGED <<record, checkpoint, head, selection, decision, snap, deaths, mishaps>>

\* _run_until_claimed: one worker per run and per server.
Admit(t) ==
    /\ stage[t] = "called"
    /\ IF active[ServerOf[t]]
         THEN Move(t, "absent") /\ UNCHANGED active
         ELSE /\ Move(t, "entering")
              /\ active' = [active EXCEPT ![ServerOf[t]] = TRUE]
    /\ UNCHANGED <<record, checkpoint, head, selection, decision, snap, deaths, mishaps>>

LoadState(w) ==
    /\ stage[w] = "entering"
    /\ snap' = [snap EXCEPT ![w].record = record]
    /\ Move(w, "loaded")
    /\ UNCHANGED <<record, checkpoint, head, selection, decision, active, deaths, mishaps>>

Examine(w) ==
    /\ stage[w] = "loaded"
    /\ IF Resumable(snap[w].record)
         THEN /\ snap' = [snap EXCEPT ![w].checkpoint = checkpoint]
              /\ Move(w, IF checkpoint.phase = Gate THEN "ready" ELSE "examined")
              /\ UNCHANGED active
         ELSE Return(w)
    /\ UNCHANGED <<record, checkpoint, head, selection, decision, deaths, mishaps>>

\* Slip: a commit the checkpoint does not name yet is not adopted.
ValidateExactly(w) ==
    /\ stage[w] = "examined"
    /\ IF head = snap[w].checkpoint.green
         THEN Move(w, "validated") /\ UNCHANGED <<record, active, snap>>
         ELSE record' = Posture("FAILED", "git_identity") /\ Return(w)
    /\ UNCHANGED <<checkpoint, head, selection, decision, deaths, mishaps>>

\* prepare_resume: HEAD is the last green commit, or exactly one commit ahead
\* of it and then adopted; anything else is recorded as a failure, without a
\* comparison with the loaded record.
Validate(w) ==
    /\ stage[w] = "examined"
    /\ LET green == snap[w].checkpoint.green
       IN IF head \in {green, green + 1}
            THEN /\ snap' = [snap EXCEPT ![w].checkpoint.green = head]
                 /\ Move(w, "validated")
                 /\ UNCHANGED <<record, active, mishaps>>
            ELSE /\ record' = Posture("FAILED", "git_identity")
                 /\ mishaps' = mishaps \cup
                      (IF OtherDriver(w) THEN {"failed_under_driver"} ELSE {})
                 /\ Return(w)
    /\ UNCHANGED <<checkpoint, head, selection, decision, deaths>>

\* Slip: the worktree is rewound to the checkpoint's commit, not the adopted one.
RestoreUnadopted(w) ==
    /\ stage[w] = "validated"
    /\ head' = checkpoint.green
    /\ Move(w, "ready")
    /\ UNCHANGED <<record, checkpoint, selection, decision, snap, active, deaths, mishaps>>

\* The adopted checkpoint is written and the branch and worktree are rewound,
\* still before the claim.
Restore(w) ==
    /\ stage[w] = "validated"
    /\ checkpoint' = IF snap[w].checkpoint.green # checkpoint.green
                       THEN snap[w].checkpoint ELSE checkpoint
    /\ head' = snap[w].checkpoint.green
    /\ mishaps' = mishaps \cup
                    (IF OtherDriver(w) THEN {"rewound_under_driver"} ELSE {})
    /\ Move(w, "ready")
    /\ UNCHANGED <<record, selection, decision, snap, active, deaths>>

\* Slip: the posture is set, not claimed.
SetInsteadOfClaim(w) == stage[w] = "ready"

\* transition_run(RunEvent.resume(), expected=...).
Claimable(w) ==
    /\ Observed(w)
    /\ \/ record.disposition \in {"FAILED", "WAIT_EXTERNAL"}
       \/ record.disposition = "RUNNING" /\ checkpoint.phase = Gate

Claim(w) ==
    /\ stage[w] = "ready"
    /\ Claimable(w)
    /\ record' = Posture("RUNNING", "none")
    /\ mishaps' = mishaps \cup
                    (IF checkpoint.phase = Gate /\ record.disposition = "RUNNING"
                           /\ OtherDriver(w)
                       THEN {"gate_stolen"} ELSE {})
    /\ Move(w, IF checkpoint.phase = Gate THEN "claimed" ELSE "driving")
    /\ UNCHANGED <<checkpoint, head, selection, decision, snap, active, deaths>>

LoseClaim(w) ==
    /\ stage[w] = "ready"
    /\ ~Claimable(w)
    /\ Return(w)
    /\ UNCHANGED <<record, checkpoint, head, selection, decision, deaths, mishaps>>

\* resume_pre_execution revalidates after the claim: the plan identity of the
\* artifacts (which includes the execution selection) against the loaded one.
Revalidate(w) ==
    /\ stage[w] = "claimed"
    /\ IF selection = snap[w].record.bound
         THEN Move(w, "gate") /\ UNCHANGED record
         ELSE Move(w, "closing") /\ record' = Posture("FAILED", "plan_identity")
    /\ snap' = [snap EXCEPT ![w] = NoSnap]
    /\ UNCHANGED <<checkpoint, head, selection, decision, active, deaths, mishaps>>

-----------------------------------------------------------------------------
(* The driver.                                                             *)

\* wait_for_plan_approval polls until a decision is there.
PassGate(w) ==
    /\ stage[w] = "gate"
    /\ decision = "approve"
    /\ record' = Bound
    /\ Move(w, "passed")
    /\ UNCHANGED <<checkpoint, head, selection, decision, snap, active, deaths, mishaps>>

HonourRejection(w) ==
    /\ stage[w] = "gate"
    /\ decision = "reject"
    /\ record' = Posture("FAILED", "rejected")
    /\ Move(w, "closing")
    /\ UNCHANGED <<checkpoint, head, selection, decision, snap, active, deaths, mishaps>>

\* Slip: setup ends without moving the boundary on to the first step.
OpenWorktreeUnmoved(w) ==
    /\ stage[w] = "passed"
    /\ checkpoint' = [phase |-> "worktree_setup", green |-> 0]
    /\ Move(w, "driving")
    /\ UNCHANGED <<record, head, selection, decision, snap, active, deaths, mishaps>>

\* Worktree, setup and baseline; then the first step's checkpoint.
OpenWorktree(w) ==
    /\ stage[w] = "passed"
    /\ checkpoint' = [phase |-> Execution, green |-> 0]
    /\ Move(w, "driving")
    /\ UNCHANGED <<record, head, selection, decision, snap, active, deaths, mishaps>>

\* An accepted step: the commit, and later the checkpoint that names it.
Commit(w) ==
    /\ stage[w] = "driving"
    /\ head < MaxHead
    /\ head' = head + 1
    /\ Move(w, "committed")
    /\ UNCHANGED <<record, checkpoint, selection, decision, snap, active, deaths, mishaps>>

Advance(w) ==
    /\ stage[w] = "committed"
    /\ checkpoint' = [checkpoint EXCEPT !.green = head]
    /\ Move(w, "driving")
    /\ UNCHANGED <<record, head, selection, decision, snap, active, deaths, mishaps>>

\* The run stops: an outage, Ctrl-C or an escaped exception, or its completion.
Stop(w, d, r) ==
    /\ Drives(w)
    /\ record' = Posture(d, r)
    /\ Move(w, "closing")
    /\ snap' = [snap EXCEPT ![w] = NoSnap]
    /\ UNCHANGED <<checkpoint, head, selection, decision, active, deaths, mishaps>>

StopSomehow(w) ==
    \/ Stop(w, "WAIT_EXTERNAL", "transient")
    \/ Stop(w, "FAILED", "interrupted")
    \/ stage[w] = "driving" /\ Stop(w, "COMPLETED", "none")

\* The worker's finally block.
Close(w) ==
    /\ stage[w] = "closing"
    /\ Return(w)
    /\ UNCHANGED <<record, checkpoint, head, selection, decision, deaths, mishaps>>

-----------------------------------------------------------------------------
(* Deaths: nothing is written.                                             *)

DieCli(c) ==
    /\ stage[c] # "absent"
    /\ deaths < MaxDeaths
    /\ deaths' = deaths + 1
    /\ Return(c)
    /\ UNCHANGED <<record, checkpoint, head, selection, decision, mishaps>>

\* Slip: a restarted server forgets the approved gates.
RestartWithoutRecovery(s) ==
    /\ deaths < MaxDeaths
    /\ deaths' = deaths + 1
    /\ active' = [active EXCEPT ![s] = FALSE]
    /\ stage' = [v \in Workers |->
         IF v \in Threads /\ ServerOf[v] = s THEN "absent" ELSE stage[v]]
    /\ snap' = [v \in Workers |->
         IF v \in Threads /\ ServerOf[v] = s THEN NoSnap ELSE snap[v]]
    /\ UNCHANGED <<record, checkpoint, head, selection, decision, mishaps>>

\* A server dies with all its threads and is started again:
\* recover_approved_runs reattaches an approved gate.
RestartServer(s) ==
    /\ deaths < MaxDeaths
    /\ deaths' = deaths + 1
    /\ active' = [active EXCEPT ![s] = FALSE]
    /\ \E t \in Threads :
         /\ ServerOf[t] = s
         /\ stage' = [v \in Workers |->
              IF v \notin Threads \/ (v \in Threads /\ ServerOf[v] # s) THEN stage[v]
              ELSE IF v = t /\ record.disposition = "RUNNING" /\ Resumable(record)
                THEN "called" ELSE "absent"]
    /\ snap' = [v \in Workers |->
         IF v \in Threads /\ ServerOf[v] = s THEN NoSnap ELSE snap[v]]
    /\ UNCHANGED <<record, checkpoint, head, selection, decision, mishaps>>

-----------------------------------------------------------------------------

\* What a worker does once it is in a call, except what only an outage or the
\* end of the work decides.
Continue(w) ==
    \/ Freeze(w) \/ PublishDecision(w) \/ BindIdentity(w)
    \/ Admit(w) \/ LoadState(w) \/ Examine(w) \/ Validate(w) \/ Restore(w)
    \/ Claim(w) \/ LoseClaim(w) \/ Revalidate(w)
    \/ PassGate(w) \/ HonourRejection(w) \/ OpenWorktree(w) \/ Advance(w) \/ Close(w)

Next ==
    \/ \E t \in Threads : Decide(t) \/ Reject(t)
    \/ \E w \in Workers : Request(w) \/ Continue(w) \/ Commit(w) \/ StopSomehow(w)
    \/ \E c \in Clis : DieCli(c)
    \/ \E s \in Servers : RestartServer(s)

Spec == Init /\ [][Next]_vars

Fairness == \A w \in Workers : WF_vars(Continue(w))

FairSpec == Spec /\ Fairness

-----------------------------------------------------------------------------
(* Properties.                                                             *)

TypeOK ==
    /\ record \in Records
    /\ checkpoint \in CheckpointsHere
    /\ head \in Nat
    /\ selection \in BOOLEAN
    /\ decision \in {"none", "approve", "reject"}
    /\ stage \in [Workers -> Stages]
    /\ snap \in [Workers -> Snapshots]
    /\ active \in [Servers -> BOOLEAN]
    /\ deaths \in Nat
    /\ mishaps \subseteq Mishaps

\* Any number of processes: the compare-and-set keeps a run at one driver,
\* except through the two holes the claim does not close: a failure recorded
\* under a driver without comparison, and an approved gate claimed while its
\* worker still polls it.
OneDriverUnlessMishap ==
    \/ mishaps \cap {"failed_under_driver", "gate_stolen"} # {}
    \/ \A v, w \in Workers : Drives(v) /\ Drives(w) => v = w

\* One web server and no command line: _active_run_ids and the claim together
\* keep the run at one driver, and nobody touches it under that driver.
OneServerSafe == /\ mishaps = {}
                 /\ \A v, w \in Workers : Drives(v) /\ Drives(w) => v = w

\* run_resume: a crash between a commit and its checkpoint is repaired by
\* adoption, never answered by an integrity failure.
CrashIsAdopted == record.reason # "git_identity"

\* runbook, "Resume: failure != lost work": an accepted commit is never lost.
CommitsKept == [][head' >= head]_vars

\* A stored decision is final.
DecisionFinal == [][decision # "none" => decision' = decision]_vars

\* server.py, recover_approved_runs: an approved gate with one worker at it, or
\* called to it, is left, a death of the web process notwithstanding.
ApprovedGateIsLeft ==
    ( /\ decision = "approve" /\ record.disposition = "RUNNING" /\ checkpoint.phase = Gate
      /\ \E w \in Workers : /\ stage[w] = "called" \/ Drives(w)
                            /\ \A v \in Workers \ {w} : stage[v] = "absent" )
      ~> (record.disposition # "RUNNING" \/ checkpoint.phase # Gate)

\* models.py, run_manager.py:158: the approved gate is only taken over when its
\* original worker is no longer present.
GateKeepsItsWorker == "gate_stolen" \notin mishaps

\* orchestrator.py, resume: a run that is not resumable is left untouched.
DrivenRunUntouched == mishaps \cap {"failed_under_driver", "rewound_under_driver"} = {}

\* spec-autonomie-v4.md:419: after a kill -9 a resume can take the run up again.
KilledRunResumable ==
    (\A w \in Workers : stage[w] = "absent") /\ record.disposition = "RUNNING"
       => Resumable(record)

=============================================================================
