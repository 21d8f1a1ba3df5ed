# A TLA+ model of MetaHarness

MetaHarness turns a written SPEC into a controlled Git run: a planner writes a
plan, workers implement its steps in an isolated worktree, deterministic checks
freeze evidence, auditors repair the candidate, a continuation decides what
comes next, and the accepted commit is published. A run lasts hours, is driven
by processes that are interrupted, killed and restarted, and is resumed from
what it left on disk. This project models the parts that decide whether such a
run stays correct, checks them with TLC on small instances, and proves the
properties that matter most with TLAPS for every value of the constants.

Paths below are relative to `src/MetaHarness/src/metaharness/` unless they say
otherwise.

## 1. Inventory

Each component: its state, its operations, what is hard, what makes it correct.

| Component | State | Operations | Hard part | Correct when |
|---|---|---|---|---|
| Run state machine (`models.py`) | none: pure | `transition`, `project_run_outcome` | which event is legal in which posture; who may leave a terminal one | the stored status is only ever its projection |
| State store (`state.py`, `checkpoint_identity.py`) | `state.json`, `state.lock` | `update_metadata`, `set_run_state`, `transition_run`, `record_failure`, `identity` | several processes, a death at any step, a checkpoint written outside the lock | no field is lost; a claim is a compare-and-set; the whole is one atomic record |
| Checkpoint (`resume.py`) | `resume_checkpoint.json` | `write_checkpoint`, `rephase_checkpoint`, `resume_info` | it names the next operation while commits go ahead of it | a crash between commit and checkpoint is repaired, never refused |
| Approval (`approval.py`, `web/api.py`, `cli.py`) | `plan_approval.json`, `execution_selection.json` | `approve_run`, `write_plan_approval`, `wait_for_plan_approval` | two operators, a polling worker, a web process that dies between two files | one final decision, bound to the artifacts it was taken on |
| Run manager (`web/run_manager.py`) | `_active_run_ids` | `start_run`, `resume_run`, `pause_run`, `resume_approved_run`, `recover_approved_runs` | threads, other processes, capacity, restarts | one driver per run |
| Resume (`orchestrator.py`, `orchestration/run_resume.py`, `orchestration/run_bootstrap.py`) | none of its own | validate, adopt, rewind, claim, re-enter | what happens before the claim | never loses an accepted commit, never touches a driven run |
| Pipeline coordinator (`orchestration/pipeline_v2.py`, `run_composition.py`, `run_failure.py`) | the checkpoint and the iteration files | `_run`, `_gate`, `_continue`, `_partial` | nested loops, budgets, stops between any two durable writes | it ends; what it publishes was judged; what it keeps was accepted |
| Step execution (`orchestration/step_execution.py`, `worker_attempt.py`, `attempt_transaction.py`, `attempt_control.py`, parts of `gitops.py`, `scope.py`, `commit_gate.py`) | `step.json`, step commits, a durable counter per step | attempt ladder, judgement, rollback, commit, accept, settle | an untrusted worker may leave any tree and touch any reference; a failed attempt must leave the last green tree | only admitted work is committed, at most once, in order; calls are bounded; a configured fallback is reached |
| Gates and evidence (`orchestration/gates.py`, `evidence.py`, `validation.py`, `baseline.py`) | `preflights.json`, the baseline cache all runs share, `evidence.json`, `accepted.json` | preflights, captures, `run_gate`, `accept`, the per-step gate | checks that die, change the tree or leave an old report; evidence of a tree that is no longer the head | only a judged tree is accepted, no failure is new, every required check answered |
| Audit (`orchestration/audit.py`) | `audit/NNN/report.json` | `run` | edits committed before the report | at most `audit_repairs` reports per iteration |
| Continuation (`planning/planner_continue.py`) | `raw.txt` per attempt | `decide` | a paid answer and a crash | one decision per milestone |
| Publication (`orchestration/publication.py`, `gitops.py`) | remote branch, base branch, PR number | push candidate, fast-forward, clean up, open PR | remote calls that succeed without an answer | exactly the accepted commit is published, once |
| Recovery (`recovery_policy.py`, `orchestration/recovery.py`) | counters in `state.json` | ladders, `consume` | budgets across resumes | every ladder ends |
| Planner protocol (`planning/planner.py`, `artifacts.py`, `plan_repository_validation.py`) | the exchange at the run's root, `planner-attempts/NN`, `planner.session.json` | request, judge, correct, archive file by file | paid answers across stops between any two files | answers bounded, a usable answer is never paid for twice |
| Step contracts (`planning/normalization.py`, `protocol.py`, `plan_repository_validation.py`) | the effective contracts of the plan | project the tree, normalize, normalize again at entry and at each call | the tree a contract was normalized on is a projection; steps fail or are skipped | a worker's contract agrees with the tree it is called on |
| Preparation (`orchestration/run_bootstrap.py`, `validation.py`, `approval.py`, `workspace.py`) | `check_authority.json`, `execution_selection.json`, `approval.json`, the bound identity, the run's worktree, its issue | freeze, bind, offer, select, set up, open the issue | every operation is repeated by a resume; the TOML is edited between two drivers | the first step runs what was planned, offered and bound |
| Transport (`llm/chat.py`) | none durable | request, retry | retry horizon against timeouts | a retry never outlives its horizon |
| Agents (`agent/`, `claude/`, `procutil.py`) | subprocesses | run, time out, kill | process groups, partial output | every call ends |
| Remote gateway (`remote/`), Android client, Nimbalyst panel, web pages | client-side views | poll, command | late answers, superseded requests | the view never shows a state older than the last one it showed |
| bridge-lab (`src/Bridges/bridge-lab/`) | laboratory page | send, poll | bridges outside the repository | - |
| Configuration, profiles, options | files read once | load, validate | none | constants of the models |
| Trace, progress, usage, diagnostics, redaction, prompts | append-only records | write | none that control depends on | - |

How they interact. The orchestrator process (command line or a web worker
thread) *drives* a run: it calls the coordinator, which calls steps, gates,
audits and the continuation through the callbacks of `PipelineV2Operations`.
Every one of them writes `state.json` through the store and the checkpoint
beside it. The web process reads and writes the same store from request
threads (approval, pause, resume), and starts drivers of its own. Nothing else
is shared: processes meet only in the run directory and in the Git repository.

## 2. The modules

```
RunMachine   pure state machine
   |                          RunOwnership   who drives the run
RunStore  --implements-->  RunRecord              |
   (the store call by call)   (one atomic record, the granularity RunOwnership assumes)

PlannerSession                Pipeline     what one driver does from the first step on,
   |  extended by                |         and what a resume finds
Preparation                      |-- AcceptStep, SettleStep, FatalStep opened by  StepAttempts
   from the context to           |-- RunChecks, AcceptGate opened by              GateChecks
   the first step                '-- PushCandidate, Publish opened by             Publication

StepContracts   the contract of a step, from the planner's answer to the worker's call
```

`Pipeline` is the backbone: its actions are coarse where another module opens
them operation by operation. `Preparation` ends where `Pipeline` begins, at the
checkpoint IMPLEMENT_STEP. `StepContracts` is the data the planner's answer and
the calls of `StepAttempts` carry.

**`RunMachine`** is `models.py` without storage: `Successors` is
`_RUN_PHASE_SUCCESSORS`, `Allowed`/`After` are the two halves of `transition`
(raise nothing / return), `StatusOf` is `project_run_outcome`, and
`FailureClasses` keeps of the failure table only the codes on which control
flow differs.

**`RunStore`** is `state.py` at the grain of file operations. A client is a
process or thread inside one call: `Begin`, `Acquire` (`flock`), `Load`,
`ReadStamp` (the checkpoint), then one of `UpdateMetadata`, `SetRunState`,
`TransitionRun`, `RecordFailure` or a refusal, which replace the file and
release the lock. `ObserveFile`/`ObserveStamp` are `identity()`, without the
lock. `WriteCheckpoint` happens outside any call, `DamageCheckpoint` gives the
unreadable and foreign files the code distinguishes, `Die` strikes anywhere in
a call. `updated_at` is a counter: the code stamps a microsecond clock, whose
values are taken to be distinct.

**`RunRecord`** is the promise: every call takes effect at one instant.
`RunStore!ImplementsRecord` instantiates it with the recorded machine.

**`RunOwnership`** puts processes around that record: command lines, web
servers, their threads. `Decide`, `Reject`, `Freeze`, `PublishDecision`,
`BindIdentity` are `approve_run`; `Request`, `Admit` the web entry and
`_run_until_claimed`; `LoadState`, `Examine`, `Validate`, `Restore`, `Claim`,
`LoseClaim`, `Revalidate` are `Orchestrator.resume` in the order in which it
touches disk; `PassGate`, `OpenWorktree`, `Commit`, `Advance`, `StopSomehow`,
`Close` are a driver; `DieCli` and `RestartServer` lose everything but the
disk. The worktree is the number of accepted commits. The history variable
`mishaps` records what was done to a run that another worker drives.

**`Pipeline`** is the coordinator with the operations bound to it, for one
driver at a time. `pc` names the operation the driver is inside; the durable
variables are the files a resume reads: the checkpoint, the run branch (its
commits, known by subject and trailer as `_adopt_completed_commit` knows them),
evidence, acceptance, audit reports, continuation answers, iteration records.
`Boundary` is `_boundary`: the checkpoint names the next operation at the
current head. Around `Drive` (the driver) there are `Interrupt`, `Unavailable`
and `Escape` (the three ways a stop is written down, at any operation of
`StopPoints`), `Resume` (eligibility, `prepare_resume`, adoption, claim),
`Expire` (the wall clock) and `RequestPause`. `InFragileWindow` names the three
windows in which a stop makes the run unresumable (section 5).

**`Publication`** opens the two steps `PushCandidate` and `Publish` of
`Pipeline`. A branch is its tip as the run sees it; `refs` are the run branch on
the remote, the base branch (local, remote-tracking, remote) and the run
branch's tracking ref. `StageLook`, `StagePush`, `StageVerify` and `StageError`
are `CandidateRemoteStaging.stage` with its durable budget; `Identity`, `Check`
and the three ways on (`CompleteUnpublished`, `EnsureRequest` to `RecordNumber`,
`ReadBase` to `PushBase`) are `_complete_candidate_publication`, each remote
call with a lost answer as an outcome of its own; `RecordPublished`, `Ended` and
the cleanup follow. `Others` is everybody else with the same repository:
operators on the local base, colleagues on the remote base, anybody on the run
branch, a fetch. `Resume` contains the comparison of all references with the
bootstrap snapshot. The validation of the chain's objects always succeeds here
(the run branch is the run's own); the write of the cleanup's outcome is joined
to the last remote call before it; the base's tracking ref agrees with the base
when the run starts.

**`StepAttempts`** opens the steps of one iteration (`step_execution.py`,
`worker_attempt.py`, `attempt_control.py`, `attempt_transaction.py`, the part
of `gitops.py` that judges and restores, `commit_gate.py`). One action is one call
to the worker, one operation on Git or one durable write. `CallWorker` lets the
worker leave any tree of `Contents`, touch any reference and report anything;
the `Judge...` actions are `run_attempt` in its order, `TakeGitBack` is
`recover_worker_git_state`, `Abort` and `AbortRefused` the transaction's
rollback and what it refuses, `Retry` and `Escalate` the two payments from the
durable counter, `GiveUp` the three ways a step is given up by class of failure,
`Abandon`/`Settle` what a run that continues does. `Verify` to `FinalizeState`
are the acceptance. `Intrude` is an edit from outside the run. The worktree is
the set of *kinds* of paths that differ from the parent (declared, outside,
denied, holding a secret, alien), which is what the code's guards tell apart.

**`GateChecks`** opens the gate and what runs before it: the preflights and
their durable verdicts, the baseline captured once per subset of checks into a
cache that other runs fill too (`ForeignCapture`), every attempt at a check
(`Answer`, `Fault`, `SideEffect`, `Restore`), the per-step gate, the comparison
with the baseline (`JudgeGate`), `Accept` and `Refuse`. What a check would say
of a tree is one of four answers; a JUnit report that an earlier attempt left in
the worktree is read when the check writes none.

**`PlannerSession`** is the planner's transaction (`planning/planner.py`, the
archive of `plan_repository_validation.py`) with the transport of one request
(`llm/chat.py`): tries until a horizon, hints and jittered backoff, the clipped
wait. The exchange is the set of its files, at the root and in each archived
attempt, and every write and move is one action. **`Preparation`** extends it
with the rest of `prepare_v2_run`: the plan, the frozen catalogue
(`FreezeChecks`), the identity, the offer, the human decision with the web
request that takes it (`ChooseProfiles`, `Approve`, `RecordDecision`,
`LoseRequest`), the execution selection, the worktree, the issue, the setup
commands with their durable counter: `SetupLeft` is the comparison of `admit`,
which refuses at `Attempts` retries, so that the setup runs `Attempts + 1` times.
`LeaveSetup` has the exits that no retry precedes: a spent time budget
(`SetupOutOfTime`), a setup that touched what Git owns or a tree that cannot be
put back (`EscapeContainment`), a blocking preflight (`FailPreflight`). `EditToml` changes the catalogue or the
profiles on disk; a driver has those it loaded when it started (`config`).

**`StepContracts`** is the only module about data. A file is a path that exists
or not. `Answer` takes any raw plan, `NormalizeStep` is
`normalize_plan_against_projected_tree` step by step, `Reenter` repeats it when
the run enters its preparation again, `CallWorker` normalizes once more against
the real tree, and the worker then does anything its scope admits; `Retry`,
`Abandon` and `Skip` make the real tree diverge from the projected one, and
`NextPlan` installs the plan of a milestone on what was accepted.

`MCRunStore`, `MCRunOwnership`, `MCPipeline`, `MCPublication`, `MCStepAttempts`,
`MCGateChecks`, `MCPreparation`, `MCStepContracts` give the constants their
values; `RunStoreProofs`, `RunOwnershipProofs`, `PipelineProofs`,
`PublicationProofs`, `StepContractsProofs`, `StepAttemptsProofs`,
`GateChecksProofs`, `PreparationProofs` hold theorems.

In the specification modules a definition whose comment starts with *Slip* is
not part of any specification: it is a plausible error in the code, placed
beside the definition it would replace, and each checked property is known to
be violated by one of them (PROJECT.json, `mutants`).

## 3. The runs

| Run | Constants | What it shows |
|---|---|---|
| `run_store` | 2 clients, 2 fields, 3 writes, a checkpoint that may be absent, current, foreign or corrupt | under every interleaving of two calls, and deaths: `AtMostOneWinner`, `ClaimOnObservedRecord`, and the refinement `ImplementsRecord` |
| `ownership_server` | one server, 2 threads, one restart, 2 commits | `CrashIsAdopted`; under fairness `ApprovedGateIsLeft` |
| `ownership_shared` | one command line, one server with two threads, one death | `OneDriverUnlessMishap` |
| `pipeline` | 1 step, 2 iterations, 1 audit, all verdicts, approval, publication, expiring clock, 1 stop anywhere | `PublishedIsJudged`, `PartialIsAccepted`, `CommitsInOrder`, `MilestonesKept`, `StopsAreResumable`, `OneAnswer`; under fairness `DriverLeaves` |
| `publication` | every mode, chains of 0 to 3 commits, 1 staging retry, 2 moves by others, 3 launches, any number of faults | `PublishedArrived`, `OthersKept`, `LastRequest`, `StoppedByTheWorld`; under fairness `DriverLeaves` |
| `steps` | 3 steps in a chain of dependencies, 3 attempts, 1 fallback, strict scope, per-step gate, 1 resume, 1 intrusion, stops anywhere | `CallsBounded`, `EscalationReached`, `CommitsAreClean`, `CallsStartClean`, `DependenciesHold`; under fairness `DriverLeaves` |
| `gate_checks` | 2 checks, one also per step, one blocking and with a JUnit report, 1 durable retry, 2 candidates, 1 stop, 1 baseline stored by another run, captures that fail | `NewFailuresBlock`, `EvidenceIsExact`, `AcceptedIsAnswered`, `ChecksBounded`; under fairness `GateEnds` |
| `preparation` | 2 answers, horizon of 14 half-second ticks, 4 resumes, with and without gate and issue, 2 versions of the TOML, 2 failures of Git, of GitHub or of the containment (a failing setup has its own counter) | `AnswersBounded`, `PaidOnce`, `TriesHaveRoom`, `PreparedAsBound`; under fairness `DriverLeaves` |
| `contracts` | 2 paths, 2 steps, every raw plan with no or all paths read, every base tree | `CallsCoherent`, `PlanIsStable`, `ProjectionExact` |
| three violation runs | see section 5 | where the code does not do what the repository says of it |

`steps`, `gate_checks` and `preparation` also check their `TypeOK`; every module's
is proved (section 4). `RunOwnership!CommitsKept`, `Pipeline!PausedAtBoundary` and
`GateChecks!OldFailuresPass` hold on the same instances; they are proved, and no
run repeats them.

Why the bounds are enough. Two clients exhaust the pairwise races of the store:
its steps between `Load` and the replacement are under one lock, so a third
client can only repeat what the second does; three writes let a claim be
prepared, overtaken and retried. In the ownership runs two threads of a
server, alone or beside a command line, and one death give every pair of (driver, resumer, approver); generations are bounded
only for *new* calls, so a call under way always finishes. In the pipeline
two iterations distinguish the first milestone from a later one (the PARTIAL
exit and stagnation need both), one audit gives the loop an inside and an
outside, one stop strikes every operation; the order of several steps is the
business of `steps`, and the safety properties were also checked once with
`Steps = 2` (10.3 million states). In the publication three commits are the
shortest chain the fast-forward does not know, two moves let a branch go and
come back, three launches let a retry be interrupted in turn; faults need no
bound, since every loop has its own. `AlreadyPublished`, a base found at
the candidate when it is first read, needs more moves than `MaxMoves`: TLC does
not reach it, and what follows it is covered by the theorem
`WhatIsPushedArrived` only. Three steps in a chain make a dependency
transitive, three attempts leave one retry beside one reserved fallback; the
four combinations of `Strict` and `PerStepGate` were checked with two
fallbacks. In the gate one check fails on the base commit where the other
passes, and both ways round; two candidates let a repair be judged after a
failure. In the preparation two answers give one correction, four resumes let
each of the four checkpoints be resumed, or one be resumed four times; two
versions of the TOML are the one a run was bound to and another, and the
horizon has room for two waits and a clipped one. Two steps over two paths give
every way in which one step's mutation changes the classification of the next.

Bounds by name: `MaxWrites` (store), `MaxGen`, `MaxHead`, `MaxDeaths`
(ownership), `MaxStops` (pipeline), `MaxChain`, `MaxMoves`, `MaxLaunches`
(publication), `MaxResumes` and `CallCap` (steps: calls are counted up to one
beyond the promise), `MaxCandidates`, `MaxStops`, `MaxForeign` and
`ExecutionCap` (gate), `MaxResumes`, `Tomls`, `MaxFaults`, `Durations` and
`Hints` (preparation). `Steps`, `MaxIterations`, `AuditRepairs`,
`StepAttempts`, `Attempts`, `Fallbacks` and `Horizon` are not bounds of the
model but parameters of the program.

`CHECK_DEADLOCK FALSE` is set for the ownership, publication, gate and
preparation runs only: a completed run with no worker left, a gate whose
candidates are used up, a prepared run, a run nobody may resume any more really
is the end. Elsewhere deadlock is checked; `Rest` says which ended runs may be
left alone.

Fairness. `RunOwnership!Fairness` is weak fairness of what a thread does once
it is inside a call, never of requests, decisions, commits, stops or deaths: a
thread of a live process is scheduled, and `wait_for_plan_approval` polls.
`FairSpec` of `Pipeline`, `Publication`, `StepAttempts`, `GateChecks` and
`Preparation` is weak fairness of the driver's own steps (`Drive`): it is one
thread, and every call it makes to an agent, a check or a remote has a timeout
(after which the call fails, which is one of the model's outcomes). No
environment action (stop, resume, expiry, pause, decision, edit) is fair: a
preparation may wait at an undecided gate for ever, and `DriverLeaves` says so.

## 4. What is proved

TLAPS proves these for every value of the constants that satisfies the named
assumptions. Those say that sets are sets and numbers are numbers, that a plan
has a step, a run an iteration, a planner and a step an attempt, that no process
is both a command line and a thread, that a backoff waits; none restricts what
the environment does. What a theorem says holds for any number of processes,
steps, iterations, checks, attempts, stops and resumes.

**Every invariant and every action property that a passing run checks is proved,
the refinement of the record included.** Some theorems state a definition no run
checks, because the proof covers what a run did: `TypeOK`, `StatusIsProjection`,
`NoLostField` of the store, `TypeOK`, `OneServerSafe`, `CommitsKept`,
`DecisionFinal` of the ownership, `TypeOK`, `AuditsBounded`, `PausedAtBoundary` of
the pipeline, `TypeOK` and `CandidateKept` of the publication, `TypeOK` and
`ScopeNeverGrows` of the contracts, `OldFailuresPass` of the gate, and the measures
of `DriversDescend`. TLC checked each of them before it was proved, and each
inductive invariant as well.

*`RunStoreProofs`.* `TypeCorrect`; then `StatusProjected`, `FieldsKept` and
`ClaimedOnce` from one inductive invariant. None of the three is inductive
alone: a client between `Load` and its replacement holds a copy of the file, so
the invariant adds `LockHeld` (who is past `Acquire` holds the lock, and there
is one such client) and `FreshLoad` (the copy of a client under the lock *is*
the file), and for the claims `WonInThePast` (every generation won so far is
older than the file's). `ClaimsWhatWasSeen` is the action property of the
compare-and-set. `Refinement` maps every replacement of the file to one step of
`RunRecord` and every other step to a stutter; `FreshLoad` is what makes the
replacement look atomic.

*`RunOwnershipProofs`.* `TypeCorrect`; `OneDriver`: any number of processes, at
most one driver unless a hole was used (the invariant adds that a driven run's
record is RUNNING, so that a claim can only win when nobody drives);
`OneServerIsSafe`: with one server and no command line the holes are
unreachable, because a thread in a resume or driving holds the server's slot;
`FinalDecision`. Under the same condition `CrashesAreAdopted` and `CommitsAreKept`:
the branch is never more than one commit ahead of the checkpoint (`AdoptInv`),
the one a death between commit and checkpoint leaves, and what a resume saw of
the two when it validated is still so when it restores and claims (`Mirrored`),
since nobody else can move them in between.

*`PipelineProofs`.* `TypeCorrect`, for any plan, budgets, verdicts and stop
points; the parts `StepInPlan` and `IterationLeft` bound the step index and the
iteration, and `NewestExists` (the well-foundedness of the naturals) gives the
commit `_partial` rewinds to. `AuditsAreBounded`: the driver checks the budget at
the judgement and writes the report two operations later; `AuditLeft` says that
what it checked still holds, because the iteration and the reports do not move
in between (`AuditEntered`). `AnswerIsFinal`: only `Decide` writes an answer,
where there is none. `WhatIsPublished`, the deepest one: the published commit is
the tree the last gate judged green. The judgement lives in the driver's memory
(`FreshNow`: evidence read at the judge is of the current head) and in the files
a resume reads (`FreshDurably`: behind an audit or a planner boundary the
evidence is of the head, *if* the branch is where the checkpoint left it).
`EnterAtGreen` is the reason that condition holds when a resumed driver
re-enters; `NoEarlyAnswer` that a new gate episode cannot meet an old COMPLETE;
`GreenHeld` that a rewind cannot bring the branch back under an outdated
checkpoint by coincidence; `CandidateJudged` carries the judgement to the
publication. The exclusions of a spent budget are exact: after `Rephase` the
checkpoint names the planner at a commit it was not written for.

The other four rest on where the branch is. `CommitsAreInOrder` needs that
everything up to the checkpoint's commit belongs to operations before the one it
names (`EarlierBelow`) and that at most that operation's own commit lies beyond
(`OneAhead`), which is also why an adoption skips nothing and repeats nothing;
`PausesAreAtBoundaries` follows from it. `MilestonesAreKept` and
`PartialEndsAccepted` share `MilestoneInv`: the ends of green milestones rise with
the iteration and none is ahead of the checkpoint of a running run, so that the
newest one is above the others and a rewind to it drops none. `StopsCanBeResumed`
is the converse of finding 1 in section 5: as long as no stop struck one of the
three windows, the run is bound to the checkpoint's plan (`PlanBound`), a gate that
may run again has accepted nothing yet (`AcceptedOnce`), and a checkpoint that
names an audit or the planner has evidence behind it (`JudgedHere`,
`PlannerJudged`); each way in which the code refuses a resume contradicts one of
these.

*`PublicationProofs`.* Any budget, chain, moves and launches. `Reached` says in
which configuration each operation is reached, `Cleaning` that the cleanup is
entered from a durable publication only; with them `TypeCorrect` and
`BranchOutlivesPublication`. `WhatIsPushedArrived` needs `Landed`: a tracking
ref that names the candidate saw it on the remote, which takes fast-forwards
only. `RequestIsLast` needs that a request is opened only while no number is
recorded. `NobodysCommitIsLost` is the compare-and-swap and the refusal of the
remote. `WhyItStops` rests on `Alone`, the description of every reference of a
run nobody disturbs: it makes each exit of the driver either a fault of this
launch or one of `SwappedBase` and `LongChain`, the two findings of section 5.

*`StepContractsProofs`.* Any number of steps, any set of paths, any plan and
base tree. Two lemmas carry it: `NormalIsCoherent` (what `normalize_step_contract`
returns agrees with the tree it was given: it writes and deletes what exists,
creates what does not, each path once) and `CoherentIsStable` (a contract that
agrees with a tree is left alone by a second normalization on it).
`WorkersAgreeWithTheirTree` follows from the first, because the call normalizes
once more on the real tree; `SecondNormalizationIsSilent` needs the invariant
that every step's recorded start tree is chained to the one before it by the
authorized effects of its contract, so that entering the preparation again
normalizes on the same trees. `ProjectionIsTheTree` adds where the loop stands
and that no step diverged so far; `NothingIsGranted` compares each effective
contract with the raw one.

*`StepAttemptsProofs`.* Any number of steps with any dependencies, any budget of
attempts, any number of fallbacks, both scope modes, any number of resumes, any worker and any intruder. The
invariant is a conjunction of named parts, and each theorem rests on one or
two. `Paid`: every call but the first of each driver is paid for by the durable
counter, hence `CallsAreBounded`. `Reserved`: without a resume the counter still
holds an attempt for each fallback not yet tried, hence
`EveryFallbackIsTried`. `Clean`: nothing the run left is in the worktree where a
call may follow without a rollback, hence `CallsStartOnTheParent`. `Judged`: what
was judged is admitted, up to a secret or an alien edit that the commit gate then
refuses; `Fits`: the checkpoint names the running step, and the branch is where
the checkpoint left it or one commit of this step further, which is why a
resume can neither commit twice nor skip a commit. Together they give
`OnlyAdmittedWorkIsCommitted`. `Pasts`: every step the run has gone past is
settled or committed, hence `DependenciesAreCommitted`. The invariants as the
runs check them are not inductive: that a call starts clean depends on which
failure led to the retry, several actions earlier. The lemmas named "...Quiet"
gather, for one part, the actions that leave it alone, so that each preservation
proof speaks only of those that may disturb it.

*`GateChecksProofs`.* Any catalogue, any answers, any number of runs that share the
baseline. `EvidenceOfTheTree`: a tree that a check changed is undone before anything
is judged (`Clean`). `GateBlocksNewFailures` and `AcceptedWasAnswered` come from one
invariant: past the bootstrap no blocking check is skipped (`Excusing`), a result in
the driver's memory is the candidate's answer or none, with the report of that
answer (`Answered`), and a judgement is of the candidate, with every worse check
among its failures unless the comparison is blind to it (`Judged`).
`GateForgivesOldFailures`, the converse, needs that a record never says more of the
base commit than the base commit does, whoever captured it and whatever was
skipped (`Truthful`). `ChecksAreBounded` counts: each tree submitted and each stop
pays for two executions of a check, the durable counter for the others; `Credit` is
what was paid and is not yet used, and the count with the credit is inductive.

*`PreparationProofs`.* Any budget of answers, horizon, hints, edits, stops and
resumes. `AnswersAreBounded` (`Bought`): an answer paid for is at the root or in the
directory of its own attempt, and one is asked for only when none is at the root
and a directory is left; the file-by-file archive is what makes this need a proof.
`AnswersArePaidOnce` is the action property beside it. `TriesAreTimed` (`Timed`):
every try after the first cost a useful wait. `RunsArePreparedAsBound` has one
invariant per authority: the plan was parsed against the frozen catalogue or the one
about to be frozen (`Planned`), a decision is taken once, behind the gate, on what
is frozen, and what follows the gate is configured so (`Decided`), the issue on
record is the last one opened and the worktree handed over the one set up
(`Furnished`).

*`DriversDescend`*, in `PipelineProofs`, `GateChecksProofs`, `StepAttemptsProofs`,
`PreparationProofs` and `PublicationProofs`: the part of `DriverLeaves` and `GateEnds`
that is a safety property. Each step of a driver, whatever its environment answers,
and each stop lowers a few natural numbers in their lexicographic order (the
iterations, steps, audits, trees, checks, attempts or waits that are left, then the
place of the operation), and nothing but a resume raises them: a driver takes
finitely many steps between two resumes. It needs what the other theorems
established: that no audit is begun beyond its budget (`AuditLeft`), that a try costs
time (`Timed`), that an attempt is archived for each answer (`Bought`). In
`GateChecks` the trees submitted are bounded by `MaxCandidates`, which stands for
the budgets of the step ladder and of the audits; in `Publication` what others do to
the references does not enter the measure; elsewhere the budgets are the
program's own.

Only model-checked: the liveness properties themselves (`ApprovedGateIsLeft`,
`DriverLeaves`, `GateEnds`), because neither ENABLED nor fairness is within the
prover's reach: what is missing from `DriversDescend` is that a driver that has not
left has a step to take. The three violation runs are TLC's alone. Induction over
data and RECURSIVE operators are avoided altogether: the modules use functions,
sequences and quantifiers.

## 5. Where the code and the repository's texts part

Three runs have a counterexample; PROJECT.json quotes the text of each finding.

1. `resume_never_refused`: three windows in which a stop leaves artifacts that
   the resume gate refuses. Set `StopPoints` in `MCPipelineRefused.cfg` to one of
   `{"outcome"}` (an accepted gate, whose evidence the repeated gate archives),
   `{"guard"}` (the next plan's identity is published, the checkpoint still
   names the old iteration), `{"partial", "partial_end"}` (the PARTIAL exit) to
   see each. `StopsAreResumable` says that there is no fourth.
2. `publication_retry`: a run whose own first attempt moved the local base is
   refused by its own resume; and, with `MaxChain = 3`, a fast-forward of three
   or more commits is never published, because the accepted chain is not handed
   to the function that could follow it. `StoppedByTheWorld` says that there is
   no third cause.
3. `preparation_waits`: without any failure of the world, a run waits for an
   external condition that does not exist. The run's own trace is a stop while
   a rejected answer is archived file by file. With `Attempts = 1` and
   `Answers = {"invalid"}` it is the loop that finds no attempt left and raises
   an AssertionError; with `Attempts = 1` and `Answers = {"ready"}` a stop between
   the execution selection and the identity that counts it: of the driver with
   `Gates = {FALSE}`, during the web request that decides (`web/api.py:931`)
   with `Gates = {TRUE}`.

Definitions the code refutes, kept in the modules without a run of their own
(each becomes a counterexample when it is added to the cfg as an invariant or a
property):

- `RunOwnership!GateKeepsItsWorker` (`web/run_manager.py:158`): approving over
  the web a run whose command-line worker still polls the gate gives it a second driver.
- `RunOwnership!DrivenRunUntouched` (`orchestration/run_resume.py:175`): a
  resume that will lose its claim has already rewound the worktree, or recorded
  a failure, under the driver that won.
- `RunOwnership!KilledRunResumable` (`resume.py:201`): after `kill -9` the
  record stays RUNNING, and nothing can resume it.
- `Pipeline!HardGateFailsClosed` (`orchestration/pipeline_v2.py:529`): a hard gate
  failure is only looked at inside the audit loop; with no audit left
  (`AuditRepairs = 0`) the next iteration is built on it.
- `StepAttempts!CommitsAreRecorded` (`orchestration/step_execution.py:911`): a
  commit that a resume adopts is never finalized, so the verifications it
  deferred are not seen at `publication.py:454`.
- `GateChecks!OnlyPreflightExcuses`: an old JUnit report, or a baseline that
  could not be taken, lets a new failure pass as PASS_WITH_BASELINE_WARNING,
  against `spec-autonomie-v4.md:225-236` and `pipeline-v2.md:79`.
- `Preparation!SetupWithinCeiling` (`orchestration/recovery.py:636`): the setup runs
  `Attempts + 1` times, where `recovery_policy.py:197` and `recovery.py:618` count the
  first run in the budget.
- `StepContracts!CalledWithWork`: `normalization.py:17-19` expects a contract with
  work in it; when earlier steps diverged a worker is called with an empty one.

Met while modelling, without a definition of their own.

*Preparation.* The checkpoint goes back to PLAN_APPROVAL when WORKTREE_SETUP is
resumed (`run_bootstrap.py:310`), and a stop there makes the worktree "already
exist" for ever. A TOML edited between the freeze and a resume makes
`write_check_authority` or `ensure_execution_selection` refuse it, and the run
waits for ever, although the comments at `run_bootstrap.py:115-119` and
`validation.py:70-76` say that the TOML can only remove a check. A Retry-After
date less than a second away exhausts the horizon; a clipped wait never buys a
try; a resume submits a request again that the transport would not replay. Two
stops between the raw answer and the session give a mismatch that no resume
leaves. A BLOCKED answer is read again by every resume. The time budget spent before a
setup takes the PARTIAL exit, whose steps `Pipeline` has one by one and this
module takes as one: a stop after its checkpoint was rephased to PLANNER leaves a
plan beside it, and the resume reads that as a continuation. A stop during the setup
commands that leaves files behind is fatal. A stop between the creation of an
issue and its record opens a second issue.

*Steps.* Every resume that enters a step again grants it one more call
(`step_execution.py:245-251` counts only what it admitted), so that with two
fallbacks, three attempts and one stop the second fallback is never tried.
`enforce_scope` inside the abort ignores the soft scope mode. A denied path is fatal, where the texts
count it among the failures a run continues after. A linked
worktree made by a worker is not part of `audit_git_mutation` and ends in
RESUME_REQUIRES_OPERATOR, or is silently adopted. The AgentScopeError branches
cannot be reached, and `CandidateAttemptTransaction.begin` has no caller.

*Gates.* A failed capture stays in the cache for all later runs on that base
commit. "At most once" in `ensure` is twice when two runs miss together. A
blocking preflight that failed is durable, so the run waits for ever; the
preflights of checks that only run per step are never evaluated, and the
per-step gate retries no infrastructure failure.

*Contracts.* A DELETE dropped when the plan was normalized stays dropped when
the earlier step that was to delete the path fails. `validate_step_contract_bounds` runs again
after the normalization added reads (`artifacts.py:101`) and raises outside the
correction loop.

*Elsewhere.* A Ctrl-C outside the guarded cleanup call overwrites COMPLETED with
FAILED; `delete_run_branch` compares and then deletes without a lease; an
unexpected remote tip at the staging ends in COMMIT_GATE_FAILED, where
`docs/runbook.md` says RESUME_INTEGRITY_FAILURE.

Windows known and covered by no property of a run: a budget that expires between the
COMPLETE decision and its publication turns the run PARTIAL when it is resumed
(`pipeline_v2.py:338`); `resume_approved_run` returns False at `max_active_runs`
(`run_manager.py:166`); `cycle_update` merges outside the lock
(`runtime.py:197`); rejected continuation answers are durable
(`pipeline_v2.py:391`); an audit's edits are committed before its report
(`audit.py:256`); a pause requested at the last boundary; the snapshots of Git
ownership are of the whole repository, so that two runs at once see each other's
branches (`attempt_transaction.py:108`). `DecisionFinal`, `AuditsBounded` and
`CandidateKept` cover the operators, the audits and the candidate's branch by
proof alone.

## 6. Not modelled, and why

Parsing, prompts, rendering, configuration files, tracing and usage accounting
decide nothing the properties are about. Agents, checks, remotes and the planner's
model are their outcomes: any tree, any report, any answer, a loss or a timeout;
a worker's subprocess that survives `kill -9` of its driver is not. The
patterns of the scope policy are abstracted to kinds of paths, the content of a
file to its existence (in the contracts) or to the kinds the scan tells apart
(in the steps). A check is deterministic on a tree unless its infrastructure
fails it: flaky tests are not modelled. What two drivers of one run do to each
other's worktree is not modelled, only how they come to be two. `git worktree
add` killed midway is not modelled. The remote gateway, the Android client, the
Nimbalyst panel and the web pages read projections and send commands; their
commands reach the run through the handlers that are modelled, and what they
show is not. `max_active_runs` and HTTP are not modelled. `--revalidate-integrity`
and the reviewer of the older pipeline are described in the docs and absent
from the code.

## 7. Plan

1. *Done*: `RunMachine`, `RunStore`, `RunRecord`, `RunOwnership`, `Pipeline`,
   `Publication`, `StepAttempts`, `GateChecks`, `PlannerSession`, `Preparation`,
   `StepContracts` with their runs; a module of proofs for every component, with
   every safety property of the runs.
2. Proofs next: an abstract specification of one step and of one gate as `Pipeline`
   sees them, and `StepAttempts` and `GateChecks` shown to implement it; that a
   driver that has not left has a step to take, as a statement about guards.
3. Models next: the correction dialogue of the continuation (its answers are
   one step of `Pipeline`), the audit's own edits, the clients (polling against
   commands), `max_active_runs`.
