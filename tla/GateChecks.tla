----------------------------- MODULE GateChecks -----------------------------
(***************************************************************************)
(* The deterministic checks of one run: the preflights, the baseline of    *)
(* the base commit in the cache every run shares, the fast gate of a step, *)
(* and the authoritative gate whose evidence is accepted or refused.       *)
(*                                                                         *)
(* What a check would say of a tree is its answer: "pass", "old" when only *)
(* tests fail that fail on the base commit, "new" when another one fails   *)
(* too, "opaque" when it fails and names no test.  One attempt at a check  *)
(* gives its answer, or none ("fault": a deadline, a signal, no process, a *)
(* recognised outage), or changes the candidate ("side").                  *)
(*                                                                         *)
(* A stored baseline says "PASS", or "FAIL_OLD" with the names of the      *)
(* failing tests, or has "NO_SIGNAL": it fails without names, it could not *)
(* run, or it was skipped; compare_check treats the three alike.           *)
(*                                                                         *)
(* The other runs on the same base commit are seen through the cache only. *)
(***************************************************************************)
EXTENDS Naturals, FiniteSets

CONSTANTS
    Checks,         \* checks of the catalogue
    Required,       \* those the plan requires
    PerStep,        \* gate.per_step
    Preflighted,    \* required checks with a preflight_argv
    Blocking,       \* those that declare blocking = true
    BaseAnswers,    \* what the checks may answer on the base commit
    Junit,          \* checks that write a JUnit report, an ignored file
    Attempts,       \* budget.step_attempts
    CaptureFaults,  \* whether a capture of the base commit may fail
    Watched,        \* the check whose executions are counted
    MaxCandidates,  \* bound: trees the run submits
    MaxStops,       \* bound: stops of the run
    MaxForeign      \* bound: baselines other runs store

CheckIds == 1 .. Checks
Answers  == {"pass", "old", "new", "opaque"}

ASSUME CatalogueAssumption ==
    /\ Checks \in Nat
    /\ Required \in (SUBSET CheckIds) \ {{}} /\ PerStep \in SUBSET CheckIds
    /\ Preflighted \in SUBSET Required /\ Blocking \in SUBSET Preflighted
    /\ Junit \in SUBSET CheckIds /\ CaptureFaults \in BOOLEAN /\ Watched \in CheckIds
    /\ BaseAnswers \subseteq [CheckIds -> Answers \ {"new"}]
ASSUME BoundsAssumption ==
    /\ Attempts \in Nat /\ MaxCandidates \in Nat \ {0}
    /\ MaxStops \in Nat /\ MaxForeign \in Nat

VARIABLES
    base, candidate,       \* what each check answers on the base commit, on the run's tree
    report,                \* the JUnit report an earlier attempt left in the worktree
    cache,                 \* runs_root/.baseline, by check subset
    verdict,               \* preflights.json
    counter,               \* recovery_counters["check-infra:cycle:stage:check"]
    evidence,              \* evidence.json and baseline.json of the gate
    accepted,              \* accepted.json: the tree accepted, 0 if none
    place,                 \* the checkpoint
    version, dirty,        \* the worktree: which tree, and whether a check changed it
    pc, baseline, results, sided,   \* the driver's memory
    stops, foreign, executions      \* history

world   == <<base, candidate>>
durable == <<cache, verdict, counter, evidence, accepted, place>>
tree    == <<report, version, dirty>>
memory  == <<baseline, results, sided>>
history == <<stops, foreign, executions>>
vars    == <<world, durable, tree, pc, memory, history>>

Unanswered == {"fault", "side"}
Statuses   == {"PASS", "FAIL_OLD", "NO_SIGNAL"}

\* The subsets this run asks a baseline for.
Keys == {Required \cup PerStep, PerStep, Required}

Absent     == [c \in CheckIds |-> "none"]
NoEvidence == [of |-> 0, mutated |-> "no", results |-> Absent, against |-> Absent, failures |-> {}]

\* Only a test that fails on the base commit can be an old failure.
Possible(c) == Answers \ IF base[c] = "old" THEN {} ELSE {"old"}

Init ==
    /\ base \in BaseAnswers /\ candidate = base
    /\ report = [c \in CheckIds |-> "none"]
    /\ cache = [k \in Keys |-> Absent]
    /\ verdict = Absent
    /\ counter = [c \in CheckIds |-> 0]
    /\ evidence = NoEvidence /\ accepted = 0
    /\ place = "bootstrap" /\ version = 0 /\ dirty = "no"
    /\ pc = "preflight" /\ baseline = Absent /\ results = Absent /\ sided = "no"
    /\ stops = 0 /\ foreign = 0 /\ executions = 0

At(operation)   == pc = operation
Goto(operation) == pc' = operation
Forget          == baseline' = Absent /\ results' = Absent /\ sided' = "no"

Least(S) == CHOOSE c \in S : \A d \in S : c <= d

-----------------------------------------------------------------------------
(* Preflights: evaluated once, the verdict is durable.                     *)

Unevaluated == {c \in Preflighted : verdict[c] = "none"}

Skipped == {c \in Preflighted : verdict[c] = "FAIL"}

\* A preflight that changes the tree is undone and retried once; then, as
\* when it moves Git, it ends the run.  One that fails or times out is kept.
EvaluatePreflight ==
    /\ At("preflight") /\ Unevaluated # {} /\ Skipped \cap Blocking = {}
    /\ LET c == Least(Unevaluated) IN
       \/ /\ \E v \in {"PASS", "FAIL"} : verdict' = [verdict EXCEPT ![c] = v]
          /\ UNCHANGED pc
       \/ Goto("failed") /\ UNCHANGED verdict
    /\ UNCHANGED <<world, cache, counter, evidence, accepted, place, tree, memory, history>>

\* A blocking check whose preflight said no is an external wait.
WaitForPreflight ==
    /\ At("preflight") /\ Skipped \cap Blocking # {}
    /\ Goto("waiting")
    /\ UNCHANGED <<world, durable, tree, memory, history>>

PreflightsDone ==
    /\ At("preflight") /\ Unevaluated = {} /\ Skipped \cap Blocking = {}
    /\ Goto("baseline")
    /\ UNCHANGED <<world, durable, tree, memory, history>>

-----------------------------------------------------------------------------
(* BaselineCache.ensure: the record of one subset, captured if none covers it. *)

Key == CASE place = "bootstrap" -> Required \cup PerStep
         [] place = "work"      -> PerStep
         [] place = "gate"      -> Required

Selected == Key \ Skipped

\* The exact record, else any superset already captured.
Covering == IF cache[Key] # Absent THEN {Key}
            ELSE {k \in Keys : Key \subseteq k /\ cache[k] # Absent}

Slice(entry) == [c \in CheckIds |-> IF c \in Key THEN entry[c] ELSE "none"]

\* The bootstrap only establishes the record; a gate judges with it.
Established(entry) ==
    IF place = "bootstrap"
    THEN Goto("work") /\ place' = "work" /\ UNCHANGED baseline
    ELSE Goto("checks") /\ baseline' = Slice(entry) /\ UNCHANGED place

LoadBaseline ==
    /\ At("baseline")
    /\ \E k \in Covering : Established(cache[k])
    /\ UNCHANGED <<world, cache, verdict, counter, evidence, accepted, tree, results,
                   sided, history>>

MissBaseline ==
    /\ At("baseline") /\ Covering = {}
    /\ Goto("capture")
    /\ UNCHANGED <<world, durable, tree, memory, history>>

TrueStatus(answer) == [pass |-> "PASS", old |-> "FAIL_OLD", opaque |-> "NO_SIGNAL"][answer]

\* baseline_of_result on the base commit, where no fault is retried.
Captured(c, skips) ==
    IF c \in skips THEN {"NO_SIGNAL"}
    ELSE {TrueStatus(base[c])} \cup IF CaptureFaults THEN {"NO_SIGNAL"} ELSE {}

\* One record for the subset; a worktree, a setup or a runner that fails gives
\* no signal for any check, and is stored like an answer.
Records(k, skips) ==
    {e \in [CheckIds -> Statuses \cup {"none"}] :
        \A c \in CheckIds : IF c \in k THEN e[c] \in Captured(c, skips) ELSE e[c] = "none"}

Capture ==
    /\ At("capture")
    /\ \E e \in Records(Key, Skipped) : cache' = [cache EXCEPT ![Key] = e] /\ Established(e)
    /\ UNCHANGED <<world, verdict, counter, evidence, accepted, tree, results, sided,
                   history>>

\* Another run captures a subset of the same commit, with what its own
\* preflights skip; this run sees it at its next look at the cache.
ForeignCapture ==
    /\ foreign < MaxForeign /\ pc \in {"baseline", "capture"}
    /\ \E k \in Keys \ {{}} : \E skips \in SUBSET (k \cap Preflighted) :
          \E e \in Records(k, skips) : cache' = [cache EXCEPT ![k] = e]
    /\ foreign' = foreign + 1
    /\ UNCHANGED <<world, verdict, counter, evidence, accepted, place, tree, pc, memory,
                   stops, executions>>

-----------------------------------------------------------------------------
(* run_checks: one check after the other, each attempt on the exact tree.  *)

Pending == {c \in Selected : results[c] = "none"}

ExecutionCap == 2 * (MaxStops + MaxCandidates + 1) + Attempts + 1  \* bound: one beyond the promise

Executed(c) ==
    executions' = IF c = Watched /\ place = "gate" /\ executions < ExecutionCap
                  THEN executions + 1 ELSE executions

Finish(c, result) == results' = [results EXCEPT ![c] = result] /\ sided' = "no"

\* The runner rewrites its report when it names tests or has none to name.
Report(c) ==
    IF c \notin Junit \/ candidate[c] = "opaque" THEN report
    ELSE [report EXCEPT ![c] = IF candidate[c] = "pass" THEN "none" ELSE candidate[c]]

Answer ==
    /\ At("checks") /\ Pending # {}
    /\ LET c == Least(Pending) IN
       Executed(c) /\ report' = Report(c) /\ Finish(c, candidate[c])
    /\ UNCHANGED <<world, durable, version, dirty, pc, baseline, stops, foreign>>

\* Slip: a budget compared with <= admits one retry more.
FaultOneMore ==
    /\ At("checks") /\ Pending # {}
    /\ LET c == Least(Pending) IN
       /\ Executed(c)
       /\ IF place = "gate" /\ counter[c] <= Attempts
          THEN counter' = [counter EXCEPT ![c] = @ + 1] /\ UNCHANGED <<results, sided>>
          ELSE Finish(c, "fault") /\ UNCHANGED counter
    /\ UNCHANGED <<world, cache, verdict, evidence, accepted, place, tree, pc, baseline,
                   stops, foreign>>

\* Slip: the durable counter is read and not written.
FaultFree ==
    /\ At("checks") /\ Pending # {}
    /\ LET c == Least(Pending) IN
       /\ Executed(c)
       /\ IF place = "gate" /\ counter[c] < Attempts
          THEN UNCHANGED <<counter, results, sided>>
          ELSE Finish(c, "fault") /\ UNCHANGED counter
    /\ UNCHANGED <<world, cache, verdict, evidence, accepted, place, tree, pc, baseline,
                   stops, foreign>>

\* Only the authoritative gate retries, paying its durable counter first.
Fault ==
    /\ At("checks") /\ Pending # {}
    /\ LET c == Least(Pending) IN
       /\ Executed(c)
       /\ IF place = "gate" /\ counter[c] < Attempts
          THEN counter' = [counter EXCEPT ![c] = @ + 1] /\ UNCHANGED <<results, sided>>
          ELSE Finish(c, "fault") /\ UNCHANGED counter
    /\ UNCHANGED <<world, cache, verdict, evidence, accepted, place, tree, pc, baseline,
                   stops, foreign>>

SideEffect ==
    /\ At("checks") /\ Pending # {}
    /\ Executed(Least(Pending))
    /\ dirty' = "yes" /\ Goto("restore")
    /\ UNCHANGED <<world, durable, report, version, memory, stops, foreign>>

\* restore_exact, then the same check once more.
Restore ==
    /\ At("restore")
    /\ \/ /\ dirty' = "no" /\ Goto("checks")
          /\ IF sided = "no" THEN sided' = "yes" /\ UNCHANGED results
             ELSE Finish(Least(Pending), "side")
       \/ Goto("failed") /\ UNCHANGED <<dirty, results, sided>>
    /\ UNCHANGED <<world, durable, report, version, baseline, history>>

-----------------------------------------------------------------------------
(* compare_check.                                                          *)

\* The tests a failed check names: those of its report when there is one,
\* else those of its output.
Named(c) == IF report[c] # "none" THEN report[c] ELSE results[c]

StatusNow(c) ==
    CASE results[c] = "pass" -> "PASS"
      [] results[c] # "pass" /\ Named(c) = "old" -> "FAIL_OLD"
      [] OTHER -> "FAIL_NEW"

\* Slip: a red base clears whatever fails now.
RegressesOnGreen(c) == StatusNow(c) # "PASS" /\ baseline[c] \in {"none", "PASS"}

Regresses(c) ==
    /\ StatusNow(c) # "PASS"
    /\ \/ baseline[c] \in {"none", "PASS"}
       \/ baseline[c] = "FAIL_OLD" /\ StatusNow(c) # "FAIL_OLD"

-----------------------------------------------------------------------------
(* The step, its fast gate, and the authoritative gate.                    *)

Submit == version' = version + 1 /\ candidate' \in {a \in [CheckIds -> Answers] : \A c \in CheckIds : a[c] \in Possible(c)}

\* The step's worker, or its retry with the gate's feedback.
Edit ==
    /\ At("work") /\ version < MaxCandidates
    /\ Submit
    /\ IF PerStep = {} THEN Goto("gate") /\ place' = "gate" ELSE Goto("baseline") /\ UNCHANGED place
    /\ UNCHANGED <<base, cache, verdict, counter, evidence, accepted, report, dirty, memory, history>>

\* The ladder of the step is exhausted: its tree is rolled back.
Abandon ==
    /\ At("work")
    /\ version' = version + 1 /\ candidate' = base
    /\ Goto("gate") /\ place' = "gate"
    /\ UNCHANGED <<base, cache, verdict, counter, evidence, accepted, report, dirty, memory, history>>

\* Slip: a red fast gate runs again on the same tree.
JudgeStepAgain ==
    /\ At("checks") /\ place = "work" /\ Pending = {}
    /\ IF \E c \in Selected : Regresses(c) THEN Goto("baseline") /\ UNCHANGED place
       ELSE Goto("gate") /\ place' = "gate"
    /\ Forget
    /\ UNCHANGED <<world, cache, verdict, counter, evidence, accepted, tree, history>>

\* Here a timeout is a failure like another: the fast gate has no retries.
JudgeStep ==
    /\ At("checks") /\ place = "work" /\ Pending = {}
    /\ IF \E c \in Selected : Regresses(c) THEN Goto("work") /\ UNCHANGED place
       ELSE Goto("gate") /\ place' = "gate"
    /\ Forget
    /\ UNCHANGED <<world, cache, verdict, counter, evidence, accepted, tree, history>>

\* archive_attempt: the evidence of the gate before is set aside.
StartGate ==
    /\ At("gate")
    /\ evidence' = NoEvidence
    /\ Goto("baseline")
    /\ UNCHANGED <<world, cache, verdict, counter, accepted, place, tree, memory, history>>

\* Slip: only a repeated side effect counts as no answer.
Excused == {c \in Selected : results[c] = "side"}

Infrastructure == {c \in Selected : results[c] \in Unanswered}
Regressions    == {c \in Selected : results[c] \notin Unanswered /\ Regresses(c)}

\* collect_evidence stages the tree as it is.
GateEvidence ==
    [of |-> version, mutated |-> dirty, results |-> results, against |-> baseline,
     failures |-> Infrastructure \cup Regressions]

\* settle turns a check that gave no answer into an external wait, once the
\* evidence is written.
JudgeGate ==
    /\ At("checks") /\ place = "gate" /\ Pending = {}
    /\ evidence' = GateEvidence
    /\ Goto(IF Infrastructure = {} THEN "judged" ELSE "waiting")
    /\ Forget
    /\ UNCHANGED <<world, cache, verdict, counter, accepted, place, tree, history>>

\* required_checks_passed: every selected check passed, was skipped or cleared.
Green == evidence.failures = {}

\* GateAcceptanceService.accept: the evidence is that of the HEAD's tree.
Accept ==
    /\ At("judged") /\ Green
    /\ IF evidence.mutated = "no" THEN accepted' = evidence.of /\ Goto("accepted")
       ELSE Goto("failed") /\ UNCHANGED accepted
    /\ UNCHANGED <<world, cache, verdict, counter, evidence, place, tree, memory, history>>

\* An audit edits the tree and commits; the gate runs again.
Audit ==
    /\ At("judged") /\ version < MaxCandidates
    /\ Submit
    /\ Goto("gate")
    /\ UNCHANGED <<base, durable, report, dirty, memory, history>>

\* No audit left: the continuation sees the failures, nothing is accepted.
Refuse ==
    /\ At("judged") /\ ~Green
    /\ Goto("refused")
    /\ UNCHANGED <<world, durable, tree, memory, history>>

-----------------------------------------------------------------------------
(* Stops.                                                                  *)

Resting == {"accepted", "refused", "failed", "waiting", "stopped"}

Stop ==
    /\ pc \notin Resting /\ stops < MaxStops
    /\ stops' = stops + 1
    /\ Goto("stopped") /\ Forget
    /\ UNCHANGED <<world, durable, tree, foreign, executions>>

WaitOver == At("waiting") /\ stops < MaxStops

\* Slip: the worktree is taken as it was left.
ResumeInPlace ==
    /\ \/ At("stopped") /\ UNCHANGED stops
       \/ WaitOver /\ stops' = stops + 1
    /\ Goto(CASE place = "bootstrap" -> "preflight"
              [] place = "work"      -> "work"
              [] place = "gate"      -> "gate")
    /\ UNCHANGED <<world, durable, tree, memory, foreign, executions>>

\* prepare_resume rewinds the tracked files; the ignored ones stay, the
\* reports among them.
Resume ==
    /\ \/ At("stopped") /\ UNCHANGED stops
       \/ WaitOver /\ stops' = stops + 1
    /\ dirty' = "no"
    /\ Goto(CASE place = "bootstrap" -> "preflight"
              [] place = "work"      -> "work"
              [] place = "gate"      -> "gate")
    /\ UNCHANGED <<world, durable, report, version, memory, foreign, executions>>

Drive ==
    \/ EvaluatePreflight \/ WaitForPreflight \/ PreflightsDone
    \/ LoadBaseline \/ MissBaseline \/ Capture
    \/ Answer \/ Fault \/ SideEffect \/ Restore
    \/ Edit \/ Abandon \/ JudgeStep
    \/ StartGate \/ JudgeGate \/ Accept \/ Audit \/ Refuse

Next == Drive \/ ForeignCapture \/ Stop \/ Resume

Spec     == Init /\ [][Next]_vars
FairSpec == Spec /\ WF_vars(Drive)  \* a driving run keeps running; its checks have deadlines

-----------------------------------------------------------------------------
(* Properties.                                                             *)

Entries == [CheckIds -> Statuses \cup {"none"}]
Results == [CheckIds -> Answers \cup Unanswered \cup {"none"}]

TypeOK ==
    /\ base \in BaseAnswers /\ candidate \in [CheckIds -> Answers]
    /\ report \in [CheckIds -> {"none", "old", "new"}]
    /\ cache \in [Keys -> Entries] /\ baseline \in Entries
    /\ verdict \in [CheckIds -> {"none", "PASS", "FAIL"}]
    /\ counter \in [CheckIds -> 0 .. Attempts]
    /\ evidence \in [of : 0 .. MaxCandidates + 1, mutated : {"no", "yes"}, results : Results,
                     against : Entries, failures : SUBSET CheckIds]
    /\ accepted \in 0 .. MaxCandidates + 1 /\ version \in 0 .. MaxCandidates + 1
    /\ place \in {"bootstrap", "work", "gate"} /\ dirty \in {"no", "yes"}
    /\ pc \in Resting \cup {"preflight", "baseline", "capture", "checks", "restore", "work",
                            "gate", "judged"}
    /\ results \in Results /\ sided \in {"no", "yes"}
    /\ stops \in 0 .. MaxStops /\ foreign \in 0 .. MaxForeign
    /\ executions \in 0 .. ExecutionCap

\* The run made it worse: a green check is red, or a red one names another
\* test or none.
Worse(c) == \/ base[c] = "pass" /\ candidate[c] # "pass"
            \/ base[c] = "old" /\ candidate[c] \in {"new", "opaque"}

\* A gate blocks every new failure (spec-autonomie-v4 C5), unless the check
\* was skipped, the shared record does not say what the base commit answers,
\* or the failure names no test and the report of an earlier attempt is read
\* for it.
NewFailuresBlock ==
    accepted # 0 =>
        \A c \in Required \ Skipped :
            Worse(c) => \/ evidence.against[c] # TrueStatus(base[c])
                        \/ c \in Junit /\ candidate[c] = "opaque" /\ report[c] = "old"

\* A gate blocks new failures only: whatever a capture lost and other runs
\* stored, a failure the base commit already had is never held against the run.
OldFailuresPass ==
    evidence.of = version =>
        \A c \in evidence.failures : evidence.results[c] \in Unanswered \/ Worse(c)

\* The frozen evidence is of the tree that was submitted, though checks change
\* it, and a stop may fall before the change is undone.
EvidenceIsExact == evidence.of # 0 => evidence.mutated = "no"

\* No tree is accepted on a check that gave no answer: every required check
\* ran to an answer on it, or this run's own preflight excused it and it is not
\* blocking.
AcceptedIsAnswered ==
    accepted # 0 =>
        /\ accepted = version /\ evidence.of = version
        /\ \A c \in Required : \/ evidence.results[c] = candidate[c]
                              \/ c \in Skipped \ Blocking

\* Retries of the check infrastructure are paid from a durable counter: all
\* launches of the run together execute a check at most twice for each gate
\* they start, and Attempts times more.
ChecksBounded == executions <= 2 * (version + stops) + Attempts

\* Whatever the checks do, a driving run comes to rest: accepted, refused,
\* failed or waiting for the world.
GateEnds == pc \notin Resting ~> pc \in Resting

\* spec-autonomie-v4.md:225 and pipeline-v2.md:79: green is no new failing test
\* and no check green at the base turned red; only a failed preflight excuses.
OnlyPreflightExcuses == accepted # 0 => \A c \in Required \ Skipped : ~Worse(c)
=============================================================================
