-------------------------- MODULE GateChecksProofs --------------------------
(***************************************************************************)
(* Proofs about the deterministic checks: what a gate accepts was answered *)
(* on the accepted tree and is not worse than the base commit, except where *)
(* the shared record or an old report hides it; the evidence is of the     *)
(* exact tree; and the executions of a check are bounded over every stop.  *)
(***************************************************************************)
EXTENDS GateChecks, FiniteSetTheorems, WellFoundedInduction, TLAPS

\* A nonempty set of checks has a least one.
LEMMA LeastExists ==
    ASSUME NEW S \in SUBSET CheckIds, S # {}
    PROVE  Least(S) \in S
  <1>1. S \subseteq Nat
    BY CatalogueAssumption DEF CheckIds
  <1>2. \A T : T # {} /\ T \subseteq Nat
           => \E x \in T : \A y \in T : ~(<<y, x>> \in OpToRel(<, Nat))
    BY NatLessThanWellFounded, WFMin
  <1>3. PICK x \in S : \A y \in S : ~(<<y, x>> \in OpToRel(<, Nat))
    BY <1>1, <1>2
  <1>4. \A y \in S : x <= y
    <2> TAKE y \in S
    <2>1. x \in Nat /\ y \in Nat
      BY <1>1
    <2>2. ~ (y < x)
      BY <1>3, <2>1, Zenon DEF OpToRel
    <2> QED  BY <2>1, <2>2
  <1> QED  BY <1>3, <1>4 DEF Least

-----------------------------------------------------------------------------
(* Types.                                                                  *)

\* Where the driver is tells which checkpoint it works from.
Placed ==
    /\ pc = "preflight" => place = "bootstrap"
    /\ pc = "work" => place = "work"
    /\ pc \in {"gate", "judged", "accepted"} => place = "gate"
    /\ pc \in {"checks", "restore"} => place # "bootstrap"
    /\ pc = "restore" => Pending # {}
    /\ place # "gate" => version <= MaxCandidates

TypeInv == TypeOK /\ Placed

\* What the assumptions say of the constants, and of what is built from them.
LEMMA ConstantTypes ==
    /\ Absent \in Entries /\ Absent \in Results
    /\ Required \subseteq CheckIds /\ PerStep \subseteq CheckIds
    /\ Preflighted \subseteq CheckIds /\ Watched \in CheckIds
    /\ \A k \in Keys : k \subseteq CheckIds
    /\ Attempts \in Nat /\ MaxCandidates \in Nat /\ MaxStops \in Nat /\ MaxForeign \in Nat
    /\ ExecutionCap \in Nat
  BY CatalogueAssumption, BoundsAssumption DEF Absent, Entries, Results, Keys, ExecutionCap

\* It holds of a candidate nobody has judged yet.
LEMMA TypeInit == Init => TypeInv
  BY ConstantTypes, CatalogueAssumption
     DEF Init, TypeInv, TypeOK, Placed, Absent, NoEvidence, Results, Entries, Answers,
         Unanswered, Resting

\* The check an operation is at is one of the catalogue.
LEMMA CurrentCheck ==
    ASSUME TypeOK
    PROVE  /\ Unevaluated # {} => Least(Unevaluated) \in Unevaluated
           /\ Pending # {} => Least(Pending) \in Pending
           /\ Unevaluated \subseteq Preflighted
           /\ Pending \subseteq CheckIds /\ Selected \subseteq CheckIds
           /\ Key \in Keys
  <1>1. Key \in Keys
    BY DEF TypeOK, Key, Keys
  <1>2. Unevaluated \in SUBSET CheckIds /\ Pending \in SUBSET CheckIds
        /\ Selected \in SUBSET CheckIds
    BY <1>1, ConstantTypes DEF Unevaluated, Pending, Selected
  <1> QED  BY <1>1, <1>2, LeastExists DEF Unevaluated

\* A record that is found, captured or sliced has an entry for every check.
LEMMA EntryTypes ==
    ASSUME TypeOK
    PROVE  /\ Covering \subseteq Keys
           /\ \A k \in Keys, skips \in SUBSET CheckIds : Records(k, skips) \subseteq Entries
           /\ \A e \in Entries : Slice(e) \in Entries
  BY CurrentCheck DEF Covering, Records, Entries, Slice

\* Every step keeps it.
LEMMA TypeNext == TypeInv /\ [Next]_vars => TypeInv'
  <1> SUFFICES ASSUME TypeInv, [Next]_vars PROVE TypeInv' OBVIOUS
  <1> USE ConstantTypes DEF TypeInv, At, Goto, Forget, world, durable, tree, memory, history
  <1>1. CASE EvaluatePreflight
    <2>1. Least(Unevaluated) \in CheckIds
      BY <1>1, CurrentCheck DEF EvaluatePreflight
    <2> QED  BY <1>1, <2>1 DEF EvaluatePreflight, TypeOK, Placed, Resting
  <1>2. CASE WaitForPreflight \/ PreflightsDone \/ MissBaseline \/ Refuse
    BY <1>2 DEF WaitForPreflight, PreflightsDone, MissBaseline, Refuse, TypeOK, Placed, Resting
  <1>3. CASE LoadBaseline
    <2>1. \E e \in Entries : Established(e)
      BY <1>3, EntryTypes DEF LoadBaseline, TypeOK
    <2> QED  BY <1>3, <2>1, EntryTypes DEF LoadBaseline, Established, TypeOK, Placed
  <1>4. CASE Capture
    <2>1. \E e \in Entries : cache' = [cache EXCEPT ![Key] = e] /\ Established(e)
      BY <1>4, EntryTypes, CurrentCheck DEF Capture, Skipped
    <2> QED  BY <1>4, <2>1, EntryTypes DEF Capture, Established, TypeOK, Placed
  <1>5. CASE ForeignCapture
    <2>1. \E k \in Keys : \E e \in Entries : cache' = [cache EXCEPT ![k] = e]
      BY <1>5, EntryTypes DEF ForeignCapture
    <2> QED  BY <1>5, <2>1 DEF ForeignCapture, TypeOK, Placed
  <1>6. CASE Answer
    <2>1. Least(Pending) \in CheckIds
      BY <1>6, CurrentCheck DEF Answer
    <2> QED  BY <1>6, <2>1 DEF Answer, Executed, Report, Finish, TypeOK, Placed, Results,
       Answers, Resting
  <1>7. CASE Fault
    <2>1. Least(Pending) \in CheckIds
      BY <1>7, CurrentCheck DEF Fault
    <2> QED  BY <1>7, <2>1 DEF Fault, Executed, Finish, TypeOK, Placed, Results, Unanswered,
       Resting
  <1>8. CASE SideEffect
    BY <1>8 DEF SideEffect, Executed, TypeOK, Placed, Pending, Selected, Key, Skipped
  <1>9. CASE Restore
    <2>1. Least(Pending) \in CheckIds
      BY <1>9, CurrentCheck DEF Restore, Placed
    <2> QED  BY <1>9, <2>1 DEF Restore, Finish, TypeOK, Placed, Results, Unanswered, Resting
  <1>10. CASE Edit \/ Abandon \/ Audit
    BY <1>10, CatalogueAssumption DEF Edit, Abandon, Audit, Submit, TypeOK, Placed, Answers
  <1>11. CASE JudgeStep
    BY <1>11 DEF JudgeStep, TypeOK, Placed
  <1>12. CASE StartGate
    BY <1>12 DEF StartGate, NoEvidence, TypeOK, Placed
  <1>13. CASE JudgeGate
    <2>1. GateEvidence \in [of : 0 .. MaxCandidates + 1, mutated : {"no", "yes"},
                            results : Results, against : Entries, failures : SUBSET CheckIds]
      BY CurrentCheck DEF GateEvidence, Infrastructure, Regressions, TypeOK
    <2> QED  BY <1>13, <2>1 DEF JudgeGate, TypeOK, Placed, Resting
  <1>14. CASE Accept
    BY <1>14 DEF Accept, TypeOK, Placed, Resting
  <1>15. CASE Stop
    BY <1>15 DEF Stop, TypeOK, Placed, Resting
  <1>16. CASE Resume
    BY <1>16 DEF Resume, WaitOver, TypeOK, Placed, Resting
  <1>17. CASE UNCHANGED vars
    BY <1>17 DEF vars, TypeOK, Placed, Pending, Selected, Key, Skipped
  <1> QED
    BY <1>1, <1>2, <1>3, <1>4, <1>5, <1>6, <1>7, <1>8, <1>9, <1>10, <1>11, <1>12, <1>13, <1>14,
       <1>15, <1>16, <1>17 DEF Next, Drive

\* For every catalogue and every bound, each variable keeps its type.
THEOREM TypeCorrect == Spec => []TypeOK
  <1>1. TypeInv => TypeOK
    BY DEF TypeInv
  <1> QED  BY <1>1, TypeInit, TypeNext, PTL DEF Spec

\* Type correctness of every reachable state.
LEMMA TypeAlways == Spec => []TypeInv
  BY TypeInit, TypeNext, PTL DEF Spec

-----------------------------------------------------------------------------
(* The frozen evidence.  A changed tree is undone before the next check     *)
(* runs, and a stop or a refusal in between leads to no judgement.          *)

Clean ==
    /\ dirty = "yes" => pc \in {"restore", "failed", "stopped"}
    /\ EvidenceIsExact

\* It holds of a candidate nobody has judged yet.
LEMMA CleanInit == Init => Clean
  BY DEF Init, Clean, EvidenceIsExact, NoEvidence

\* Every step keeps it.
LEMMA CleanNext == TypeInv /\ Clean /\ [Next]_vars => Clean'
  <1> SUFFICES ASSUME TypeInv, Clean, [Next]_vars PROVE Clean' OBVIOUS
  <1> USE DEF Clean, EvidenceIsExact, At, Goto, world, durable, tree, memory, history
  <1>1. CASE \/ EvaluatePreflight \/ WaitForPreflight \/ PreflightsDone \/ LoadBaseline
             \/ MissBaseline \/ Capture \/ ForeignCapture \/ Answer \/ Fault
             \/ Edit \/ Abandon \/ Audit \/ JudgeStep \/ Accept \/ Refuse
    BY <1>1 DEF EvaluatePreflight, WaitForPreflight, PreflightsDone, LoadBaseline,
       MissBaseline, Capture, ForeignCapture, Answer, Fault, Edit, Abandon, Audit, JudgeStep,
       Accept, Refuse, Established
  <1>2. CASE SideEffect \/ Restore
    BY <1>2 DEF SideEffect, Restore
  <1>3. CASE StartGate
    BY <1>3 DEF StartGate, NoEvidence
  <1>4. CASE JudgeGate
    BY <1>4 DEF JudgeGate, GateEvidence, TypeInv, TypeOK
  <1>5. CASE Stop \/ Resume
    BY <1>5 DEF Stop, Resume, WaitOver
  <1>6. CASE UNCHANGED vars
    BY <1>6 DEF vars
  <1> QED  BY <1>1, <1>2, <1>3, <1>4, <1>5, <1>6 DEF Next, Drive

\* For every catalogue and number of stops, the evidence a gate freezes is of
\* the tree that was submitted, whatever the checks did to it
\* (GateAcceptanceService, restore_exact).
THEOREM EvidenceOfTheTree == Spec => []EvidenceIsExact
  <1>1. Clean => EvidenceIsExact
    BY DEF Clean
  <1> QED  BY <1>1, CleanInit, CleanNext, TypeAlways, PTL DEF Spec

-----------------------------------------------------------------------------
(* Acceptance.  The preflights have their say before the first gate, the   *)
(* results in the driver's memory are the answers of the tree it checks,   *)
(* and a judgement keeps them.                                             *)

\* Past the preflights no blocking check is skipped.
Excusing ==
    place # "bootstrap" \/ pc \in {"baseline", "capture"} => Skipped \cap Blocking = {}

\* A result is the answer of the candidate or none at all, and the report of a
\* check that answered is the report of that answer.
Answered ==
    /\ pc \notin {"checks", "restore", "failed"} => results = Absent /\ sided = "no"
    /\ \A c \in CheckIds :
          /\ results[c] \in {"none", "fault", "side", candidate[c]}
          /\ report[c] # "none" => c \in Junit
          /\ results[c] = candidate[c] /\ c \in Junit /\ candidate[c] \in {"old", "new"}
                => report[c] = candidate[c]

\* What the comparison cannot see of a check, as NewFailuresBlock excepts it.
Blind(c) ==
    \/ evidence.against[c] # TrueStatus(base[c])
    \/ c \in Junit /\ candidate[c] = "opaque" /\ report[c] = "old"

\* A judgement is of the candidate: every check that was not skipped answered
\* on it, and one that is worse is a failure unless the comparison is blind.
Judged ==
    /\ pc \in {"judged", "accepted"} =>
          /\ evidence.of = version
          /\ \A c \in Required \ Skipped :
                /\ evidence.results[c] = candidate[c]
                /\ c \notin evidence.failures /\ Worse(c) => Blind(c)
    /\ pc = "accepted" => evidence.failures = {}
    /\ accepted # 0 => pc = "accepted" /\ accepted = evidence.of

AcceptInv == Excusing /\ Answered /\ Judged

\* It holds of a candidate nobody has judged yet.
LEMMA AcceptInit == Init => AcceptInv
  BY CatalogueAssumption
     DEF Init, AcceptInv, Excusing, Answered, Judged, Absent, NoEvidence, Skipped, Answers

\* The preflight verdicts are settled before a gate needs them.
LEMMA ExcusingNext == TypeInv /\ Excusing /\ [Next]_vars => Excusing'
  <1> SUFFICES ASSUME TypeInv, Excusing, [Next]_vars PROVE Excusing' OBVIOUS
  <1> USE DEF Excusing, Skipped, At, Goto, world, durable, tree, memory, history
  <1>1. CASE EvaluatePreflight
    BY <1>1 DEF EvaluatePreflight, TypeInv, Placed
  <1>2. CASE \/ WaitForPreflight \/ PreflightsDone \/ LoadBaseline \/ MissBaseline \/ Capture
             \/ ForeignCapture \/ Answer \/ Fault \/ SideEffect \/ Restore
    BY <1>2 DEF WaitForPreflight, PreflightsDone, LoadBaseline, MissBaseline, Capture,
       ForeignCapture, Answer, Fault, SideEffect, Restore, Established, TypeInv, Placed
  <1>3. CASE \/ Edit \/ Abandon \/ Audit \/ JudgeStep \/ StartGate \/ JudgeGate \/ Accept
             \/ Refuse \/ Stop \/ Resume
    BY <1>3 DEF Edit, Abandon, Audit, JudgeStep, StartGate, JudgeGate, Accept, Refuse, Stop,
       Resume, WaitOver, TypeInv, Placed, TypeOK
  <1>4. CASE UNCHANGED vars
    BY <1>4 DEF vars
  <1> QED  BY <1>1, <1>2, <1>3, <1>4 DEF Next, Drive

\* Every step keeps it.
LEMMA AnsweredNext == TypeInv /\ Answered /\ [Next]_vars => Answered'
  <1> SUFFICES ASSUME TypeInv, Answered, [Next]_vars PROVE Answered' OBVIOUS
  <1> USE DEF Answered, At, Goto, Forget, world, durable, tree, memory, history
  <1>1. CASE \/ EvaluatePreflight \/ WaitForPreflight \/ PreflightsDone \/ LoadBaseline
             \/ MissBaseline \/ Capture \/ ForeignCapture \/ StartGate \/ Accept \/ Refuse
    BY <1>1 DEF EvaluatePreflight, WaitForPreflight, PreflightsDone, LoadBaseline,
       MissBaseline, Capture, ForeignCapture, StartGate, Accept, Refuse, Established
  <1>2. CASE Answer
    <2> DEFINE c == Least(Pending)
    <2>1. c \in CheckIds /\ pc = "checks" /\ results[c] = "none"
      BY <1>2, CurrentCheck DEF Answer, Pending, TypeInv
    <2>2. /\ results' = [results EXCEPT ![c] = candidate[c]] /\ UNCHANGED <<candidate, pc>>
          /\ report' = Report(c)
      BY <1>2 DEF Answer, Finish
    <2>3. candidate[c] \in Answers
      BY <2>1 DEF TypeInv, TypeOK
    <2> HIDE DEF c
    <2> QED  BY <2>1, <2>2, <2>3 DEF Report, Answers, TypeInv, TypeOK, Results
  <1>3. CASE Fault \/ Restore
    <2> DEFINE c == Least(Pending)
    <2>1. c \in CheckIds /\ pc \in {"checks", "restore"}
      BY <1>3, CurrentCheck DEF Fault, Restore, TypeInv, Placed
    <2>2. /\ \/ UNCHANGED results
             \/ \E r \in {"fault", "side"} : results' = [results EXCEPT ![c] = r]
          /\ UNCHANGED <<candidate, report>> /\ pc' \in {"checks", "failed"}
      BY <1>3 DEF Fault, Restore, Finish
    <2>3. candidate[c] \notin {"fault", "side"}
      BY <2>1 DEF TypeInv, TypeOK, Answers
    <2> HIDE DEF c
    <2> QED  BY <2>1, <2>2, <2>3 DEF TypeInv, TypeOK, Results
  <1>4. CASE SideEffect \/ Stop \/ Resume
    BY <1>4 DEF SideEffect, Stop, Resume, WaitOver, Resting, TypeInv, TypeOK, Absent, Answers
  <1>5. CASE Edit \/ Abandon \/ Audit
    <2>1. results = Absent /\ UNCHANGED <<results, sided, report>>
          /\ pc' \notin {"checks", "restore"}
          /\ \A c \in CheckIds : candidate'[c] \in Answers
      BY <1>5, TypeNext DEF Edit, Abandon, Audit, TypeInv, TypeOK
    <2> QED  BY <1>5, <2>1 DEF Absent, Answers, Edit, Abandon, Audit
  <1>6. CASE JudgeStep \/ JudgeGate
    BY <1>6 DEF JudgeStep, JudgeGate, Absent, TypeInv, TypeOK, Answers
  <1>7. CASE UNCHANGED vars
    BY <1>7 DEF vars
  <1> QED  BY <1>1, <1>2, <1>3, <1>4, <1>5, <1>6, <1>7 DEF Next, Drive

\* A check that answered, and that compare_check lets pass, is no worse than
\* the base commit, unless the comparison is blind to it.
LEMMA PassedIsNoWorse ==
    ASSUME TypeOK, Answered, NEW c \in CheckIds, results[c] = candidate[c], ~Regresses(c),
           Worse(c), baseline[c] = TrueStatus(base[c])
    PROVE  c \in Junit /\ candidate[c] = "opaque" /\ report[c] = "old"
  <1>1. candidate[c] \in Answers /\ report[c] \in {"none", "old", "new"}
    BY DEF TypeOK
  <1>2. CASE base[c] = "pass"
    <2>1. baseline[c] = "PASS" /\ candidate[c] # "pass"
      BY <1>2 DEF TrueStatus, Worse
    <2> QED  BY <2>1 DEF Regresses, StatusNow
  <1>3. CASE base[c] = "old"
    <2>1. baseline[c] = "FAIL_OLD" /\ candidate[c] \in {"new", "opaque"}
      BY <1>3 DEF TrueStatus, Worse
    <2>2. Named(c) = "old"
      BY <2>1 DEF Regresses, StatusNow
    <2> QED  BY <1>1, <2>1, <2>2 DEF Named, Answered
  <1> QED  BY <1>2, <1>3 DEF Worse

\* The judgement of the gate is the one Judged describes.
LEMMA JudgeGateJudges ==
    ASSUME TypeInv, AcceptInv, JudgeGate
    PROVE  Judged'
  <1> USE DEF JudgeGate, At, Goto, world, tree, history
  <1>1. /\ pc = "checks" /\ place = "gate" /\ Pending = {} /\ evidence' = GateEvidence
        /\ UNCHANGED <<base, candidate, report, version, verdict, accepted>>
        /\ accepted = 0 /\ pc' \in {"judged", "waiting"}
        /\ pc' = "judged" => Infrastructure = {}
    BY DEF AcceptInv, Judged
  <1>2. Selected = Required \ Skipped /\ Selected \subseteq CheckIds /\ Skipped' = Skipped
    BY <1>1, CurrentCheck DEF Selected, Key, Skipped, TypeInv
  <1>3. ASSUME Infrastructure = {}, NEW c \in Selected
        PROVE  /\ results[c] = candidate[c]
               /\ c \notin evidence'.failures /\ Worse(c)' => Blind(c)'
    <2>1. results[c] \in {"none", "fault", "side", candidate[c]}
      BY <1>2 DEF AcceptInv, Answered
    <2>2. results[c] \notin {"none", "fault", "side"}
      BY <1>1, <1>3 DEF Pending, Infrastructure, Unanswered
    <2>3. results[c] = candidate[c]
      BY <2>1, <2>2
    <2>4. c \notin evidence'.failures => ~Regresses(c)
      BY <1>1, <2>2 DEF GateEvidence, Regressions, Unanswered
    <2>5. Worse(c)' = Worse(c) /\ evidence'.against = baseline
      BY <1>1 DEF Worse, GateEvidence
    <2>6. ASSUME c \notin evidence'.failures, Worse(c)', evidence'.against[c] = TrueStatus(base'[c])
          PROVE  c \in Junit /\ candidate'[c] = "opaque" /\ report'[c] = "old"
      BY <1>1, <1>2, <2>3, <2>4, <2>5, <2>6, PassedIsNoWorse DEF TypeInv, AcceptInv
    <2> QED  BY <2>3, <2>6 DEF Blind
  <1>4. evidence'.of = version /\ evidence'.results = results
    BY <1>1 DEF GateEvidence
  <1> QED  BY <1>1, <1>2, <1>3, <1>4 DEF Judged

\* Every step keeps it.
LEMMA JudgedNext == TypeInv /\ AcceptInv /\ [Next]_vars => Judged'
  <1> SUFFICES ASSUME TypeInv, AcceptInv, [Next]_vars PROVE Judged' OBVIOUS
  <1> USE DEF AcceptInv, Judged, At, Goto, world, durable, tree, memory, history
  <1>1. CASE \/ EvaluatePreflight \/ WaitForPreflight \/ PreflightsDone \/ LoadBaseline
             \/ MissBaseline \/ Capture \/ ForeignCapture \/ Answer \/ Fault \/ SideEffect
             \/ Restore \/ Edit \/ Abandon \/ Audit \/ JudgeStep \/ StartGate \/ Refuse
             \/ Stop \/ Resume
    <2>1. pc' \notin {"judged", "accepted"} /\ accepted = 0 /\ accepted' = 0
      BY <1>1 DEF EvaluatePreflight, WaitForPreflight, PreflightsDone, LoadBaseline,
         MissBaseline, Capture, ForeignCapture, Answer, Fault, SideEffect, Restore, Edit,
         Abandon, Audit, JudgeStep, StartGate, Refuse, Stop, Resume, WaitOver, Established,
         Resting, TypeInv, TypeOK
    <2> QED  BY <2>1
  <1>2. CASE JudgeGate
    BY <1>2, JudgeGateJudges
  <1>3. CASE Accept
    <2>1. /\ pc = "judged" /\ evidence.failures = {} /\ pc' \in {"accepted", "failed"}
          /\ UNCHANGED <<base, candidate, report, version, verdict, evidence>>
          /\ \/ accepted' = accepted
             \/ accepted' = evidence.of /\ pc' = "accepted"
      BY <1>3 DEF Accept, Green
    <2>2. accepted = 0
      BY <2>1
    <2> QED  BY <2>1, <2>2 DEF Blind, Worse, Skipped
  <1>4. CASE UNCHANGED vars
    BY <1>4 DEF vars, Blind, Worse, Skipped
  <1> QED  BY <1>1, <1>2, <1>3, <1>4 DEF Next, Drive

\* Every step keeps it.
LEMMA AcceptNext == TypeInv /\ AcceptInv /\ [Next]_vars => AcceptInv'
  BY ExcusingNext, AnsweredNext, JudgedNext DEF AcceptInv

\* It holds at every moment.
LEMMA AcceptAlways == Spec => []AcceptInv
  BY AcceptInit, AcceptNext, TypeAlways, PTL DEF Spec

\* For every catalogue, number of runs that share the baseline and number of
\* stops, a gate blocks every new failure the comparison can see
\* (compare_check, BaselineCache).
THEOREM GateBlocksNewFailures == Spec => []NewFailuresBlock
  <1>1. AcceptInv => NewFailuresBlock
    BY DEF AcceptInv, Judged, Blind, NewFailuresBlock
  <1> QED  BY <1>1, AcceptAlways, PTL

\* For every catalogue and number of stops, an accepted tree is the one the
\* evidence is of, and every required check gave its answer on it or was
\* excused by a preflight it may be excused by.
THEOREM AcceptedWasAnswered == Spec => []AcceptedIsAnswered
  <1>1. TypeInv /\ AcceptInv => AcceptedIsAnswered
    BY DEF TypeInv, Placed, AcceptInv, Excusing, Judged, AcceptedIsAnswered
  <1> QED  BY <1>1, AcceptAlways, TypeAlways, PTL


-----------------------------------------------------------------------------
(* The converse.  A record says of a check what the base commit answers, or *)
(* nothing, so that nothing old is held against the run.                   *)

Honest(c, entry) == entry[c] \in {TrueStatus(base[c]), "NO_SIGNAL"}

Truthful ==
    /\ \A k \in Keys : cache[k] # Absent => \A c \in k : Honest(c, cache[k])
    /\ pc \in {"checks", "restore"} => \A c \in Key : Honest(c, baseline)

OldInv == Truthful /\ evidence.of <= version /\ OldFailuresPass

\* It holds of a candidate nobody has judged yet.
LEMMA OldInit == Init => OldInv
  BY DEF Init, OldInv, Truthful, OldFailuresPass, NoEvidence, Absent

\* A capture, this run's or another's, is honest.
LEMMA CaptureIsHonest ==
    ASSUME NEW k \in Keys, NEW skips, NEW e \in Records(k, skips), NEW c \in k
    PROVE  Honest(c, e)
  <1>1. c \in CheckIds
    BY ConstantTypes
  <1>2. e[c] \in Captured(c, skips)
    BY <1>1 DEF Records
  <1> QED  BY <1>2 DEF Captured, Honest

\* So is the slice of whatever record covers the gate.
LEMMA CoverIsHonest ==
    ASSUME TypeOK, Truthful, NEW k \in Covering, NEW c \in Key
    PROVE  Honest(c, Slice(cache[k]))
  <1>1. k \in Keys /\ Key \subseteq k /\ c \in CheckIds /\ cache[k] # Absent
    BY CurrentCheck, ConstantTypes DEF Covering
  <1>2. Honest(c, cache[k]) /\ Slice(cache[k])[c] = cache[k][c]
    BY <1>1 DEF Truthful, Slice
  <1> QED  BY <1>2 DEF Honest

\* Every step keeps it.
LEMMA TruthfulNext == TypeInv /\ Truthful /\ [Next]_vars => Truthful'
  <1> SUFFICES ASSUME TypeInv, Truthful, [Next]_vars PROVE Truthful' OBVIOUS
  <1> USE DEF At, Goto, Forget, world, durable, tree, memory, history
  <1>1. ASSUME UNCHANGED <<base, cache>>, pc' \notin {"checks", "restore"} PROVE Truthful'
    BY <1>1 DEF Truthful, Honest
  <1>2. ASSUME UNCHANGED <<base, cache, place, baseline>>, pc \in {"checks", "restore"}
        PROVE Truthful'
    BY <1>2 DEF Truthful, Honest, Key
  <1>3. CASE \/ EvaluatePreflight \/ WaitForPreflight \/ PreflightsDone \/ MissBaseline
             \/ Edit \/ Abandon \/ Audit \/ JudgeStep \/ StartGate \/ JudgeGate \/ Accept
             \/ Refuse \/ Stop \/ Resume
    BY <1>1, <1>3 DEF EvaluatePreflight, WaitForPreflight, PreflightsDone, MissBaseline, Edit,
       Abandon, Audit, JudgeStep, StartGate, JudgeGate, Accept, Refuse, Stop, Resume, Submit,
       TypeInv, Placed, TypeOK
  <1>4. CASE Answer \/ Fault \/ SideEffect \/ Restore
    BY <1>2, <1>4 DEF Answer, Fault, SideEffect, Restore
  <1>5. CASE LoadBaseline
    <2>1. PICK k \in Covering : Established(cache[k])
      BY <1>5 DEF LoadBaseline
    <2>2. CASE place = "bootstrap"
      BY <1>1, <1>5, <2>1, <2>2 DEF LoadBaseline, Established
    <2>3. CASE place # "bootstrap"
      <3>1. baseline' = Slice(cache[k]) /\ UNCHANGED <<base, cache, place>>
        BY <1>5, <2>1, <2>3 DEF LoadBaseline, Established
      <3>2. \A c \in Key : Honest(c, Slice(cache[k]))
        BY CoverIsHonest DEF TypeInv
      <3> QED  BY <3>1, <3>2 DEF Truthful, Honest, Key
    <2> QED  BY <2>2, <2>3
  <1>6. CASE Capture \/ ForeignCapture
    <2>1. PICK k \in Keys, skips \in SUBSET CheckIds : \E e \in Records(k, skips) :
                /\ cache' = [cache EXCEPT ![k] = e]
                /\ Capture => k = Key /\ Established(e)
      BY <1>6, CurrentCheck, ConstantTypes DEF Capture, ForeignCapture, Skipped, TypeInv
    <2>2. PICK e \in Records(k, skips) : /\ cache' = [cache EXCEPT ![k] = e]
                                         /\ Capture => k = Key /\ Established(e)
      BY <2>1
    <2>3. UNCHANGED base /\ \A c \in k : Honest(c, e)
      BY <1>6, CaptureIsHonest DEF Capture, ForeignCapture
    <2>4. \A l \in Keys : cache'[l] # Absent => \A c \in l : Honest(c, cache'[l])
      BY <2>2, <2>3 DEF Truthful, TypeInv, TypeOK, Honest
    <2>5. pc' \in {"checks", "restore"} => /\ Capture /\ baseline' = Slice(e) /\ k = Key
                                           /\ UNCHANGED place
      BY <1>6, <2>2 DEF Capture, ForeignCapture, Established
    <2>6. pc' \in {"checks", "restore"} => \A c \in Key : Honest(c, Slice(e))
      BY <2>3, <2>5, CurrentCheck, ConstantTypes DEF Slice, Honest, TypeInv
    <2> QED  BY <2>3, <2>4, <2>5, <2>6 DEF Truthful, Honest, Key
  <1>7. CASE UNCHANGED vars
    BY <1>7 DEF vars, Truthful, Honest, Key
  <1> QED  BY <1>3, <1>4, <1>5, <1>6, <1>7 DEF Next, Drive

\* A check that answered and regresses on an honest record is worse.
LEMMA RegressionIsWorse ==
    ASSUME TypeInv, Answered, Truthful, pc = "checks", NEW c \in Selected,
           results[c] \notin Unanswered, Pending = {}, Regresses(c)
    PROVE  Worse(c)
  <1>1. c \in CheckIds /\ c \in Key
    BY CurrentCheck DEF Selected, TypeInv
  <1>2. results[c] = candidate[c]
    BY <1>1 DEF Answered, Pending, Unanswered
  <1>3. Honest(c, baseline) /\ base[c] \in {"pass", "old", "opaque"} /\ candidate[c] \in Answers
        /\ report[c] \in {"none", "old", "new"}
    BY <1>1, CatalogueAssumption DEF Truthful, TypeInv, TypeOK, Answers
  <1>4. candidate[c] # "pass"
    BY <1>2 DEF Regresses, StatusNow
  <1>5. TrueStatus(base[c]) = IF base[c] = "pass" THEN "PASS"
                              ELSE IF base[c] = "old" THEN "FAIL_OLD" ELSE "NO_SIGNAL"
    BY <1>3 DEF TrueStatus
  <1>6. CASE baseline[c] \in {"none", "PASS"}
    <2>1. base[c] = "pass"
      BY <1>3, <1>5, <1>6 DEF Honest
    <2> QED  BY <1>4, <2>1 DEF Worse
  <1>7. CASE baseline[c] = "FAIL_OLD" /\ StatusNow(c) # "FAIL_OLD"
    <2>1. base[c] = "old"
      BY <1>3, <1>5, <1>7 DEF Honest
    <2>2. candidate[c] # "old"
      BY <1>1, <1>2, <1>3, <1>7 DEF StatusNow, Named, Answered
    <2> QED  BY <1>3, <1>4, <2>1, <2>2 DEF Worse, Answers
  <1> QED  BY <1>6, <1>7 DEF Regresses

\* Every step keeps it.
LEMMA OldNext == TypeInv /\ AcceptInv /\ OldInv /\ [Next]_vars => OldInv'
  <1> SUFFICES ASSUME TypeInv, AcceptInv, OldInv, [Next]_vars PROVE OldInv' OBVIOUS
  <1> USE DEF At, Goto, Forget, world, durable, tree, memory, history
  <1>0. Truthful'
    BY TruthfulNext DEF OldInv
  <1>t. evidence.of \in Nat /\ version \in Nat
    BY ConstantTypes DEF TypeInv, TypeOK
  <1>1. CASE Edit \/ Abandon \/ Audit
    <2>1. version' = version + 1 /\ UNCHANGED evidence
      BY <1>1 DEF Edit, Abandon, Audit, Submit
    <2> QED  BY <1>0, <1>t, <2>1 DEF OldInv, OldFailuresPass
  <1>2. CASE StartGate
    BY <1>0, <1>2, <1>t DEF StartGate, NoEvidence, OldInv, OldFailuresPass
  <1>3. CASE JudgeGate
    <2>1. /\ pc = "checks" /\ Pending = {} /\ evidence' = GateEvidence
          /\ UNCHANGED <<base, candidate, version>>
      BY <1>3 DEF JudgeGate
    <2>2. \A c \in Regressions : Worse(c)
      BY <2>1, RegressionIsWorse DEF Regressions, AcceptInv, OldInv
    <2>3. /\ evidence'.of = version /\ evidence'.results = results
          /\ evidence'.failures = Infrastructure \cup Regressions
      BY <2>1 DEF GateEvidence
    <2>4. OldFailuresPass'
      BY <2>1, <2>2, <2>3 DEF OldFailuresPass, Infrastructure, Worse
    <2> QED  BY <1>0, <1>t, <2>1, <2>3, <2>4 DEF OldInv
  <1>4. CASE ~Edit /\ ~Abandon /\ ~Audit /\ ~StartGate /\ ~JudgeGate
    <2>1. UNCHANGED <<base, candidate, version, evidence>>
      BY <1>4 DEF Next, Drive, EvaluatePreflight, WaitForPreflight, PreflightsDone,
         LoadBaseline, MissBaseline, Capture, ForeignCapture, Answer, Fault, SideEffect,
         Restore, JudgeStep, Accept, Refuse, Stop, Resume, vars
    <2> QED  BY <1>0, <2>1 DEF OldInv, OldFailuresPass, Worse
  <1> QED  BY <1>1, <1>2, <1>3, <1>4

\* For every catalogue, number of runs that share the baseline and number of
\* stops, a gate holds no failure against the run that the base commit already
\* had: whatever a capture lost, a red check is worse or gave no answer.
THEOREM GateForgivesOldFailures == Spec => []OldFailuresPass
  <1>1. OldInv => OldFailuresPass
    BY DEF OldInv
  <1> QED  BY <1>1, OldInit, OldNext, AcceptAlways, TypeAlways, PTL DEF Spec

-----------------------------------------------------------------------------
(* The bound on executions.  Every tree submitted and every stop pays for   *)
(* one gate, and a gate needs at most two executions of a check, one more   *)
(* after each side effect; a retry after a fault is paid by the durable     *)
(* counter.  Credit is what was paid and not used yet.                      *)

\* What the gate may still need of the watched check.
Left == IF Watched \notin Pending THEN 0
        ELSE IF Watched # Least(Pending) THEN 2
        ELSE (IF sided = "no" THEN 2 ELSE 1) - (IF pc = "restore" THEN 1 ELSE 0)

Credit == IF pc = "stopped" THEN 2
          ELSE IF place = "bootstrap" \/ pc \in {"work", "judged"} \cup Resting THEN 0
          ELSE IF place = "gate" /\ pc \in {"checks", "restore"} THEN Left
          ELSE 2

Paid == executions + Credit <= 2 * (version + stops) + counter[Watched]

\* A candidate owes at most two executions of the watched check.
LEMMA CreditRange ==
    ASSUME TypeOK
    PROVE  Left \in 0 .. 2 /\ Credit \in 0 .. 2
  BY DEF Left, Credit, TypeOK

\* The numbers the count speaks of are numbers.
LEMMA NumberTypes ==
    ASSUME TypeOK
    PROVE  /\ executions \in Nat /\ version \in Nat /\ stops \in Nat
           /\ counter[Watched] \in Nat /\ counter[Watched] <= Attempts /\ Attempts \in Nat
  BY ConstantTypes DEF TypeOK

\* It holds of a candidate nobody has judged yet.
LEMMA PaidInit == Init => Paid
  BY ConstantTypes DEF Init, Paid, Credit

\* A check of the gate that comes to a result leaves no need of its own, and
\* nobody else's grows.
LEMMA FinishUsesCredit ==
    ASSUME TypeInv, Pending # {}, NEW r, r # "none", Finish(Least(Pending), r),
           UNCHANGED <<verdict, place>>
    PROVE  /\ Watched = Least(Pending) => Left' = 0
           /\ Watched # Least(Pending) => Left' <= Left
  <1> DEFINE c == Least(Pending)
  <1>1. c \in Pending /\ c \in CheckIds
    BY CurrentCheck DEF TypeInv
  <1>2. results' = [results EXCEPT ![c] = r] /\ sided' = "no" /\ Selected' = Selected
    BY DEF Finish, Selected, Key, Skipped
  <1> HIDE DEF c
  <1>3. Pending' = Pending \ {c}
    BY <1>1, <1>2, CurrentCheck DEF Pending, TypeInv, TypeOK, Results
  <1>4. Watched = c => Left' = 0
    BY <1>3 DEF Left
  <1>5. Watched # c /\ Watched \notin Pending => Left' = 0
    BY <1>3 DEF Left
  <1>6. Watched # c /\ Watched \in Pending => Left = 2
    BY DEF Left, c
  <1>7. Left' \in {0, 1, 2} /\ Left \in 0 .. 2
    BY <1>2, CreditRange DEF Left, TypeInv
  <1> QED  BY <1>4, <1>5, <1>6, <1>7 DEF c

\* The operations of a gate on its current check.
LEMMA ChecksUseCredit ==
    ASSUME TypeInv, place = "gate", Answer \/ Fault \/ SideEffect \/ Restore
    PROVE  /\ UNCHANGED <<version, stops>>
           /\ executions' + Credit' - counter'[Watched] <= executions + Credit - counter[Watched]
  <1> DEFINE c == Least(Pending)
             Ran == \/ executions' = executions
                    \/ executions' = executions + 1 /\ c = Watched
  <1> USE DEF At, Goto, world, durable, tree, memory, history
  <1>1. /\ c \in CheckIds /\ c \in Pending /\ Pending # {} /\ place' = "gate"
        /\ UNCHANGED <<verdict, version, stops>> /\ pc \in {"checks", "restore"}
    BY CurrentCheck DEF TypeInv, Placed, Answer, Fault, SideEffect, Restore
  <1>2. /\ executions \in Nat /\ counter \in [CheckIds -> Nat] /\ sided \in {"no", "yes"}
        /\ Watched \in CheckIds /\ Left \in 0 .. 2 /\ Left' \in Int
    <2>1. sided' \in {"no", "yes"} => Left' \in 0 .. 2
      BY DEF Left
    <2>2. sided' \in {"no", "yes"}
      BY DEF Answer, Fault, SideEffect, Restore, Finish, TypeInv, TypeOK
    <2> QED  BY <2>1, <2>2, ConstantTypes, NumberTypes, CreditRange DEF TypeInv, TypeOK
  <1>3. Credit = Left /\ (pc' \in {"checks", "restore"} => Credit' = Left')
    BY <1>1 DEF Credit, Resting
  <1>4. (Answer \/ Fault \/ SideEffect) => pc = "checks" /\ Ran
    <2>1. Executed(c) => Ran
      BY DEF Executed
    <2> QED  BY <2>1 DEF Answer, Fault, SideEffect
  <1>5. Watched = c => Left = (IF sided = "no" THEN 2 ELSE 1) - (IF pc = "restore" THEN 1 ELSE 0)
    BY <1>1 DEF Left
  <1>6. CASE Answer
    <2>1. Finish(c, candidate[c]) /\ candidate[c] # "none" /\ UNCHANGED <<counter, pc>>
      BY <1>1, <1>6 DEF Answer, TypeInv, TypeOK, Answers
    <2>2. /\ Watched = c => Left' = 0
          /\ Watched # c => Left' <= Left
      BY <1>1, <2>1, FinishUsesCredit
    <2> QED  BY <1>1, <1>2, <1>3, <1>4, <1>5, <1>6, <2>1, <2>2
  <1>7. CASE Fault /\ counter[c] < Attempts
    <2>1. counter' = [counter EXCEPT ![c] = @ + 1] /\ UNCHANGED <<results, sided, pc>>
      BY <1>7 DEF Fault
    <2>2. Left' = Left
      BY <1>1, <2>1 DEF Left, Pending, Selected, Key, Skipped
    <2> QED  BY <1>1, <1>2, <1>3, <1>4, <1>7, <2>1, <2>2
  <1>8. CASE Fault /\ ~(counter[c] < Attempts)
    <2>1. Finish(c, "fault") /\ UNCHANGED <<counter, pc>>
      BY <1>8 DEF Fault
    <2>2. /\ Watched = c => Left' = 0
          /\ Watched # c => Left' <= Left
      BY <1>1, <2>1, FinishUsesCredit
    <2> QED  BY <1>1, <1>2, <1>3, <1>4, <1>5, <1>8, <2>1, <2>2
  <1>9. CASE SideEffect
    <2>1. UNCHANGED <<results, sided, counter>> /\ pc' = "restore"
      BY <1>9 DEF SideEffect
    <2>2. Pending' = Pending
      BY <1>1, <2>1 DEF Pending, Selected, Key, Skipped
    <2>3. /\ Watched = c => Left' = Left - 1
          /\ Watched # c => Left' = Left
      BY <1>1, <1>2, <1>4, <1>9, <2>1, <2>2 DEF Left
    <2> QED  BY <1>1, <1>2, <1>3, <1>4, <1>9, <2>1, <2>3
  <1>10. CASE Restore
    <2>1. pc = "restore" /\ UNCHANGED <<counter, executions>>
      BY <1>10 DEF Restore
    <2>2. CASE pc' = "failed"
      BY <1>1, <1>2, <1>3, <2>1, <2>2 DEF Credit, Resting
    <2>3. CASE sided = "no" /\ pc' = "checks"
      <3>1. sided' = "yes" /\ UNCHANGED results
        BY <1>10, <2>3 DEF Restore
      <3>2. Pending' = Pending
        BY <1>1, <3>1 DEF Pending, Selected, Key, Skipped
      <3>3. Left' <= Left
        BY <1>1, <1>2, <2>1, <2>3, <3>1, <3>2 DEF Left
      <3> QED  BY <1>1, <1>2, <1>3, <2>1, <2>3, <3>3
    <2>4. CASE sided = "yes" /\ pc' = "checks"
      <3>1. Finish(c, "side")
        BY <1>10, <2>4 DEF Restore
      <3>2. /\ Watched = c => Left' = 0
            /\ Watched # c => Left' <= Left
        BY <1>1, <3>1, FinishUsesCredit
      <3> QED  BY <1>1, <1>2, <1>3, <1>5, <2>1, <2>4, <3>2
    <2> QED  BY <1>2, <1>10, <2>2, <2>3, <2>4 DEF Restore
  <1> QED  BY <1>1, <1>6, <1>7, <1>8, <1>9, <1>10

\* Every step keeps it.
LEMMA PaidNext == TypeInv /\ TypeInv' /\ Paid /\ [Next]_vars => Paid'
  <1> SUFFICES ASSUME TypeInv, TypeInv', Paid, [Next]_vars PROVE Paid' OBVIOUS
  <1> USE DEF At, Goto, Forget, world, durable, tree, memory, history
  <1>t. /\ executions \in Nat /\ version \in Nat /\ stops \in Nat /\ counter[Watched] \in Nat
        /\ Left \in 0 .. 2 /\ Credit \in 0 .. 2
        /\ executions' \in Nat /\ counter'[Watched] \in Nat /\ Credit' \in 0 .. 2
    <2>1. executions' \in Nat /\ counter'[Watched] \in Nat
      BY ConstantTypes DEF TypeInv, TypeOK
    <2>2. sided' \in {"no", "yes"}
      BY DEF TypeInv, TypeOK
    <2>3. Left' \in 0 .. 2
      BY <2>2 DEF Left
    <2>4. Credit' \in 0 .. 2
      BY <2>3 DEF Credit
    <2> QED  BY <2>1, <2>4, NumberTypes, CreditRange DEF TypeInv
  <1>1. ASSUME UNCHANGED <<executions, version, stops, counter>>, Credit' <= Credit
        PROVE  Paid'
    BY <1>t, <1>1 DEF Paid
  <1>2. ASSUME UNCHANGED <<executions, counter>>, version' + stops' = version + stops + 1
        PROVE  Paid'
    BY <1>t, <1>2, NumberTypes DEF Paid, TypeInv
  <1>3. CASE EvaluatePreflight \/ WaitForPreflight \/ PreflightsDone
    <2>1. Credit' = 0 /\ UNCHANGED <<executions, version, stops, counter>>
      BY <1>3 DEF EvaluatePreflight, WaitForPreflight, PreflightsDone, TypeInv, Placed,
         Credit, Resting
    <2> QED  BY <1>1, <1>t, <2>1
  <1>4. CASE LoadBaseline \/ Capture
    <2>1. UNCHANGED <<executions, version, stops, counter>>
      BY <1>4 DEF LoadBaseline, Capture, Established
    <2>2. CASE place = "bootstrap"
      <3>1. Credit' = 0
        BY <1>4, <2>2 DEF LoadBaseline, Capture, Established, Credit, Resting
      <3> QED  BY <1>1, <1>t, <2>1, <3>1
    <2>3. CASE place # "bootstrap"
      <3>1. Credit = 2
        BY <1>4, <2>3 DEF LoadBaseline, Capture, Credit, Resting
      <3> QED  BY <1>1, <1>t, <2>1, <3>1
    <2> QED  BY <2>2, <2>3
  <1>5. CASE MissBaseline \/ ForeignCapture \/ StartGate
    <2>1. /\ UNCHANGED <<executions, version, stops, counter, place>>
          /\ pc \in {"baseline", "capture", "gate"} /\ pc' \in {"baseline", "capture"}
      BY <1>5 DEF MissBaseline, ForeignCapture, StartGate
    <2>2. Credit' = Credit
      BY <2>1 DEF Credit, Resting
    <2> QED  BY <1>1, <1>t, <2>1, <2>2
  <1>6. CASE Answer \/ Fault \/ SideEffect \/ Restore
    <2>1. CASE place = "gate"
      BY <1>6, <1>t, <2>1, ChecksUseCredit, NumberTypes DEF Paid, TypeInv
    <2>2. CASE place # "gate"
      <3>1. UNCHANGED <<executions, version, stops, counter>>
        BY <1>6, <2>2 DEF Answer, Fault, SideEffect, Restore, Executed
      <3>2. Credit = 2
        BY <1>6, <2>2 DEF Answer, Fault, SideEffect, Restore, Credit, Resting, TypeInv, Placed
      <3> QED  BY <1>1, <1>t, <3>1, <3>2
    <2> QED  BY <2>1, <2>2
  <1>7. CASE Edit \/ Abandon \/ Audit
    BY <1>2, <1>7, <1>t DEF Edit, Abandon, Audit, Submit
  <1>8. CASE JudgeStep \/ JudgeGate
    <2>1. UNCHANGED <<executions, version, stops, counter>>
      BY <1>8 DEF JudgeStep, JudgeGate
    <2>2. CASE JudgeStep
      <3>1. Credit = 2
        BY <2>2 DEF JudgeStep, Credit, Resting
      <3> QED  BY <1>1, <1>t, <2>1, <3>1
    <2>3. CASE JudgeGate
      <3>1. Credit' = 0
        BY <2>3 DEF JudgeGate, Credit, Resting
      <3> QED  BY <1>1, <1>t, <2>1, <3>1
    <2> QED  BY <1>8, <2>2, <2>3
  <1>9. CASE Accept \/ Refuse
    <2>1. Credit' = 0 /\ UNCHANGED <<executions, version, stops, counter>>
      BY <1>9 DEF Accept, Refuse, Credit, Resting
    <2> QED  BY <1>1, <1>t, <2>1
  <1>10. CASE Stop
    BY <1>2, <1>10, <1>t DEF Stop
  <1>11. CASE Resume
    <2>1. CASE UNCHANGED stops /\ pc = "stopped"
      <3>1. Credit = 2 /\ UNCHANGED <<executions, version, stops, counter>>
        BY <1>11, <2>1 DEF Resume, Credit
      <3> QED  BY <1>1, <1>t, <3>1
    <2>2. CASE stops' = stops + 1
      BY <1>2, <1>11, <1>t, <2>2 DEF Resume
    <2> QED  BY <1>11, <2>1, <2>2 DEF Resume
  <1>12. CASE UNCHANGED vars
    <2>1. Credit' = Credit /\ UNCHANGED <<executions, version, stops, counter>>
      BY <1>12 DEF vars, Credit, Left, Pending, Selected, Key, Skipped
    <2> QED  BY <1>1, <1>t, <2>1
  <1> QED
    BY <1>3, <1>4, <1>5, <1>6, <1>7, <1>8, <1>9, <1>10, <1>11, <1>12 DEF Next, Drive

\* For every catalogue, retry budget and number of stops, all launches of the
\* run together execute a check at most twice for each gate they start, and
\* step_attempts times more (check_infrastructure_retries, the durable counter).
THEOREM ChecksAreBounded == Spec => []ChecksBounded
  <1>1. TypeInv /\ Paid => ChecksBounded
    BY NumberTypes, CreditRange DEF TypeInv, Paid, ChecksBounded
  <1> QED  BY <1>1, PaidInit, PaidNext, TypeAlways, PTL DEF Spec

-----------------------------------------------------------------------------
(* Descent.  A driver walks through the trees it submits; for each through  *)
(* the stages of its place; a stage of checks or of preflights goes from    *)
(* one to the next; and a check is tried again after a fault, then after a  *)
(* side effect.                                                             *)

\* The trees a driver may still submit, none when there is no driver.  The bound
\* on them stands for the budgets of the step's ladder and of the audits.
Distance == IF pc \in Resting THEN 0 ELSE 2 + MaxCandidates - version

\* The stages in their order: bootstrap, then the fast gate of the step, which
\* goes back to the step or on, then the authoritative gate.
Stage ==
    IF      pc \in Resting                 THEN 0
    ELSE IF pc = "judged"                  THEN 1
    ELSE IF pc \in {"checks", "restore"}   THEN IF place = "gate" THEN 2 ELSE 7
    ELSE IF pc = "capture"                 THEN IF place = "gate" THEN 3
                                                ELSE IF place = "work" THEN 8 ELSE 10
    ELSE IF pc = "baseline"                THEN IF place = "gate" THEN 4
                                                ELSE IF place = "work" THEN 9 ELSE 11
    ELSE IF pc = "gate"                    THEN 5
    ELSE IF pc = "work"                    THEN 6
    ELSE 12

Open == Cardinality(IF pc = "preflight" THEN Unevaluated
                    ELSE IF pc \in {"checks", "restore"} THEN Pending ELSE {})

\* What the current check may still be tried again for: faults, paid by the
\* durable counter, and the one restored side effect.
Faults == IF pc \in {"checks", "restore"} /\ Pending # {}
          THEN Attempts - counter[Least(Pending)] ELSE 0
Sides  == (IF sided = "no" THEN 2 ELSE 0) + (IF pc = "checks" THEN 1 ELSE 0)

Descends ==
    \/ Distance' < Distance
    \/ /\ Distance' = Distance
       /\ \/ Stage' < Stage
          \/ /\ Stage' = Stage
             /\ \/ Open' < Open
                \/ /\ Open' = Open
                   /\ \/ Faults' < Faults
                      \/ Faults' = Faults /\ Sides' < Sides

\* Without one of its members a set of checks is smaller.
LEMMA Smaller ==
    ASSUME NEW S \in SUBSET CheckIds
    PROVE  /\ IsFiniteSet(S) /\ Cardinality(S) \in Nat
           /\ \A c \in S : Cardinality(S \ {c}) < Cardinality(S)
  <1>1. IsFiniteSet(CheckIds)
    BY CatalogueAssumption, FS_Interval DEF CheckIds
  <1>2. IsFiniteSet(S) /\ Cardinality(S) \in Nat
    BY <1>1, FS_Subset, FS_CardinalityType
  <1>3. ASSUME NEW c \in S PROVE Cardinality(S \ {c}) < Cardinality(S)
    <2>1. Cardinality(S \ {c}) = Cardinality(S) - 1
      BY <1>2, <1>3, FS_RemoveElement, Zenon
    <2> QED  BY <1>2, <2>1
  <1> QED  BY <1>2, <1>3

\* The order is that of five natural numbers.
LEMMA Measured ==
    ASSUME TypeInv
    PROVE  /\ Distance \in Nat /\ Stage \in Nat /\ Open \in Nat
           /\ Faults \in Nat /\ Sides \in Nat
  <1>1. Distance \in Nat
    BY ConstantTypes DEF TypeInv, TypeOK, Distance
  <1>2. Stage \in Nat /\ Sides \in Nat
    BY DEF Stage, Sides
  <1>3. Open \in Nat
    <2>1. Unevaluated \in SUBSET CheckIds /\ Pending \in SUBSET CheckIds
      BY CurrentCheck, ConstantTypes DEF TypeInv
    <2> QED  BY <2>1, Smaller, FS_EmptySet DEF Open
  <1>4. Faults \in Nat
    <2>1. CASE Pending # {}
      <3>1. Least(Pending) \in CheckIds
        BY <2>1, CurrentCheck DEF TypeInv
      <3> QED  BY <3>1, ConstantTypes DEF TypeInv, TypeOK, Faults
    <2> QED  BY <2>1 DEF Faults
  <1> QED  BY <1>1, <1>2, <1>3, <1>4

\* A driver that comes to rest descends,
LEMMA RestingDescends ==
    ASSUME TypeInv, pc \notin Resting, pc' \in Resting
    PROVE  Descends
  <1>1. Distance > 0 /\ Distance' = 0
    BY ConstantTypes DEF TypeInv, TypeOK, Distance
  <1> QED  BY <1>1 DEF Descends

\* one that submits a tree,
LEMMA SubmitDescends ==
    ASSUME TypeInv, pc \notin Resting, pc' \notin Resting, version' = version + 1
    PROVE  Descends
  <1>1. Distance' < Distance
    BY ConstantTypes DEF TypeInv, TypeOK, Distance
  <1> QED  BY <1>1 DEF Descends

\* and one that goes on to a later stage.
LEMMA StageDescends ==
    ASSUME pc \notin Resting, pc' \notin Resting, version' = version, Stage' < Stage
    PROVE  Descends
  <1>1. Distance' = Distance
    BY DEF Distance
  <1> QED  BY <1>1 DEF Descends

\* A check that has its result is not open any more.
LEMMA FinishDescends ==
    ASSUME TypeInv, pc \in {"checks", "restore"}, pc' = "checks", Pending # {},
           NEW r, r # "none", Finish(Least(Pending), r), UNCHANGED <<verdict, place, version>>
    PROVE  Descends
  <1> DEFINE c == Least(Pending)
  <1>1. c \in Pending /\ Pending \in SUBSET CheckIds
    BY CurrentCheck DEF TypeInv
  <1>2. results' = [results EXCEPT ![c] = r] /\ Selected' = Selected
    BY DEF Finish, Selected, Key, Skipped
  <1> HIDE DEF c
  <1>3. Pending' = Pending \ {c}
    BY <1>1, <1>2 DEF Pending, TypeInv, TypeOK, Results
  <1>4. Cardinality(Pending \ {c}) < Cardinality(Pending)
    BY <1>1, Smaller
  <1>5. Open' < Open
    BY <1>3, <1>4 DEF Open
  <1>6. Distance' = Distance /\ Stage' = Stage
    BY DEF Distance, Stage, Resting
  <1> QED  BY <1>5, <1>6 DEF Descends

\* Every step of a driver, and every stop, is one of these, evaluates one
\* preflight, or pays for another try of a check.
LEMMA DriverSteps ==
    ASSUME TypeInv, Drive \/ Stop
    PROVE  Descends
  <1> USE DEF At, Goto, world, durable, tree, memory, history
  <1>1. CASE EvaluatePreflight
    <2> DEFINE c == Least(Unevaluated)
    <2>1. c \in Unevaluated /\ Unevaluated \in SUBSET CheckIds /\ c \in CheckIds
      BY <1>1, CurrentCheck, ConstantTypes DEF EvaluatePreflight, TypeInv
    <2>2. CASE pc' = "failed"
      BY <1>1, <2>2, RestingDescends DEF EvaluatePreflight, Resting
    <2>3. CASE pc' = pc
      <3>1. /\ pc = "preflight" /\ UNCHANGED <<version, place>>
            /\ \E v \in {"PASS", "FAIL"} : verdict' = [verdict EXCEPT ![c] = v]
        BY <1>1, <2>3 DEF EvaluatePreflight
      <3> HIDE DEF c
      <3>2. Unevaluated' = Unevaluated \ {c}
        BY <2>1, <3>1, ConstantTypes DEF Unevaluated, TypeInv, TypeOK
      <3>3. Cardinality(Unevaluated \ {c}) < Cardinality(Unevaluated)
        BY <2>1, Smaller
      <3>4. Open' < Open
        BY <2>3, <3>1, <3>2, <3>3 DEF Open
      <3>5. Distance' = Distance /\ Stage' = Stage
        BY <2>3, <3>1 DEF Distance, Stage
      <3> QED  BY <3>4, <3>5 DEF Descends
    <2> QED  BY <1>1, <2>2, <2>3 DEF EvaluatePreflight
  <1>2. CASE WaitForPreflight \/ Accept \/ Refuse \/ Stop
    BY <1>2, RestingDescends DEF WaitForPreflight, Accept, Refuse, Stop, Resting
  <1>3. CASE PreflightsDone
    BY <1>3, StageDescends DEF PreflightsDone, Resting, Stage
  <1>4. CASE LoadBaseline \/ Capture
    <2>1. /\ pc \in {"baseline", "capture"} /\ version' = version
          /\ \/ place = "bootstrap" /\ pc' = "work"
             \/ place # "bootstrap" /\ pc' = "checks" /\ place' = place
      BY <1>4 DEF LoadBaseline, Capture, Established
    <2> QED  BY <2>1, StageDescends DEF Resting, Stage, TypeInv, TypeOK
  <1>5. CASE MissBaseline \/ StartGate
    BY <1>5, StageDescends DEF MissBaseline, StartGate, Resting, Stage, TypeInv, Placed
  <1>6. CASE Edit \/ Abandon \/ Audit
    BY <1>6, SubmitDescends DEF Edit, Abandon, Audit, Submit, Resting
  <1>7. CASE JudgeStep
    BY <1>7, StageDescends DEF JudgeStep, Resting, Stage
  <1>8. CASE JudgeGate
    BY <1>8, RestingDescends, StageDescends DEF JudgeGate, Resting, Stage
  <1>9. CASE Answer
    <2>1. Least(Pending) \in CheckIds
      BY <1>9, CurrentCheck DEF Answer, TypeInv
    <2>2. candidate[Least(Pending)] # "none"
      BY <2>1 DEF TypeInv, TypeOK, Answers
    <2> QED  BY <1>9, <2>2, FinishDescends DEF Answer
  <1>10. CASE Fault
    <2> DEFINE c == Least(Pending)
    <2>1. c \in CheckIds /\ pc = "checks" /\ pc' = "checks" /\ Pending # {}
          /\ UNCHANGED <<place, verdict, version>>
      BY <1>10, CurrentCheck DEF Fault, TypeInv
    <2>2. CASE place = "gate" /\ counter[c] < Attempts
      <3>1. counter' = [counter EXCEPT ![c] = @ + 1] /\ UNCHANGED <<results, sided>>
        BY <1>10, <2>2 DEF Fault
      <3>2. Pending' = Pending
        BY <2>1, <3>1 DEF Pending, Selected, Key, Skipped
      <3>3. Distance' = Distance /\ Stage' = Stage /\ Open' = Open
        BY <2>1, <3>2 DEF Distance, Stage, Open
      <3>4. counter'[c] = counter[c] + 1 /\ counter[c] \in Nat /\ Attempts \in Nat
        BY <2>1, <3>1, ConstantTypes DEF TypeInv, TypeOK
      <3>5. Faults' < Faults
        BY <2>1, <3>2, <3>4 DEF Faults
      <3> QED  BY <3>3, <3>5 DEF Descends
    <2>3. CASE ~(place = "gate" /\ counter[c] < Attempts)
      BY <1>10, <2>1, <2>3, FinishDescends DEF Fault
    <2> QED  BY <2>2, <2>3
  <1>11. CASE SideEffect
    <2>1. /\ pc = "checks" /\ pc' = "restore" /\ Pending # {}
          /\ UNCHANGED <<place, verdict, version, results, sided, counter>>
      BY <1>11 DEF SideEffect
    <2>2. Pending' = Pending
      BY <2>1 DEF Pending, Selected, Key, Skipped
    <2>3. Distance' = Distance /\ Stage' = Stage /\ Open' = Open /\ Faults' = Faults
      BY <2>1, <2>2 DEF Distance, Stage, Open, Faults, Resting
    <2>4. Sides' < Sides
      BY <2>1 DEF Sides
    <2> QED  BY <2>3, <2>4 DEF Descends
  <1>12. CASE Restore
    <2>1. pc = "restore" /\ Pending # {} /\ UNCHANGED <<place, verdict, version, counter>>
      BY <1>12 DEF Restore, TypeInv, Placed
    <2>2. CASE pc' = "failed"
      BY <2>1, <2>2, RestingDescends DEF Resting
    <2>3. CASE pc' = "checks" /\ sided = "no"
      <3>1. sided' = "yes" /\ UNCHANGED results
        BY <1>12, <2>3 DEF Restore
      <3>2. Pending' = Pending
        BY <2>1, <3>1 DEF Pending, Selected, Key, Skipped
      <3>3. Distance' = Distance /\ Stage' = Stage /\ Open' = Open /\ Faults' = Faults
        BY <2>1, <2>3, <3>2 DEF Distance, Stage, Open, Faults, Resting
      <3>4. Sides' < Sides
        BY <2>1, <2>3, <3>1 DEF Sides
      <3> QED  BY <3>3, <3>4 DEF Descends
    <2>4. CASE pc' = "checks" /\ sided # "no"
      <3>1. Finish(Least(Pending), "side")
        BY <1>12, <2>4 DEF Restore
      <3> QED  BY <2>1, <2>4, <3>1, FinishDescends
    <2> QED  BY <1>12, <2>2, <2>3, <2>4 DEF Restore
  <1> QED
    BY <1>1, <1>2, <1>3, <1>4, <1>5, <1>6, <1>7, <1>8, <1>9, <1>10, <1>11, <1>12 DEF Drive

\* A driver takes finitely many steps, whatever the checks, the captures and the
\* other runs do: each lowers five natural numbers in their lexicographic
\* order, and only a resume raises them.  What GateEnds adds is that a driver
\* that is not at rest has a step to take (run_checks, run_gate).
THEOREM DriversDescend ==
    Spec => /\ [](/\ Distance \in Nat /\ Stage \in Nat /\ Open \in Nat
                  /\ Faults \in Nat /\ Sides \in Nat)
            /\ [][Drive \/ Stop => Descends]_vars
            /\ [][~Resume => Descends \/ UNCHANGED <<Distance, Stage, Open, Faults, Sides>>]_vars
  <1> DEFINE Natural == /\ Distance \in Nat /\ Stage \in Nat /\ Open \in Nat
                        /\ Faults \in Nat /\ Sides \in Nat
  <1>1. TypeInv => Natural
    BY Measured
  <1>2. TypeInv /\ [Next]_vars => [Drive \/ Stop => Descends]_vars
    BY DriverSteps
  <1>3. TypeInv /\ [Next]_vars
          => [~Resume => Descends \/ UNCHANGED <<Distance, Stage, Open, Faults, Sides>>]_vars
    <2>1. ForeignCapture => UNCHANGED <<Distance, Stage, Open, Faults, Sides>>
      <3> SUFFICES ASSUME ForeignCapture
                   PROVE  UNCHANGED <<Distance, Stage, Open, Faults, Sides>>
        OBVIOUS
      <3>1. UNCHANGED <<pc, place, version, verdict, results, sided, counter>>
        BY DEF ForeignCapture, tree, memory
      <3>2. Pending' = Pending /\ Unevaluated' = Unevaluated
        BY <3>1 DEF Pending, Selected, Key, Skipped, Unevaluated
      <3> QED  BY <3>1, <3>2 DEF Distance, Stage, Open, Faults, Sides
    <2> QED  BY <2>1, DriverSteps DEF Next
  <1> QED  BY <1>1, <1>2, <1>3, TypeAlways, PTL DEF Spec
=============================================================================
