------------------------- MODULE PreparationProofs -------------------------
(***************************************************************************)
(* Proofs about a run before its first step: what the planner may spend,   *)
(* and that the first step runs what was planned, offered and bound, for   *)
(* every budget, horizon and number of stops, resumes, faults and edits.   *)
(***************************************************************************)
EXTENDS Preparation, SequenceTheorems, TLAPS

-----------------------------------------------------------------------------
(* Types, by the part of the state an action leaves alone.                 *)

\* The files of the exchange.
ExchangeType ==
    /\ root \subseteq Files /\ answer \in Answers \cup {"none"}
    /\ session \in [latest : Nat, handle : {"none", "known", "changed"}]
    /\ archive \in Seq(SUBSET Files)

\* The state file, and the driver's memory; what becomes of a conversation is
\* what its session records.
DriverType ==
    /\ checkpoint \in Phases
    /\ disposition \in {"RUNNING", "WAIT_EXTERNAL", "WAIT_HUMAN", "FAILED", "COMPLETED"}
    /\ clock \in Nat /\ tries \in Nat /\ delay \in Nat
    /\ answered \in Nat /\ resumes \in 0 .. MaxResumes
    /\ pc = "session" => held \in {"none", "known", "changed"}

\* A driver's configuration is a version the TOML has had.
WorldType ==
    /\ gated \in Gates /\ faults \in 0 .. MaxFaults
    /\ toml \in [checks : 1 .. Tomls, profiles : 1 .. Tomls]
    /\ config \in [checks : 1 .. Tomls, profiles : 1 .. Tomls]
    /\ config.checks <= toml.checks /\ config.profiles <= toml.profiles

\* The plan and what it is bound to.
BoundType ==
    /\ plan \in 0 .. toml.checks /\ authority \in 0 .. toml.checks
    /\ selection \in 0 .. toml.profiles /\ desk \in {"idle", "chosen", "approved"}

\* The worktree and the issue.
SiteType ==
    /\ worktree \in {"none", "clean", "dirty"} /\ setups \in 0 .. Attempts
    /\ wanted \in Issues /\ opened \in Nat /\ issue \in 0 .. opened

TypeInv == ExchangeType /\ DriverType /\ WorldType /\ BoundType /\ SiteType

\* The parts say the module's type invariant.
LEMMA TypeParts == TypeInv => TypeOK
  BY DEF TypeInv, ExchangeType, DriverType, WorldType, BoundType, SiteType, TypeOK

\* The numbers the constants allow.
LEMMA ConstantTypes ==
    /\ Attempts \in Nat /\ Attempts > 0 /\ MaxResumes \in Nat /\ MaxFaults \in Nat
    /\ Horizon \in Nat /\ Horizon > 0 /\ MinUseful \in Nat /\ MinUseful > 0
    /\ FirstDelay \in Nat /\ LastDelay \in Nat
    /\ Durations \subseteq Nat /\ Hints \subseteq Nat
    /\ Tomls \in Nat /\ Tomls > 0
  BY BudgetAssumption, TimeAssumption, EditAssumption

\* A wait is a number of ticks, and none goes past the horizon.
LEMMA WaitTypes ==
    ASSUME delay \in Nat
    PROVE  /\ Waits \subseteq Nat
           /\ \A e \in Nat, w \in Nat : Clipped(e, w) \in Nat
  <1>2. \A n \in Nat : n \div 5 \in Nat
    OBVIOUS
  <1>3. (4 * delay) \div 5 \in Nat
    BY <1>2
  <1>4. Jitter(delay) \subseteq Nat
    BY <1>3 DEF Jitter
  <1>5. Waits \subseteq Nat
    BY <1>4, ConstantTypes DEF Waits
  <1>6. \A e \in Nat, w \in Nat : Clipped(e, w) \in Nat
    BY ConstantTypes DEF Clipped, Least
  <1> QED  BY <1>5, <1>6

\* The run starts typed.
LEMMA TypeInit == Init => TypeInv
  BY ConstantTypes
     DEF Init, PlannerInit, TypeInv, ExchangeType, DriverType, WorldType, BoundType, SiteType,
         Files, Phases

\* Moving a file makes no directory, and one of the three files arrives.
LEMMA MovedFile ==
    ASSUME ExchangeType, MoveFile
    PROVE  archive' \in Seq(SUBSET Files) /\ Len(archive') = Len(archive)
  <1>1. archive' = [archive EXCEPT ![Len(archive)] = @ \cup {Archived}]
    BY DEF MoveFile
  <1>2. archive \in [1 .. Len(archive) -> SUBSET Files] /\ Len(archive) \in Nat
    BY DEF ExchangeType
  <1>3. Archived \in Files
    BY DEF Archived, Files
  <1>4. archive' \in [1 .. Len(archive) -> SUBSET Files]
    BY <1>1, <1>2, <1>3
  <1>5. archive' \in Seq(SUBSET Files)
    BY <1>2, <1>4, SeqDef
  <1> QED  BY <1>2, <1>4, <1>5

\* Every action of the run leaves the files of the exchange typed.
LEMMA ExchangeNext == ExchangeType /\ DriverType /\ [Next]_vars => ExchangeType'
  <1> SUFFICES ASSUME ExchangeType, DriverType, [Next]_vars PROVE ExchangeType' OBVIOUS
  <1> USE DEF ExchangeType, exchange
  <1>1. ASSUME UNCHANGED exchange PROVE ExchangeType'
    BY <1>1
  <1>2. CASE Ask
    BY <1>2, <1>1 DEF Ask, Files, Escape
  <1>3. CASE WriteAnswer
    BY <1>3 DEF WriteAnswer, Files
  <1>4. CASE WriteSession
    BY <1>4 DEF WriteSession, Attempt, DriverType, At
  <1>5. CASE Judge
    BY <1>5 DEF Judge, Files
  <1>6. CASE MakeAttempt
    BY <1>6 DEF MakeAttempt
  <1>7. CASE MoveFile
    BY <1>7, MovedFile DEF MoveFile
  <1>8. CASE Reread \/ Continue \/ Rejected \/ LoopExhausted
    BY <1>8, <1>1 DEF Reread, Continue, Rejected, LoopExhausted, Escape
  <1>9. CASE BuildContext \/ EnterPlan \/ OutOfTime \/ Answer \/ Retry \/ GiveUp \/ Refuse
    BY <1>9, <1>1 DEF BuildContext, EnterPlan, OutOfTime, Answer, Retry, GiveUp, Refuse, Escape
  <1>10. CASE \/ PublishPlan \/ FreezeChecks \/ BindIdentity \/ OfferPlan
              \/ SelectProfiles \/ AwaitApproval \/ BindSelection
    BY <1>10, <1>1 DEF PublishPlan, FreezeChecks, BindIdentity, OfferPlan, SelectProfiles,
       AwaitApproval, BindSelection, Escape
  <1>11. CASE \/ EnterSetup \/ CreateWorktree \/ OpenIssue \/ RecordIssue \/ RunSetup
              \/ FinishSetup \/ FailSetup \/ GitFails \/ Stop \/ Resume
    BY <1>11, <1>1 DEF EnterSetup, CreateWorktree, OpenIssue, RecordIssue, RunSetup,
       FinishSetup, FailSetup, GitFails, Stop, Resume, Escape
  <1>12. CASE Reject \/ ChooseProfiles \/ Approve \/ RecordDecision \/ LoseRequest \/ EditToml
    BY <1>12, <1>1 DEF Reject, ChooseProfiles, Approve, RecordDecision, LoseRequest, EditToml,
       plannerVars
  <1>13. CASE UNCHANGED vars
    BY <1>13, <1>1 DEF vars, plannerVars
  <1>14. CASE LeaveSetup
    BY <1>14, <1>1 DEF LeaveSetup, SetupOutOfTime, EscapeContainment, FailPreflight, Escape
  <1> QED
    BY <1>2, <1>3, <1>4, <1>5, <1>6, <1>7, <1>8, <1>9, <1>10, <1>11, <1>12, <1>13, <1>14
       DEF Next, Drive, PlannerStep

\* The state file and the driver's memory keep their types.
LEMMA DriverNext == ExchangeType /\ DriverType /\ [Next]_vars => DriverType'
  <1> SUFFICES ASSUME ExchangeType, DriverType, [Next]_vars PROVE DriverType' OBVIOUS
  <1> USE ConstantTypes DEF DriverType, run, memory, At, Goto, Forget, Leave, Escape
  <1>1. CASE BuildContext \/ EnterPlan \/ OutOfTime \/ LoopExhausted
    BY <1>1 DEF BuildContext, EnterPlan, OutOfTime, LoopExhausted, Phases
  <1>2. CASE Reread \/ Ask \/ Continue \/ WriteSession
    BY <1>2 DEF Reread, Ask, Continue, WriteSession
  <1>3. CASE WriteAnswer
    BY <1>3 DEF WriteAnswer
  <1>4. CASE Judge \/ MakeAttempt \/ MoveFile \/ Rejected
    BY <1>4 DEF Judge, MakeAttempt, MoveFile, Rejected
  <1>5. CASE Answer \/ GiveUp \/ Refuse
    BY <1>5 DEF Answer, GiveUp, Refuse
  <1>6. CASE Retry
    <2>1. PICK d \in Durations, w \in Waits : clock' = clock + d + Clipped(clock + d, w)
      BY <1>6 DEF Retry
    <2>2. d \in Nat /\ clock + d \in Nat /\ Clipped(clock + d, w) \in Nat
      BY <2>1, WaitTypes
    <2>3. clock' \in Nat
      BY <2>1, <2>2
    <2>4. delay' \in Nat /\ tries' \in Nat
      BY <1>6 DEF Retry, Least
    <2> QED  BY <1>6, <2>3, <2>4 DEF Retry
  <1>7. CASE PublishPlan \/ FreezeChecks \/ BindIdentity
    BY <1>7 DEF PublishPlan, FreezeChecks, BindIdentity
  <1>8. CASE OfferPlan
    BY <1>8 DEF OfferPlan, Phases
  <1>9. CASE SelectProfiles \/ AwaitApproval \/ BindSelection
    BY <1>9 DEF SelectProfiles, AwaitApproval, BindSelection
  <1>10. CASE EnterSetup \/ FinishSetup
    BY <1>10 DEF EnterSetup, FinishSetup, Phases
  <1>11. CASE CreateWorktree \/ OpenIssue \/ RecordIssue
    BY <1>11 DEF CreateWorktree, OpenIssue, RecordIssue
  <1>12. CASE RunSetup \/ FailSetup \/ GitFails \/ Stop
    BY <1>12 DEF RunSetup, FailSetup, GitFails, Stop
  <1>13. CASE Reject \/ ChooseProfiles \/ Approve \/ RecordDecision \/ LoseRequest \/ EditToml
    BY <1>13 DEF Reject, ChooseProfiles, Approve, RecordDecision, LoseRequest, EditToml,
       plannerVars
  <1>14. CASE Resume
    BY <1>14 DEF Resume
  <1>15. CASE UNCHANGED vars
    BY <1>15 DEF vars, plannerVars
  <1>16. CASE LeaveSetup
    BY <1>16 DEF LeaveSetup, SetupOutOfTime, EscapeContainment, FailPreflight, Phases
  <1> QED
    BY <1>1, <1>2, <1>3, <1>4, <1>5, <1>6, <1>7, <1>8, <1>9, <1>10, <1>11, <1>12, <1>13, <1>14,
       <1>15, <1>16 DEF Next, Drive, PlannerStep

\* The TOML only grows, and a driver loads it when it starts.
LEMMA WorldNext == WorldType /\ [Next]_vars
   => WorldType' /\ toml.checks <= toml'.checks /\ toml.profiles <= toml'.profiles
  <1> SUFFICES ASSUME WorldType, [Next]_vars
               PROVE  WorldType' /\ toml.checks <= toml'.checks
                      /\ toml.profiles <= toml'.profiles
    OBVIOUS
  <1> USE ConstantTypes DEF WorldType
  <1>1. CASE UNCHANGED world
    BY <1>1 DEF world
  <1>2. CASE GitFails \/ OpenIssue
    BY <1>2 DEF GitFails, OpenIssue
  <1>3. CASE EditToml
    <2>1. PICK part \in {"checks", "profiles"} :
             toml[part] < Tomls /\ toml' = [toml EXCEPT ![part] = @ + 1]
      BY <1>3 DEF EditToml
    <2>2. UNCHANGED <<gated, config, faults>>
      BY <1>3 DEF EditToml
    <2>3. CASE part = "checks"
      BY <2>1, <2>2, <2>3
    <2>4. CASE part = "profiles"
      BY <2>1, <2>2, <2>4
    <2> QED  BY <2>3, <2>4
  <1>4. CASE Resume
    BY <1>4 DEF Resume
  <1>5. CASE UNCHANGED vars
    BY <1>5 DEF vars, world
  <1>6. CASE PublishPlan \/ FreezeChecks \/ BindIdentity \/ OfferPlan \/ SelectProfiles
             \/ AwaitApproval \/ BindSelection
    BY <1>1, <1>6 DEF PublishPlan, FreezeChecks, BindIdentity, OfferPlan, SelectProfiles,
       AwaitApproval, BindSelection
  <1>7. CASE EnterSetup \/ CreateWorktree \/ RecordIssue \/ RunSetup \/ FinishSetup \/ Stop
    BY <1>1, <1>7 DEF EnterSetup, CreateWorktree, RecordIssue, RunSetup, FinishSetup, Stop
  <1>8. CASE Reject \/ ChooseProfiles \/ Approve \/ RecordDecision \/ LoseRequest
    BY <1>1, <1>8 DEF Reject, ChooseProfiles, Approve, RecordDecision, LoseRequest
  <1>9. CASE FailSetup \/ LeaveSetup
    BY <1>1, <1>9 DEF FailSetup, LeaveSetup, SetupOutOfTime, EscapeContainment, FailPreflight
  <1> QED
    BY <1>1, <1>2, <1>3, <1>4, <1>5, <1>6, <1>7, <1>8, <1>9 DEF Next, Drive

\* What a plan is bound to is a version the TOML has had.
LEMMA BoundNext == TypeInv /\ [Next]_vars => BoundType'
  <1> SUFFICES ASSUME TypeInv, [Next]_vars PROVE BoundType' OBVIOUS
  <1>0. /\ toml.checks \in Nat /\ toml.profiles \in Nat
        /\ toml'.checks \in Nat /\ toml'.profiles \in Nat
        /\ config.checks \in 1 .. toml.checks /\ config.profiles \in 1 .. toml.profiles
        /\ toml.checks <= toml'.checks /\ toml.profiles <= toml'.profiles
    BY WorldNext, ConstantTypes DEF TypeInv, WorldType
  <1>1. /\ BoundType
        /\ \A v \in Nat : v <= toml.checks => v <= toml'.checks
        /\ \A v \in Nat : v <= toml.profiles => v <= toml'.profiles
    BY <1>0 DEF TypeInv
  <1>2. CASE UNCHANGED <<plan, authority, selection, desk>>
    BY <1>0, <1>1, <1>2 DEF BoundType
  <1>3. CASE PublishPlan
    BY <1>0, <1>1, <1>3 DEF BoundType, PublishPlan, Policy, Owned
  <1>4. CASE FreezeChecks
    BY <1>0, <1>1, <1>4 DEF BoundType, FreezeChecks
  <1>5. CASE SelectProfiles
    BY <1>0, <1>1, <1>5 DEF BoundType, SelectProfiles, Requested
  <1>6. CASE ChooseProfiles
    BY <1>0, <1>1, <1>6 DEF BoundType, ChooseProfiles
  <1>7. CASE Approve \/ RecordDecision \/ LoseRequest
    BY <1>0, <1>1, <1>7 DEF BoundType, Approve, RecordDecision, LoseRequest, authorities
  <1>8. CASE \/ PlannerStep /\ UNCHANGED <<setupVars, world>>
             \/ BindIdentity \/ OfferPlan \/ AwaitApproval \/ BindSelection \/ EnterSetup
             \/ CreateWorktree \/ OpenIssue \/ RecordIssue \/ RunSetup \/ FinishSetup
             \/ FailSetup \/ LeaveSetup
             \/ GitFails \/ Reject \/ Stop \/ EditToml \/ Resume
    BY <1>2, <1>8 DEF setupVars, authorities, BindIdentity, OfferPlan, AwaitApproval,
       BindSelection, EnterSetup, CreateWorktree, OpenIssue, RecordIssue, RunSetup,
       FinishSetup, FailSetup, LeaveSetup, SetupOutOfTime, EscapeContainment, FailPreflight,
       GitFails, Reject, Stop, EditToml, Resume
  <1>9. CASE UNCHANGED vars
    BY <1>2, <1>9 DEF vars, setupVars, authorities
  <1> QED
    BY <1>3, <1>4, <1>5, <1>6, <1>7, <1>8, <1>9 DEF Next, Drive

\* The worktree, the setup's counter and the issue keep their types: an attempt
\* of the setup is counted only while one is left.
LEMMA SiteNext == SiteType /\ [Next]_vars => SiteType'
  <1> SUFFICES ASSUME SiteType, [Next]_vars PROVE SiteType' OBVIOUS
  <1> USE ConstantTypes DEF SiteType, site, github
  <1>1. CASE UNCHANGED <<site, github>>
    BY <1>1
  <1>2. CASE CreateWorktree
    BY <1>2 DEF CreateWorktree
  <1>3. CASE OpenIssue \/ RecordIssue
    BY <1>3 DEF OpenIssue, RecordIssue
  <1>4. CASE RunSetup \/ FinishSetup
    BY <1>4 DEF RunSetup, FinishSetup, Contained
  <1>5. CASE FailSetup \/ LeaveSetup
    BY <1>5 DEF FailSetup, Contained, SetupLeft, setupVars,
       LeaveSetup, SetupOutOfTime, EscapeContainment, FailPreflight
  <1>6. CASE \/ PlannerStep /\ UNCHANGED <<setupVars, world>>
             \/ PublishPlan \/ FreezeChecks \/ BindIdentity \/ OfferPlan \/ SelectProfiles
             \/ AwaitApproval \/ BindSelection \/ EnterSetup
    BY <1>1, <1>6 DEF setupVars, PublishPlan, FreezeChecks, BindIdentity, OfferPlan,
       SelectProfiles, AwaitApproval, BindSelection, EnterSetup
  <1>7. CASE \/ GitFails \/ Reject \/ ChooseProfiles \/ Approve \/ RecordDecision \/ LoseRequest
             \/ Stop \/ EditToml \/ Resume
    BY <1>1, <1>7 DEF setupVars, GitFails, Reject, ChooseProfiles, Approve, RecordDecision,
       LoseRequest, Stop, EditToml, Resume
  <1>8. CASE UNCHANGED vars
    BY <1>1, <1>8 DEF vars, setupVars
  <1> QED
    BY <1>2, <1>3, <1>4, <1>5, <1>6, <1>7, <1>8 DEF Next, Drive

\* Every step keeps the types.
LEMMA TypeNext == TypeInv /\ [Next]_vars => TypeInv'
  BY ExchangeNext, DriverNext, WorldNext, BoundNext, SiteNext DEF TypeInv

\* For every budget, horizon and number of stops, resumes, faults and edits,
\* the variables keep their types: what a plan is bound to is a version the
\* TOML has had, and a resume never gives the setup more retries than its budget
\* (prepare_workspace).
THEOREM TypeCorrect == Spec => []TypeOK
  BY TypeInit, TypeNext, TypeParts, PTL DEF Spec

\* The inductive form of it.
LEMMA TypeAlways == Spec => []TypeInv
  BY TypeInit, TypeNext, PTL DEF Spec

-----------------------------------------------------------------------------
(* What the planner is paid for.                                           *)

\* Where no answer is at the root and an attempt is left.
Asking == {"continue", "call", "received", "continued", "changed"}

\* An answer is at the root or in the directory of its own attempt; a
\* directory is made for one that is at the root, and one is asked for only
\* when none is and a directory is left to archive it.
Bought ==
    /\ answered <= Attempts /\ Len(archive) <= Attempts
    /\ answered <= Len(archive) + (IF "raw" \in root THEN 1 ELSE 0)
    /\ At("move") => answered <= Len(archive)
    /\ pc \in Asking => "raw" \notin root
    /\ pc \in Asking \cup {"session", "judge", "mkdir"} => Len(archive) < Attempts
    /\ "raw" \notin root => answer = "none"

\* It holds of a run that was just created.
LEMMA BoughtInit == Init => Bought
  BY ConstantTypes DEF Init, PlannerInit, Bought, At, Asking

\* A step that leaves the exchange and asks for nothing keeps it.
LEMMA BoughtKept ==
    ASSUME Bought, UNCHANGED <<exchange, answered>>,
           pc' \notin Asking \cup {"session", "judge", "mkdir", "move"}
    PROVE  Bought'
  BY DEF Bought, exchange, At

\* Every step keeps it.
LEMMA BoughtNext == TypeInv /\ Bought /\ [Next]_vars => Bought'
  <1> SUFFICES ASSUME TypeInv, Bought, [Next]_vars PROVE Bought' OBVIOUS
  <1> USE DEF At, Goto, Leave, Escape, exchange
  <1>0. Len(archive) \in Nat /\ answered \in Nat /\ Attempts \in Nat
        /\ archive \in Seq(SUBSET Files)
        /\ root \subseteq Files
    BY ConstantTypes DEF TypeInv, ExchangeType, DriverType
  <1>1. CASE Ask
    BY <1>1, <1>0 DEF Ask, Bought, Asking, AnswerDurable, Attempt
  <1>2. CASE Continue
    BY <1>2, <1>0 DEF Continue, Bought, Asking
  <1>3. CASE WriteAnswer
    BY <1>3, <1>0 DEF WriteAnswer, Bought, Asking
  <1>4. CASE WriteSession
    BY <1>4, <1>0 DEF WriteSession, Bought, Asking
  <1>5. CASE Judge
    BY <1>5, <1>0 DEF Judge, Bought, Asking
  <1>6. CASE MakeAttempt
    <2>1. Len(archive') = Len(archive) + 1
      BY <1>6, <1>0 DEF MakeAttempt
    <2> QED  BY <1>6, <1>0, <2>1 DEF MakeAttempt, Bought, Asking
  <1>7. CASE MoveFile
    <2>1. Len(archive') = Len(archive)
      BY <1>7, MovedFile DEF TypeInv
    <2>2. answered <= Len(archive)
      BY <1>7 DEF MoveFile, Bought
    <2>3. "raw" \notin root' => answer' = "none"
      BY <1>7 DEF MoveFile, Bought, Archived
    <2>4. pc' = "move" /\ answered' = answered
      BY <1>7 DEF MoveFile
    <2> QED  BY <2>1, <2>2, <2>3, <2>4, <1>0 DEF Bought, Asking
  <1>8. CASE Rejected
    BY <1>8, <1>0 DEF Rejected, Bought, Asking
  <1>9. CASE Answer \/ Retry
    BY <1>9, <1>0 DEF Answer, Retry, Bought, Asking
  <1>10. CASE \/ BuildContext \/ EnterPlan \/ OutOfTime \/ LoopExhausted \/ GiveUp \/ Refuse
    BY <1>10, BoughtKept DEF BuildContext, EnterPlan, OutOfTime, LoopExhausted, GiveUp, Refuse,
       Asking
  <1>16. CASE Reread
    BY <1>16, <1>0, BoughtKept DEF Reread, Asking, Bought, Attempt
  <1>11. CASE \/ PublishPlan \/ FreezeChecks \/ BindIdentity \/ OfferPlan
              \/ SelectProfiles \/ AwaitApproval \/ BindSelection
    BY <1>11, BoughtKept DEF PublishPlan, FreezeChecks, BindIdentity, OfferPlan, SelectProfiles,
       AwaitApproval, BindSelection, Asking
  <1>12. CASE \/ EnterSetup \/ CreateWorktree \/ OpenIssue \/ RecordIssue \/ RunSetup
              \/ FinishSetup \/ FailSetup \/ GitFails \/ Stop
    BY <1>12, BoughtKept DEF EnterSetup, CreateWorktree, OpenIssue, RecordIssue, RunSetup,
       FinishSetup, FailSetup, GitFails, Stop, Asking
  <1>17. CASE LeaveSetup
    BY <1>17, BoughtKept DEF LeaveSetup, SetupOutOfTime, EscapeContainment, FailPreflight, Asking
  <1>13. CASE Resume
    BY <1>13, BoughtKept DEF Resume, Asking
  <1>14. CASE Reject \/ ChooseProfiles \/ Approve \/ RecordDecision \/ LoseRequest \/ EditToml
    BY <1>14 DEF Reject, ChooseProfiles, Approve, RecordDecision, LoseRequest, EditToml,
       plannerVars, Bought
  <1>15. CASE UNCHANGED vars
    BY <1>15 DEF vars, plannerVars, Bought
  <1> QED
    BY <1>1, <1>2, <1>3, <1>4, <1>5, <1>6, <1>7, <1>8, <1>9, <1>10, <1>11, <1>12, <1>13, <1>14,
       <1>15, <1>16, <1>17 DEF Next, Drive, PlannerStep

\* However often the run is stopped and resumed, one decision pays for no more
\* answers than its budget (PlannerV2.plan).
THEOREM AnswersAreBounded == Spec => []AnswersBounded
  <1>1. Bought => AnswersBounded
    BY DEF Bought, AnswersBounded
  <1> QED  BY <1>1, BoughtInit, BoughtNext, TypeInit, TypeNext, PTL DEF Spec

\* An answer the run could use is the last one it paid for: whatever stops
\* between the answer and its plan, nobody asks again (PlannerV2.plan).
THEOREM AnswersArePaidOnce == Spec => PaidOnce
  <1>1. Bought /\ [Next]_vars => (answer \in Good => answered' = answered) \/ UNCHANGED vars
    <2> SUFFICES ASSUME Bought, Next, answer \in Good PROVE answered' = answered
      BY DEF vars, plannerVars
    <2>1. pc \notin {"received", "continued", "changed"}
      BY DEF Bought, Asking, Good
    <2>2. CASE PlannerStep
      BY <2>1, <2>2 DEF PlannerStep, BuildContext, EnterPlan, OutOfTime, LoopExhausted,
         Reread, Ask, Continue, WriteAnswer, WriteSession, Judge, MakeAttempt, MoveFile,
         Rejected, Answer, Retry, GiveUp, Refuse, Escape, At
    <2>3. CASE \/ PublishPlan \/ FreezeChecks \/ BindIdentity \/ OfferPlan
               \/ SelectProfiles \/ AwaitApproval \/ BindSelection
      BY <2>3 DEF PublishPlan, FreezeChecks, BindIdentity, OfferPlan, SelectProfiles,
         AwaitApproval, BindSelection, Escape
    <2>4. CASE \/ EnterSetup \/ CreateWorktree \/ OpenIssue \/ RecordIssue \/ RunSetup
               \/ FinishSetup \/ FailSetup \/ GitFails \/ Stop \/ Resume
      BY <2>4 DEF EnterSetup, CreateWorktree, OpenIssue, RecordIssue, RunSetup,
         FinishSetup, FailSetup, GitFails, Stop, Resume, Escape
    <2>5. CASE Reject \/ ChooseProfiles \/ Approve \/ RecordDecision \/ LoseRequest \/ EditToml
      BY <2>5 DEF Reject, ChooseProfiles, Approve, RecordDecision, LoseRequest, EditToml,
         plannerVars
    <2>6. CASE LeaveSetup
      BY <2>6 DEF LeaveSetup, SetupOutOfTime, EscapeContainment, FailPreflight, Escape
    <2> QED  BY <2>2, <2>3, <2>4, <2>5, <2>6 DEF Next, Drive
  <1> QED  BY <1>1, BoughtInit, BoughtNext, TypeInit, TypeNext, PTL DEF Spec, PaidOnce

-----------------------------------------------------------------------------
(* The time a request may take.                                            *)

\* Outside a request the clock has not started.
Timed ==
    /\ At("call") => clock < Horizon /\ MinUseful * tries <= clock
    /\ pc \notin {"call", "received"} => clock = 0 /\ tries = 0

\* One more try costs at least one useful wait.
LEMMA OneMoreTry ==
    ASSUME NEW t \in Nat, NEW c \in Nat, NEW d \in Nat, NEW w \in Nat,
           MinUseful * t <= c, w >= MinUseful
    PROVE  MinUseful * (t + 1) <= c + d + w
  <1>1. MinUseful \in Nat /\ MinUseful * t \in Nat
    BY ConstantTypes
  <1>2. MinUseful * (t + 1) = MinUseful * t + MinUseful
    BY <1>1
  <1> QED  BY <1>1, <1>2

\* It holds of a run that was just created.
LEMMA TimedInit == Init => Timed
  BY DEF Init, PlannerInit, Timed, At

\* Every step keeps it.
LEMMA TimedNext == TypeInv /\ Timed /\ [Next]_vars => Timed'
  <1> SUFFICES ASSUME TypeInv, Timed, [Next]_vars PROVE Timed' OBVIOUS
  <1> USE DEF At, Goto, Leave, Escape, Forget, memory
  <1>1. MinUseful * 0 = 0 /\ 0 < Horizon /\ 0 \in Nat
    BY ConstantTypes
  <1>2. ASSUME clock' = 0, tries' = 0 PROVE Timed'
    BY <1>2, <1>1 DEF Timed
  <1>3. ASSUME UNCHANGED <<clock, tries, pc>> PROVE Timed'
    BY <1>3 DEF Timed
  <1>4. ASSUME pc \notin {"call", "received"}, UNCHANGED <<clock, tries>> PROVE Timed'
    <2>1. clock' = 0 /\ tries' = 0
      BY <1>4 DEF Timed
    <2> QED  BY <2>1, <1>2
  <1>5. CASE Retry
    <2>1. PICK d \in Durations, w \in Waits :
             /\ Room(clock + d, Clipped(clock + d, w))
             /\ clock' = clock + d + Clipped(clock + d, w)
      BY <1>5 DEF Retry
    <2>2. clock \in Nat /\ tries \in Nat /\ delay \in Nat
      BY DEF TypeInv, DriverType
    <2>3. d \in Nat /\ clock + d \in Nat /\ Clipped(clock + d, w) \in Nat
      BY <2>1, <2>2, WaitTypes, ConstantTypes
    <2>4. clock' < Horizon
      BY <2>1 DEF Room
    <2>5. tries' = tries + 1 /\ pc' = "call"
      BY <1>5 DEF Retry
    <2>6. MinUseful * tries <= clock /\ Clipped(clock + d, w) >= MinUseful
      BY <1>5, <2>1 DEF Retry, Timed, Room
    <2>7. MinUseful * tries' <= clock'
      BY <2>1, <2>2, <2>3, <2>5, <2>6, OneMoreTry
    <2> QED  BY <2>4, <2>5, <2>7 DEF Timed
  <1>6. CASE Answer
    BY <1>6 DEF Answer, Timed
  <1>7. CASE GiveUp \/ Refuse \/ WriteAnswer \/ OutOfTime \/ LoopExhausted \/ Rejected
    BY <1>7, <1>2 DEF GiveUp, Refuse, WriteAnswer, OutOfTime, LoopExhausted, Rejected
  <1>8. CASE BuildContext \/ EnterPlan \/ Reread \/ Ask
    BY <1>8, <1>2, <1>4 DEF BuildContext, EnterPlan, Reread, Ask
  <1>9. CASE Continue \/ WriteSession \/ Judge \/ MakeAttempt \/ MoveFile
    BY <1>9, <1>2, <1>4 DEF Continue, WriteSession, Judge, MakeAttempt, MoveFile
  <1>10. CASE PublishPlan \/ FreezeChecks \/ BindIdentity \/ OfferPlan
    BY <1>10, <1>2, <1>4 DEF PublishPlan, FreezeChecks, BindIdentity, OfferPlan
  <1>11. CASE SelectProfiles \/ AwaitApproval \/ BindSelection
    BY <1>11, <1>2, <1>4 DEF SelectProfiles, AwaitApproval, BindSelection
  <1>12. CASE EnterSetup \/ CreateWorktree \/ OpenIssue \/ RecordIssue
    BY <1>12, <1>2, <1>4 DEF EnterSetup, CreateWorktree, OpenIssue, RecordIssue
  <1>13. CASE RunSetup \/ FinishSetup \/ FailSetup \/ GitFails \/ Stop
    BY <1>13, <1>2, <1>4 DEF RunSetup, FinishSetup, FailSetup, GitFails, Stop
  <1>17. CASE LeaveSetup
    BY <1>17, <1>2 DEF LeaveSetup, SetupOutOfTime, EscapeContainment, FailPreflight
  <1>14. CASE Resume
    BY <1>14, <1>4 DEF Resume
  <1>15. CASE Reject \/ ChooseProfiles \/ Approve \/ RecordDecision \/ LoseRequest \/ EditToml
    BY <1>15, <1>3 DEF Reject, ChooseProfiles, Approve, RecordDecision, LoseRequest, EditToml,
       plannerVars
  <1>16. CASE UNCHANGED vars
    BY <1>16, <1>3 DEF vars, plannerVars
  <1> QED
    BY <1>5, <1>6, <1>7, <1>8, <1>9, <1>10, <1>11, <1>12, <1>13, <1>14, <1>15, <1>16, <1>17
       DEF Next, Drive, PlannerStep

\* A try of a request starts before the horizon and every one after the first
\* has waited, so that time alone bounds the tries, whatever the endpoint
\* answers and however long each try takes (_request_json).
THEOREM TriesAreTimed == Spec => []TriesHaveRoom
  <1>1. Timed => TriesHaveRoom
    BY DEF Timed, TriesHaveRoom
  <1> QED  BY <1>1, TimedInit, TimedNext, TypeInit, TypeNext, PTL DEF Spec

-----------------------------------------------------------------------------
(* What the first step runs.                                               *)

\* The operations a driver is at: planning, once the plan is published, once
\* its checks are frozen, and once the authority is whole.
Planning   == {"context", "enter", "plan", "session", "judge", "mkdir", "move", "publish"}
                  \cup Asking
Binding    == {"bind", "offer", "approval", "select", "bound"}
Furnishing == {"boundary", "worktree", "issue", "opened", "setup", "settle"}

\* The checkpoint still names the planner.
Early == checkpoint \in {"CONTEXT", "PLANNER"}

\* The run is handed over to its steps.
Ready == checkpoint = "IMPLEMENT_STEP"

\* The plan was parsed against the catalogue that is frozen for it, or against
\* the one this driver is about to freeze.
Planned ==
    /\ pc \in Planning => Early
    /\ At("publish") => answer \in Good
    /\ pc \in {"planned"} \cup Binding \cup Furnishing \/ ~Early => answer = "ready"
    /\ ~Early => authority # 0
    /\ authority # 0 => plan = authority
    /\ At("planned") /\ authority = 0 => plan = config.checks
    /\ pc \in Binding \cup Furnishing => authority = config.checks
    /\ Ready => At("off")

\* It holds of a run that was just created.
LEMMA PlannedInit == Init => Planned
  BY DEF Init, PlannerInit, Planned, Planning, Binding, Furnishing, Asking, Early, Ready, At

\* A step that stops the driver, or goes on planning, and leaves the decision
\* where it is.
LEMMA PlannedKept ==
    ASSUME Planned, UNCHANGED <<plan, authority, config>>,
           \/ pc' = "off" /\ UNCHANGED <<answer, checkpoint>>
           \/ pc' \in Planning /\ ~At("publish")' /\ Early /\ Early'
    PROVE  Planned'
  BY DEF Planned, Planning, Binding, Furnishing, Asking, Early, Ready, At

\* A step of a driver that has its plan, and stays past it or stops.
LEMMA PlannedBound ==
    ASSUME Planned, UNCHANGED <<plan, authority, config, answer>>,
           pc \in Binding \cup Furnishing, pc' \in Binding \cup Furnishing \cup {"off"},
           authority # 0, ~Ready' \/ pc' = "off"
    PROVE  Planned'
  BY DEF Planned, Planning, Binding, Furnishing, Asking, Early, Ready, At

\* Every step keeps it.
LEMMA PlannedNext == TypeInv /\ Planned /\ [Next]_vars => Planned'
  <1> SUFFICES ASSUME TypeInv, Planned, [Next]_vars PROVE Planned' OBVIOUS
  <1> USE DEF At, Goto, Leave, Escape, exchange, run, world, setupVars, authorities
  <1>0. config.checks # 0
    BY ConstantTypes DEF TypeInv, WorldType
  <1>1. CASE PlannerStep /\ UNCHANGED <<setupVars, world>>
    <2>1. pc \in Planning /\ Early
      BY <1>1 DEF PlannerStep, BuildContext, EnterPlan, OutOfTime, LoopExhausted, Reread, Ask,
         Continue, WriteAnswer, WriteSession, Judge, MakeAttempt, MoveFile, Rejected, Answer,
         Retry, GiveUp, Refuse, Planned, Planning, Asking
    <2>2. CASE BuildContext \/ EnterPlan \/ OutOfTime
      BY <1>1, <2>1, <2>2, PlannedKept
         DEF BuildContext, EnterPlan, OutOfTime, Planning, Asking, Early, Planned, Binding,
             Furnishing, Ready
    <2>3. CASE LoopExhausted \/ Reread \/ Ask \/ Continue
      BY <1>1, <2>1, <2>3, PlannedKept
         DEF LoopExhausted, Reread, Ask, Continue, Planning, Asking, Early, Ready
    <2>4. CASE WriteAnswer \/ WriteSession
      BY <1>1, <2>1, <2>4, PlannedKept
         DEF WriteAnswer, WriteSession, Planning, Asking, Early, Ready
    <2>5. CASE Judge
      BY <1>1, <2>1, <2>5 DEF Judge, Planned, Planning, Binding, Furnishing, Asking, Early,
         Ready, Good
    <2>6. CASE MakeAttempt \/ MoveFile \/ Rejected
      BY <1>1, <2>1, <2>6, PlannedKept
         DEF MakeAttempt, MoveFile, Rejected, Planning, Asking, Early, Ready
    <2>7. CASE Answer \/ Retry \/ GiveUp \/ Refuse
      BY <1>1, <2>1, <2>7, PlannedKept
         DEF Answer, Retry, GiveUp, Refuse, Planning, Asking, Early, Ready
    <2> QED  BY <1>1, <2>2, <2>3, <2>4, <2>5, <2>6, <2>7 DEF PlannerStep
  <1>2. CASE PublishPlan
    BY <1>2 DEF PublishPlan, Policy, Owned, Planned, Planning, Binding, Furnishing, Asking,
       Early, Ready, Good
  <1>3. CASE FreezeChecks
    BY <1>0, <1>3 DEF FreezeChecks, Planned, Planning, Binding, Furnishing, Asking, Early, Ready
  <1>4. ASSUME pc \in Binding \cup Furnishing PROVE authority # 0
    BY <1>0, <1>4 DEF Planned
  <1>5. CASE BindIdentity \/ OfferPlan \/ SelectProfiles \/ AwaitApproval \/ BindSelection
    <2>1. pc \in Binding /\ ~Ready
      BY <1>5 DEF BindIdentity, OfferPlan, SelectProfiles, AwaitApproval, BindSelection,
         Planned, Binding
    <2>2. CASE BindIdentity \/ BindSelection
      BY <1>4, <2>1, <2>2, PlannedBound
         DEF BindIdentity, BindSelection, Binding, Furnishing, Ready
    <2>3. CASE OfferPlan
      BY <1>4, <2>1, <2>3, PlannedBound DEF OfferPlan, Binding, Furnishing, Ready
    <2>4. CASE SelectProfiles
      BY <1>4, <2>1, <2>4, PlannedBound DEF SelectProfiles, Binding, Furnishing, Ready
    <2>5. CASE AwaitApproval
      BY <1>4, <2>1, <2>5, PlannedBound DEF AwaitApproval, Binding, Furnishing, Ready
    <2> QED  BY <1>5, <2>2, <2>3, <2>4, <2>5
  <1>6. CASE EnterSetup \/ CreateWorktree \/ OpenIssue \/ RecordIssue
    BY <1>4, <1>6, PlannedBound DEF EnterSetup, CreateWorktree, OpenIssue, RecordIssue,
       Planned, Binding, Furnishing, Ready
  <1>7. CASE RunSetup \/ FinishSetup \/ FailSetup
    BY <1>4, <1>7, PlannedBound
       DEF RunSetup, FinishSetup, FailSetup, Planned, Binding, Furnishing, Ready
  <1>12. CASE LeaveSetup
    BY <1>4, <1>12, PlannedBound
       DEF LeaveSetup, SetupOutOfTime, EscapeContainment, FailPreflight,
           Planned, Binding, Furnishing, Ready
  <1>8. CASE GitFails \/ Stop
    BY <1>8, PlannedKept DEF GitFails, Stop
  <1>9. CASE Resume
    <2>1. UNCHANGED <<answer, plan, authority, checkpoint>>
      BY <1>9 DEF Resume
    <2>2. CASE ResumeHolds
      <3>1. /\ Early => pc' \in {"context", "enter"}
            /\ ~Early => pc' = "planned" /\ authority # 0
            /\ ~Ready
        BY <1>9, <2>2 DEF Resume, Resumable, Planned, Early, Ready
      <3>2. CASE Early
        BY <2>1, <3>1, <3>2 DEF Planned, Planning, Binding, Furnishing, Asking, Early, Ready
      <3>3. CASE ~Early
        BY <2>1, <3>1, <3>3 DEF Planned, Planning, Binding, Furnishing, Asking, Early, Ready
      <3> QED  BY <3>2, <3>3
    <2>3. CASE ~ResumeHolds
      <3>1. pc' = "off"
        BY <1>9, <2>3 DEF Resume
      <3> QED  BY <2>1, <3>1 DEF Planned, Planning, Binding, Furnishing, Asking, Early, Ready
    <2> QED  BY <2>2, <2>3
  <1>10. CASE Reject \/ ChooseProfiles \/ Approve \/ RecordDecision \/ LoseRequest \/ EditToml
    BY <1>10 DEF Reject, ChooseProfiles, Approve, RecordDecision, LoseRequest, EditToml,
       plannerVars, Planned, Early, Ready
  <1>11. CASE UNCHANGED vars
    BY <1>11 DEF vars, plannerVars, Planned, Early, Ready
  <1> QED
    BY <1>1, <1>2, <1>3, <1>5, <1>6, <1>7, <1>8, <1>9, <1>10, <1>11, <1>12 DEF Next, Drive

\* A decision is taken behind the gate, once, on the checks that are frozen and
\* with the profiles that are; what follows the gate is configured so.
Decided ==
    /\ desk # "idle" \/ approval.decision # "none" => gated
    /\ desk # "idle" => selection # 0 /\ authority # 0
    /\ approval.decision = "approve" => DecisionBound /\ authority # 0 /\ selection # 0
    /\ At("select") => ~gated
    /\ pc \in {"bound"} \cup Furnishing \/ Ready =>
          SelectionValid(config) /\ (gated => approval.decision = "approve")
    /\ pc \in Furnishing \/ Ready => identity = IdentityNow

\* It holds of a run that was just created.
LEMMA DecidedInit == Init => Decided
  BY DEF Init, PlannerInit, Decided, Furnishing, Ready, At, NoApproval

\* A step that leaves the decision alone, and enters no later part of the run.
LEMMA DecidedKept ==
    ASSUME Decided, UNCHANGED <<desk, approval, gated, selection, authority, config, identity>>,
           pc' \notin {"select", "bound"} \cup Furnishing \/ pc' = pc,
           ~Ready' \/ Ready
    PROVE  Decided'
  BY DEF Decided, DecisionBound, SelectionValid, IdentityNow, Furnishing, Ready, At

\* Every step keeps it.
LEMMA DecidedNext == TypeInv /\ Planned /\ Decided /\ [Next]_vars => Decided'
  <1> SUFFICES ASSUME TypeInv, Planned, Decided, [Next]_vars PROVE Decided' OBVIOUS
  <1> USE DEF At, Goto, Leave, Escape, run, world, setupVars, authorities
  <1>0. /\ config.checks # 0 /\ config.profiles # 0
        /\ \A v \in 1 .. toml.profiles : v # 0
        /\ gated \in BOOLEAN
    BY ConstantTypes, OptionAssumption DEF TypeInv, WorldType
  <1>1. CASE PlannerStep /\ UNCHANGED <<setupVars, world>>
    <2>1. /\ pc' \notin {"select", "bound"} \cup Furnishing
          /\ checkpoint' \in {"PLANNER", checkpoint}
      BY <1>1 DEF PlannerStep, BuildContext, EnterPlan, OutOfTime, LoopExhausted, Reread, Ask,
         Continue, WriteAnswer, WriteSession, Judge, MakeAttempt, MoveFile, Rejected, Answer,
         Retry, GiveUp, Refuse, Furnishing
    <2> QED  BY <1>1, <2>1, DecidedKept DEF Ready
  <1>2. CASE PublishPlan \/ GitFails \/ Stop
    BY <1>2, DecidedKept DEF PublishPlan, GitFails, Stop, Furnishing, Ready
  <1>3. CASE FreezeChecks
    <2>1. CASE authority = 0
      <3>1. desk = "idle" /\ approval.decision # "approve" /\ ~Ready
        BY <2>1 DEF Decided, Planned, Early, Ready
      <3>2. /\ UNCHANGED <<checkpoint, approval, desk, gated>> /\ pc' = "bind"
        BY <1>3, <2>1 DEF FreezeChecks
      <3> QED  BY <3>1, <3>2 DEF Decided, Furnishing, Ready
    <2>2. CASE authority # 0
      <3>1. UNCHANGED authority
        BY <1>3, <2>2 DEF FreezeChecks
      <3> QED  BY <1>3, <3>1, DecidedKept DEF FreezeChecks, Furnishing, Ready
    <2> QED  BY <2>1, <2>2
  <1>4. CASE BindIdentity
    BY <1>4 DEF BindIdentity, Decided, DecisionBound, SelectionValid, IdentityNow,
       Furnishing, Ready
  <1>5. CASE OfferPlan
    BY <1>5 DEF OfferPlan, Decided, DecisionBound, SelectionValid, IdentityNow, Furnishing,
       Ready
  <1>6. CASE SelectProfiles
    <2>1. ~gated /\ desk = "idle" /\ approval.decision = "none" /\ ~Ready
      BY <1>6 DEF SelectProfiles, Decided, Planned
    <2>2. CASE selection \in {0, Requested}
      <3>1. /\ UNCHANGED <<checkpoint, approval, desk, gated, config>> /\ pc' = "bound"
            /\ selection' = config.profiles
        BY <1>6, <2>2 DEF SelectProfiles, Requested
      <3> QED  BY <2>1, <3>1 DEF Decided, SelectionValid, Furnishing, Ready
    <2>3. CASE selection \notin {0, Requested}
      BY <1>6, <2>3, DecidedKept DEF SelectProfiles, Furnishing, Ready
    <2> QED  BY <2>2, <2>3
  <1>7. CASE AwaitApproval
    BY <1>7 DEF AwaitApproval, Decided, DecisionBound, SelectionValid, IdentityNow,
       Furnishing, Ready
  <1>8. CASE BindSelection
    BY <1>8 DEF BindSelection, Decided, DecisionBound, SelectionValid, IdentityNow,
       Furnishing, Ready
  <1>9. ASSUME pc \in Furnishing, pc' \in Furnishing \cup {"off"},
               UNCHANGED <<desk, approval, gated, selection, authority, config, identity>>
        PROVE  Decided'
    BY <1>9 DEF Decided, DecisionBound, SelectionValid, IdentityNow, Furnishing, Ready
  <1>10. CASE EnterSetup \/ CreateWorktree \/ OpenIssue \/ RecordIssue
    BY <1>9, <1>10 DEF EnterSetup, CreateWorktree, OpenIssue, RecordIssue, Furnishing
  <1>11. CASE RunSetup \/ FinishSetup \/ FailSetup
    BY <1>9, <1>11 DEF RunSetup, FinishSetup, FailSetup, Furnishing
  <1>19. CASE LeaveSetup
    BY <1>9, <1>19 DEF LeaveSetup, SetupOutOfTime, EscapeContainment, FailPreflight, Furnishing
  <1>12. CASE Reject
    <2>1. approval'.decision = "reject" /\ approval.decision = "none" /\ gated
      BY <1>12 DEF Reject, OfferedNow, Decision
    <2>2. UNCHANGED <<pc, checkpoint, desk, gated, selection, authority, config, identity>>
      BY <1>12 DEF Reject, plannerVars
    <2> QED  BY <2>1, <2>2 DEF Decided, SelectionValid, IdentityNow, Furnishing, Ready
  <1>13. CASE ChooseProfiles
    <2>1. /\ gated /\ approval.decision = "none" /\ authority # 0 /\ selection' # 0
          /\ selection \in {0, selection'} /\ ~Ready
      BY <1>0, <1>13 DEF ChooseProfiles, OfferedNow, Planned, Early, Ready
    <2>2. UNCHANGED <<pc, checkpoint, approval, gated, authority, config, identity>>
      BY <1>13 DEF ChooseProfiles, plannerVars
    <2>3. pc \notin {"bound"} \cup Furnishing
      BY <2>1 DEF Decided
    <2> QED  BY <2>1, <2>2, <2>3 DEF Decided, Furnishing, Ready
  <1>14. CASE Approve
    <2>1. /\ gated /\ selection # 0 /\ authority # 0
      BY <1>14 DEF Approve, Decided
    <2>2. UNCHANGED <<pc, checkpoint, gated, selection, authority, config, identity>>
      BY <1>14 DEF Approve, plannerVars
    <2>3. \/ UNCHANGED approval
          \/ approval' = [decision |-> "approve", checks |-> authority, selection |-> selection]
      BY <1>14 DEF Approve, Decision
    <2> QED  BY <2>1, <2>2, <2>3
       DEF Decided, DecisionBound, SelectionValid, IdentityNow, Furnishing, Ready
  <1>15. CASE RecordDecision \/ LoseRequest
    BY <1>15 DEF RecordDecision, LoseRequest, plannerVars, Decided, DecisionBound,
       SelectionValid, IdentityNow, Furnishing, Ready
  <1>16. CASE EditToml
    BY <1>16, DecidedKept DEF EditToml, plannerVars, Ready
  <1>17. CASE Resume
    <2>1. UNCHANGED <<checkpoint, desk, approval, gated, selection, authority, identity>>
      BY <1>17 DEF Resume
    <2>2. ~Ready /\ pc' \in {"context", "enter", "planned", "off"}
      BY <1>17 DEF Resume, Resumable, Ready
    <2> QED  BY <2>1, <2>2 DEF Decided, DecisionBound, Furnishing, Ready
  <1>18. CASE UNCHANGED vars
    BY <1>18, DecidedKept DEF vars, plannerVars, Ready
  <1> QED
    BY <1>1, <1>2, <1>3, <1>4, <1>5, <1>6, <1>7, <1>8, <1>10, <1>11, <1>12, <1>13, <1>14, <1>15,
       <1>16, <1>17, <1>18, <1>19 DEF Next, Drive

\* The issue on record is the last one opened, and the worktree a driver hands
\* over is the one it set up.
Furnished ==
    /\ issue = 0 \/ issue = opened
    /\ At("opened") => opened > 0
    /\ pc \in {"setup", "settle"} \/ Ready => (wanted => issue > 0)
    /\ Ready => worktree = "clean"

\* It holds of a run that was just created.
LEMMA FurnishedInit == Init => Furnished
  BY DEF Init, PlannerInit, Furnished, Ready, At

\* A step that leaves the worktree and the issue alone, and enters neither.
LEMMA FurnishedKept ==
    ASSUME Furnished, UNCHANGED <<worktree, github>>,
           pc' \notin {"opened", "setup", "settle"} \/ pc' = pc,
           ~Ready' \/ Ready
    PROVE  Furnished'
  BY DEF Furnished, github, Ready, At

\* Every step keeps it.
LEMMA FurnishedNext == TypeInv /\ Planned /\ Furnished /\ [Next]_vars => Furnished'
  <1> SUFFICES ASSUME TypeInv, Planned, Furnished, [Next]_vars PROVE Furnished' OBVIOUS
  <1> USE DEF At, Goto, Leave, Escape, run, setupVars, site, github
  <1>0. opened \in Nat /\ issue \in 0 .. opened /\ wanted \in BOOLEAN
    BY OptionAssumption DEF TypeInv, SiteType
  <1>1. CASE PlannerStep /\ UNCHANGED <<setupVars, world>>
    <2>1. /\ pc' \notin {"opened", "setup", "settle"}
          /\ checkpoint' \in {"PLANNER", checkpoint}
      BY <1>1 DEF PlannerStep, BuildContext, EnterPlan, OutOfTime, LoopExhausted, Reread, Ask,
         Continue, WriteAnswer, WriteSession, Judge, MakeAttempt, MoveFile, Rejected, Answer,
         Retry, GiveUp, Refuse
    <2> QED  BY <1>1, <2>1, FurnishedKept DEF Ready
  <1>2. CASE PublishPlan \/ FreezeChecks \/ BindIdentity \/ OfferPlan
    BY <1>2, FurnishedKept DEF PublishPlan, FreezeChecks, BindIdentity, OfferPlan, Ready
  <1>3. CASE SelectProfiles \/ AwaitApproval \/ BindSelection \/ EnterSetup
    BY <1>3, FurnishedKept DEF SelectProfiles, AwaitApproval, BindSelection, EnterSetup, Ready
  <1>4. pc # "off" => ~Ready
    BY DEF Planned
  <1>5. CASE CreateWorktree
    BY <1>4, <1>5 DEF CreateWorktree, Furnished, Ready
  <1>6. CASE OpenIssue
    BY <1>0, <1>4, <1>6 DEF OpenIssue, Furnished, Ready
  <1>7. CASE RecordIssue
    BY <1>0, <1>4, <1>7 DEF RecordIssue, Furnished, Ready
  <1>8. CASE RunSetup \/ FailSetup
    BY <1>4, <1>8 DEF RunSetup, FailSetup, Furnished, Ready
  <1>9. CASE FinishSetup
    BY <1>9 DEF FinishSetup, Contained, Furnished, Ready
  <1>14. CASE LeaveSetup
    BY <1>4, <1>14 DEF LeaveSetup, SetupOutOfTime, EscapeContainment, FailPreflight,
       Furnished, Ready
  <1>10. CASE GitFails \/ Stop
    BY <1>10, FurnishedKept DEF GitFails, Stop, Ready
  <1>11. CASE Reject \/ ChooseProfiles \/ Approve \/ RecordDecision \/ LoseRequest \/ EditToml
    BY <1>11, FurnishedKept DEF Reject, ChooseProfiles, Approve, RecordDecision, LoseRequest,
       EditToml, plannerVars, Ready
  <1>12. CASE Resume
    BY <1>12, FurnishedKept DEF Resume, Ready
  <1>13. CASE UNCHANGED vars
    BY <1>13, FurnishedKept DEF vars, plannerVars, Ready
  <1> QED
    BY <1>1, <1>2, <1>3, <1>5, <1>6, <1>7, <1>8, <1>9, <1>10, <1>11, <1>12, <1>13, <1>14
       DEF Next, Drive

\* The first step runs what was planned, offered and bound, whatever was
\* stopped, lost, resumed or edited on the way (prepare_v2_run).
THEOREM RunsArePreparedAsBound == Spec => []PreparedAsBound
  <1>1. TypeInv /\ Planned /\ Decided /\ Furnished => PreparedAsBound
    <2> SUFFICES ASSUME TypeInv, Planned, Decided, Furnished, Ready PROVE PreparedAsBound
      BY DEF PreparedAsBound, Ready
    <2>1. answer = "ready" /\ authority = plan
      BY DEF Planned, Early, Ready
    <2>2. identity = IdentityNow /\ SelectionValid(config)
      BY DEF Decided
    <2>3. gated => DecisionBound
      BY DEF Decided
    <2>4. worktree = "clean"
      BY DEF Furnished
    <2>5. wanted => issue = opened /\ issue > 0
      BY DEF Furnished, TypeInv, SiteType
    <2> QED  BY <2>1, <2>2, <2>3, <2>4, <2>5 DEF PreparedAsBound
  <1> QED
    BY <1>1, TypeInit, TypeNext, PlannedInit, PlannedNext, DecidedInit, DecidedNext,
       FurnishedInit, FurnishedNext, PTL DEF Spec

-----------------------------------------------------------------------------
(* Why a driver leaves: between two resumes its steps descend.             *)

\* The attempts left to the planner and to the setup.
Left == (Attempts - Len(archive)) + (Attempts - setups)

\* How far an operation is from the end of the driver's part, within one
\* attempt of the planner and of the setup.
Rank(operation) ==
    IF      operation = "settle"   THEN 1  ELSE IF operation = "setup"    THEN 2
    ELSE IF operation = "opened"   THEN 3  ELSE IF operation = "issue"    THEN 4
    ELSE IF operation = "worktree" THEN 5  ELSE IF operation = "boundary" THEN 6
    ELSE IF operation = "bound"    THEN 7
    ELSE IF operation \in {"select", "approval"} THEN 8
    ELSE IF operation = "offer"    THEN 9  ELSE IF operation = "bind"     THEN 10
    ELSE IF operation = "planned"  THEN 11 ELSE IF operation = "publish"  THEN 12
    ELSE IF operation = "mkdir"    THEN 13 ELSE IF operation = "judge"    THEN 14
    ELSE IF operation = "session"  THEN 15
    ELSE IF operation \in {"received", "continued", "changed"} THEN 16
    ELSE IF operation = "call"     THEN 17 ELSE IF operation = "continue" THEN 18
    ELSE IF operation = "plan"     THEN 19 ELSE IF operation = "enter"    THEN 20
    ELSE IF operation = "move"     THEN 21 ELSE IF operation = "off"      THEN 0
    ELSE 22

\* The files left to move, or the time left to the request.
Pending ==
    IF pc = "call" THEN Horizon - clock
    ELSE IF pc # "move" THEN 0
    ELSE (IF "request" \in root THEN 1 ELSE 0) + (IF "raw" \in root THEN 1 ELSE 0)
         + (IF "validation" \in root THEN 1 ELSE 0)

\* The lexicographic order of the three.
Descends ==
    \/ Left' < Left
    \/ Left' = Left /\ Rank(pc') < Rank(pc)
    \/ Left' = Left /\ Rank(pc') = Rank(pc) /\ Pending' < Pending

\* The order is that of three natural numbers.
LEMMA Measured ==
    ASSUME TypeInv, Bought, Timed
    PROVE  Left \in Nat /\ Rank(pc) \in Nat /\ Pending \in Nat
  <1>1. Left \in Nat
    BY ConstantTypes DEF Left, TypeInv, ExchangeType, SiteType, Bought
  <1>2. Rank(pc) \in Nat
    BY DEF Rank
  <1>3. Pending \in Nat
    BY ConstantTypes DEF Pending, TypeInv, DriverType, Timed, At
  <1> QED  BY <1>1, <1>2, <1>3

\* What a step to a lower operation needs not to touch.
LEMMA StepDown ==
    ASSUME UNCHANGED <<archive, setups>>, Rank(pc') < Rank(pc)
    PROVE  Descends
  BY DEF Descends, Left

\* Every step of the planner descends: a new directory spends an attempt, a try
\* spends time, and any other step goes on.
LEMMA PlannerDescends ==
    ASSUME TypeInv, Bought, Timed, PlannerStep, UNCHANGED setups
    PROVE  Descends
  <1> USE DEF At, Goto, Leave, Escape, exchange
  <1>1. CASE BuildContext \/ EnterPlan \/ OutOfTime \/ LoopExhausted \/ Reread \/ Ask
    BY <1>1, StepDown DEF BuildContext, EnterPlan, OutOfTime, LoopExhausted, Reread, Ask, Rank
  <1>2. CASE Continue \/ WriteAnswer \/ WriteSession \/ Judge
    BY <1>2, StepDown DEF Continue, WriteAnswer, WriteSession, Judge, Rank
  <1>3. CASE MakeAttempt
    <2>1. Len(archive') = Len(archive) + 1 /\ Len(archive) \in Nat
      BY <1>3 DEF MakeAttempt, TypeInv, ExchangeType
    <2>2. Attempts \in Nat /\ setups' = setups /\ setups \in Nat
      BY ConstantTypes DEF TypeInv, SiteType
    <2>3. Left' < Left
      BY <2>1, <2>2 DEF Left
    <2> QED  BY <2>3 DEF Descends
  <1>4. CASE MoveFile
    <2>1. Len(archive') = Len(archive)
      BY <1>4, MovedFile DEF TypeInv
    <2>2. pc = "move" /\ pc' = "move" /\ Left' = Left
      BY <1>4, <2>1 DEF MoveFile, Left
    <2>3. root # {} /\ root \subseteq {"request", "raw", "validation"}
          /\ root' = root \ {Archived}
      BY <1>4 DEF MoveFile, TypeInv, ExchangeType, Files
    <2>4. Pending' < Pending
      <3>1. CASE "request" \in root
        BY <2>2, <2>3, <3>1 DEF Pending, Archived
      <3>2. CASE "request" \notin root /\ "raw" \in root
        BY <2>2, <2>3, <3>2 DEF Pending, Archived
      <3>3. CASE "request" \notin root /\ "raw" \notin root
        <4>1. "validation" \in root
          BY <2>3, <3>3
        <4> QED  BY <2>2, <2>3, <3>3, <4>1 DEF Pending, Archived
      <3> QED  BY <3>1, <3>2, <3>3
    <2> QED  BY <2>2, <2>4 DEF Descends
  <1>5. CASE Rejected \/ Answer \/ GiveUp \/ Refuse
    BY <1>5, StepDown DEF Rejected, Answer, GiveUp, Refuse, Rank
  <1>6. CASE Retry
    <2>1. PICK d \in Durations, w \in Waits :
             /\ Room(clock + d, Clipped(clock + d, w))
             /\ clock' = clock + d + Clipped(clock + d, w)
      BY <1>6 DEF Retry
    <2>2. clock \in Nat /\ delay \in Nat
      BY DEF TypeInv, DriverType
    <2>3. d \in Nat /\ Clipped(clock + d, w) \in Nat /\ Clipped(clock + d, w) > 0
      BY <2>1, <2>2, WaitTypes, ConstantTypes DEF Room
    <2>4. pc = "call" /\ pc' = "call" /\ Left' = Left
      BY <1>6 DEF Retry, Left
    <2>5. Pending' < Pending
      BY <2>1, <2>2, <2>3, <2>4, ConstantTypes DEF Pending
    <2> QED  BY <2>4, <2>5 DEF Descends
  <1> QED  BY <1>1, <1>2, <1>3, <1>4, <1>5, <1>6 DEF PlannerStep

\* So does every step after the plan, a failure of Git or of the setup, and a
\* stop.
LEMMA RunDescends ==
    ASSUME TypeInv, Bought, Timed, Drive \/ GitFails \/ Stop
    PROVE  Descends
  <1> USE DEF At, Goto, Leave, Escape, exchange, setupVars, site
  <1>1. CASE PlannerStep /\ UNCHANGED <<setupVars, world>>
    BY <1>1, PlannerDescends
  <1>2. CASE PublishPlan \/ FreezeChecks \/ BindIdentity \/ OfferPlan
    BY <1>2, StepDown DEF PublishPlan, FreezeChecks, BindIdentity, OfferPlan, Rank
  <1>3. CASE SelectProfiles \/ AwaitApproval \/ BindSelection \/ EnterSetup
    BY <1>3, StepDown DEF SelectProfiles, AwaitApproval, BindSelection, EnterSetup, Rank
  <1>4. CASE CreateWorktree \/ OpenIssue \/ RecordIssue \/ RunSetup \/ FinishSetup
    BY <1>4, StepDown DEF CreateWorktree, OpenIssue, RecordIssue, RunSetup, FinishSetup, Rank
  <1>5. CASE FailSetup
    <2>1. CASE SetupLeft
      <3>1. archive' = archive /\ setups' = setups + 1
        BY <1>5, <2>1 DEF FailSetup
      <3>2. Len(archive) \in Nat /\ setups \in Nat /\ Attempts \in Nat
        BY ConstantTypes DEF TypeInv, ExchangeType, SiteType
      <3>3. Left' < Left
        BY <3>1, <3>2 DEF Left
      <3> QED  BY <3>3 DEF Descends
    <2>2. CASE ~SetupLeft
      BY <1>5, <2>2, StepDown DEF FailSetup, Rank
    <2> QED  BY <2>1, <2>2
  <1>8. CASE LeaveSetup
    BY <1>8, StepDown DEF LeaveSetup, SetupOutOfTime, EscapeContainment, FailPreflight, Rank
  <1>6. CASE GitFails
    BY <1>6, StepDown DEF GitFails, Rank
  <1>7. CASE Stop
    BY <1>7, StepDown DEF Stop, Rank
  <1> QED  BY <1>1, <1>2, <1>3, <1>4, <1>5, <1>6, <1>7, <1>8 DEF Drive

\* A driver has finitely many steps: each one lowers three natural numbers in
\* their lexicographic order, whatever answers, failures and stops it meets,
\* and nothing but a resume raises them.  What DriverLeaves adds is that a
\* driver that has not left has a step to take (PlannerV2.plan, _request_json,
\* prepare_workspace).
THEOREM DriversDescend ==
    Spec => /\ [](Left \in Nat /\ Rank(pc) \in Nat /\ Pending \in Nat)
            /\ [][Drive \/ GitFails \/ Stop => Descends]_vars
            /\ [][~Resume => Descends \/ UNCHANGED <<Left, pc, Pending>>]_vars
  <1> DEFINE Natural == Left \in Nat /\ Rank(pc) \in Nat /\ Pending \in Nat
             Inv     == TypeInv /\ Bought /\ Timed
  <1>1. Spec => []Inv
    BY TypeInit, TypeNext, BoughtInit, BoughtNext, TimedInit, TimedNext, PTL DEF Spec
  <1>2. Inv => Natural
    BY Measured
  <1>3. Inv /\ [Next]_vars => [Drive \/ GitFails \/ Stop => Descends]_vars
    BY RunDescends
  <1>4. Inv /\ [Next]_vars => [~Resume => Descends \/ UNCHANGED <<Left, pc, Pending>>]_vars
    <2> SUFFICES ASSUME Inv, Next, ~Resume PROVE Descends \/ UNCHANGED <<Left, pc, Pending>>
      BY DEF vars, plannerVars
    <2>1. CASE Drive \/ GitFails \/ Stop
      BY <2>1, RunDescends
    <2>2. CASE Reject \/ ChooseProfiles \/ Approve \/ RecordDecision \/ LoseRequest \/ EditToml
      <3>1. UNCHANGED <<archive, setups, pc, root, clock>>
        BY <2>2 DEF Reject, ChooseProfiles, Approve, RecordDecision, LoseRequest, EditToml,
           plannerVars, exchange, memory, setupVars, site
      <3> QED  BY <3>1 DEF Left, Pending
    <2> QED  BY <2>1, <2>2 DEF Next
  <1> QED  BY <1>1, <1>2, <1>3, <1>4, PTL DEF Spec
=============================================================================
