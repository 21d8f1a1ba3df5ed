-------------------------- MODULE RunOwnershipProofs --------------------------
(***************************************************************************)
(* What TLAPS proves of RunOwnership, for any number of processes, servers *)
(* and threads.                                                            *)
(***************************************************************************)
EXTENDS RunOwnership, TLAPS

\* What a new run starts from has its type,
LEMMA NewTypes == NewRecord \in Records /\ FirstCheckpoint \in CheckpointsHere
                  /\ NoSnap \in Snapshots
  BY BoundsAssumption DEF NewRecord, Records, OwnReasons, FirstCheckpoint,
     CheckpointsHere, NoSnap, Snapshots, Gate, Execution

\* It holds of a new record.
LEMMA TypeInit == Init => TypeOK
  BY NewTypes, BoundsAssumption, WorkersAssumption
     DEF Init, TypeOK, Stages, Mishaps, Workers

\* A posture write keeps the record well formed.
LEMMA PostureType ==
    ASSUME TypeOK, NEW d \in {"RUNNING", "WAIT_EXTERNAL", "COMPLETED", "FAILED"},
           NEW r \in OwnReasons
    PROVE  Posture(d, r) \in Records
  BY DEF Posture, TypeOK, Records

\* and so has the record a bound gate leaves.
LEMMA BoundType ==
    ASSUME TypeOK
    PROVE  Bound \in Records
  BY DEF Bound, TypeOK, Records

\* A move keeps the stages typed.
LEMMA MoveType ==
    ASSUME TypeOK, NEW w \in Workers, NEW to \in Stages, Move(w, to)
    PROVE  stage' \in [Workers -> Stages]
  BY DEF TypeOK, Move

\* The return of a worker keeps every part of the state typed that it changes.
LEMMA ReturnType ==
    ASSUME TypeOK, NEW w \in Workers, Return(w)
    PROVE  /\ stage' \in [Workers -> Stages]
           /\ active' \in [Servers -> BOOLEAN]
           /\ snap' \in [Workers -> Snapshots]
  BY NewTypes, WorkersAssumption DEF TypeOK, Return, Release, Move, Stages

\* So do the three partial updates of a snapshot.
LEMMA SnapType ==
    ASSUME TypeOK, NEW w \in Workers
    PROVE  /\ [snap EXCEPT ![w] = NoSnap] \in [Workers -> Snapshots]
           /\ [snap EXCEPT ![w] = [record |-> record, checkpoint |-> checkpoint]]
                 \in [Workers -> Snapshots]
           /\ [snap EXCEPT ![w].record = record] \in [Workers -> Snapshots]
           /\ [snap EXCEPT ![w].checkpoint = checkpoint] \in [Workers -> Snapshots]
           /\ [snap EXCEPT ![w].checkpoint.green = head] \in [Workers -> Snapshots]
  <1>1. [snap EXCEPT ![w] = NoSnap] \in [Workers -> Snapshots]
    BY NewTypes DEF TypeOK
  <1>2. [snap EXCEPT ![w] = [record |-> record, checkpoint |-> checkpoint]]
                 \in [Workers -> Snapshots]
    BY DEF TypeOK, Snapshots
  <1>3. [snap EXCEPT ![w].record = record] \in [Workers -> Snapshots]
    BY DEF TypeOK, Snapshots
  <1>4. [snap EXCEPT ![w].checkpoint = checkpoint] \in [Workers -> Snapshots]
    BY DEF TypeOK, Snapshots
  <1>5. [snap EXCEPT ![w].checkpoint.green = head] \in [Workers -> Snapshots]
    BY DEF TypeOK, Snapshots, CheckpointsHere
  <1> QED BY <1>1, <1>2, <1>3, <1>4, <1>5

-----------------------------------------------------------------------------
(* Type correctness, one step per action of Next.                          *)

\* Every step keeps it.
LEMMA TypeNext == TypeOK /\ [Next]_vars => TypeOK'
  <1> SUFFICES ASSUME TypeOK, [Next]_vars PROVE TypeOK' OBVIOUS
  <1>a. ASSUME NEW t \in Threads, Decide(t) \/ Reject(t) PROVE TypeOK'
    <2> t \in Workers BY DEF Workers
    <2> stage' \in [Workers -> Stages]
      BY <1>a, MoveType DEF Decide, Reject, Stages
    <2> QED BY <1>a, SnapType DEF TypeOK, Decide, Reject
  <1>b. ASSUME NEW w \in Workers, Request(w) \/ Commit(w) PROVE TypeOK'
    <2> stage' \in [Workers -> Stages]
      BY <1>b, MoveType DEF Request, Commit, Stages
    <2> QED BY <1>b DEF TypeOK, Request, Commit
  <1>c. ASSUME NEW w \in Workers, Continue(w) PROVE TypeOK'
    <2>1. CASE Freeze(w)
      <3> stage' \in [Workers -> Stages] BY <2>1, MoveType DEF Freeze, Stages
      <3> QED BY <2>1 DEF TypeOK, Freeze
    <2>2. CASE PublishDecision(w)
      <3> stage' \in [Workers -> Stages] BY <2>2, MoveType DEF PublishDecision, Stages
      <3> snap' \in [Workers -> Snapshots]
        BY <2>2, NewTypes DEF PublishDecision, TypeOK
      <3> QED BY <2>2 DEF TypeOK, PublishDecision
    <2>3. CASE BindIdentity(w)
      <3> stage' \in [Workers -> Stages] BY <2>3, MoveType DEF BindIdentity, Stages
      <3> record' \in Records BY <2>3, BoundType DEF BindIdentity, TypeOK
      <3> QED BY <2>3, SnapType DEF TypeOK, BindIdentity
    <2>4. CASE Admit(w)
      <3> stage' \in [Workers -> Stages] BY <2>4, MoveType DEF Admit, Stages
      <3> active' \in [Servers -> BOOLEAN] BY <2>4 DEF Admit, TypeOK
      <3> QED BY <2>4 DEF TypeOK, Admit
    <2>5. CASE LoadState(w)
      <3> stage' \in [Workers -> Stages] BY <2>5, MoveType DEF LoadState, Stages
      <3> QED BY <2>5, SnapType DEF TypeOK, LoadState
    <2>6. CASE Examine(w)
      <3>1. CASE Resumable(snap[w].record)
        <4> stage' \in [Workers -> Stages] BY <2>6, <3>1, MoveType DEF Examine, Stages
        <4> QED BY <2>6, <3>1, SnapType DEF TypeOK, Examine
      <3>2. CASE ~Resumable(snap[w].record)
        BY <2>6, <3>2, ReturnType DEF TypeOK, Examine
      <3> QED BY <3>1, <3>2
    <2>7. CASE Validate(w)
      <3>1. CASE head \in {snap[w].checkpoint.green, snap[w].checkpoint.green + 1}
        <4> stage' \in [Workers -> Stages] BY <2>7, <3>1, MoveType DEF Validate, Stages
        <4> QED BY <2>7, <3>1, SnapType DEF TypeOK, Validate
      <3>2. CASE head \notin {snap[w].checkpoint.green, snap[w].checkpoint.green + 1}
        <4> record' \in Records
          BY <2>7, <3>2, PostureType DEF Validate, OwnReasons, FatalReasons
        <4> Return(w) BY <2>7, <3>2 DEF Validate
        <4> mishaps' \subseteq Mishaps BY <2>7, <3>2 DEF Validate, TypeOK, Mishaps
        <4> QED BY <2>7, <3>2, ReturnType DEF TypeOK, Validate
      <3> QED BY <3>1, <3>2
    <2>8. CASE Restore(w)
      <3> stage' \in [Workers -> Stages] BY <2>8, MoveType DEF Restore, Stages
      <3> snap[w] \in Snapshots BY DEF TypeOK
      <3> head' \in Nat /\ checkpoint' \in CheckpointsHere
        BY <2>8 DEF Restore, TypeOK, Snapshots, CheckpointsHere
      <3> mishaps' \subseteq Mishaps BY <2>8 DEF Restore, TypeOK, Mishaps
      <3> QED BY <2>8 DEF TypeOK, Restore
    <2>9. CASE Claim(w)
      <3> stage' \in [Workers -> Stages] BY <2>9, MoveType DEF Claim, Stages, DriverStages
      <3> record' \in Records BY <2>9, PostureType DEF Claim, OwnReasons
      <3> mishaps' \subseteq Mishaps BY <2>9 DEF Claim, TypeOK, Mishaps
      <3> QED BY <2>9 DEF TypeOK, Claim
    <2>10. CASE LoseClaim(w)
      BY <2>10, ReturnType DEF TypeOK, LoseClaim
    <2>11. CASE Revalidate(w)
      <3> stage' \in [Workers -> Stages] BY <2>11, MoveType DEF Revalidate, Stages
      <3> record' \in Records
        BY <2>11, PostureType DEF Revalidate, TypeOK, OwnReasons, FatalReasons
      <3> QED BY <2>11, SnapType DEF TypeOK, Revalidate
    <2>12. CASE PassGate(w)
      <3> stage' \in [Workers -> Stages] BY <2>12, MoveType DEF PassGate, Stages
      <3> QED BY <2>12, BoundType DEF TypeOK, PassGate
    <2>13. CASE HonourRejection(w)
      <3> stage' \in [Workers -> Stages] BY <2>13, MoveType DEF HonourRejection, Stages
      <3> record' \in Records BY <2>13, PostureType DEF HonourRejection, OwnReasons
      <3> QED BY <2>13 DEF TypeOK, HonourRejection
    <2>14. CASE OpenWorktree(w)
      <3> stage' \in [Workers -> Stages] BY <2>14, MoveType DEF OpenWorktree, Stages
      <3> checkpoint' \in CheckpointsHere BY <2>14 DEF OpenWorktree, CheckpointsHere
      <3> QED BY <2>14 DEF TypeOK, OpenWorktree
    <2>15. CASE Advance(w)
      <3> stage' \in [Workers -> Stages] BY <2>15, MoveType DEF Advance, Stages
      <3> checkpoint' \in CheckpointsHere BY <2>15 DEF Advance, TypeOK, CheckpointsHere
      <3> QED BY <2>15 DEF TypeOK, Advance
    <2>16. CASE Close(w)
      BY <2>16, ReturnType DEF TypeOK, Close
    <2> QED BY <1>c, <2>1, <2>2, <2>3, <2>4, <2>5, <2>6, <2>7, <2>8, <2>9, <2>10,
               <2>11, <2>12, <2>13, <2>14, <2>15, <2>16 DEF Continue
  <1>d. ASSUME NEW w \in Workers, StopSomehow(w) PROVE TypeOK'
    <2>1. PICK d \in {"WAIT_EXTERNAL", "FAILED", "COMPLETED"}, r \in OwnReasons :
            Stop(w, d, r)
      BY <1>d DEF StopSomehow, OwnReasons
    <2> stage' \in [Workers -> Stages] BY <2>1, MoveType DEF Stop, Stages
    <2> record' \in Records BY <2>1, PostureType DEF Stop
    <2> QED BY <2>1, SnapType DEF TypeOK, Stop
  <1>e. ASSUME NEW c \in Clis, DieCli(c) PROVE TypeOK'
    <2> c \in Workers BY DEF Workers
    <2> QED BY <1>e, ReturnType DEF TypeOK, DieCli
  <1>f. ASSUME NEW s \in Servers, RestartServer(s) PROVE TypeOK'
    <2> stage' \in [Workers -> Stages] BY <1>f DEF RestartServer, TypeOK, Stages
    <2> snap' \in [Workers -> Snapshots] BY <1>f, NewTypes DEF RestartServer, TypeOK
    <2> QED BY <1>f DEF RestartServer, TypeOK
  <1>g. CASE UNCHANGED vars
    BY <1>g DEF vars, TypeOK
  <1> QED BY <1>a, <1>b, <1>c, <1>d, <1>e, <1>f, <1>g DEF Next

\* Every reachable state of RunOwnership is well typed: the postures, the
\* checkpoints and the stages the drivers and resumers leave are the declared ones.
THEOREM TypeCorrect == Spec => []TypeOK
  BY TypeInit, TypeNext, PTL DEF Spec

-----------------------------------------------------------------------------
(* One driver.  The inductive invariant adds to the property that a driven *)
(* run's record says RUNNING: that is what the compare-and-set of a claim  *)
(* relies on.                                                              *)

Holes == {"failed_under_driver", "gate_stolen"}

DrivenOnce == \A v, w \in Workers : Drives(v) /\ Drives(w) => v = w

DrivenRuns == \A w \in Workers : Drives(w) => record.disposition = "RUNNING"

OneDriverInv == mishaps \cap Holes = {} => DrivenOnce /\ DrivenRuns

\* A move makes a driver of nobody but the worker that moves.
LEMMA MoveDrives ==
    ASSUME TypeOK, NEW w \in Workers, NEW to \in Stages, Move(w, to)
    PROVE  \A v \in Workers : Drives(v)' <=> IF v = w THEN to \in DriverStages
                                                     ELSE Drives(v)
  BY DEF TypeOK, Move, Drives

\* A step that makes nobody a driver and leaves the disposition alone.
LEMMA QuietStep ==
    ASSUME OneDriverInv, mishaps' = mishaps,
           record'.disposition = record.disposition,
           \A v \in Workers : Drives(v)' => Drives(v)
    PROVE  OneDriverInv'
  BY DEF OneDriverInv, DrivenOnce, DrivenRuns

\* A driver that stops leaves no driver.
LEMMA ExitStep ==
    ASSUME OneDriverInv, mishaps' = mishaps, NEW w \in Workers,
           Drives(w), ~Drives(w)', \A v \in Workers : Drives(v)' => Drives(v)
    PROVE  OneDriverInv'
  BY DEF OneDriverInv, DrivenOnce, DrivenRuns

\* The dispositions that the two changes of a record leave.
LEMMA PostureOf == \A d, r : Posture(d, r).disposition = d
  BY DEF Posture

\* Binding the identity leaves the disposition alone.
LEMMA BoundOf == Bound.disposition = record.disposition
  BY DEF Bound

\* It holds of a new record.
LEMMA OneDriverInit == Init => OneDriverInv
  BY DEF Init, OneDriverInv, DrivenOnce, DrivenRuns, Drives, DriverStages, NewRecord

\* The steps of a worker inside a call keep it.
LEMMA OneDriverContinue ==
    ASSUME TypeOK, OneDriverInv, NEW w \in Workers, Continue(w)
    PROVE  OneDriverInv'
  <1>1. CASE Freeze(w) \/ PublishDecision(w) \/ BindIdentity(w)
    <2> record'.disposition = record.disposition
      BY <1>1, BoundOf DEF Freeze, PublishDecision, BindIdentity
    <2> \A v \in Workers : Drives(v)' => Drives(v)
      BY <1>1, MoveDrives DEF Freeze, PublishDecision, BindIdentity, Stages, DriverStages
    <2> QED BY <1>1, QuietStep DEF Freeze, PublishDecision, BindIdentity
  <1>2. CASE Admit(w) \/ LoadState(w) \/ Restore(w) \/ LoseClaim(w)
    <2>1. CASE Restore(w)
      <3> \A v \in Workers : Drives(v)' => Drives(v)
        BY <2>1, MoveDrives DEF Restore, Stages, DriverStages
      <3> mishaps' \cap Holes = mishaps \cap Holes
        BY <2>1 DEF Restore, Holes
      <3> QED BY <2>1 DEF Restore, OneDriverInv, DrivenOnce, DrivenRuns
    <2>2. CASE Admit(w) \/ LoadState(w) \/ LoseClaim(w)
      <3> \A v \in Workers : Drives(v)' => Drives(v)
        BY <2>2, MoveDrives DEF Admit, LoadState, LoseClaim, Return, Stages, DriverStages
      <3> QED BY <2>2, QuietStep DEF Admit, LoadState, LoseClaim
    <2> QED BY <1>2, <2>1, <2>2
  <1>3. CASE Examine(w)
    <2> \A v \in Workers : Drives(v)' => Drives(v)
      BY <1>3, MoveDrives DEF Examine, Return, Stages, DriverStages
    <2> QED BY <1>3, QuietStep DEF Examine
  <1>4. CASE Validate(w)
    <2> DEFINE same == head \in {snap[w].checkpoint.green, snap[w].checkpoint.green + 1}
    <2> \A v \in Workers : Drives(v)' => Drives(v)
      BY <1>4, MoveDrives DEF Validate, Return, Stages, DriverStages
    <2>1. CASE same
      BY <1>4, <2>1, QuietStep DEF Validate
    <2>2. CASE ~same
      <3> ~Drives(w) BY <1>4 DEF Validate, Drives, DriverStages
      <3>1. CASE OtherDriver(w)
        BY <1>4, <2>2, <3>1 DEF Validate, OneDriverInv, Holes
      <3>2. CASE ~OtherDriver(w)
        <4> \A v \in Workers : ~Drives(v) BY <3>2 DEF OtherDriver
        <4> QED BY DEF OneDriverInv, DrivenOnce, DrivenRuns
      <3> QED BY <3>1, <3>2
    <2> QED BY <2>1, <2>2
  <1>5. CASE Claim(w)
    <2> ~Drives(w) BY <1>5 DEF Claim, Drives, DriverStages
    <2> \A v \in Workers : v # w /\ Drives(v)' => Drives(v)
      BY <1>5, MoveDrives DEF Claim, Stages, DriverStages
    <2> record'.disposition = "RUNNING" BY <1>5, PostureOf DEF Claim
    <2>1. CASE OtherDriver(w)
      <3> SUFFICES ASSUME mishaps' \cap Holes = {} PROVE FALSE
        BY DEF OneDriverInv
      <3> mishaps \cap Holes = {} BY <1>5 DEF Claim, Holes
      <3> record.disposition = "RUNNING"
        BY <2>1 DEF OneDriverInv, DrivenRuns, OtherDriver
      <3> checkpoint.phase = Gate BY <1>5 DEF Claim, Claimable
      <3> QED BY <1>5, <2>1 DEF Claim, Holes
    <2>2. CASE ~OtherDriver(w)
      BY <2>2 DEF OneDriverInv, DrivenOnce, DrivenRuns, OtherDriver
    <2> QED BY <2>1, <2>2
  <1>6. CASE Revalidate(w)
    <2> \A v \in Workers : Drives(v)' => Drives(v)
      BY <1>6, MoveDrives DEF Revalidate, Stages, DriverStages, Drives
    <2>1. CASE selection = snap[w].record.bound
      BY <1>6, <2>1, QuietStep DEF Revalidate
    <2>2. CASE selection # snap[w].record.bound
      <3> Drives(w) /\ ~Drives(w)'
        BY <1>6, <2>2, MoveDrives DEF Revalidate, Stages, DriverStages, Drives
      <3> QED BY <1>6, ExitStep DEF Revalidate
    <2> QED BY <2>1, <2>2
  <1>7. CASE PassGate(w) \/ OpenWorktree(w) \/ Advance(w) \/ Close(w)
    <2> record'.disposition = record.disposition
      BY <1>7, BoundOf DEF PassGate, OpenWorktree, Advance, Close
    <2> \A v \in Workers : Drives(v)' => Drives(v)
      BY <1>7, MoveDrives DEF PassGate, OpenWorktree, Advance, Close, Return, Stages,
         DriverStages, Drives
    <2> QED BY <1>7, QuietStep DEF PassGate, OpenWorktree, Advance, Close
  <1>8. CASE HonourRejection(w)
    <2> /\ \A v \in Workers : Drives(v)' => Drives(v)
        /\ Drives(w) /\ ~Drives(w)'
      BY <1>8, MoveDrives DEF HonourRejection, Stages, DriverStages, Drives
    <2> QED BY <1>8, ExitStep DEF HonourRejection
  <1> QED BY <1>1, <1>2, <1>3, <1>4, <1>5, <1>6, <1>7, <1>8 DEF Continue

\* Every step keeps it.
LEMMA OneDriverNext == TypeOK /\ OneDriverInv /\ [Next]_vars => OneDriverInv'
  <1> SUFFICES ASSUME TypeOK, OneDriverInv, [Next]_vars PROVE OneDriverInv' OBVIOUS
  <1>1. ASSUME NEW t \in Threads, Decide(t) \/ Reject(t) PROVE OneDriverInv'
    <2> t \in Workers BY DEF Workers
    <2> \A v \in Workers : Drives(v)' => Drives(v)
      BY <1>1, MoveDrives DEF Decide, Reject, Stages, DriverStages
    <2> QED BY <1>1, QuietStep DEF Decide, Reject
  <1>2. ASSUME NEW w \in Workers, Request(w) \/ Commit(w) PROVE OneDriverInv'
    <2> \A v \in Workers : Drives(v)' => Drives(v)
      BY <1>2, MoveDrives DEF Request, Commit, Stages, DriverStages, Drives
    <2> QED BY <1>2, QuietStep DEF Request, Commit
  <1>3. ASSUME NEW w \in Workers, Continue(w) PROVE OneDriverInv'
    BY <1>3, OneDriverContinue
  <1>4. ASSUME NEW w \in Workers, StopSomehow(w) PROVE OneDriverInv'
    <2> PICK d, r : Stop(w, d, r) BY <1>4 DEF StopSomehow
    <2> /\ \A v \in Workers : Drives(v)' => Drives(v)
        /\ Drives(w) /\ ~Drives(w)'
      BY MoveDrives DEF Stop, Stages, DriverStages, Drives
    <2> QED BY ExitStep DEF Stop
  <1>5. ASSUME NEW c \in Clis, DieCli(c) PROVE OneDriverInv'
    <2> c \in Workers BY DEF Workers
    <2> \A v \in Workers : Drives(v)' => Drives(v)
      BY <1>5, MoveDrives DEF DieCli, Return, Stages, DriverStages
    <2> QED BY <1>5, QuietStep DEF DieCli
  <1>6. ASSUME NEW s \in Servers, RestartServer(s) PROVE OneDriverInv'
    <2> \A v \in Workers : Drives(v)' => Drives(v)
      BY <1>6 DEF RestartServer, Drives, DriverStages
    <2> QED BY <1>6, QuietStep DEF RestartServer
  <1>7. CASE UNCHANGED vars
    BY <1>7 DEF vars, OneDriverInv, DrivenOnce, DrivenRuns, Drives
  <1> QED BY <1>1, <1>2, <1>3, <1>4, <1>5, <1>6, <1>7 DEF Next

\* Whatever the number of command lines, servers and threads, the claim by
\* compare-and-set keeps the run at one driver until one of the two named holes
\* is used: a failure recorded under a driver, an approved gate taken over.
THEOREM OneDriver == Spec => []OneDriverUnlessMishap
  <1>1. OneDriverInv => OneDriverUnlessMishap
    BY DEF OneDriverInv, OneDriverUnlessMishap, DrivenOnce, Holes
  <1> QED BY <1>1, TypeInit, TypeNext, OneDriverInit, OneDriverNext, PTL DEF Spec

-----------------------------------------------------------------------------
(* One web server and no command line.  A thread past admission holds the  *)
(* server's slot for the run, and holds it alone.                          *)

Owns(w) == stage[w] \in OwningStages

SlotHeld  == \A w \in Workers : Owns(w) => active[ServerOf[w]]
OwnedOnce == \A v, w \in Workers : Owns(v) /\ Owns(w) => v = w

OneServerInv == mishaps = {} /\ SlotHeld /\ OwnedOnce

OneServer == Clis = {} /\ \A s, r \in Servers : s = r

\* With one server and no command line, every worker is a thread of that server.
LEMMA SameServer ==
    ASSUME OneServer
    PROVE  /\ Workers = Threads
           /\ \A v, w \in Workers : ServerOf[v] \in Servers /\ ServerOf[v] = ServerOf[w]
  BY WorkersAssumption DEF OneServer, Workers

\* A move makes an owner of nobody but the worker that moves.
LEMMA MoveOwns ==
    ASSUME TypeOK, NEW w \in Workers, NEW to \in Stages, Move(w, to)
    PROVE  \A v \in Workers : Owns(v)' <=> IF v = w THEN to \in OwningStages
                                                   ELSE Owns(v)
  BY DEF TypeOK, Move, Owns

\* A step that makes nobody an owner, and leaves the slot alone, keeps it.
LEMMA OwnersStay ==
    ASSUME OneServerInv, mishaps' = mishaps, active' = active,
           \A v \in Workers : Owns(v)' => Owns(v)
    PROVE  OneServerInv'
  BY DEF OneServerInv, SlotHeld, OwnedOnce

\* The slot is given back by the one worker that owns it.
LEMMA OwnerReturns ==
    ASSUME TypeOK, OneServer, OneServerInv, NEW w \in Workers, Owns(w), Return(w),
           mishaps' = mishaps
    PROVE  OneServerInv'
  <1> \A v \in Workers : ~Owns(v)'
    BY MoveOwns DEF Return, Stages, OwningStages, DriverStages, OneServerInv, OwnedOnce
  <1> QED BY DEF OneServerInv, SlotHeld, OwnedOnce

\* Another driver would be another owner.
LEMMA NoOtherDriver ==
    ASSUME OneServerInv, NEW w \in Workers, Owns(w)
    PROVE  ~OtherDriver(w)
  BY DEF OneServerInv, OwnedOnce, Owns, OwningStages, OtherDriver, Drives

\* It holds of a new record.
LEMMA OneServerInit == OneServer /\ Init => OneServerInv
  <1> SUFFICES ASSUME OneServer, Init PROVE OneServerInv OBVIOUS
  <1>1. PICK w \in Workers :
          /\ stage = [v \in Workers |-> IF v # w THEN "absent"
                                       ELSE IF GateUsed THEN "gate" ELSE "driving"]
          /\ active = [s \in Servers |-> w \in Threads /\ ServerOf[w] = s]
    BY DEF Init
  <1>2. \A v \in Workers : Owns(v) => v = w
    BY <1>1 DEF Owns, OwningStages, DriverStages
  <1>3. active[ServerOf[w]] BY <1>1, SameServer
  <1> QED BY <1>2, <1>3 DEF Init, OneServerInv, SlotHeld, OwnedOnce

\* The steps of a worker inside a call keep it.
LEMMA OneServerContinue ==
    ASSUME TypeOK, OneServer, OneServerInv, NEW w \in Workers, Continue(w)
    PROVE  OneServerInv'
  <1> USE DEF Stages, OwningStages, DriverStages
  <1>1. CASE Freeze(w) \/ PublishDecision(w) \/ BindIdentity(w)
    <2> \A v \in Workers : Owns(v)' => Owns(v)
      BY <1>1, MoveOwns DEF Freeze, PublishDecision, BindIdentity
    <2> QED BY <1>1, OwnersStay DEF Freeze, PublishDecision, BindIdentity
  <1>2. CASE Admit(w)
    <2>1. CASE active[ServerOf[w]]
      <3> \A v \in Workers : Owns(v)' => Owns(v) BY <1>2, <2>1, MoveOwns DEF Admit
      <3> QED BY <1>2, <2>1, OwnersStay DEF Admit
    <2>2. CASE ~active[ServerOf[w]]
      <3>1. \A v \in Workers : ~Owns(v)
        BY <2>2, SameServer DEF OneServerInv, SlotHeld
      <3>2. \A v \in Workers : Owns(v)' => v = w
        BY <1>2, <2>2, <3>1, MoveOwns DEF Admit
      <3>3. active'[ServerOf[w]]
        BY <1>2, <2>2, SameServer DEF Admit, TypeOK
      <3> QED BY <1>2, <3>2, <3>3 DEF Admit, OneServerInv, SlotHeld, OwnedOnce
    <2> QED BY <2>1, <2>2
  <1>3. CASE LoadState(w) \/ Revalidate(w) \/ PassGate(w) \/ HonourRejection(w)
             \/ OpenWorktree(w) \/ Advance(w)
    <2> \A v \in Workers : Owns(v)' => Owns(v)
      BY <1>3, MoveOwns DEF LoadState, Revalidate, PassGate, HonourRejection,
         OpenWorktree, Advance, Owns
    <2> QED BY <1>3, OwnersStay DEF LoadState, Revalidate, PassGate, HonourRejection,
         OpenWorktree, Advance
  <1>4. CASE Examine(w)
    <2>1. CASE Resumable(snap[w].record)
      <3> \A v \in Workers : Owns(v)' => Owns(v) BY <1>4, <2>1, MoveOwns DEF Examine, Owns
      <3> QED BY <1>4, <2>1, OwnersStay DEF Examine
    <2>2. CASE ~Resumable(snap[w].record)
      BY <1>4, <2>2, OwnerReturns DEF Examine, Owns
    <2> QED BY <2>1, <2>2
  <1>5. CASE Validate(w)
    <2> Owns(w) BY <1>5 DEF Validate, Owns
    <2> ~OtherDriver(w) BY NoOtherDriver
    <2>1. CASE head \in {snap[w].checkpoint.green, snap[w].checkpoint.green + 1}
      <3> \A v \in Workers : Owns(v)' => Owns(v) BY <1>5, <2>1, MoveOwns DEF Validate
      <3> QED BY <1>5, <2>1, OwnersStay DEF Validate
    <2>2. CASE head \notin {snap[w].checkpoint.green, snap[w].checkpoint.green + 1}
      BY <1>5, <2>2, OwnerReturns DEF Validate
    <2> QED BY <2>1, <2>2
  <1>6. CASE Restore(w) \/ Claim(w)
    <2> Owns(w) BY <1>6 DEF Restore, Claim, Owns
    <2> ~OtherDriver(w) BY NoOtherDriver
    <2> \A v \in Workers : Owns(v)' => Owns(v) BY <1>6, MoveOwns DEF Restore, Claim
    <2> QED BY <1>6, OwnersStay DEF Restore, Claim
  <1>7. CASE LoseClaim(w) \/ Close(w)
    BY <1>7, OwnerReturns DEF LoseClaim, Close, Owns
  <1> QED BY <1>1, <1>2, <1>3, <1>4, <1>5, <1>6, <1>7 DEF Continue

\* Every step keeps it.
LEMMA OneServerNext ==
    OneServer /\ TypeOK /\ OneServerInv /\ [Next]_vars => OneServerInv'
  <1> SUFFICES ASSUME OneServer, TypeOK, OneServerInv, [Next]_vars PROVE OneServerInv'
    OBVIOUS
  <1> USE DEF Stages, OwningStages, DriverStages
  <1>1. ASSUME NEW t \in Threads, Decide(t) \/ Reject(t) PROVE OneServerInv'
    <2> t \in Workers BY DEF Workers
    <2> \A v \in Workers : Owns(v)' => Owns(v) BY <1>1, MoveOwns DEF Decide, Reject
    <2> QED BY <1>1, OwnersStay DEF Decide, Reject
  <1>2. ASSUME NEW w \in Workers, Request(w) \/ Commit(w) PROVE OneServerInv'
    <2> w \in Threads BY SameServer
    <2> \A v \in Workers : Owns(v)' => Owns(v)
      BY <1>2, MoveOwns DEF Request, Commit, Owns
    <2> QED BY <1>2, OwnersStay DEF Request, Commit
  <1>3. ASSUME NEW w \in Workers, Continue(w) PROVE OneServerInv'
    BY <1>3, OneServerContinue
  <1>4. ASSUME NEW w \in Workers, StopSomehow(w) PROVE OneServerInv'
    <2> PICK d, r : Stop(w, d, r) BY <1>4 DEF StopSomehow
    <2> \A v \in Workers : Owns(v)' => Owns(v) BY MoveOwns DEF Stop, Drives, Owns
    <2> QED BY OwnersStay DEF Stop
  <1>5. ASSUME NEW c \in Clis, DieCli(c) PROVE OneServerInv'
    BY DEF OneServer
  <1>6. ASSUME NEW s \in Servers, RestartServer(s) PROVE OneServerInv'
    <2> \A v \in Workers : v \in Threads /\ ServerOf[v] = s
      BY SameServer, WorkersAssumption DEF OneServer
    <2> \A v \in Workers : ~Owns(v)' BY <1>6 DEF RestartServer, Owns
    <2> QED BY <1>6 DEF RestartServer, OneServerInv, SlotHeld, OwnedOnce
  <1>7. CASE UNCHANGED vars
    BY <1>7 DEF vars, OneServerInv, SlotHeld, OwnedOnce, Owns
  <1> QED BY <1>1, <1>2, <1>3, <1>4, <1>5, <1>6, <1>7 DEF Next

\* With one web server and no command line, whatever the number of its threads:
\* one driver at a time, and no resume request touches the run under it.
THEOREM OneServerIsSafe == OneServer => (Spec => []OneServerSafe)
  <1> SUFFICES ASSUME OneServer PROVE Spec => []OneServerSafe OBVIOUS
  <1>1. Init => OneServerInv BY OneServerInit
  <1>2. TypeOK /\ OneServerInv /\ [Next]_vars => OneServerInv' BY OneServerNext
  <1>3. OneServerInv => OneServerSafe
    BY DEF OneServerInv, OneServerSafe, OwnedOnce, Owns, Drives, OwningStages
  <1> QED BY <1>1, <1>2, <1>3, TypeInit, TypeNext, PTL DEF Spec

-----------------------------------------------------------------------------
(* Adoption.  With one server the slot's owner is alone with the worktree   *)
(* and the checkpoint, so that what it validated is still there when it    *)
(* restores, and what it restored when it claims: the branch is never more *)
(* than the one commit ahead that a death can leave.                       *)

Mirrored(w) ==
    /\ stage[w] \in {"ready", "claimed", "gate", "passed", "driving"} => head = checkpoint.green
    /\ stage[w] \in {"claimed", "gate", "passed"} => checkpoint.phase = Gate
    /\ stage[w] \in {"driving", "committed"} => checkpoint.phase = Execution
    /\ stage[w] \in {"examined", "validated"} =>
          snap[w].checkpoint.phase = Execution /\ checkpoint.phase = Execution
    /\ stage[w] = "examined" => snap[w].checkpoint.green = checkpoint.green
    /\ stage[w] = "validated" => snap[w].checkpoint.green = head

AdoptInv ==
    /\ CrashIsAdopted
    /\ head \in {checkpoint.green, checkpoint.green + 1}
    /\ checkpoint.phase = Gate => head = 0
    /\ \A w \in Workers : Mirrored(w)

\* It holds of a new record.
LEMMA AdoptInit == Init => AdoptInv
  <1> SUFFICES ASSUME Init PROVE AdoptInv OBVIOUS
  <1>1. ASSUME NEW v \in Workers
        PROVE  stage[v] = "absent" \/ stage[v] = IF GateUsed THEN "gate" ELSE "driving"
    BY DEF Init
  <1> QED  BY <1>1 DEF Init, AdoptInv, CrashIsAdopted, NewRecord, FirstCheckpoint, Mirrored,
           Gate, Execution

\* What leaves the worktree, the checkpoint and the reason alone, and takes
\* nobody into a stage that relies on them.
LEMMA UntouchedKeeps ==
    ASSUME AdoptInv, UNCHANGED <<head, checkpoint>>, record'.reason # "git_identity",
           \A v \in Workers : \/ stage'[v] = stage[v] /\ snap'[v] = snap[v]
                              \/ stage'[v] \notin (OwningStages \ {"entering", "loaded", "closing"})
    PROVE  AdoptInv'
  BY DEF AdoptInv, CrashIsAdopted, Mirrored, OwningStages, DriverStages

\* The owner of the slot moves on; the others are in no stage that matters.
LEMMA OwnerKeeps ==
    ASSUME TypeOK, OneServerInv, AdoptInv, NEW w \in Workers, Owns(w), NEW to \in Stages,
           Move(w, to), record'.reason # "git_identity", Mirrored(w)',
           head' \in {checkpoint'.green, checkpoint'.green + 1},
           checkpoint'.phase = Gate => head' = 0
    PROVE  AdoptInv'
  <1>1. ASSUME NEW v \in Workers PROVE Mirrored(v)'
    <2>1. CASE v = w
      BY <2>1
    <2>2. CASE v # w
      <3>1. ~Owns(v) /\ stage'[v] = stage[v]
        BY <2>2 DEF OneServerInv, OwnedOnce, Move, TypeOK
      <3> QED  BY <3>1 DEF Mirrored, Owns, OwningStages, DriverStages
    <2> QED  BY <2>1, <2>2
  <1> QED  BY <1>1 DEF AdoptInv, CrashIsAdopted

\* The steps of a worker inside a call keep it.
LEMMA AdoptContinue ==
    ASSUME TypeOK, OneServer, OneServerInv, AdoptInv, NEW w \in Workers, Continue(w)
    PROVE  AdoptInv'
  <1> USE DEF Stages, OwningStages, DriverStages
  <1>t. /\ head \in Nat /\ checkpoint \in CheckpointsHere /\ checkpoint.green \in Nat
        /\ checkpoint.phase \in {Gate, Execution} /\ Gate # Execution
        /\ snap \in [Workers -> Snapshots] /\ stage \in [Workers -> Stages]
        /\ record.reason # "git_identity" /\ Mirrored(w)
    BY DEF TypeOK, CheckpointsHere, AdoptInv, CrashIsAdopted, Gate, Execution
  <1>p. /\ \A d, r : Posture(d, r).reason = r
        /\ Bound.reason = record.reason
    BY DEF Posture, Bound
  <1>1. CASE \/ Freeze(w) \/ PublishDecision(w) \/ BindIdentity(w) \/ Admit(w) \/ LoadState(w)
             \/ LoseClaim(w) \/ Close(w)
    <2>1. UNCHANGED <<head, checkpoint>> /\ record'.reason = record.reason
      BY <1>1, <1>p DEF Freeze, PublishDecision, BindIdentity, Admit, LoadState, LoseClaim,
         Close
    <2>2. \E to \in {"absent", "frozen", "published", "called", "entering", "loaded"} :
             Move(w, to)
      BY <1>1 DEF Freeze, PublishDecision, BindIdentity, Admit, LoadState, LoseClaim, Close,
         Return
    <2>3. \A v \in Workers : v # w => snap'[v] = snap[v]
      BY <1>1, <1>t DEF Freeze, PublishDecision, BindIdentity, Admit, LoadState, LoseClaim,
         Close, Return
    <2>4. \A v \in Workers : \/ stage'[v] = stage[v] /\ snap'[v] = snap[v]
                             \/ stage'[v] \in {"absent", "frozen", "published", "called",
                                               "entering", "loaded"}
      BY <1>t, <2>2, <2>3 DEF Move
    <2> QED  BY <1>t, <2>1, <2>4, UntouchedKeeps
  <1>2. CASE Examine(w)
    <2>1. CASE Resumable(snap[w].record)
      <3> DEFINE to == IF checkpoint.phase = Gate THEN "ready" ELSE "examined"
      <3>1. /\ Owns(w) /\ Move(w, to) /\ to \in Stages /\ stage'[w] = to
            /\ UNCHANGED <<head, checkpoint, record>> /\ snap'[w].checkpoint = checkpoint
        BY <1>2, <1>t, <2>1 DEF Examine, Owns, Move, Snapshots
      <3>2. Mirrored(w)'
        BY <1>t, <3>1 DEF Mirrored, AdoptInv
      <3> HIDE DEF to
      <3> QED  BY <1>t, <3>1, <3>2, OwnerKeeps DEF AdoptInv
    <2>2. CASE ~Resumable(snap[w].record)
      <3>1. /\ Owns(w) /\ Move(w, "absent") /\ stage'[w] = "absent"
            /\ UNCHANGED <<head, checkpoint, record>>
        BY <1>2, <1>t, <2>2 DEF Examine, Owns, Move, Return
      <3> QED  BY <1>t, <3>1, OwnerKeeps DEF AdoptInv, Mirrored
    <2> QED  BY <2>1, <2>2
  <1>3. CASE Validate(w)
    <2>1. head \in {snap[w].checkpoint.green, snap[w].checkpoint.green + 1} /\ Owns(w)
      BY <1>3, <1>t DEF Validate, Owns, Mirrored, AdoptInv
    <2>2. /\ Move(w, "validated") /\ stage'[w] = "validated"
          /\ UNCHANGED <<head, checkpoint, record>>
          /\ snap' = [snap EXCEPT ![w].checkpoint.green = head] /\ stage[w] = "examined"
      BY <1>3, <1>t, <2>1 DEF Validate, Move
    <2>3. snap'[w].checkpoint.phase = snap[w].checkpoint.phase
          /\ snap'[w].checkpoint.green = head
      BY <1>t, <2>2 DEF Snapshots, CheckpointsHere
    <2>4. Mirrored(w)'
      BY <1>t, <2>2, <2>3 DEF Mirrored
    <2> QED  BY <1>t, <2>1, <2>2, <2>4, OwnerKeeps DEF AdoptInv
  <1>4. CASE Restore(w)
    <2>1. /\ Owns(w) /\ Move(w, "ready") /\ stage'[w] = "ready" /\ UNCHANGED record
          /\ head' = head /\ snap[w].checkpoint.green = head /\ snap[w] \in Snapshots
          /\ checkpoint' = IF head # checkpoint.green THEN snap[w].checkpoint ELSE checkpoint
          /\ snap[w].checkpoint.phase = Execution /\ checkpoint.phase = Execution
      BY <1>4, <1>t DEF Restore, Owns, Move, Mirrored
    <2>2. checkpoint'.green = head /\ checkpoint'.phase = Execution
      BY <2>1
    <2>3. Mirrored(w)'
      BY <2>1, <2>2 DEF Mirrored
    <2> QED  BY <1>t, <2>1, <2>2, <2>3, OwnerKeeps
  <1>5. CASE Claim(w)
    <2> DEFINE to == IF checkpoint.phase = Gate THEN "claimed" ELSE "driving"
    <2>1. /\ Owns(w) /\ Move(w, to) /\ to \in Stages /\ stage'[w] = to /\ stage[w] = "ready"
          /\ UNCHANGED <<head, checkpoint>> /\ record'.reason = "none"
      BY <1>5, <1>t, <1>p DEF Claim, Owns, Move
    <2>2. Mirrored(w)'
      BY <1>t, <2>1 DEF Mirrored
    <2> HIDE DEF to
    <2> QED  BY <1>t, <2>1, <2>2, OwnerKeeps DEF AdoptInv
  <1>6. CASE Revalidate(w) \/ PassGate(w) \/ HonourRejection(w)
    <2>1. /\ Owns(w) /\ UNCHANGED <<head, checkpoint>> /\ record'.reason # "git_identity"
          /\ stage[w] \in {"claimed", "gate"}
          /\ \E to \in {"gate", "closing", "passed"} : Move(w, to) /\ stage'[w] = to
      BY <1>6, <1>t, <1>p DEF Revalidate, PassGate, HonourRejection, Owns, Move
    <2>2. Mirrored(w)'
      BY <1>t, <2>1 DEF Mirrored
    <2> QED  BY <1>t, <2>1, <2>2, OwnerKeeps DEF AdoptInv
  <1>7. CASE OpenWorktree(w)
    <2>1. /\ Owns(w) /\ Move(w, "driving") /\ stage'[w] = "driving"
          /\ UNCHANGED <<head, record>>
          /\ checkpoint' = [phase |-> Execution, green |-> 0] /\ head = 0
      BY <1>7, <1>t DEF OpenWorktree, Owns, Move, Mirrored, AdoptInv
    <2>2. Mirrored(w)'
      BY <2>1 DEF Mirrored
    <2> QED  BY <1>t, <2>1, <2>2, OwnerKeeps
  <1>8. CASE Advance(w)
    <2>1. /\ Owns(w) /\ Move(w, "driving") /\ stage'[w] = "driving"
          /\ UNCHANGED <<head, record>>
          /\ checkpoint'.green = head /\ checkpoint'.phase = Execution
      BY <1>8, <1>t DEF Advance, Owns, Move, Mirrored, CheckpointsHere
    <2>2. Mirrored(w)'
      BY <2>1 DEF Mirrored
    <2> QED  BY <1>t, <2>1, <2>2, OwnerKeeps
  <1> QED  BY <1>1, <1>2, <1>3, <1>4, <1>5, <1>6, <1>7, <1>8 DEF Continue

\* Every step keeps it.
LEMMA AdoptNext ==
    OneServer /\ TypeOK /\ OneServerInv /\ AdoptInv /\ [Next]_vars => AdoptInv'
  <1> SUFFICES ASSUME OneServer, TypeOK, OneServerInv, AdoptInv, [Next]_vars PROVE AdoptInv'
    OBVIOUS
  <1> USE DEF Stages, OwningStages, DriverStages
  <1>t. /\ record.reason # "git_identity" /\ stage \in [Workers -> Stages]
        /\ snap \in [Workers -> Snapshots] /\ head \in Nat /\ checkpoint.green \in Nat
    BY DEF AdoptInv, CrashIsAdopted, TypeOK, CheckpointsHere
  <1>1. ASSUME NEW w \in Workers, Decide(w) \/ Reject(w) \/ Request(w) PROVE AdoptInv'
    <2>1. /\ UNCHANGED <<head, checkpoint, record>>
          /\ \E to \in {"absent", "deciding", "called", "entering"} : Move(w, to)
          /\ \A v \in Workers : v # w => snap'[v] = snap[v]
      BY <1>1, <1>t DEF Decide, Reject, Request
    <2>2. \A v \in Workers : \/ stage'[v] = stage[v] /\ snap'[v] = snap[v]
                             \/ stage'[v] \in {"absent", "deciding", "called", "entering"}
      BY <1>t, <2>1 DEF Move
    <2> QED  BY <1>t, <2>1, <2>2, UntouchedKeeps
  <1>2. ASSUME NEW w \in Workers, Continue(w) PROVE AdoptInv'
    BY <1>2, AdoptContinue
  <1>3. ASSUME NEW w \in Workers, Commit(w) PROVE AdoptInv'
    <2>1. /\ Owns(w) /\ Move(w, "committed") /\ stage'[w] = "committed" /\ UNCHANGED record
          /\ head = checkpoint.green /\ head' = head + 1 /\ UNCHANGED checkpoint
          /\ checkpoint.phase = Execution
      BY <1>3, <1>t DEF Commit, Owns, Move, AdoptInv, Mirrored
    <2>2. Mirrored(w)'
      BY <2>1 DEF Mirrored
    <2> QED  BY <1>t, <2>1, <2>2, OwnerKeeps DEF Gate, Execution
  <1>4. ASSUME NEW w \in Workers, StopSomehow(w) PROVE AdoptInv'
    <2>1. PICK d \in {"WAIT_EXTERNAL", "FAILED", "COMPLETED"},
               r \in {"transient", "interrupted", "none"} : Stop(w, d, r)
      BY <1>4 DEF StopSomehow
    <2>2. /\ UNCHANGED <<head, checkpoint>> /\ record'.reason = r
          /\ \A v \in Workers : \/ stage'[v] = stage[v] /\ snap'[v] = snap[v]
                                \/ stage'[v] = "closing"
      BY <1>t, <2>1 DEF Stop, Move, Posture
    <2> QED  BY <2>2, UntouchedKeeps
  <1>5. ASSUME NEW c \in Clis, DieCli(c) PROVE AdoptInv'
    BY DEF OneServer
  <1>6. ASSUME NEW s \in Servers, RestartServer(s) PROVE AdoptInv'
    <2>1. \A v \in Workers : v \in Threads /\ ServerOf[v] = s
      BY SameServer, WorkersAssumption DEF OneServer
    <2>2. UNCHANGED <<head, checkpoint, record>>
          /\ \A v \in Workers : stage'[v] \in {"called", "absent"}
      BY <1>6, <2>1 DEF RestartServer
    <2> QED  BY <1>t, <2>2, UntouchedKeeps
  <1>7. CASE UNCHANGED vars
    BY <1>7 DEF vars, AdoptInv, CrashIsAdopted, Mirrored
  <1> QED  BY <1>1, <1>2, <1>3, <1>4, <1>5, <1>6, <1>7 DEF Next, Workers

\* With one web server and no command line, whatever the number of its threads
\* and of its restarts: a death between a commit and its checkpoint is adopted
\* by the next resume, and no resume answers it with an integrity failure
\* (prepare_resume).
THEOREM CrashesAreAdopted == OneServer => (Spec => []CrashIsAdopted)
  <1> SUFFICES ASSUME OneServer PROVE Spec => []CrashIsAdopted OBVIOUS
  <1>1. Init => OneServerInv BY OneServerInit
  <1>2. TypeOK /\ OneServerInv /\ [Next]_vars => OneServerInv' BY OneServerNext
  <1>3. TypeOK /\ OneServerInv /\ AdoptInv /\ [Next]_vars => AdoptInv' BY AdoptNext
  <1>4. AdoptInv => CrashIsAdopted BY DEF AdoptInv
  <1> QED BY <1>1, <1>2, <1>3, <1>4, TypeInit, TypeNext, AdoptInit, PTL DEF Spec

\* Nor is a commit ever taken back: the rewind of a resume is to the head it
\* adopted (runbook, "failure != lost work").
THEOREM CommitsAreKept == OneServer => (Spec => CommitsKept)
  <1> SUFFICES ASSUME OneServer PROVE Spec => CommitsKept OBVIOUS
  <1>1. Init => OneServerInv BY OneServerInit
  <1>2. TypeOK /\ OneServerInv /\ [Next]_vars => OneServerInv' BY OneServerNext
  <1>3. TypeOK /\ OneServerInv /\ AdoptInv /\ [Next]_vars => AdoptInv' BY AdoptNext
  <1>4. TypeOK /\ AdoptInv /\ [Next]_vars => [head' >= head]_vars
    <2> SUFFICES ASSUME TypeOK, AdoptInv, [Next]_vars PROVE UNCHANGED vars \/ head' >= head
      OBVIOUS
    <2>t. head \in Nat
      BY DEF TypeOK
    <2>1. ASSUME NEW w \in Workers, Commit(w) PROVE head' >= head
      BY <2>1, <2>t DEF Commit
    <2>2. ASSUME NEW w \in Workers, Restore(w) PROVE head' >= head
      BY <2>2, <2>t DEF Restore, AdoptInv, Mirrored
    <2>3. CASE \A w \in Workers : ~Commit(w) /\ ~Restore(w)
      <3>1. head' = head
        BY <2>3 DEF Next, vars, Decide, Reject, Request, Continue, Freeze, PublishDecision,
           BindIdentity, Admit, LoadState, Examine, Validate, Claim, LoseClaim, Revalidate,
           PassGate, HonourRejection, OpenWorktree, Advance, Close, StopSomehow, Stop, DieCli,
           RestartServer
      <3> QED  BY <3>1, <2>t
    <2> QED  BY <2>1, <2>2, <2>3
  <1> QED BY <1>1, <1>2, <1>3, <1>4, TypeInit, TypeNext, AdoptInit, PTL DEF Spec, CommitsKept

-----------------------------------------------------------------------------

\* approval._publish_exclusive: for any number of deciders, at most one decision
\* is ever published, and nothing replaces it.
THEOREM FinalDecision == Spec => DecisionFinal
  <1>1. [Next]_vars => [decision # "none" => decision' = decision]_vars
    BY DEF Next, vars, Decide, Reject, Request, Continue, Freeze, PublishDecision,
       BindIdentity, Admit, LoadState, Examine, Validate, Restore, Claim, LoseClaim,
       Revalidate, PassGate, HonourRejection, OpenWorktree, Advance, Close, Commit,
       StopSomehow, Stop, DieCli, RestartServer
  <1> QED BY <1>1, PTL DEF Spec, DecisionFinal

=============================================================================
