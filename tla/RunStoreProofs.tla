---------------------------- MODULE RunStoreProofs ----------------------------
(***************************************************************************)
(* What TLAPS proves of RunStore, for any number of clients, fields and    *)
(* writes.  The argument: the flock makes the steps of one mutation a      *)
(* critical section (LockHeld), so the record a client loaded is still the *)
(* one on disk when it replaces it (FreshLoad); the rest follows.          *)
(***************************************************************************)
EXTENDS RunStore, TLAPS

\* The holder of the flock is the one client inside the critical section.
LockHeld == \A c \in Clients : InLock(c) <=> lock = c

\* No write slips between a load and the replacement computed from it.
FreshLoad == \A c \in Clients : pc[c] \in {"loaded", "stamped"} => local[c] = file

\* Claimed generations are in the past: a new claim is of a new generation.
WonInThePast == \A w \in won : w[2] < file.updatedAt

IInv == /\ TypeOK
        /\ LockHeld
        /\ FreshLoad
        /\ StatusIsProjection
        /\ NoLostField
        /\ WonInThePast
        /\ AtMostOneWinner

-----------------------------------------------------------------------------
(* Lemmas about the operators.                                             *)

\* Every machine state has a projected status.
LEMMA StatusOfType ==
    ASSUME NEW m \in Machines PROVE StatusOf(m) \in Statuses
  BY DEF StatusOf, Statuses, Machines, Dispositions

\* _apply keeps the record well formed and advances its generation by one.
LEMMA AppliedType ==
    ASSUME NEW f \in Files, NEW m \in Machines, NEW r \in Reasons \cup {NoReason}
    PROVE  /\ Applied(f, m, r) \in Files
           /\ Applied(f, m, r).updatedAt = f.updatedAt + 1
           /\ Applied(f, m, r).fields = f.fields
           /\ Applied(f, m, r).status = StatusOf(m)
           /\ m = Machine(Applied(f, m, r).phase, Applied(f, m, r).disposition,
                          Applied(f, m, r).reason)
  <1> DEFINE g == Applied(f, m, r)
  <1>1. StatusOf(m) \in Statuses
    BY StatusOfType
  <1>2. /\ m.phase \in Phases \cup {NoPhase}
        /\ m.disposition \in Dispositions
        /\ m.reason \in Reasons \cup {NoReason}
        /\ m = [phase |-> m.phase, disposition |-> m.disposition, reason |-> m.reason]
    BY DEF Machines
  <1>3. g = [ phase |-> m.phase, disposition |-> m.disposition, reason |-> m.reason,
              failure |-> r, status |-> StatusOf(m), fields |-> f.fields,
              updatedAt |-> f.updatedAt + 1 ]
    BY DEF Applied, Files
  <1>4. f.fields \in [Fields -> Nat] /\ f.updatedAt + 1 \in Nat
    BY DEF Files
  <1>5. g \in Files
    BY <1>1, <1>2, <1>3, <1>4 DEF Files
  <1> HIDE DEF g
  <1>6. m = Machine(g.phase, g.disposition, g.reason)
    BY <1>2, <1>3 DEF Machine
  <1>7. QED
    BY <1>3, <1>5, <1>6 DEF g

\* The machine read back from a record and a checkpoint is a machine state.
LEMMA RecordedType ==
    ASSUME NEW f \in Files, NEW ck \in Checkpoints
    PROVE  /\ PhaseRead(f, ck) \in Phases \cup {NoPhase}
           /\ Recorded(f, ck) \in Machines
           /\ Recorded(f, ck).disposition = f.disposition
  BY InputsAssumption
     DEF PhaseRead, Recorded, ReasonRead, Machine, Machines, Files, Checkpoints

\* set_run_state resolves a machine state to a machine state.
LEMMA ResolvedType ==
    ASSUME NEW f \in Files, NEW ck \in Checkpoints, NEW m \in Machines
    PROVE  Resolved(f, ck, m) \in Machines
  BY InputsAssumption DEF Resolved, Machine, Machines, Files, Checkpoints

\* The claim leaves a running machine state.
LEMMA ResumeType ==
    ASSUME NEW m \in Machines
    PROVE  After(m, Resume) \in Machines
  BY DEF After, Resume, Event, Machine, Machines, Dispositions

\* The record initialize() writes is well formed.
LEMMA NewFileType == NewFile \in Files /\ NoCheckpoint \in Checkpoints
                     /\ NoIdentity \in Identities
  BY DEF NewFile, Files, NoCheckpoint, Checkpoints, NoIdentity, Identities, Machine,
         Machines, Dispositions, Statuses

\* An observed identity is well typed.
LEMMA IdentityType ==
    ASSUME NEW f \in Files, NEW ck \in Checkpoints
    PROVE  Identity(f, ck) \in Identities
  BY RecordedType DEF Identity, Identities, Files

-----------------------------------------------------------------------------
(* Type correctness.                                                       *)

\* It holds of a store nobody has opened.
LEMMA TypeInit == Init => TypeOK
  BY NewFileType DEF Init, TypeOK, NoCall

\* Writing a machine over a loaded record keeps every variable typed.
LEMMA LeaveType ==
    ASSUME TypeOK, NEW c \in Clients, Leave(c)
    PROVE  /\ lock' \in Clients \cup {NoClient}
           /\ pc' \in [Clients -> {"idle", "observing", "waiting", "locked",
                                   "loaded", "stamped"}]
           /\ call' \in [Clients -> Calls \cup {NoCall}]
           /\ local' \in [Clients -> Files]
           /\ stamp' \in [Clients -> Checkpoints]
  BY NewFileType DEF TypeOK, Leave

\* Every step keeps it.
LEMMA TypeStep == TypeOK /\ [Next]_vars => TypeOK'
  <1> SUFFICES ASSUME TypeOK, [Next]_vars PROVE TypeOK'
    OBVIOUS
  <1>1. ASSUME NEW c \in Clients, ObserveFile(c) PROVE TypeOK'
    BY <1>1 DEF ObserveFile, TypeOK
  <1>2. ASSUME NEW c \in Clients, ObserveStamp(c) PROVE TypeOK'
    <2>1. Identity(local[c], checkpoint) \in Identities
      BY IdentityType DEF TypeOK
    <2>2. QED
      BY <1>2, <2>1, NewFileType DEF ObserveStamp, TypeOK
  <1>3. ASSUME NEW c \in Clients, NEW k \in Calls, Begin(c, k) PROVE TypeOK'
    BY <1>3 DEF Begin, TypeOK
  <1>4. ASSUME NEW c \in Clients, Acquire(c) PROVE TypeOK'
    BY <1>4 DEF Acquire, TypeOK
  <1>5. ASSUME NEW c \in Clients, Load(c) PROVE TypeOK'
    BY <1>5 DEF Load, TypeOK
  <1>6. ASSUME NEW c \in Clients, ReadStamp(c) PROVE TypeOK'
    BY <1>6 DEF ReadStamp, TypeOK
  <1>7. ASSUME NEW c \in Clients, RefuseCheckpoint(c) PROVE TypeOK'
    BY <1>7, LeaveType DEF RefuseCheckpoint, TypeOK
  <1>8. ASSUME NEW c \in Clients, UpdateMetadata(c) PROVE TypeOK'
    <2> DEFINE m == Recorded(local[c], stamp[c])
               merged == Applied(local[c], m, local[c].failure)
    <2>1. local[c] \in Files /\ stamp[c] \in Checkpoints
      BY DEF TypeOK
    <2>2. m \in Machines
      BY <2>1, RecordedType
    <2>3. local[c].failure \in Reasons \cup {NoReason}
      BY <2>1 DEF Files
    <2>4. merged \in Files
      BY <2>1, <2>2, <2>3, AppliedType
    <2>5. call[c].kind = "metadata" /\ call[c] \in Calls \cup {NoCall}
      BY <1>8 DEF UpdateMetadata, CanMerge, TypeOK
    <2>6. call[c].field \in Fields
      BY <2>5 DEF Calls, NoCall
    <2>7. file' = [merged EXCEPT !.fields[call[c].field] = merged.updatedAt]
      BY <1>8 DEF UpdateMetadata
    <2> HIDE DEF merged, m
    <2>8. file' \in Files
      BY <2>4, <2>6, <2>7 DEF Files
    <2>9. lastWrite' \in [Fields -> Nat]
      BY <1>8, <2>6, <2>8 DEF UpdateMetadata, TypeOK, Files
    <2>10. QED
      BY <1>8, <2>8, <2>9, LeaveType DEF UpdateMetadata, TypeOK
  <1>9. ASSUME NEW c \in Clients, SetRunState(c) PROVE TypeOK'
    <2> DEFINE m == Resolved(local[c], stamp[c], call[c].machine)
               r == IF m.reason = NoReason THEN local[c].failure ELSE m.reason
    <2>1. local[c] \in Files /\ stamp[c] \in Checkpoints
      BY DEF TypeOK
    <2>2. call[c].kind = "set" /\ call[c] \in Calls \cup {NoCall}
      BY <1>9 DEF SetRunState, CanSet, TypeOK
    <2>3. call[c].machine \in Machines
      BY <2>2, InputsAssumption DEF Calls, NoCall
    <2>4. m \in Machines
      BY <2>1, <2>3, ResolvedType
    <2> HIDE DEF m
    <2>5. r \in Reasons \cup {NoReason}
      BY <2>1, <2>4 DEF Files, Machines
    <2>6. file' = Applied(local[c], m, r)
      BY <1>9 DEF SetRunState, m
    <2>7. file' \in Files
      BY <2>1, <2>4, <2>5, <2>6, AppliedType
    <2>8. QED
      BY <1>9, <2>7, LeaveType DEF SetRunState, TypeOK
  <1>10. ASSUME NEW c \in Clients, TransitionRun(c) PROVE TypeOK'
    <2> DEFINE m == After(Recorded(local[c], stamp[c]), Resume)
    <2>1. local[c] \in Files /\ stamp[c] \in Checkpoints
      BY DEF TypeOK
    <2>2. m \in Machines
      BY <2>1, RecordedType, ResumeType
    <2>3. file' = Applied(local[c], m, NoReason)
      BY <1>10 DEF TransitionRun
    <2> HIDE DEF m
    <2>4. file' \in Files
      BY <2>1, <2>2, <2>3, AppliedType
    <2>5. won' \subseteq Clients \X Nat
      BY <1>10 DEF TransitionRun, TypeOK, Identities
    <2>6. QED
      BY <1>10, <2>4, <2>5, LeaveType DEF TransitionRun, TypeOK
  <1>11. ASSUME NEW c \in Clients, RecordFailure(c) PROVE TypeOK'
    <2> DEFINE m == Machine(PhaseRead(local[c], stamp[c]), "FAILED", call[c].reason)
    <2>1. local[c] \in Files /\ stamp[c] \in Checkpoints
      BY DEF TypeOK
    <2>2. call[c].kind = "failure" /\ call[c] \in Calls \cup {NoCall}
      BY <1>11 DEF RecordFailure, TypeOK
    <2>3. call[c].reason \in Reasons
      BY <2>2, InputsAssumption DEF Calls, NoCall
    <2>4. m \in Machines /\ m.reason \in Reasons \cup {NoReason}
      BY <2>1, <2>3, RecordedType DEF Machine, Machines, Dispositions
    <2>5. file' = Applied(local[c], m, m.reason)
      BY <1>11 DEF RecordFailure
    <2> HIDE DEF m
    <2>6. file' \in Files
      BY <2>1, <2>4, <2>5, AppliedType
    <2>7. QED
      BY <1>11, <2>6, LeaveType DEF RecordFailure, TypeOK
  <1>12. ASSUME NEW c \in Clients, RefuseCall(c) PROVE TypeOK'
    BY <1>12, LeaveType DEF RefuseCall, TypeOK
  <1>13. ASSUME NEW c \in Clients, NEW p \in UsedPhases, NEW b \in Bodies,
                WriteCheckpoint(c, p, b)
         PROVE TypeOK'
    BY <1>13 DEF WriteCheckpoint, TypeOK, Checkpoints
  <1>14. ASSUME NEW c \in Clients, Die(c) PROVE TypeOK'
    BY <1>14, NewFileType DEF Die, TypeOK
  <1>15. ASSUME NEW form \in {"foreign", "corrupt"}, DamageCheckpoint(form) PROVE TypeOK'
    BY <1>15 DEF DamageCheckpoint, TypeOK, Checkpoints
  <1>16. CASE UNCHANGED vars
    BY <1>16 DEF vars, TypeOK
  <1>17. QED
    BY <1>1, <1>2, <1>3, <1>4, <1>5, <1>6, <1>7, <1>8, <1>9, <1>10, <1>11, <1>12,
       <1>13, <1>14, <1>15, <1>16 DEF Next, InCall

\* state.py: every variable keeps its type, whatever the store calls do.
THEOREM TypeCorrect == Spec => []TypeOK
  BY TypeInit, TypeStep, PTL DEF Spec

-----------------------------------------------------------------------------
(* The critical section and what it protects.                              *)

\* It holds of a store nobody has opened.
LEMMA InvInit == Init => IInv
  <1> SUFFICES ASSUME Init PROVE IInv
    OBVIOUS
  <1>1. TypeOK
    BY TypeInit
  <1>2. LockHeld /\ FreshLoad
    BY ClientsAssumption DEF Init, LockHeld, FreshLoad, InLock
  <1>3. StatusIsProjection
    BY DEF Init, NewFile, StatusIsProjection, StatusOf, Machine
  <1>4. NoLostField /\ WonInThePast /\ AtMostOneWinner
    BY DEF Init, NewFile, NoLostField, WonInThePast, AtMostOneWinner
  <1>5. QED
    BY <1>1, <1>2, <1>3, <1>4 DEF IInv

\* A step of one client that leaves the record, the histories and the lock
\* discipline alone keeps everything else.
LEMMA QuietStep ==
    ASSUME IInv, TypeOK', LockHeld', FreshLoad', UNCHANGED <<file, lastWrite, won>>
    PROVE  IInv'
  <1>1. StatusIsProjection'
    BY DEF IInv, StatusIsProjection
  <1>2. NoLostField' /\ WonInThePast' /\ AtMostOneWinner'
    BY DEF IInv, NoLostField, WonInThePast, AtMostOneWinner
  <1>3. QED
    BY <1>1, <1>2 DEF IInv

\* When the holder leaves, nobody is in the critical section.
LEMMA LeaveEmpties ==
    ASSUME IInv, NEW c \in Clients, InLock(c), Leave(c)
    PROVE  LockHeld' /\ FreshLoad'
  <1>1. \A d \in Clients : ~InLock(d)'
    <2> SUFFICES ASSUME NEW d \in Clients PROVE ~InLock(d)'
      OBVIOUS
    <2>1. CASE d = c
      BY <2>1 DEF Leave, InLock, IInv, TypeOK
    <2>2. CASE d # c
      BY <2>2 DEF Leave, InLock, IInv, TypeOK, LockHeld
    <2>3. QED
      BY <2>1, <2>2
  <1>2. LockHeld'
    BY <1>1, ClientsAssumption DEF Leave, LockHeld
  <1>3. FreshLoad'
    BY <1>1 DEF FreshLoad, InLock
  <1>4. QED
    BY <1>2, <1>3

\* The holder replaces the record it loaded.
LEMMA ReplaceStep ==
    ASSUME IInv, TypeOK', NEW c \in Clients, pc[c] = "stamped", Leave(c),
           NEW m \in Machines, NEW r \in Reasons \cup {NoReason},
           LET g == Applied(local[c], m, r)
           IN /\ file'.phase = g.phase /\ file'.disposition = g.disposition
              /\ file'.reason = g.reason /\ file'.status = g.status
              /\ file'.updatedAt = g.updatedAt
    PROVE  /\ LockHeld' /\ FreshLoad' /\ StatusIsProjection'
           /\ file'.updatedAt = file.updatedAt + 1
           /\ local[c] = file
  <1>1. local[c] = file /\ local[c] \in Files /\ InLock(c)
    BY DEF IInv, FreshLoad, TypeOK, InLock
  <1>2. LockHeld' /\ FreshLoad'
    BY <1>1, LeaveEmpties
  <1>3. StatusIsProjection'
    BY <1>1, AppliedType DEF StatusIsProjection
  <1>4. file'.updatedAt = file.updatedAt + 1
    BY <1>1, AppliedType
  <1>5. QED
    BY <1>1, <1>2, <1>3, <1>4

\* A replacement that keeps the fields and the claims keeps what they promise.
LEMMA PostureStep ==
    ASSUME IInv, TypeOK', LockHeld', FreshLoad', StatusIsProjection',
           file'.fields = file.fields, file'.updatedAt = file.updatedAt + 1,
           UNCHANGED <<lastWrite, won>>
    PROVE  IInv'
  <1>1. NoLostField' /\ AtMostOneWinner'
    BY DEF IInv, NoLostField, AtMostOneWinner
  <1>2. WonInThePast'
    BY DEF IInv, WonInThePast, TypeOK, Files
  <1>3. QED
    BY <1>1, <1>2 DEF IInv

\* Every step keeps it.
LEMMA InvStep == IInv /\ [Next]_vars => IInv'
  <1> SUFFICES ASSUME IInv, [Next]_vars PROVE IInv'
    OBVIOUS
  <1>0. TypeOK /\ TypeOK'
    BY TypeStep DEF IInv
  <1>1. ASSUME NEW c \in Clients, ObserveFile(c) PROVE IInv'
    <2>1. LockHeld' /\ FreshLoad'
      BY <1>1, <1>0 DEF ObserveFile, IInv, LockHeld, FreshLoad, InLock, TypeOK
    <2>2. QED
      BY <1>0, <1>1, <2>1, QuietStep DEF ObserveFile
  <1>2. ASSUME NEW c \in Clients, ObserveStamp(c) PROVE IInv'
    <2>1. LockHeld' /\ FreshLoad'
      BY <1>2, <1>0 DEF ObserveStamp, IInv, LockHeld, FreshLoad, InLock, TypeOK
    <2>2. QED
      BY <1>0, <1>2, <2>1, QuietStep DEF ObserveStamp
  <1>3. ASSUME NEW c \in Clients, NEW k \in Calls, Begin(c, k) PROVE IInv'
    <2>1. LockHeld' /\ FreshLoad'
      BY <1>3, <1>0 DEF Begin, IInv, LockHeld, FreshLoad, InLock, TypeOK
    <2>2. QED
      BY <1>0, <1>3, <2>1, QuietStep DEF Begin
  <1>4. ASSUME NEW c \in Clients, Acquire(c) PROVE IInv'
    <2>1. LockHeld' /\ FreshLoad'
      BY <1>4, <1>0, ClientsAssumption
         DEF Acquire, IInv, LockHeld, FreshLoad, InLock, TypeOK
    <2>2. QED
      BY <1>0, <1>4, <2>1, QuietStep DEF Acquire
  <1>5. ASSUME NEW c \in Clients, Load(c) PROVE IInv'
    <2>1. LockHeld' /\ FreshLoad'
      BY <1>5, <1>0 DEF Load, IInv, LockHeld, FreshLoad, InLock, TypeOK
    <2>2. QED
      BY <1>0, <1>5, <2>1, QuietStep DEF Load
  <1>6. ASSUME NEW c \in Clients, ReadStamp(c) PROVE IInv'
    <2>1. LockHeld' /\ FreshLoad'
      BY <1>6, <1>0 DEF ReadStamp, IInv, LockHeld, FreshLoad, InLock, TypeOK
    <2>2. QED
      BY <1>0, <1>6, <2>1, QuietStep DEF ReadStamp
  <1>7. ASSUME NEW c \in Clients, RefuseCheckpoint(c) PROVE IInv'
    <2>1. LockHeld' /\ FreshLoad'
      BY <1>7, LeaveEmpties DEF RefuseCheckpoint, InLock
    <2>2. QED
      BY <1>0, <1>7, <2>1, QuietStep DEF RefuseCheckpoint
  <1>8. ASSUME NEW c \in Clients, UpdateMetadata(c) PROVE IInv'
    <2> DEFINE m == Recorded(local[c], stamp[c])
               r == local[c].failure
               merged == Applied(local[c], m, r)
    <2>1. m \in Machines /\ r \in Reasons \cup {NoReason}
      BY <1>0, RecordedType DEF TypeOK, Files
    <2>2. file' = [merged EXCEPT !.fields[call[c].field] = merged.updatedAt]
      BY <1>8 DEF UpdateMetadata
    <2>3. merged \in Files /\ merged.fields = local[c].fields
      BY <1>0, <2>1, AppliedType DEF TypeOK
    <2>4. /\ file'.phase = merged.phase /\ file'.disposition = merged.disposition
          /\ file'.reason = merged.reason /\ file'.status = merged.status
          /\ file'.updatedAt = merged.updatedAt
          /\ file'.fields = [local[c].fields EXCEPT ![call[c].field] = merged.updatedAt]
      <3> HIDE DEF merged
      <3>1. QED
        BY <2>2, <2>3 DEF Files
    <2>5. /\ LockHeld' /\ FreshLoad' /\ StatusIsProjection'
          /\ file'.updatedAt = file.updatedAt + 1
          /\ local[c] = file
      BY <1>0, <1>8, <2>1, <2>4, ReplaceStep DEF UpdateMetadata
    <2>6. NoLostField'
      BY <1>0, <1>8, <2>4, <2>5 DEF UpdateMetadata, IInv, NoLostField, TypeOK, Files
    <2>7. WonInThePast' /\ AtMostOneWinner'
      BY <1>0, <1>8, <2>5
         DEF UpdateMetadata, IInv, WonInThePast, AtMostOneWinner, TypeOK, Files
    <2>8. QED
      BY <1>0, <2>5, <2>6, <2>7 DEF IInv
  <1>9. ASSUME NEW c \in Clients, SetRunState(c) PROVE IInv'
    <2> DEFINE m == Resolved(local[c], stamp[c], call[c].machine)
               r == IF m.reason = NoReason THEN local[c].failure ELSE m.reason
    <2>1. m \in Machines
      <3>1. call[c].kind = "set" /\ call[c] \in Calls \cup {NoCall}
        BY <1>9, <1>0 DEF SetRunState, CanSet, TypeOK
      <3>2. call[c].machine \in Machines
        BY <3>1, InputsAssumption DEF Calls, NoCall
      <3>3. QED
        BY <1>0, <3>2, ResolvedType DEF TypeOK
    <2>2. r \in Reasons \cup {NoReason}
      <3> HIDE DEF m
      <3>1. QED
        BY <1>0, <2>1 DEF TypeOK, Files, Machines
    <2>3. file' = Applied(local[c], m, r)
      BY <1>9 DEF SetRunState
    <2> HIDE DEF m, r
    <2>4. /\ LockHeld' /\ FreshLoad' /\ StatusIsProjection'
          /\ file'.updatedAt = file.updatedAt + 1
          /\ local[c] = file
      BY <1>0, <1>9, <2>1, <2>2, <2>3, ReplaceStep DEF SetRunState
    <2>5. file'.fields = file.fields
      BY <1>0, <2>1, <2>2, <2>3, <2>4, AppliedType DEF TypeOK
    <2>6. QED
      BY <1>0, <1>9, <2>4, <2>5, PostureStep DEF SetRunState
  <1>10. ASSUME NEW c \in Clients, TransitionRun(c) PROVE IInv'
    <2> DEFINE m == After(Recorded(local[c], stamp[c]), Resume)
    <2>1. m \in Machines
      BY <1>0, RecordedType, ResumeType DEF TypeOK
    <2>2. file' = Applied(local[c], m, NoReason)
      BY <1>10 DEF TransitionRun
    <2> HIDE DEF m
    <2>3. /\ LockHeld' /\ FreshLoad' /\ StatusIsProjection'
          /\ file'.updatedAt = file.updatedAt + 1
          /\ local[c] = file
      BY <1>0, <1>10, <2>1, <2>2, ReplaceStep DEF TransitionRun
    <2>4. file'.fields = file.fields
      BY <1>0, <2>1, <2>2, <2>3, AppliedType DEF TypeOK
    <2>5. seen[c].updatedAt = file.updatedAt
      BY <1>10, <2>3 DEF TransitionRun, CanClaim, StillObserved, Identity
    <2>6. won' = won \cup {<<c, file.updatedAt>>}
      BY <1>10, <2>5 DEF TransitionRun
    <2>7. WonInThePast'
      BY <1>0, <2>3, <2>6 DEF IInv, WonInThePast, TypeOK, Files
    <2>8. AtMostOneWinner'
      <3> SUFFICES ASSUME NEW v \in won', NEW w \in won', v[2] = w[2] PROVE v = w
        BY DEF AtMostOneWinner
      <3>1. \A u \in won : u[2] < file.updatedAt /\ u[2] \in Nat
        BY <1>0 DEF IInv, WonInThePast, TypeOK
      <3>2. file.updatedAt \in Nat
        BY <1>0 DEF TypeOK, Files
      <3>3. CASE v \in won /\ w \in won
        BY <3>3 DEF IInv, AtMostOneWinner
      <3>4. CASE v \in won /\ w = <<c, file.updatedAt>>
        BY <3>1, <3>2, <3>4
      <3>5. CASE v = <<c, file.updatedAt>> /\ w \in won
        BY <3>1, <3>2, <3>5
      <3>6. QED
        BY <2>6, <3>3, <3>4, <3>5
    <2>9. NoLostField'
      BY <1>10, <2>4 DEF TransitionRun, IInv, NoLostField
    <2>10. QED
      BY <1>0, <2>3, <2>7, <2>8, <2>9 DEF IInv
  <1>11. ASSUME NEW c \in Clients, RecordFailure(c) PROVE IInv'
    <2> DEFINE m == Machine(PhaseRead(local[c], stamp[c]), "FAILED", call[c].reason)
    <2>1. m \in Machines /\ m.reason \in Reasons \cup {NoReason}
      <3>1. call[c].kind = "failure" /\ call[c] \in Calls \cup {NoCall}
        BY <1>11, <1>0 DEF RecordFailure, TypeOK
      <3>2. call[c].reason \in Reasons
        BY <3>1, InputsAssumption DEF Calls, NoCall
      <3>3. QED
        BY <1>0, <3>2, RecordedType DEF TypeOK, Machine, Machines, Dispositions
    <2>2. file' = Applied(local[c], m, m.reason)
      BY <1>11 DEF RecordFailure
    <2> HIDE DEF m
    <2>3. /\ LockHeld' /\ FreshLoad' /\ StatusIsProjection'
          /\ file'.updatedAt = file.updatedAt + 1
          /\ local[c] = file
      BY <1>0, <1>11, <2>1, <2>2, ReplaceStep DEF RecordFailure
    <2>4. file'.fields = file.fields
      BY <1>0, <2>1, <2>2, <2>3, AppliedType DEF TypeOK
    <2>5. QED
      BY <1>0, <1>11, <2>3, <2>4, PostureStep DEF RecordFailure
  <1>12. ASSUME NEW c \in Clients, RefuseCall(c) PROVE IInv'
    <2>1. LockHeld' /\ FreshLoad'
      BY <1>12, LeaveEmpties DEF RefuseCall, InLock
    <2>2. QED
      BY <1>0, <1>12, <2>1, QuietStep DEF RefuseCall
  <1>13. ASSUME NEW c \in Clients, NEW p \in UsedPhases, NEW b \in Bodies,
                WriteCheckpoint(c, p, b)
         PROVE IInv'
    <2>1. LockHeld' /\ FreshLoad'
      BY <1>13 DEF WriteCheckpoint, IInv, LockHeld, FreshLoad, InLock
    <2>2. QED
      BY <1>0, <1>13, <2>1, QuietStep DEF WriteCheckpoint
  <1>14. ASSUME NEW c \in Clients, Die(c) PROVE IInv'
    <2>1. LockHeld' /\ FreshLoad'
      BY <1>14, <1>0, ClientsAssumption
         DEF Die, IInv, LockHeld, FreshLoad, InLock, TypeOK
    <2>2. QED
      BY <1>0, <1>14, <2>1, QuietStep DEF Die
  <1>15. ASSUME NEW form \in {"foreign", "corrupt"}, DamageCheckpoint(form) PROVE IInv'
    <2>1. LockHeld' /\ FreshLoad'
      BY <1>15 DEF DamageCheckpoint, IInv, LockHeld, FreshLoad, InLock
    <2>2. QED
      BY <1>0, <1>15, <2>1, QuietStep DEF DamageCheckpoint
  <1>16. CASE UNCHANGED vars
    <2>1. LockHeld' /\ FreshLoad'
      BY <1>16 DEF vars, IInv, LockHeld, FreshLoad, InLock
    <2>2. QED
      BY <1>0, <1>16, <2>1, QuietStep DEF vars
  <1>17. QED
    BY <1>1, <1>2, <1>3, <1>4, <1>5, <1>6, <1>7, <1>8, <1>9, <1>10, <1>11, <1>12,
       <1>13, <1>14, <1>15, <1>16 DEF Next, InCall

\* It holds at every moment.
LEMMA Invariance == Spec => []IInv
  BY InvInit, InvStep, PTL DEF Spec

\* state.py:6-8: the stored status is the projection of the stored machine.
THEOREM StatusProjected == Spec => []StatusIsProjection
  BY Invariance, PTL DEF IInv

\* state.py:88-90: concurrent writers never lose each other's fields.
THEOREM FieldsKept == Spec => []NoLostField
  BY Invariance, PTL DEF IInv

\* transition_run: one observed generation is claimed at most once.
THEOREM ClaimedOnce == Spec => []AtMostOneWinner
  BY Invariance, PTL DEF IInv

-----------------------------------------------------------------------------
(* The store implements the atomic record.                                 *)

Posture(f) == [disposition |-> f.disposition, reason |-> ReasonRead(f)]

\* The record's vocabulary is the store's.
LEMMA SameVocabulary == /\ Record!Reasons = Reasons
                        /\ Record!NoReason = NoReason
                        /\ Record!Dispositions = Dispositions
  BY DEF Record!Reasons, Reasons, Record!FailureClasses, FailureClasses,
         Record!NoReason, NoReason, Record!Dispositions, Dispositions

\* An empty store is an empty record,
LEMMA RecordInit == Init => Record!RInit
  BY SameVocabulary DEF Init, NewFile, ReasonRead, Record!RInit

\* A step that leaves state.json alone is a stutter of the record.
LEMMA RecordStutter == UNCHANGED file => UNCHANGED Record!rvars
  BY DEF Record!rvars, ReasonRead

\* A posture write by the holder is one atomic posture write.
LEMMA RecordPosture ==
    ASSUME IInv, NEW c \in Clients, pc[c] = "stamped",
           NEW m \in Machines, NEW r \in Reasons \cup {NoReason},
           m.reason # NoReason => r = m.reason,
           file' = Applied(local[c], m, r)
    PROVE  /\ Posture(file')
                = [disposition |-> m.disposition,
                   reason |-> IF m.reason # NoReason THEN m.reason ELSE r]
           /\ Posture(file').disposition = m.disposition
           /\ Posture(file') \in Record!Postures
           /\ file'.fields = file.fields
           /\ file'.updatedAt = file.updatedAt + 1
  <1>1. local[c] = file /\ file \in Files
    BY DEF IInv, FreshLoad, TypeOK
  <1>2. /\ file'.disposition = m.disposition /\ file'.reason = m.reason
        /\ file'.failure = r /\ file'.fields = file.fields
        /\ file'.updatedAt = file.updatedAt + 1
    BY <1>1 DEF Applied
  <1>3. m.disposition \in Dispositions /\ m.reason \in Reasons \cup {NoReason}
    BY DEF Machines
  <1>4. QED
    BY <1>2, <1>3, SameVocabulary DEF Posture, ReasonRead, Record!Postures

\* and a step of the store is a step of the record or leaves it alone.
LEMMA RecordStep == IInv /\ [Next]_vars => [Record!RNext]_(Record!rvars)
  <1> SUFFICES ASSUME IInv, [Next]_vars PROVE [Record!RNext]_(Record!rvars)
    OBVIOUS
  <1>0. TypeOK
    BY DEF IInv
  <1>1. ASSUME NEW c \in Clients, UpdateMetadata(c) PROVE Record!RNext
    <2> DEFINE m == Recorded(local[c], stamp[c])
               r == local[c].failure
               merged == Applied(local[c], m, r)
    <2>1. local[c] = file /\ file \in Files
      BY <1>0, <1>1 DEF UpdateMetadata, IInv, FreshLoad, TypeOK
    <2>2. m.disposition = file.disposition /\ m.reason = ReasonRead(file)
      BY <2>1 DEF Recorded, Machine
    <2>3. call[c].kind = "metadata" /\ call[c] \in Calls \cup {NoCall}
      BY <1>1, <1>0 DEF UpdateMetadata, CanMerge, TypeOK
    <2>4. call[c].field \in Fields
      BY <2>3 DEF Calls, NoCall
    <2>5. file' = [merged EXCEPT !.fields[call[c].field] = merged.updatedAt]
      BY <1>1 DEF UpdateMetadata
    <2> HIDE DEF m
    <2>6. /\ file'.disposition = m.disposition /\ file'.reason = m.reason
          /\ file'.failure = r
          /\ file'.updatedAt = file.updatedAt + 1
          /\ file'.fields = [file.fields EXCEPT ![call[c].field] = file.updatedAt + 1]
      BY <2>1, <2>5 DEF Applied
    <2>7. ReasonRead(file') = ReasonRead(file)
      BY <2>1, <2>2, <2>6 DEF ReasonRead
    <2>8. Record!Merge(call[c].field)
      BY <2>2, <2>6, <2>7 DEF Record!Merge
    <2>9. QED
      BY <2>4, <2>8 DEF Record!RNext
  <1>2. ASSUME NEW c \in Clients, SetRunState(c) PROVE Record!RNext
    <2> DEFINE m == Resolved(local[c], stamp[c], call[c].machine)
               r == IF m.reason = NoReason THEN local[c].failure ELSE m.reason
    <2>1. call[c].kind = "set" /\ call[c] \in Calls \cup {NoCall}
      BY <1>2, <1>0 DEF SetRunState, CanSet, TypeOK
    <2>2. call[c].machine \in SetMachines
      BY <2>1 DEF Calls, NoCall
    <2>3. m \in Machines /\ m.disposition # "RUNNING"
      <3>1. m \in Machines
        BY <1>0, <2>2, ResolvedType, InputsAssumption DEF TypeOK
      <3>2. m.disposition = call[c].machine.disposition
        BY DEF Resolved, Machine
      <3>3. QED
        BY <2>2, <3>1, <3>2, InputsAssumption
    <2>4. r \in Reasons \cup {NoReason} /\ (m.reason # NoReason => r = m.reason)
      <3> HIDE DEF m
      <3>1. QED
        BY <1>0, <2>3 DEF TypeOK, Files, Machines
    <2>5. file' = Applied(local[c], m, r) /\ pc[c] = "stamped"
      BY <1>2 DEF SetRunState
    <2> HIDE DEF m, r
    <2>6. /\ Posture(file') \in Record!Postures
          /\ Posture(file').disposition = m.disposition
          /\ file'.fields = file.fields
          /\ file'.updatedAt = file.updatedAt + 1
      BY <2>3, <2>4, <2>5, RecordPosture
    <2>7. Record!Stop(Posture(file'))
      BY <2>3, <2>6 DEF Record!Stop, Record!SetPosture, Posture
    <2>8. QED
      BY <2>6, <2>7 DEF Record!RNext
  <1>3. ASSUME NEW c \in Clients, TransitionRun(c) PROVE Record!RNext
    <2> DEFINE m == After(Recorded(local[c], stamp[c]), Resume)
    <2>1. m \in Machines /\ m.disposition = "RUNNING" /\ m.reason = NoReason
      <3>1. m \in Machines
        BY <1>0, RecordedType, ResumeType DEF TypeOK
      <3>2. QED
        BY <3>1 DEF After, Resume, Event, Machine
    <2>2. file.disposition # "COMPLETED"
      <3>1. local[c] = file /\ Recorded(local[c], stamp[c]).disposition = file.disposition
        BY <1>3 DEF TransitionRun, IInv, FreshLoad, Recorded, Machine
      <3>2. QED
        BY <1>3, <3>1
           DEF TransitionRun, CanClaim, Allowed, Resume, Event, Terminal, Waiting
    <2>3. file' = Applied(local[c], m, NoReason) /\ pc[c] = "stamped"
      BY <1>3 DEF TransitionRun
    <2> HIDE DEF m
    <2>4. /\ Posture(file') = [disposition |-> "RUNNING", reason |-> NoReason]
          /\ file'.fields = file.fields
          /\ file'.updatedAt = file.updatedAt + 1
      BY <2>1, <2>3, RecordPosture
    <2>5. Record!Claim
      BY <2>2, <2>4, SameVocabulary DEF Record!Claim, Record!SetPosture, Posture
    <2>6. QED
      BY <2>5 DEF Record!RNext
  <1>4. ASSUME NEW c \in Clients, RecordFailure(c) PROVE Record!RNext
    <2> DEFINE m == Machine(PhaseRead(local[c], stamp[c]), "FAILED", call[c].reason)
    <2>1. m \in Machines /\ m.disposition = "FAILED"
          /\ m.reason \in Reasons \cup {NoReason}
      <3>1. call[c].kind = "failure" /\ call[c] \in Calls \cup {NoCall}
        BY <1>4, <1>0 DEF RecordFailure, TypeOK
      <3>2. call[c].reason \in Reasons
        BY <3>1, InputsAssumption DEF Calls, NoCall
      <3>3. QED
        BY <1>0, <3>2, RecordedType DEF TypeOK, Machine, Machines, Dispositions
    <2>2. file' = Applied(local[c], m, m.reason) /\ pc[c] = "stamped"
      BY <1>4 DEF RecordFailure
    <2> HIDE DEF m
    <2>3. /\ Posture(file') \in Record!Postures
          /\ Posture(file').disposition = "FAILED"
          /\ file'.fields = file.fields
          /\ file'.updatedAt = file.updatedAt + 1
      BY <2>1, <2>2, RecordPosture
    <2>4. Record!Stop(Posture(file'))
      BY <2>3 DEF Record!Stop, Record!SetPosture, Posture
    <2>5. QED
      BY <2>3, <2>4 DEF Record!RNext
  <1>5. CASE UNCHANGED file
    BY <1>5, RecordStutter
  <1>6. QED
    BY <1>1, <1>2, <1>3, <1>4, <1>5
       DEF Next, InCall, vars, ObserveFile, ObserveStamp, Begin, Acquire, Load, ReadStamp,
           RefuseCheckpoint, RefuseCall, WriteCheckpoint, DamageCheckpoint, Die

\* Every interleaving of the store's steps is a behaviour of the atomic record:
\* callers may reason about state.json as if each call took effect at once.
THEOREM Refinement == Spec => ImplementsRecord
  BY RecordInit, RecordStep, Invariance, PTL DEF Spec, ImplementsRecord, Record!RSpec

-----------------------------------------------------------------------------
(* The claim.                                                              *)

\* A generation is won by a client that saw the posture of the file it replaces.
LEMMA ClaimStep ==
    ASSUME IInv, [Next]_vars, won' # won
    PROVE  \E c \in Clients :
             /\ won' = won \cup {<<c, file.updatedAt>>}
             /\ seen[c].machine.disposition = file.disposition
             /\ seen[c].machine.reason = ReasonRead(file)
  <1>1. PICK c \in Clients : TransitionRun(c)
    BY DEF Next, InCall, vars, ObserveFile, ObserveStamp, Begin, Acquire, Load, ReadStamp,
           RefuseCheckpoint, UpdateMetadata, SetRunState, RecordFailure, RefuseCall,
           WriteCheckpoint, DamageCheckpoint, Die
  <1>2. local[c] = file
    BY <1>1 DEF TransitionRun, IInv, FreshLoad
  <1>3. seen[c] = Identity(file, stamp[c])
    BY <1>1, <1>2 DEF TransitionRun, CanClaim, StillObserved
  <1>4. /\ seen[c].updatedAt = file.updatedAt
        /\ seen[c].machine.disposition = file.disposition
        /\ seen[c].machine.reason = ReasonRead(file)
    BY <1>3 DEF Identity, Recorded, Machine
  <1>5. QED
    BY <1>1, <1>4 DEF TransitionRun

\* transition_run: a claim that wins replaces exactly the record it observed.
THEOREM ClaimsWhatWasSeen == Spec => ClaimOnObservedRecord
  BY ClaimStep, Invariance, PTL DEF Spec, ClaimOnObservedRecord
=============================================================================
