------------------------------- MODULE RunStore -------------------------------
(***************************************************************************)
(* metaharness/state.py: RunStateStore, the one durable record of a run,   *)
(* shared by the orchestrator process and the web process.                 *)
(*                                                                         *)
(* A mutation takes the flock of state.lock, loads state.json, reads the   *)
(* checkpoint that owns the phase, and replaces the file atomically; each  *)
(* of those steps is an action here, so that two processes interleave as   *)
(* they do on disk.  The checkpoint itself is NOT written under that lock. *)
(* A process may die between any two steps; the kernel then drops its lock *)
(* and the temporary file it was writing is never renamed.                 *)
(*                                                                         *)
(* updated_at is modelled as the number of writes so far: the code stamps  *)
(* each write with a microsecond UTC clock, taken here to be distinct.     *)
(***************************************************************************)
EXTENDS RunMachine, FiniteSets

CONSTANTS
    Clients,       \* the processes and threads that open the store
    Fields,        \* metadata fields of state.json (pause_requested, cycles, ...)
    Bodies,        \* what distinguishes the bytes of two checkpoints of one phase
    UsedPhases,    \* the phases checkpoints name
    SetMachines,   \* the machine states passed to set_run_state (never RUNNING)
    FailReasons,   \* the reasons passed to record_failure
    MaxWrites,     \* bound: no operation starts after this many writes
    NoClient, NoBody

ASSUME ClientsAssumption == NoClient \notin Clients
ASSUME InputsAssumption  == /\ UsedPhases \subseteq Phases
                            /\ SetMachines \subseteq Machines
                            /\ \A m \in SetMachines : m.disposition # "RUNNING"
                            /\ FailReasons \subseteq Reasons
ASSUME BoundAssumption   == MaxWrites \in Nat

VARIABLES
    file,         \* state.json: the machine, its projection, failure and fields
    checkpoint,   \* resume_checkpoint.json
    lock,         \* holder of the flock on state.lock
    pc,           \* pc[c]: the step client c is at inside one store call
    call,         \* call[c]: the store call client c is in
    local,        \* local[c]: the state.json client c loaded
    stamp,        \* stamp[c]: the checkpoint client c read under the lock
    seen,         \* seen[c]: the identity client c last observed
    lastWrite,    \* history: per field, the generation of its last merge
    won           \* history: the <<client, generation>> of every claim that won

vars == <<file, checkpoint, lock, pc, call, local, stamp, seen, lastWrite, won>>

-----------------------------------------------------------------------------
(* Values.                                                                 *)

Checkpoints == [form : {"absent", "current", "foreign", "corrupt"},
                phase : UsedPhases \cup {NoPhase}, body : Bodies \cup {NoBody}]

\* state.json.
Files == [ phase : Phases \cup {NoPhase}, disposition : Dispositions,
           reason : Reasons \cup {NoReason}, failure : Reasons \cup {NoReason},
           status : Statuses, fields : [Fields -> Nat], updatedAt : Nat ]

Identities == [machine : Machines, updatedAt : Nat, stamp : Checkpoints]

\* No checkpoint was written yet, and the record initialize() writes.
NoCheckpoint == [form |-> "absent", phase |-> NoPhase, body |-> NoBody]

NewFile == [ phase |-> NoPhase, disposition |-> "RUNNING", reason |-> NoReason,
             failure |-> NoReason, status |-> "running",
             fields |-> [f \in Fields |-> 0], updatedAt |-> 1 ]

NoIdentity == [ machine   |-> Machine(NoPhase, "RUNNING", NoReason),
                updatedAt |-> 0, stamp |-> NoCheckpoint ]

NoCall == [kind |-> "none"]

Calls == [kind : {"metadata"}, field : Fields, cas : BOOLEAN]
         \cup [kind : {"set"}, machine : SetMachines]
         \cup [kind : {"resume"}]
         \cup [kind : {"failure"}, reason : FailReasons]

-----------------------------------------------------------------------------
(* The reads.                                                              *)

\* _control_stamp refuses an unreadable checkpoint and a foreign schema.
ControlReadable(ck) == ck.form \in {"absent", "current"}

\* _recorded_phase over the stamp read: the checkpoint's phase, else the
\* recorded one.  The reporting read drops a corrupt checkpoint, not a
\* foreign one.
PhaseRead(f, ck) == IF ck.form \in {"current", "foreign"} THEN ck.phase ELSE f.phase

\* _recorded_machine: the recorded failure reason is the fallback reason.
ReasonRead(f) == IF f.reason # NoReason THEN f.reason ELSE f.failure

Recorded(f, ck) == Machine(PhaseRead(f, ck), f.disposition, ReasonRead(f))

Identity(f, ck) ==
    [machine |-> Recorded(f, ck), updatedAt |-> f.updatedAt, stamp |-> ck]

\* _resolved_machine: set_run_state may leave the phase to the checkpoint, and
\* is refused when it names another one.
Contradicts(m, ck) == ck.form = "current" /\ m.phase \notin {NoPhase, ck.phase}

Resolved(f, ck, m) ==
    Machine(IF ck.form = "current" THEN ck.phase
            ELSE IF m.phase # NoPhase THEN m.phase ELSE f.phase,
            m.disposition, m.reason)

\* Slip: the projection is not recomputed with the machine.
AppliedKeepingStatus(f, m, failure) ==
    [ phase |-> m.phase, disposition |-> m.disposition, reason |-> m.reason,
      failure |-> failure, status |-> f.status, fields |-> f.fields,
      updatedAt |-> f.updatedAt + 1 ]

\* _apply: the machine, its projection and a fresh generation.
Applied(f, m, failure) ==
    [ phase |-> m.phase, disposition |-> m.disposition, reason |-> m.reason,
      failure |-> failure, status |-> StatusOf(m), fields |-> f.fields,
      updatedAt |-> f.updatedAt + 1 ]

-----------------------------------------------------------------------------
(* RunStateStore.initialize, before any checkpoint.                        *)

Init ==
    /\ file = NewFile
    /\ checkpoint = NoCheckpoint
    /\ lock = NoClient
    /\ pc    = [c \in Clients |-> "idle"]
    /\ call  = [c \in Clients |-> NoCall]
    /\ local = [c \in Clients |-> NewFile]
    /\ stamp = [c \in Clients |-> NoCheckpoint]
    /\ seen  = [c \in Clients |-> NoIdentity]
    /\ lastWrite = [f \in Fields |-> 0]
    /\ won = {}

-----------------------------------------------------------------------------
(* identity(): load() and then the checkpoint, without the lock.           *)

ObserveFile(c) ==
    /\ pc[c] = "idle"
    /\ pc'    = [pc EXCEPT ![c] = "observing"]
    /\ local' = [local EXCEPT ![c] = file]
    /\ UNCHANGED <<file, checkpoint, lock, call, stamp, seen, lastWrite, won>>

ObserveStamp(c) ==
    /\ pc[c] = "observing"
    /\ pc'    = [pc EXCEPT ![c] = "idle"]
    /\ local' = [local EXCEPT ![c] = NewFile]
    /\ seen'  = [seen EXCEPT ![c] = IF ControlReadable(checkpoint)
                                      THEN Identity(local[c], checkpoint)
                                      ELSE NoIdentity]
    /\ UNCHANGED <<file, checkpoint, lock, call, stamp, lastWrite, won>>

-----------------------------------------------------------------------------
(* The steps every mutation shares.                                        *)

Begin(c, k) ==
    /\ pc[c] = "idle"
    /\ file.updatedAt < MaxWrites
    /\ pc'   = [pc EXCEPT ![c] = "waiting"]
    /\ call' = [call EXCEPT ![c] = k]
    /\ UNCHANGED <<file, checkpoint, lock, local, stamp, seen, lastWrite, won>>

\* Slip: the mutation does not wait for the lock.
AcquireUnlocked(c) ==
    /\ pc[c] = "waiting"
    /\ lock' = c
    /\ pc'   = [pc EXCEPT ![c] = "locked"]
    /\ UNCHANGED <<file, checkpoint, call, local, stamp, seen, lastWrite, won>>

\* fcntl.flock(LOCK_EX).
Acquire(c) ==
    /\ pc[c] = "waiting"
    /\ lock = NoClient
    /\ lock' = c
    /\ pc'   = [pc EXCEPT ![c] = "locked"]
    /\ UNCHANGED <<file, checkpoint, call, local, stamp, seen, lastWrite, won>>

\* Slip: state.json is read under the lock but replaced outside it.
LoadAndRelease(c) ==
    /\ pc[c] = "locked"
    /\ local' = [local EXCEPT ![c] = file]
    /\ pc'    = [pc EXCEPT ![c] = "loaded"]
    /\ lock'  = NoClient
    /\ UNCHANGED <<file, checkpoint, call, stamp, seen, lastWrite, won>>

Load(c) ==
    /\ pc[c] = "locked"
    /\ local' = [local EXCEPT ![c] = file]
    /\ pc'    = [pc EXCEPT ![c] = "loaded"]
    /\ UNCHANGED <<file, checkpoint, lock, call, stamp, seen, lastWrite, won>>

\* _control_stamp raises on an unreadable checkpoint; _reporting_stamp, which
\* only record_failure uses, never does.
ReadStamp(c) ==
    /\ pc[c] = "loaded"
    /\ call[c].kind = "failure" \/ ControlReadable(checkpoint)
    /\ stamp' = [stamp EXCEPT ![c] = checkpoint]
    /\ pc'    = [pc EXCEPT ![c] = "stamped"]
    /\ UNCHANGED <<file, checkpoint, lock, call, local, seen, lastWrite, won>>

\* The call returns or raises: its locals are gone and the lock is released.
Leave(c) ==
    /\ lock'  = NoClient
    /\ pc'    = [pc    EXCEPT ![c] = "idle"]
    /\ call'  = [call  EXCEPT ![c] = NoCall]
    /\ local' = [local EXCEPT ![c] = NewFile]
    /\ stamp' = [stamp EXCEPT ![c] = NoCheckpoint]

RefuseCheckpoint(c) ==
    /\ pc[c] = "loaded"
    /\ call[c].kind # "failure"
    /\ ~ControlReadable(checkpoint)
    /\ Leave(c)
    /\ UNCHANGED <<file, checkpoint, seen, lastWrite, won>>

-----------------------------------------------------------------------------
(* The four mutations, from the loaded state and the stamp read.           *)

\* Slip: the identity compares the machine and the checkpoint, not updated_at.
StillSameMachine(c) == /\ Recorded(local[c], stamp[c]) = seen[c].machine
                       /\ stamp[c] = seen[c].stamp

StillObserved(c) == Identity(local[c], stamp[c]) = seen[c]

CanMerge(c) == /\ call[c].kind = "metadata"
               /\ call[c].cas => StillObserved(c)
               /\ Projectable(Recorded(local[c], stamp[c]))

UpdateMetadata(c) ==
    /\ pc[c] = "stamped"
    /\ CanMerge(c)
    /\ LET merged == Applied(local[c], Recorded(local[c], stamp[c]), local[c].failure)
       IN file' = [merged EXCEPT !.fields[call[c].field] = merged.updatedAt]
    /\ lastWrite' = [lastWrite EXCEPT ![call[c].field] = file'.updatedAt]
    /\ Leave(c)
    /\ UNCHANGED <<checkpoint, seen, won>>

\* Every caller passes the failure payload of a machine that carries a reason,
\* and none otherwise: a machine without a reason leaves failure as it is.
CanSet(c) == /\ call[c].kind = "set"
             /\ ~Contradicts(call[c].machine, stamp[c])
             /\ Projectable(call[c].machine)

SetRunState(c) ==
    /\ pc[c] = "stamped"
    /\ CanSet(c)
    /\ LET m == Resolved(local[c], stamp[c], call[c].machine)
       IN file' = Applied(local[c], m, IF m.reason = NoReason THEN local[c].failure
                                                              ELSE m.reason)
    /\ Leave(c)
    /\ UNCHANGED <<checkpoint, seen, lastWrite, won>>

\* Slips: a claim without the comparison, and one without the transition table.
ClaimUncompared(c) == /\ call[c].kind = "resume"
                      /\ Allowed(Recorded(local[c], stamp[c]), Resume)

ClaimAnyPosture(c) == call[c].kind = "resume" /\ StillObserved(c)

\* transition_run is only ever called with RunEvent.resume() and failure=None.
CanClaim(c) == /\ call[c].kind = "resume"
               /\ StillObserved(c)
               /\ Allowed(Recorded(local[c], stamp[c]), Resume)

TransitionRun(c) ==
    /\ pc[c] = "stamped"
    /\ CanClaim(c)
    /\ file' = Applied(local[c], After(Recorded(local[c], stamp[c]), Resume), NoReason)
    /\ won'  = won \cup {<<c, seen[c].updatedAt>>}
    /\ Leave(c)
    /\ UNCHANGED <<checkpoint, seen, lastWrite>>

RecordFailure(c) ==
    /\ pc[c] = "stamped"
    /\ call[c].kind = "failure"
    /\ LET m == Machine(PhaseRead(local[c], stamp[c]), "FAILED", call[c].reason)
       IN file' = Applied(local[c], m, m.reason)
    /\ Leave(c)
    /\ UNCHANGED <<checkpoint, seen, lastWrite, won>>

\* A lost compare-and-set, a contradicted phase, a refused transition or an
\* unprojectable machine.
RefuseCall(c) ==
    /\ pc[c] = "stamped"
    /\ call[c].kind # "failure"
    /\ ~CanMerge(c) /\ ~CanSet(c) /\ ~CanClaim(c)
    /\ Leave(c)
    /\ UNCHANGED <<file, checkpoint, seen, lastWrite, won>>

-----------------------------------------------------------------------------
(* Around the store.                                                       *)

\* write_checkpoint: an atomic replacement by a process outside any store call.
WriteCheckpoint(c, p, b) ==
    /\ pc[c] = "idle"
    /\ file.updatedAt < MaxWrites
    /\ checkpoint' = [form |-> "current", phase |-> p, body |-> b]
    /\ UNCHANGED <<file, lock, pc, call, local, stamp, seen, lastWrite, won>>

\* The file on disk is damaged, or was written by another schema version.
DamageCheckpoint(form) ==
    /\ checkpoint.form = "current"
    /\ checkpoint' = [checkpoint EXCEPT !.form = form]
    /\ UNCHANGED <<file, lock, pc, call, local, stamp, seen, lastWrite, won>>

\* The process dies inside a call.
Die(c) ==
    /\ pc[c] # "idle"
    /\ pc'    = [pc    EXCEPT ![c] = "idle"]
    /\ call'  = [call  EXCEPT ![c] = NoCall]
    /\ local' = [local EXCEPT ![c] = NewFile]
    /\ stamp' = [stamp EXCEPT ![c] = NoCheckpoint]
    /\ seen'  = [seen  EXCEPT ![c] = NoIdentity]
    /\ lock'  = IF lock = c THEN NoClient ELSE lock
    /\ UNCHANGED <<file, checkpoint, lastWrite, won>>

InCall(c) ==
    \/ ObserveStamp(c)
    \/ Load(c)
    \/ ReadStamp(c)
    \/ RefuseCheckpoint(c)
    \/ UpdateMetadata(c)
    \/ SetRunState(c)
    \/ TransitionRun(c)
    \/ RecordFailure(c)
    \/ RefuseCall(c)

Next ==
    \/ \E c \in Clients :
         \/ ObserveFile(c)
         \/ \E k \in Calls : Begin(c, k)
         \/ Acquire(c)
         \/ InCall(c)
         \/ \E p \in UsedPhases, b \in Bodies : WriteCheckpoint(c, p, b)
         \/ Die(c)
    \/ \E form \in {"foreign", "corrupt"} : DamageCheckpoint(form)

Spec == Init /\ [][Next]_vars

-----------------------------------------------------------------------------
(* Properties.                                                             *)

InLock(c) == pc[c] \in {"locked", "loaded", "stamped"}

TypeOK ==
    /\ file \in Files
    /\ checkpoint \in Checkpoints
    /\ lock \in Clients \cup {NoClient}
    /\ pc \in [Clients -> {"idle", "observing", "waiting", "locked", "loaded", "stamped"}]
    /\ call \in [Clients -> Calls \cup {NoCall}]
    /\ local \in [Clients -> Files]
    /\ stamp \in [Clients -> Checkpoints]
    /\ seen \in [Clients -> Identities]
    /\ lastWrite \in [Fields -> Nat]
    /\ won \subseteq (Clients \X Nat)

\* state.py:6-8: the stored status is only ever the projection of the stored
\* machine, whatever the interleaving of writers.
StatusIsProjection ==
    file.status = StatusOf(Machine(file.phase, file.disposition, file.reason))

\* state.py:88-90: concurrent writers never lose each other's fields; the
\* last merge of every field is still in the file.
NoLostField == \A f \in Fields : file.fields[f] = lastWrite[f]

\* transition_run: two processes that observed the same run generation never
\* both claim it.
AtMostOneWinner ==
    \A v, w \in won : v[2] = w[2] => v = w

\* transition_run: a claim that wins replaces exactly the record its client
\* observed: nothing was written in between, not even by a metadata writer.
ClaimOnObservedRecord ==
    [][won' # won
         => \E c \in Clients :
              /\ won' = won \cup {<<c, file.updatedAt>>}
              /\ seen[c].machine.disposition = file.disposition
              /\ seen[c].machine.reason = ReasonRead(file)]_vars

\* state.py:346-351: a metadata merge never moves the posture, even when the
\* recorded reason is rebuilt from the failure payload.
MergeKeepsPosture ==
    [][\A f \in Fields : file'.fields[f] # file.fields[f]
         => /\ file'.disposition = file.disposition
            /\ ReasonRead(file') = ReasonRead(file)]_vars

\* The store implements the atomic record it promises.
Record == INSTANCE RunRecord WITH
    posture    <- [disposition |-> file.disposition, reason |-> ReasonRead(file)],
    fields     <- file.fields,
    generation <- file.updatedAt

ImplementsRecord == Record!RSpec

=============================================================================
