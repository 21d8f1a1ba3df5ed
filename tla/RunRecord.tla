------------------------------ MODULE RunRecord ------------------------------
(***************************************************************************)
(* What metaharness/state.py promises its callers about state.json, with   *)
(* no lock, no file and no checkpoint: every call takes effect at one      *)
(* instant.  A merge changes one field and never the posture; a posture    *)
(* write changes no field; a claim turns a stopped run (or an approved     *)
(* plan gate) into a running one with no reason left.                      *)
(***************************************************************************)
EXTENDS RunMachine

CONSTANT Fields

VARIABLES posture, fields, generation

rvars == <<posture, fields, generation>>

Postures == [disposition : Dispositions, reason : Reasons \cup {NoReason}]

RInit == /\ posture = [disposition |-> "RUNNING", reason |-> NoReason]
         /\ fields = [f \in Fields |-> 0]
         /\ generation = 1

Merge(f) == /\ generation' = generation + 1
            /\ fields' = [fields EXCEPT ![f] = generation']
            /\ UNCHANGED posture

SetPosture(p) == /\ generation' = generation + 1
                 /\ posture' = p
                 /\ UNCHANGED fields

Claim == /\ posture.disposition # "COMPLETED"
         /\ SetPosture([disposition |-> "RUNNING", reason |-> NoReason])

\* set_run_state and record_failure stop a run; only a claim starts one again.
Stop(p) == p.disposition # "RUNNING" /\ SetPosture(p)

RNext == \/ \E f \in Fields : Merge(f)
         \/ \E p \in Postures : Stop(p)
         \/ Claim

RSpec == RInit /\ [][RNext]_rvars
=============================================================================
