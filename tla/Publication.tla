----------------------------- MODULE Publication -----------------------------
(***************************************************************************)
(* From the accepted candidate to the published run: the staging of the    *)
(* run branch on the remote, the publication (none, the run branch with    *)
(* its pull request, or a fast-forward of the base branch), the record of  *)
(* it, and the cleanup of the remote run branch.                           *)
(*                                                                         *)
(* One action is one call to Git, to the remote or to the forge, or one    *)
(* durable write.  A remote call takes effect and answers, takes effect    *)
(* and loses its answer, or fails.  Other people move the same branches    *)
(* between any two steps; a stop or a death strikes between any two.       *)
(*                                                                         *)
(* A branch is its tip, seen from the run: "base" (the run's base commit), *)
(* "candidate", "other" (a commit the candidate does not precede), and for *)
(* the remote base "beyond" (a commit on top of the candidate).            *)
(***************************************************************************)
EXTENDS Naturals

CONSTANTS
    StepAttempts,  \* budget.step_attempts: pushes of the candidate retried
    MaxChain,      \* bound: accepted commits of the run
    MaxMoves,      \* bound: times somebody else moves a branch, or fetches
    MaxLaunches    \* bound: drivers of the run, the first and the resumes

ASSUME BudgetAssumption   == StepAttempts \in Nat
ASSUME BoundsOfPublication ==
    MaxChain \in Nat /\ MaxMoves \in Nat /\ MaxLaunches \in Nat \ {0}

VARIABLES
    target,        \* publish: "off", "run-branch" or "fast-forward-base"
    requestMode,   \* github.pull_request_mode: "off" or "create"
    chain,         \* commits from the base to the candidate; 0: no change
    runBranch,     \* the run branch on the remote
    runTracking,   \* its remote-tracking ref
    localBase, trackingBase, remoteBase,
    requests,      \* pull requests opened on the forge for this run
    phase,         \* the checkpoint's phase
    disposition, reason,
    used,          \* recovery counter of candidate-push
    published,     \* publish.status
    number,        \* pull_request_number; 0: none recorded
    cleanup,       \* publish.run_branch_cleanup.status
    pc,            \* the operation the driver is about to perform
    blame,         \* history: "remote" once a remote call of this launch failed
    moves, launches

config == <<target, requestMode, chain>>
refs   == <<runBranch, runTracking, localBase, trackingBase, remoteBase>>
git    == <<refs, requests>>
record == <<phase, disposition, reason, used, published, number, cleanup>>
world  == <<blame, moves, launches>>
vars   == <<config, git, record, pc, world>>

Operations == { "off", "stage", "push", "verify", "boundary", "publish",
                "unpublished", "check", "read", "swap", "reread", "push_base",
                "request", "create", "number", "record", "ended",
                "clean", "delete", "verify_delete" }

\* The call that removes the remote run branch is guarded against Ctrl-C.
CleaningUp == {"clean", "delete", "verify_delete"}

RemoteRequired == target # "off"
FastForward    == target = "fast-forward-base"
WantsRequest   == requestMode = "create"

Init ==
    /\ target \in {"off", "run-branch", "fast-forward-base"}
    /\ requestMode \in {"off", "create"} /\ (WantsRequest => target = "run-branch")
    /\ chain \in 0 .. MaxChain
    /\ runBranch = "none" /\ runTracking = "none"
    /\ localBase = "base" /\ trackingBase = "base"
    /\ remoteBase \in {"base", "other"}   \* the run never fetches
    /\ requests = 0
    /\ phase = "candidate_push"
    /\ disposition = "RUNNING" /\ reason = "none"
    /\ used = 0 /\ published = "none" /\ number = 0 /\ cleanup = "none"
    /\ pc = "stage"
    /\ blame = "nobody" /\ moves = 0 /\ launches = 1

-----------------------------------------------------------------------------
(* How a step ends.                                                        *)

Goto(op) == pc' = op /\ UNCHANGED record

\* A stop the driver writes down itself.
Leave(d, r) ==
    /\ disposition' = d /\ reason' = r /\ pc' = "off"
    /\ UNCHANGED <<phase, used, published, number, cleanup>>

\* Something went wrong with a remote call; nothing else did.
RemoteFault == blame' = "remote" /\ UNCHANGED <<moves, launches>>
Calm  == UNCHANGED world

\* git ls-remote: it answers with the tip, or fails.
Reading == UNCHANGED <<config, git>>

-----------------------------------------------------------------------------
(* CandidateRemoteStaging.stage                                            *)

\* Slip: the budget is tested after the attempt instead of before it.
MayRetryOnceMore == used <= StepAttempts

MayRetry == used < StepAttempts

\* Slip: the attempt is not counted.
StageErrorUncounted ==
    \/ MayRetry /\ Goto("stage")
    \/ ~MayRetry /\ RemoteRequired /\ Leave("WAIT_EXTERNAL", "PUSH_FAILED")
    \/ ~MayRetry /\ ~RemoteRequired /\ Goto("boundary")

\* An error of the transport: another attempt while the durable budget lasts.
\* Then a required remote makes the run wait, an optional one is given up.
StageError ==
    \/ /\ MayRetry
       /\ used' = used + 1 /\ pc' = "stage"
       /\ UNCHANGED <<phase, disposition, reason, published, number, cleanup>>
    \/ ~MayRetry /\ RemoteRequired /\ Leave("WAIT_EXTERNAL", "PUSH_FAILED")
    \/ ~MayRetry /\ ~RemoteRequired /\ Goto("boundary")

SkipStaging == pc = "stage" /\ chain = 0 /\ Goto("boundary") /\ Reading /\ Calm

\* A foreign tip is not an error: the candidate is noted as unavailable.
StageLook ==
    /\ pc = "stage" /\ chain > 0 /\ Reading
    /\ \/ runBranch = "none" /\ Goto("push") /\ Calm
       \/ runBranch = "candidate" /\ Goto("verify") /\ Calm
       \/ runBranch = "other" /\ Goto("boundary") /\ Calm
       \/ StageError /\ RemoteFault

\* push_run_branch: no force, so a foreign tip refuses it.
StagePush ==
    /\ pc = "push"
    /\ UNCHANGED <<config, localBase, trackingBase, remoteBase, requests>>
    /\ \/ /\ runBranch # "other"
          /\ runBranch' = "candidate" /\ runTracking' = "candidate"
          /\ Goto("verify") /\ Calm
       \/ /\ runBranch # "other" /\ runBranch' = "candidate"
          /\ StageError /\ RemoteFault /\ UNCHANGED runTracking
       \/ StageError /\ RemoteFault /\ UNCHANGED <<runBranch, runTracking>>

StageVerify ==
    /\ pc = "verify" /\ Reading
    /\ \/ Goto("boundary") /\ Calm
       \/ StageError /\ RemoteFault

\* The coordinator's boundary: the checkpoint names the publication.
PublishBoundary ==
    /\ pc = "boundary"
    /\ phase' = "publish" /\ pc' = "publish"
    /\ UNCHANGED <<config, git, disposition, reason, used, published, number,
                   cleanup, world>>

-----------------------------------------------------------------------------
(* publish_candidate, _complete_candidate_publication                      *)

Completed(status) ==
    /\ disposition' = "COMPLETED" /\ reason' = "none"
    /\ published' = status /\ pc' = "ended"
    /\ UNCHANGED <<phase, used, number, cleanup>>

NoChange == pc = "publish" /\ chain = 0 /\ Completed(published) /\ Reading /\ Calm

\* The identity of the candidate, its remote tip included when one is needed.
Identity ==
    /\ pc = "publish" /\ chain > 0 /\ Reading
    /\ \/ /\ RemoteRequired => runBranch = "candidate"
          /\ Goto(IF target = "off" THEN "unpublished" ELSE "check") /\ Calm
       \/ /\ RemoteRequired /\ runBranch # "candidate"
          /\ Leave("FAILED", "COMMIT_GATE_FAILED") /\ Calm
       \/ RemoteRequired /\ Leave("FAILED", "COMMIT_GATE_FAILED") /\ RemoteFault

\* Without publication the checkpoint goes back to the last remote operation.
CompleteUnpublished ==
    /\ pc = "unpublished" /\ Reading /\ Calm
    /\ \/ /\ phase # "candidate_push" /\ phase' = "candidate_push"
          /\ UNCHANGED <<disposition, reason, used, published, number, cleanup, pc>>
       \/ phase = "candidate_push" /\ Completed(published)

\* The second look at the remote, now under the publication's own errors.
Check ==
    /\ pc = "check" /\ Reading
    /\ \/ /\ runBranch = "candidate" /\ Calm
          /\ Goto(IF FastForward THEN "read" ELSE "request")
       \/ runBranch # "candidate" /\ Leave("WAIT_EXTERNAL", "PUSH_FAILED") /\ Calm
       \/ Leave("WAIT_EXTERNAL", "PUSH_FAILED") /\ RemoteFault

-----------------------------------------------------------------------------
(* publish_fast_forward_base                                               *)

\* BaseMovedError and BasePushError carry a publish payload of their own.
Refused ==
    /\ disposition' = "FAILED" /\ reason' = "BASE_MOVED_SINCE_RUN"
    /\ published' = "refused" /\ pc' = "off"
    /\ UNCHANGED <<phase, used, number, cleanup>>

PushFailed ==
    /\ disposition' = "WAIT_EXTERNAL" /\ reason' = "PUSH_FAILED"
    /\ published' = "push-failed" /\ pc' = "off"
    /\ UNCHANGED <<phase, used, number, cleanup>>

\* Called without the accepted chain, it knows a parent and a grandparent.
ChainKnown == chain <= 2

\* Slip: a local base already at the candidate is taken for a finished push.
LocalIsEnough == localBase = "candidate"

AlreadyPublished == localBase = "candidate" /\ trackingBase = "candidate"

ReadBase ==
    /\ pc = "read" /\ Reading /\ Calm
    /\ \/ ~ChainKnown /\ Leave("WAIT_EXTERNAL", "PUSH_FAILED")
       \/ /\ ChainKnown /\ localBase \in {"base", "candidate"}
          /\ \/ AlreadyPublished /\ Goto("record")
             \/ /\ ~AlreadyPublished /\ trackingBase = "base"
                /\ Goto(IF localBase = "base" THEN "swap" ELSE "push_base")
             \/ ~AlreadyPublished /\ trackingBase # "base" /\ Refused
       \/ ChainKnown /\ localBase \notin {"base", "candidate"} /\ Refused

\* Slip: update-ref without the old value.
SwapBlindly ==
    /\ pc = "swap" /\ Calm
    /\ UNCHANGED <<config, runBranch, runTracking, trackingBase, remoteBase, requests>>
    /\ localBase' = "candidate" /\ Goto("reread")

\* update-ref with the old value.
Swap ==
    /\ pc = "swap" /\ Calm
    /\ UNCHANGED <<config, runBranch, runTracking, trackingBase, remoteBase, requests>>
    /\ \/ localBase = "base" /\ localBase' = "candidate" /\ Goto("reread")
       \/ localBase # "base" /\ Refused /\ UNCHANGED localBase

Reread ==
    /\ pc = "reread" /\ Reading /\ Calm
    /\ \/ localBase = "candidate" /\ Goto("push_base")
       \/ localBase # "candidate" /\ Refused

\* Slip: the run branch is cleaned up before the publication is recorded.
LandedThenClean == "clean"

\* After the push that answered.
AfterLanding == "record"

\* No force: the remote refuses what is not a fast-forward of its base.
PushBase ==
    /\ pc = "push_base"
    /\ UNCHANGED <<config, runBranch, runTracking, localBase, requests>>
    /\ \/ /\ remoteBase \in {"base", "candidate"}
          /\ remoteBase' = "candidate" /\ trackingBase' = "candidate"
          /\ Goto(AfterLanding) /\ Calm
       \/ /\ remoteBase \in {"base", "candidate"} /\ remoteBase' = "candidate"
          /\ PushFailed /\ RemoteFault /\ UNCHANGED trackingBase
       \/ PushFailed /\ RemoteFault /\ UNCHANGED <<remoteBase, trackingBase>>

-----------------------------------------------------------------------------
(* _ensure_github_pull_request_metadata                                    *)

\* Slip: the recorded number is not looked at.
RequestForgotten == FALSE

RequestKnown == number > 0

\* Every reference the resume gate compares with the bootstrap snapshot; the
\* run branch's own tracking ref may lag, not be foreign.
\* Slip: the run branch's own tracking ref counts as a foreign reference.
RunTrackingAbsent == runTracking = "none"

RunTrackingOwned == runTracking \in {"none", "candidate"}
RefsUntouched == localBase = "base" /\ trackingBase = "base" /\ RunTrackingOwned

\* A fixable code that escaped: it waits when the resume gate passes now.
Misconfigured ==
    Leave(IF RefsUntouched THEN "WAIT_EXTERNAL" ELSE "FAILED", "CONFIGURATION_INVALID")

EnsureRequest ==
    /\ pc = "request" /\ Reading
    /\ \/ (~WantsRequest \/ RequestKnown) /\ Goto("record") /\ Calm
       \/ /\ WantsRequest /\ ~RequestKnown
          /\ \/ runBranch = "candidate" /\ Goto("create") /\ Calm
             \/ runBranch # "candidate" /\ Misconfigured /\ Calm
             \/ Misconfigured /\ RemoteFault

CreateRequest ==
    /\ pc = "create" /\ UNCHANGED <<config, refs>>
    /\ \/ requests' = requests + 1 /\ Goto("number") /\ Calm
       \/ /\ Leave("WAIT_EXTERNAL", "GITHUB_WORKSTREAM_FAILURE") /\ RemoteFault
          /\ requests' \in {requests, requests + 1}

\* The answer numbers the request just opened.
RecordNumber ==
    /\ pc = "number" /\ Reading /\ Calm
    /\ number' = requests /\ pc' = "record"
    /\ UNCHANGED <<phase, disposition, reason, used, published, cleanup>>

-----------------------------------------------------------------------------
(* The record, then the cleanup of the remote run branch.                  *)

RecordPublished ==
    /\ pc = "record" /\ Reading /\ Calm
    /\ disposition' = "COMPLETED" /\ reason' = "none" /\ published' = "pushed"
    /\ cleanup' = IF FastForward THEN "pending" ELSE "none"
    /\ pc' = "ended"
    /\ UNCHANGED <<phase, used, number>>

Ended ==
    /\ pc = "ended" /\ Reading /\ Calm
    /\ Goto(IF cleanup = "pending" THEN "clean" ELSE "off")

\* The last read of the cleanup and the write of its outcome.
Cleaned(status) ==
    /\ cleanup' = status /\ pc' = "ended"
    /\ UNCHANGED <<phase, disposition, reason, used, published, number>>

CleanLook ==
    /\ pc = "clean" /\ Reading
    /\ \/ runBranch = "none" /\ Cleaned("already_absent") /\ Calm
       \/ runBranch = "other" /\ Cleaned("warning") /\ Calm
       \/ runBranch = "candidate" /\ Goto("delete") /\ Calm
       \/ Cleaned("warning") /\ RemoteFault

\* git push --delete: without a lease, it deletes what is there by then.
Delete ==
    /\ pc = "delete"
    /\ UNCHANGED <<config, localBase, trackingBase, remoteBase, requests>>
    /\ \/ /\ runBranch # "none" /\ runBranch' = "none" /\ runTracking' = "none"
          /\ Goto("verify_delete") /\ Calm
       \/ /\ runBranch' \in {runBranch, "none"} /\ UNCHANGED runTracking
          /\ Cleaned("warning") /\ RemoteFault

VerifyDelete ==
    /\ pc = "verify_delete" /\ Reading
    /\ \/ runBranch = "none" /\ Cleaned("success") /\ Calm
       \/ runBranch # "none" /\ Cleaned("warning") /\ Calm
       \/ Cleaned("warning") /\ RemoteFault

-----------------------------------------------------------------------------
(* Stops, deaths, resumes, and other people.                               *)

\* KeyboardInterrupt: the outer boundary records a failure, whatever the
\* record says; only the cleanup returns what is stored.
Interrupt ==
    /\ pc # "off" /\ Reading /\ Calm
    /\ IF pc \in CleaningUp THEN Goto("off") ELSE Leave("FAILED", "INTERRUPTED")

Die == pc # "off" /\ Goto("off") /\ Reading /\ Calm

Resumable ==
    /\ disposition \in {"WAIT_EXTERNAL", "FAILED"}
    /\ reason \notin {"BASE_MOVED_SINCE_RUN", "RESUME_INTEGRITY_FAILURE"}
    /\ ~(disposition = "FAILED" /\ reason = "CONFIGURATION_INVALID")

\* The claim, and the entry at the checkpoint's phase.
Resume ==
    /\ pc = "off" /\ Resumable /\ launches < MaxLaunches
    /\ launches' = launches + 1 /\ blame' = "nobody" /\ UNCHANGED <<moves, config, git>>
    /\ IF RefsUntouched
       THEN /\ disposition' = "RUNNING" /\ reason' = "none"
            /\ pc' = IF phase = "candidate_push" THEN "stage" ELSE "publish"
            /\ UNCHANGED <<phase, used, published, number, cleanup>>
       ELSE Leave("FAILED", "RESUME_INTEGRITY_FAILURE")

\* An operator resets, fast-forwards or commits on the local base.
MoveLocalBase ==
    /\ localBase' \in {"base", "candidate", "other"} \ {localBase}
    /\ UNCHANGED <<runBranch, runTracking, trackingBase, remoteBase>>

\* A colleague pushes to the base; the remote takes fast-forwards only.
MoveRemoteBase ==
    /\ \/ remoteBase = "base" /\ remoteBase' = "other"
       \/ remoteBase = "candidate" /\ remoteBase' = "beyond"
    /\ UNCHANGED <<runBranch, runTracking, localBase, trackingBase>>

\* Somebody deletes, rewrites or restores the run branch on the remote.
MoveRunBranch ==
    /\ runBranch' \in {"none", "candidate", "other"} \ {runBranch}
    /\ UNCHANGED <<runTracking, localBase, trackingBase, remoteBase>>

Fetch ==
    /\ trackingBase' = remoteBase
    /\ runTracking' = IF runBranch = "none" THEN runTracking ELSE runBranch
    /\ UNCHANGED <<runBranch, localBase, remoteBase>>

Others ==
    /\ moves < MaxMoves /\ moves' = moves + 1
    /\ MoveLocalBase \/ MoveRemoteBase \/ MoveRunBranch \/ Fetch
    /\ UNCHANGED <<config, requests, record, pc, blame, launches>>

Drive ==
    \/ SkipStaging \/ StageLook \/ StagePush \/ StageVerify \/ PublishBoundary
    \/ NoChange \/ Identity \/ CompleteUnpublished \/ Check
    \/ ReadBase \/ Swap \/ Reread \/ PushBase
    \/ EnsureRequest \/ CreateRequest \/ RecordNumber
    \/ RecordPublished \/ Ended \/ CleanLook \/ Delete \/ VerifyDelete

Next == Drive \/ Interrupt \/ Die \/ Resume \/ Others

Spec == Init /\ [][Next]_vars

\* The driver is one thread and every Git call has a timeout.
FairSpec == Spec /\ WF_vars(Drive)

-----------------------------------------------------------------------------
(* Properties.                                                             *)

Tips == {"none", "candidate", "other"}

Codes == { "none", "PUSH_FAILED", "COMMIT_GATE_FAILED", "BASE_MOVED_SINCE_RUN",
           "CONFIGURATION_INVALID", "GITHUB_WORKSTREAM_FAILURE", "INTERRUPTED",
           "RESUME_INTEGRITY_FAILURE" }

\* Every branch and every recorded field has its shape; the retries of the
\* staging share one durable budget, over all launches (recovery.admit).
TypeOK ==
    /\ target \in {"off", "run-branch", "fast-forward-base"}
    /\ requestMode \in {"off", "create"}
    /\ chain \in 0 .. MaxChain
    /\ runBranch \in Tips /\ runTracking \in Tips
    /\ localBase \in {"base", "candidate", "other"}
    /\ trackingBase \in {"base", "candidate", "other", "beyond"}
    /\ remoteBase \in {"base", "candidate", "other", "beyond"}
    /\ requests \in Nat
    /\ phase \in {"candidate_push", "publish"}
    /\ disposition \in {"RUNNING", "WAIT_EXTERNAL", "COMPLETED", "FAILED"}
    /\ reason \in Codes
    /\ used \in 0 .. StepAttempts
    /\ published \in {"none", "pushed", "refused", "push-failed"}
    /\ number \in Nat
    /\ cleanup \in {"none", "pending", "already_absent", "success", "warning"}
    /\ pc \in Operations
    /\ blame \in {"nobody", "remote"}
    /\ moves \in 0 .. MaxMoves /\ launches \in 1 .. MaxLaunches

\* A fast-forward recorded as pushed is on the remote base and stays there,
\* although the code only ever reads the remote-tracking ref: a retry believes
\* that ref only about a push or a fetch that saw the candidate
\* (publish_fast_forward_base).
Arrived == remoteBase \in {"candidate", "beyond"}

PublishedArrived == FastForward /\ published = "pushed" => Arrived

\* The run moves a base branch once, from its base commit to the candidate:
\* no commit of anybody else is ever dropped from it, whatever happened since
\* the branch was last read ("never merges, rebases or forces").
OthersKept ==
    [][moves' = moves =>
         /\ localBase' # localBase => localBase = "base" /\ localBase' = "candidate"
         /\ remoteBase' # remoteBase => remoteBase = "base" /\ remoteBase' = "candidate"]_vars

\* The run takes its branch away from the remote only when the publication is
\* durably recorded: a stop during a publication never loses the only copy the
\* remote has (_persist_published_run_branch_cleanup).
CandidateKept ==
    [][moves' = moves /\ runBranch = "candidate" /\ runBranch' = "none" =>
         published = "pushed" /\ disposition = "COMPLETED"]_vars

\* The recorded pull request is the last one the run opened: once the number
\* is durable no stop and no resume opens another, and a run that asked for
\* one completes with it.
LastRequest ==
    /\ number > 0 => number = requests
    /\ WantsRequest /\ chain > 0 /\ disposition = "COMPLETED" => number > 0

\* The run waits or fails only because the remote failed it in this launch or
\* because somebody else moved something: what it did itself in an earlier
\* launch is never held against it, but for the two cases named here.
Stopped == disposition \in {"WAIT_EXTERNAL", "FAILED"} /\ reason # "INTERRUPTED"

SwappedBase == FastForward /\ localBase = "candidate"
LongChain   == FastForward /\ chain > 2

StoppedByTheWorld == Stopped => blame = "remote" \/ moves > 0 \/ SwappedBase \/ LongChain

\* Whatever the remote does, however often it fails, a driver leaves: the
\* staging loop has no other bound than its budget.
DriverLeaves == pc # "off" ~> pc = "off"

-----------------------------------------------------------------------------
(* What the repository says of a publication and the code does not do.     *)

\* runbook.md: after a failed push "resume then retries publication only",
\* and the fast-forward publishes "the exact approved candidate chain tip".
OnlyTheWorldStops == Stopped => blame = "remote" \/ moves > 0

=============================================================================
