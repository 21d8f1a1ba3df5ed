-------------------------- MODULE PublicationProofs --------------------------
(***************************************************************************)
(* What TLAPS proves of Publication, for any retry budget, any length of   *)
(* the accepted chain and any number of moves, stops and resumes.          *)
(***************************************************************************)
EXTENDS Publication, TLAPS

\* It holds of a run that starts to publish.
LEMMA TypeInit == Init => TypeOK
  BY BudgetAssumption, BoundsOfPublication DEF Init, TypeOK, Tips, Codes, Operations

\* Every step keeps every branch and field typed.
LEMMA TypeStep ==
    ASSUME TypeOK, [Next]_vars
    PROVE  TypeOK'
  <1> USE BudgetAssumption, BoundsOfPublication
  <1> USE DEF TypeOK, Tips, Codes, Operations,
         config, git, refs, record, world, Goto, Leave, RemoteFault, Calm, Reading,
         RemoteRequired, FastForward, WantsRequest, CleaningUp
  <1>1. CASE SkipStaging
    BY <1>1 DEF SkipStaging
  <1>2. CASE StageLook
    BY <1>2 DEF StageLook, StageError, MayRetry
  <1>3. CASE StagePush
    BY <1>3 DEF StagePush, StageError, MayRetry
  <1>4. CASE StageVerify
    BY <1>4 DEF StageVerify, StageError, MayRetry
  <1>5. CASE PublishBoundary
    BY <1>5 DEF PublishBoundary
  <1>6. CASE NoChange
    BY <1>6 DEF NoChange, Completed
  <1>7. CASE Identity
    BY <1>7 DEF Identity
  <1>8. CASE CompleteUnpublished
    BY <1>8 DEF CompleteUnpublished, Completed
  <1>9. CASE Check
    BY <1>9 DEF Check
  <1>10. CASE ReadBase
    BY <1>10 DEF ReadBase, Refused, AlreadyPublished, ChainKnown
  <1>11. CASE Swap
    BY <1>11 DEF Swap, Refused
  <1>12. CASE Reread
    BY <1>12 DEF Reread, Refused
  <1>13. CASE PushBase
    BY <1>13 DEF PushBase, PushFailed, AfterLanding
  <1>14. CASE EnsureRequest
    BY <1>14 DEF EnsureRequest, Misconfigured, RequestKnown, RefsUntouched,
       RunTrackingOwned
  <1>15. CASE CreateRequest
    BY <1>15 DEF CreateRequest
  <1>16. CASE RecordNumber
    BY <1>16 DEF RecordNumber
  <1>17. CASE RecordPublished
    BY <1>17 DEF RecordPublished
  <1>18. CASE Ended
    BY <1>18 DEF Ended
  <1>19. CASE CleanLook
    BY <1>19 DEF CleanLook, Cleaned
  <1>20. CASE Delete
    BY <1>20 DEF Delete, Cleaned
  <1>21. CASE VerifyDelete
    BY <1>21 DEF VerifyDelete, Cleaned
  <1>22. CASE Interrupt
    BY <1>22 DEF Interrupt
  <1>23. CASE Die
    BY <1>23 DEF Die
  <1>24. CASE Resume
    BY <1>24 DEF Resume, Resumable, RefsUntouched, RunTrackingOwned
  <1>25. CASE Others
    <2> USE <1>25 DEF Others, record
    <2>1. CASE MoveLocalBase
      BY <2>1 DEF MoveLocalBase
    <2>2. CASE MoveRemoteBase
      BY <2>2 DEF MoveRemoteBase
    <2>3. CASE MoveRunBranch
      BY <2>3 DEF MoveRunBranch
    <2>4. CASE Fetch
      BY <2>4 DEF Fetch
    <2>5. QED
      BY <2>1, <2>2, <2>3, <2>4
  <1>26. CASE UNCHANGED vars
    BY <1>26 DEF vars, record
  <1>27. QED
    BY <1>1, <1>2, <1>3, <1>4, <1>5, <1>6, <1>7, <1>8, <1>9, <1>10, <1>11, <1>12,
       <1>13, <1>14, <1>15, <1>16, <1>17, <1>18, <1>19, <1>20, <1>21, <1>22, <1>23,
       <1>24, <1>25, <1>26 DEF Next, Drive

\* The types of Publication hold in every state.
THEOREM TypeCorrect == Spec => []TypeOK
  <1>1. TypeOK /\ [Next]_vars => TypeOK'
    BY TypeStep
  <1>2. QED
    BY TypeInit, <1>1, PTL DEF Spec

-----------------------------------------------------------------------------
(* What the driver has established where it stands.                        *)

\* Each operation is reached only in the configuration it is for.
Reached ==
    /\ WantsRequest => target = "run-branch"
    /\ pc \in {"push", "verify", "unpublished", "check", "read", "swap", "reread",
              "push_base", "request", "create", "number", "record"} \cup CleaningUp
          => chain > 0
    /\ pc = "unpublished" => target = "off"
    /\ pc \in {"check", "record"} => target # "off"
    /\ pc \in {"read", "swap", "reread", "push_base"} => FastForward
    /\ pc \in {"request", "create", "number"} => target = "run-branch"
    /\ pc \in {"publish", "check", "request"} => phase = "publish"

\* The cleanup is entered from a durable publication of a fast-forward only.
Cleaning ==
    /\ pc = "ended" => disposition = "COMPLETED"
    /\ pc = "ended" /\ cleanup = "pending" => published = "pushed"
    /\ pc \in CleaningUp =>
          disposition = "COMPLETED" /\ published = "pushed" /\ cleanup = "pending"
    /\ cleanup # "none" => FastForward /\ chain > 0

\* It holds of a run that starts to publish.
LEMMA CleaningInit == Init => Cleaning
  BY DEF Init, Cleaning, CleaningUp

\* It holds of a run that starts to publish.
LEMMA ReachedInit == Init => Reached
  BY DEF Init, Reached, CleaningUp, WantsRequest

\* The operation before each one made sure of it.
LEMMA ReachedStep ==
    ASSUME TypeOK, Reached, Cleaning, [Next]_vars
    PROVE  Reached'
  <1> USE DEF TypeOK, Reached, Cleaning, config, git, refs, record, world, Goto, Leave, RemoteFault, Calm, Reading,
         RemoteRequired, FastForward, WantsRequest, CleaningUp
  <1>1. CASE SkipStaging
    BY <1>1 DEF SkipStaging
  <1>2. CASE StageLook
    BY <1>2 DEF StageLook, StageError, MayRetry
  <1>3. CASE StagePush
    BY <1>3 DEF StagePush, StageError, MayRetry
  <1>4. CASE StageVerify
    BY <1>4 DEF StageVerify, StageError, MayRetry
  <1>5. CASE PublishBoundary
    BY <1>5 DEF PublishBoundary
  <1>6. CASE NoChange
    BY <1>6 DEF NoChange, Completed
  <1>7. CASE Identity
    BY <1>7 DEF Identity
  <1>8. CASE CompleteUnpublished
    BY <1>8 DEF CompleteUnpublished, Completed
  <1>9. CASE Check
    BY <1>9 DEF Check
  <1>10. CASE ReadBase
    BY <1>10 DEF ReadBase, Refused, AlreadyPublished, ChainKnown
  <1>11. CASE Swap
    BY <1>11 DEF Swap, Refused
  <1>12. CASE Reread
    BY <1>12 DEF Reread, Refused
  <1>13. CASE PushBase
    BY <1>13 DEF PushBase, PushFailed, AfterLanding
  <1>14. CASE EnsureRequest
    BY <1>14 DEF EnsureRequest, Misconfigured, RequestKnown, RefsUntouched,
       RunTrackingOwned
  <1>15. CASE CreateRequest
    BY <1>15 DEF CreateRequest
  <1>16. CASE RecordNumber
    BY <1>16 DEF RecordNumber
  <1>17. CASE RecordPublished
    BY <1>17 DEF RecordPublished
  <1>18. CASE Ended
    BY <1>18 DEF Ended
  <1>19. CASE CleanLook
    BY <1>19 DEF CleanLook, Cleaned
  <1>20. CASE Delete
    BY <1>20 DEF Delete, Cleaned
  <1>21. CASE VerifyDelete
    BY <1>21 DEF VerifyDelete, Cleaned
  <1>22. CASE Interrupt
    BY <1>22 DEF Interrupt
  <1>23. CASE Die
    BY <1>23 DEF Die
  <1>24. CASE Resume
    BY <1>24 DEF Resume, Resumable, RefsUntouched, RunTrackingOwned
  <1>25. CASE Others
    <2> USE <1>25 DEF Others, record
    <2>1. CASE MoveLocalBase
      BY <2>1 DEF MoveLocalBase
    <2>2. CASE MoveRemoteBase
      BY <2>2 DEF MoveRemoteBase
    <2>3. CASE MoveRunBranch
      BY <2>3 DEF MoveRunBranch
    <2>4. CASE Fetch
      BY <2>4 DEF Fetch
    <2>5. QED
      BY <2>1, <2>2, <2>3, <2>4
  <1>26. CASE UNCHANGED vars
    BY <1>26 DEF vars, record
  <1>27. QED
    BY <1>1, <1>2, <1>3, <1>4, <1>5, <1>6, <1>7, <1>8, <1>9, <1>10, <1>11, <1>12,
       <1>13, <1>14, <1>15, <1>16, <1>17, <1>18, <1>19, <1>20, <1>21, <1>22, <1>23,
       <1>24, <1>25, <1>26 DEF Next, Drive

\* A publication without change or without remote has no cleanup pending.
LEMMA CleaningStep ==
    ASSUME TypeOK, Reached, Cleaning, [Next]_vars
    PROVE  Cleaning'
  <1> USE DEF TypeOK, Reached, Cleaning, config, git, refs, record, world, Goto, Leave, RemoteFault, Calm, Reading,
         RemoteRequired, FastForward, WantsRequest, CleaningUp
  <1>1. CASE SkipStaging
    BY <1>1 DEF SkipStaging
  <1>2. CASE StageLook
    BY <1>2 DEF StageLook, StageError, MayRetry
  <1>3. CASE StagePush
    BY <1>3 DEF StagePush, StageError, MayRetry
  <1>4. CASE StageVerify
    BY <1>4 DEF StageVerify, StageError, MayRetry
  <1>5. CASE PublishBoundary
    BY <1>5 DEF PublishBoundary
  <1>6. CASE NoChange
    BY <1>6 DEF NoChange, Completed
  <1>7. CASE Identity
    BY <1>7 DEF Identity
  <1>8. CASE CompleteUnpublished
    BY <1>8 DEF CompleteUnpublished, Completed
  <1>9. CASE Check
    BY <1>9 DEF Check
  <1>10. CASE ReadBase
    BY <1>10 DEF ReadBase, Refused, AlreadyPublished, ChainKnown
  <1>11. CASE Swap
    BY <1>11 DEF Swap, Refused
  <1>12. CASE Reread
    BY <1>12 DEF Reread, Refused
  <1>13. CASE PushBase
    BY <1>13 DEF PushBase, PushFailed, AfterLanding
  <1>14. CASE EnsureRequest
    BY <1>14 DEF EnsureRequest, Misconfigured, RequestKnown, RefsUntouched,
       RunTrackingOwned
  <1>15. CASE CreateRequest
    BY <1>15 DEF CreateRequest
  <1>16. CASE RecordNumber
    BY <1>16 DEF RecordNumber
  <1>17. CASE RecordPublished
    BY <1>17 DEF RecordPublished
  <1>18. CASE Ended
    BY <1>18 DEF Ended
  <1>19. CASE CleanLook
    BY <1>19 DEF CleanLook, Cleaned
  <1>20. CASE Delete
    BY <1>20 DEF Delete, Cleaned
  <1>21. CASE VerifyDelete
    BY <1>21 DEF VerifyDelete, Cleaned
  <1>22. CASE Interrupt
    BY <1>22 DEF Interrupt
  <1>23. CASE Die
    BY <1>23 DEF Die
  <1>24. CASE Resume
    BY <1>24 DEF Resume, Resumable, RefsUntouched, RunTrackingOwned
  <1>25. CASE Others
    <2> USE <1>25 DEF Others, record
    <2>1. CASE MoveLocalBase
      BY <2>1 DEF MoveLocalBase
    <2>2. CASE MoveRemoteBase
      BY <2>2 DEF MoveRemoteBase
    <2>3. CASE MoveRunBranch
      BY <2>3 DEF MoveRunBranch
    <2>4. CASE Fetch
      BY <2>4 DEF Fetch
    <2>5. QED
      BY <2>1, <2>2, <2>3, <2>4
  <1>26. CASE UNCHANGED vars
    BY <1>26 DEF vars, record
  <1>27. QED
    BY <1>1, <1>2, <1>3, <1>4, <1>5, <1>6, <1>7, <1>8, <1>9, <1>10, <1>11, <1>12,
       <1>13, <1>14, <1>15, <1>16, <1>17, <1>18, <1>19, <1>20, <1>21, <1>22, <1>23,
       <1>24, <1>25, <1>26 DEF Next, Drive

\* What the tracking ref, the driver or the record says of the remote base is
\* true of the remote base.
Landed ==
    /\ trackingBase = "candidate" => Arrived
    /\ pc = "record" /\ FastForward => Arrived
    /\ PublishedArrived

\* It holds of a run that starts to publish.
LEMMA LandedInit == Init => Landed
  BY DEF Init, Landed, PublishedArrived

\* The remote takes fast-forwards only, so what arrived stays.
LEMMA LandedStep ==
    ASSUME TypeOK, Reached, Landed, [Next]_vars
    PROVE  Landed'
  <1> USE DEF TypeOK, Reached, Landed, PublishedArrived, Arrived,
         config, git, refs, record, world, Goto, Leave, RemoteFault, Calm, Reading,
         RemoteRequired, FastForward, WantsRequest, CleaningUp
  <1>1. CASE SkipStaging
    BY <1>1 DEF SkipStaging
  <1>2. CASE StageLook
    BY <1>2 DEF StageLook, StageError, MayRetry
  <1>3. CASE StagePush
    BY <1>3 DEF StagePush, StageError, MayRetry
  <1>4. CASE StageVerify
    BY <1>4 DEF StageVerify, StageError, MayRetry
  <1>5. CASE PublishBoundary
    BY <1>5 DEF PublishBoundary
  <1>6. CASE NoChange
    BY <1>6 DEF NoChange, Completed
  <1>7. CASE Identity
    BY <1>7 DEF Identity
  <1>8. CASE CompleteUnpublished
    BY <1>8 DEF CompleteUnpublished, Completed
  <1>9. CASE Check
    BY <1>9 DEF Check
  <1>10. CASE ReadBase
    BY <1>10 DEF ReadBase, Refused, AlreadyPublished, ChainKnown
  <1>11. CASE Swap
    BY <1>11 DEF Swap, Refused
  <1>12. CASE Reread
    BY <1>12 DEF Reread, Refused
  <1>13. CASE PushBase
    BY <1>13 DEF PushBase, PushFailed, AfterLanding
  <1>14. CASE EnsureRequest
    BY <1>14 DEF EnsureRequest, Misconfigured, RequestKnown, RefsUntouched,
       RunTrackingOwned
  <1>15. CASE CreateRequest
    BY <1>15 DEF CreateRequest
  <1>16. CASE RecordNumber
    BY <1>16 DEF RecordNumber
  <1>17. CASE RecordPublished
    BY <1>17 DEF RecordPublished
  <1>18. CASE Ended
    BY <1>18 DEF Ended
  <1>19. CASE CleanLook
    BY <1>19 DEF CleanLook, Cleaned
  <1>20. CASE Delete
    BY <1>20 DEF Delete, Cleaned
  <1>21. CASE VerifyDelete
    BY <1>21 DEF VerifyDelete, Cleaned
  <1>22. CASE Interrupt
    BY <1>22 DEF Interrupt
  <1>23. CASE Die
    BY <1>23 DEF Die
  <1>24. CASE Resume
    BY <1>24 DEF Resume, Resumable, RefsUntouched, RunTrackingOwned
  <1>25. CASE Others
    <2> USE <1>25 DEF Others, record
    <2>1. CASE MoveLocalBase
      BY <2>1 DEF MoveLocalBase
    <2>2. CASE MoveRemoteBase
      BY <2>2 DEF MoveRemoteBase
    <2>3. CASE MoveRunBranch
      BY <2>3 DEF MoveRunBranch
    <2>4. CASE Fetch
      BY <2>4 DEF Fetch
    <2>5. QED
      BY <2>1, <2>2, <2>3, <2>4
  <1>26. CASE UNCHANGED vars
    BY <1>26 DEF vars, record
  <1>27. QED
    BY <1>1, <1>2, <1>3, <1>4, <1>5, <1>6, <1>7, <1>8, <1>9, <1>10, <1>11, <1>12,
       <1>13, <1>14, <1>15, <1>16, <1>17, <1>18, <1>19, <1>20, <1>21, <1>22, <1>23,
       <1>24, <1>25, <1>26 DEF Next, Drive

\* A request is opened only while no number is recorded.
Requested ==
    /\ pc \in {"create", "number"} => number = 0
    /\ pc = "number" => requests > 0
    /\ pc = "record" /\ WantsRequest => number > 0
    /\ LastRequest

\* It holds of a run that starts to publish.
LEMMA RequestedInit == Init => Requested
  BY DEF Init, Requested, LastRequest

\* The number is durable before the run completes.
LEMMA RequestedStep ==
    ASSUME TypeOK, Reached, Requested, [Next]_vars
    PROVE  Requested'
  <1> USE DEF TypeOK, Reached, Requested, LastRequest, config, git, refs, record, world, Goto, Leave, RemoteFault, Calm, Reading,
         RemoteRequired, FastForward, WantsRequest, CleaningUp
  <1>1. CASE SkipStaging
    BY <1>1 DEF SkipStaging
  <1>2. CASE StageLook
    BY <1>2 DEF StageLook, StageError, MayRetry
  <1>3. CASE StagePush
    BY <1>3 DEF StagePush, StageError, MayRetry
  <1>4. CASE StageVerify
    BY <1>4 DEF StageVerify, StageError, MayRetry
  <1>5. CASE PublishBoundary
    BY <1>5 DEF PublishBoundary
  <1>6. CASE NoChange
    BY <1>6 DEF NoChange, Completed
  <1>7. CASE Identity
    BY <1>7 DEF Identity
  <1>8. CASE CompleteUnpublished
    BY <1>8 DEF CompleteUnpublished, Completed
  <1>9. CASE Check
    BY <1>9 DEF Check
  <1>10. CASE ReadBase
    BY <1>10 DEF ReadBase, Refused, AlreadyPublished, ChainKnown
  <1>11. CASE Swap
    BY <1>11 DEF Swap, Refused
  <1>12. CASE Reread
    BY <1>12 DEF Reread, Refused
  <1>13. CASE PushBase
    BY <1>13 DEF PushBase, PushFailed, AfterLanding
  <1>14. CASE EnsureRequest
    BY <1>14 DEF EnsureRequest, Misconfigured, RequestKnown, RefsUntouched,
       RunTrackingOwned
  <1>15. CASE CreateRequest
    BY <1>15 DEF CreateRequest
  <1>16. CASE RecordNumber
    BY <1>16 DEF RecordNumber
  <1>17. CASE RecordPublished
    BY <1>17 DEF RecordPublished
  <1>18. CASE Ended
    BY <1>18 DEF Ended
  <1>19. CASE CleanLook
    BY <1>19 DEF CleanLook, Cleaned
  <1>20. CASE Delete
    BY <1>20 DEF Delete, Cleaned
  <1>21. CASE VerifyDelete
    BY <1>21 DEF VerifyDelete, Cleaned
  <1>22. CASE Interrupt
    BY <1>22 DEF Interrupt
  <1>23. CASE Die
    BY <1>23 DEF Die
  <1>24. CASE Resume
    BY <1>24 DEF Resume, Resumable, RefsUntouched, RunTrackingOwned
  <1>25. CASE Others
    <2> USE <1>25 DEF Others, record
    <2>1. CASE MoveLocalBase
      BY <2>1 DEF MoveLocalBase
    <2>2. CASE MoveRemoteBase
      BY <2>2 DEF MoveRemoteBase
    <2>3. CASE MoveRunBranch
      BY <2>3 DEF MoveRunBranch
    <2>4. CASE Fetch
      BY <2>4 DEF Fetch
    <2>5. QED
      BY <2>1, <2>2, <2>3, <2>4
  <1>26. CASE UNCHANGED vars
    BY <1>26 DEF vars, record
  <1>27. QED
    BY <1>1, <1>2, <1>3, <1>4, <1>5, <1>6, <1>7, <1>8, <1>9, <1>10, <1>11, <1>12,
       <1>13, <1>14, <1>15, <1>16, <1>17, <1>18, <1>19, <1>20, <1>21, <1>22, <1>23,
       <1>24, <1>25, <1>26 DEF Next, Drive

\* When nobody else moved anything, each ref is where the run put it.
Alone ==
    moves = 0 =>
      /\ runBranch \in {"none", "candidate"} /\ runTracking \in {"none", "candidate"}
      /\ localBase \in {"base", "candidate"} /\ trackingBase \in {"base", "candidate"}
      /\ localBase = "candidate" => FastForward
      /\ trackingBase = "candidate" => localBase = "candidate"
      /\ pc = "swap" => localBase = "base"
      /\ pc \in {"reread", "push_base"} => localBase = "candidate"
      /\ pc = "record" /\ FastForward => localBase = "candidate"
      /\ cleanup # "none" => localBase = "candidate"
      /\ pc = "verify" => runBranch = "candidate"
      /\ (pc = "boundary" \/ phase = "publish") /\ RemoteRequired /\ chain > 0
            => runBranch = "candidate" \/ SwappedBase

\* It holds of a run that starts to publish.
LEMMA AloneInit == Init => Alone
  BY DEF Init, Alone

\* Its own steps keep them there.
LEMMA AloneStep ==
    ASSUME TypeOK, Reached, Cleaning, Alone, [Next]_vars
    PROVE  Alone'
  <1> USE DEF TypeOK, Reached, Cleaning, Alone, SwappedBase,
         config, git, refs, record, world, Goto, Leave, RemoteFault, Calm, Reading,
         RemoteRequired, FastForward, WantsRequest, CleaningUp
  <1>1. CASE SkipStaging
    BY <1>1 DEF SkipStaging
  <1>2. CASE StageLook
    BY <1>2 DEF StageLook, StageError, MayRetry
  <1>3. CASE StagePush
    BY <1>3 DEF StagePush, StageError, MayRetry
  <1>4. CASE StageVerify
    BY <1>4 DEF StageVerify, StageError, MayRetry
  <1>5. CASE PublishBoundary
    BY <1>5 DEF PublishBoundary
  <1>6. CASE NoChange
    BY <1>6 DEF NoChange, Completed
  <1>7. CASE Identity
    BY <1>7 DEF Identity
  <1>8. CASE CompleteUnpublished
    BY <1>8 DEF CompleteUnpublished, Completed
  <1>9. CASE Check
    BY <1>9 DEF Check
  <1>10. CASE ReadBase
    BY <1>10 DEF ReadBase, Refused, AlreadyPublished, ChainKnown
  <1>11. CASE Swap
    BY <1>11 DEF Swap, Refused
  <1>12. CASE Reread
    BY <1>12 DEF Reread, Refused
  <1>13. CASE PushBase
    BY <1>13 DEF PushBase, PushFailed, AfterLanding
  <1>14. CASE EnsureRequest
    BY <1>14 DEF EnsureRequest, Misconfigured, RequestKnown, RefsUntouched,
       RunTrackingOwned
  <1>15. CASE CreateRequest
    BY <1>15 DEF CreateRequest
  <1>16. CASE RecordNumber
    BY <1>16 DEF RecordNumber
  <1>17. CASE RecordPublished
    BY <1>17 DEF RecordPublished
  <1>18. CASE Ended
    BY <1>18 DEF Ended
  <1>19. CASE CleanLook
    BY <1>19 DEF CleanLook, Cleaned
  <1>20. CASE Delete
    BY <1>20 DEF Delete, Cleaned
  <1>21. CASE VerifyDelete
    BY <1>21 DEF VerifyDelete, Cleaned
  <1>22. CASE Interrupt
    BY <1>22 DEF Interrupt
  <1>23. CASE Die
    BY <1>23 DEF Die
  <1>24. CASE Resume
    BY <1>24 DEF Resume, Resumable, RefsUntouched, RunTrackingOwned
  <1>25. CASE Others
    <2> USE <1>25 DEF Others, record
    <2>1. CASE MoveLocalBase
      BY <2>1 DEF MoveLocalBase
    <2>2. CASE MoveRemoteBase
      BY <2>2 DEF MoveRemoteBase
    <2>3. CASE MoveRunBranch
      BY <2>3 DEF MoveRunBranch
    <2>4. CASE Fetch
      BY <2>4 DEF Fetch
    <2>5. QED
      BY <2>1, <2>2, <2>3, <2>4
  <1>26. CASE UNCHANGED vars
    BY <1>26 DEF vars, record
  <1>27. QED
    BY <1>1, <1>2, <1>3, <1>4, <1>5, <1>6, <1>7, <1>8, <1>9, <1>10, <1>11, <1>12,
       <1>13, <1>14, <1>15, <1>16, <1>17, <1>18, <1>19, <1>20, <1>21, <1>22, <1>23,
       <1>24, <1>25, <1>26 DEF Next, Drive

\* Every exit of the driver is one of the cases of the property.
LEMMA StoppedStep ==
    ASSUME TypeOK, Reached, Cleaning, Alone, StoppedByTheWorld, [Next]_vars
    PROVE  StoppedByTheWorld'
  <1> USE DEF TypeOK, Reached, Cleaning, Alone, StoppedByTheWorld, Stopped, SwappedBase,
         LongChain, config, git, refs, record, world, Goto, Leave, RemoteFault, Calm, Reading,
         RemoteRequired, FastForward, WantsRequest, CleaningUp
  <1>1. CASE SkipStaging
    BY <1>1 DEF SkipStaging
  <1>2. CASE StageLook
    BY <1>2 DEF StageLook, StageError, MayRetry
  <1>3. CASE StagePush
    BY <1>3 DEF StagePush, StageError, MayRetry
  <1>4. CASE StageVerify
    BY <1>4 DEF StageVerify, StageError, MayRetry
  <1>5. CASE PublishBoundary
    BY <1>5 DEF PublishBoundary
  <1>6. CASE NoChange
    BY <1>6 DEF NoChange, Completed
  <1>7. CASE Identity
    BY <1>7 DEF Identity
  <1>8. CASE CompleteUnpublished
    BY <1>8 DEF CompleteUnpublished, Completed
  <1>9. CASE Check
    BY <1>9 DEF Check
  <1>10. CASE ReadBase
    BY <1>10 DEF ReadBase, Refused, AlreadyPublished, ChainKnown
  <1>11. CASE Swap
    BY <1>11 DEF Swap, Refused
  <1>12. CASE Reread
    BY <1>12 DEF Reread, Refused
  <1>13. CASE PushBase
    BY <1>13 DEF PushBase, PushFailed, AfterLanding
  <1>14. CASE EnsureRequest
    BY <1>14 DEF EnsureRequest, Misconfigured, RequestKnown, RefsUntouched,
       RunTrackingOwned
  <1>15. CASE CreateRequest
    BY <1>15 DEF CreateRequest
  <1>16. CASE RecordNumber
    BY <1>16 DEF RecordNumber
  <1>17. CASE RecordPublished
    BY <1>17 DEF RecordPublished
  <1>18. CASE Ended
    BY <1>18 DEF Ended
  <1>19. CASE CleanLook
    BY <1>19 DEF CleanLook, Cleaned
  <1>20. CASE Delete
    BY <1>20 DEF Delete, Cleaned
  <1>21. CASE VerifyDelete
    BY <1>21 DEF VerifyDelete, Cleaned
  <1>22. CASE Interrupt
    BY <1>22 DEF Interrupt
  <1>23. CASE Die
    BY <1>23 DEF Die
  <1>24. CASE Resume
    BY <1>24 DEF Resume, Resumable, RefsUntouched, RunTrackingOwned
  <1>25. CASE Others
    <2> USE <1>25 DEF Others, record
    <2>1. CASE MoveLocalBase
      BY <2>1 DEF MoveLocalBase
    <2>2. CASE MoveRemoteBase
      BY <2>2 DEF MoveRemoteBase
    <2>3. CASE MoveRunBranch
      BY <2>3 DEF MoveRunBranch
    <2>4. CASE Fetch
      BY <2>4 DEF Fetch
    <2>5. QED
      BY <2>1, <2>2, <2>3, <2>4
  <1>26. CASE UNCHANGED vars
    BY <1>26 DEF vars, record
  <1>27. QED
    BY <1>1, <1>2, <1>3, <1>4, <1>5, <1>6, <1>7, <1>8, <1>9, <1>10, <1>11, <1>12,
       <1>13, <1>14, <1>15, <1>16, <1>17, <1>18, <1>19, <1>20, <1>21, <1>22, <1>23,
       <1>24, <1>25, <1>26 DEF Next, Drive

Inv == /\ TypeOK /\ Reached /\ Cleaning /\ Landed /\ Requested /\ Alone
       /\ StoppedByTheWorld

\* It holds of a run that starts to publish.
LEMMA StoppedInit == Init => StoppedByTheWorld
  BY DEF Init, StoppedByTheWorld, Stopped

\* It holds of a run that starts to publish.
LEMMA InvInit == Init => Inv
  BY TypeInit, ReachedInit, CleaningInit, LandedInit, RequestedInit, AloneInit,
     StoppedInit DEF Inv

\* The parts together are inductive.
LEMMA InvStep == Inv /\ [Next]_vars => Inv'
  BY TypeStep, ReachedStep, CleaningStep, LandedStep, RequestedStep, AloneStep,
     StoppedStep DEF Inv

\* They hold at every moment.
LEMMA Invariance == Spec => []Inv
  BY InvInit, InvStep, PTL DEF Spec

-----------------------------------------------------------------------------

\* A fast-forward recorded as pushed is on the remote base, although only the
\* remote-tracking ref is ever read.
THEOREM WhatIsPushedArrived == Spec => []PublishedArrived
  <1>1. Inv => PublishedArrived
    BY DEF Inv, Landed
  <1>2. QED
    BY <1>1, Invariance, PTL

\* The recorded pull request is the last one opened; a run that wants one does
\* not complete without it.
THEOREM RequestIsLast == Spec => []LastRequest
  <1>1. Inv => LastRequest
    BY DEF Inv, Requested
  <1>2. QED
    BY <1>1, Invariance, PTL

\* The run stops for the remote, for somebody else's move, or for one of the
\* two causes of its own.
THEOREM WhyItStops == Spec => []StoppedByTheWorld
  <1>1. Inv => StoppedByTheWorld
    BY DEF Inv
  <1>2. QED
    BY <1>1, Invariance, PTL

\* The run moves a base branch from its base commit to the candidate only.
THEOREM NobodysCommitIsLost == Spec => OthersKept
  <1> DEFINE Kept == moves' = moves =>
        /\ localBase' # localBase => localBase = "base" /\ localBase' = "candidate"
        /\ remoteBase' # remoteBase => remoteBase = "base" /\ remoteBase' = "candidate"
  <1>1. Inv /\ [Next]_vars => Kept \/ UNCHANGED vars
    <2> SUFFICES ASSUME Inv, Next PROVE Kept
      OBVIOUS
    <2> USE DEF Inv, TypeOK, Reached, Cleaning, config, git, refs, record, world, Goto, Leave, RemoteFault, Calm, Reading,
         RemoteRequired, FastForward, WantsRequest, CleaningUp
    <2>1. CASE SkipStaging
      BY <2>1 DEF SkipStaging
    <2>2. CASE StageLook
      BY <2>2 DEF StageLook, StageError, MayRetry
    <2>3. CASE StagePush
      BY <2>3 DEF StagePush, StageError, MayRetry
    <2>4. CASE StageVerify
      BY <2>4 DEF StageVerify, StageError, MayRetry
    <2>5. CASE PublishBoundary
      BY <2>5 DEF PublishBoundary
    <2>6. CASE NoChange
      BY <2>6 DEF NoChange, Completed
    <2>7. CASE Identity
      BY <2>7 DEF Identity
    <2>8. CASE CompleteUnpublished
      BY <2>8 DEF CompleteUnpublished, Completed
    <2>9. CASE Check
      BY <2>9 DEF Check
    <2>10. CASE ReadBase
      BY <2>10 DEF ReadBase, Refused, AlreadyPublished, ChainKnown
    <2>11. CASE Swap
      BY <2>11 DEF Swap, Refused
    <2>12. CASE Reread
      BY <2>12 DEF Reread, Refused
    <2>13. CASE PushBase
      BY <2>13 DEF PushBase, PushFailed, AfterLanding
    <2>14. CASE EnsureRequest
      BY <2>14 DEF EnsureRequest, Misconfigured, RequestKnown, RefsUntouched,
         RunTrackingOwned
    <2>15. CASE CreateRequest
      BY <2>15 DEF CreateRequest
    <2>16. CASE RecordNumber
      BY <2>16 DEF RecordNumber
    <2>17. CASE RecordPublished
      BY <2>17 DEF RecordPublished
    <2>18. CASE Ended
      BY <2>18 DEF Ended
    <2>19. CASE CleanLook
      BY <2>19 DEF CleanLook, Cleaned
    <2>20. CASE Delete
      BY <2>20 DEF Delete, Cleaned
    <2>21. CASE VerifyDelete
      BY <2>21 DEF VerifyDelete, Cleaned
    <2>22. CASE Interrupt
      BY <2>22 DEF Interrupt
    <2>23. CASE Die
      BY <2>23 DEF Die
    <2>24. CASE Resume
      BY <2>24 DEF Resume, Resumable, RefsUntouched, RunTrackingOwned
    <2>25. CASE Others
      BY <2>25 DEF Others
    <2>26. QED
      BY <2>1, <2>2, <2>3, <2>4, <2>5, <2>6, <2>7, <2>8, <2>9, <2>10, <2>11, <2>12,
         <2>13, <2>14, <2>15, <2>16, <2>17, <2>18, <2>19, <2>20, <2>21, <2>22,
         <2>23, <2>24, <2>25 DEF Next, Drive
  <1>2. QED
    BY <1>1, Invariance, PTL DEF Spec, OthersKept

\* The remote run branch goes away only after the durable publication.
THEOREM BranchOutlivesPublication == Spec => CandidateKept
  <1> DEFINE Kept == moves' = moves /\ runBranch = "candidate" /\ runBranch' = "none" =>
        published = "pushed" /\ disposition = "COMPLETED"
  <1>1. Inv /\ [Next]_vars => Kept \/ UNCHANGED vars
    <2> SUFFICES ASSUME Inv, Next PROVE Kept
      OBVIOUS
    <2> USE DEF Inv, TypeOK, Reached, Cleaning, config, git, refs, record, world, Goto, Leave, RemoteFault, Calm, Reading,
         RemoteRequired, FastForward, WantsRequest, CleaningUp
    <2>1. CASE SkipStaging
      BY <2>1 DEF SkipStaging
    <2>2. CASE StageLook
      BY <2>2 DEF StageLook, StageError, MayRetry
    <2>3. CASE StagePush
      BY <2>3 DEF StagePush, StageError, MayRetry
    <2>4. CASE StageVerify
      BY <2>4 DEF StageVerify, StageError, MayRetry
    <2>5. CASE PublishBoundary
      BY <2>5 DEF PublishBoundary
    <2>6. CASE NoChange
      BY <2>6 DEF NoChange, Completed
    <2>7. CASE Identity
      BY <2>7 DEF Identity
    <2>8. CASE CompleteUnpublished
      BY <2>8 DEF CompleteUnpublished, Completed
    <2>9. CASE Check
      BY <2>9 DEF Check
    <2>10. CASE ReadBase
      BY <2>10 DEF ReadBase, Refused, AlreadyPublished, ChainKnown
    <2>11. CASE Swap
      BY <2>11 DEF Swap, Refused
    <2>12. CASE Reread
      BY <2>12 DEF Reread, Refused
    <2>13. CASE PushBase
      BY <2>13 DEF PushBase, PushFailed, AfterLanding
    <2>14. CASE EnsureRequest
      BY <2>14 DEF EnsureRequest, Misconfigured, RequestKnown, RefsUntouched,
         RunTrackingOwned
    <2>15. CASE CreateRequest
      BY <2>15 DEF CreateRequest
    <2>16. CASE RecordNumber
      BY <2>16 DEF RecordNumber
    <2>17. CASE RecordPublished
      BY <2>17 DEF RecordPublished
    <2>18. CASE Ended
      BY <2>18 DEF Ended
    <2>19. CASE CleanLook
      BY <2>19 DEF CleanLook, Cleaned
    <2>20. CASE Delete
      BY <2>20 DEF Delete, Cleaned
    <2>21. CASE VerifyDelete
      BY <2>21 DEF VerifyDelete, Cleaned
    <2>22. CASE Interrupt
      BY <2>22 DEF Interrupt
    <2>23. CASE Die
      BY <2>23 DEF Die
    <2>24. CASE Resume
      BY <2>24 DEF Resume, Resumable, RefsUntouched, RunTrackingOwned
    <2>25. CASE Others
      BY <2>25 DEF Others
    <2>26. QED
      BY <2>1, <2>2, <2>3, <2>4, <2>5, <2>6, <2>7, <2>8, <2>9, <2>10, <2>11, <2>12,
         <2>13, <2>14, <2>15, <2>16, <2>17, <2>18, <2>19, <2>20, <2>21, <2>22,
         <2>23, <2>24, <2>25 DEF Next, Drive
  <1>2. QED
    BY <1>1, Invariance, PTL DEF Spec, CandidateKept

-----------------------------------------------------------------------------
(* Why a driver leaves: between two resumes its steps descend.             *)

\* How far an operation is from the end of the publication: an unpublished run
\* comes back once to rewind its phase, the end once to clean up.
Rank(operation) ==
    IF      operation = "off"           THEN 0
    ELSE IF operation = "ended"         THEN IF cleanup = "pending" THEN 5 ELSE 1
    ELSE IF operation = "verify_delete" THEN 2  ELSE IF operation = "delete"    THEN 3
    ELSE IF operation = "clean"         THEN 4  ELSE IF operation = "record"    THEN 6
    ELSE IF operation = "number"        THEN 7  ELSE IF operation = "create"    THEN 8
    ELSE IF operation = "request"       THEN 9  ELSE IF operation = "push_base" THEN 10
    ELSE IF operation = "reread"        THEN 11 ELSE IF operation = "swap"      THEN 12
    ELSE IF operation = "read"          THEN 13 ELSE IF operation = "check"     THEN 14
    ELSE IF operation = "unpublished"   THEN IF phase = "candidate_push" THEN 15 ELSE 16
    ELSE IF operation = "publish"       THEN 17 ELSE IF operation = "boundary"  THEN 18
    ELSE IF operation = "verify"        THEN 19 ELSE IF operation = "push"      THEN 20
    ELSE 21

Place == Rank(pc)

\* A push tried again spends the durable budget; any other step goes on.
Descends ==
    \/ StepAttempts - used' < StepAttempts - used
    \/ used' = used /\ Place' < Place

\* The order is that of two natural numbers.
LEMMA Measured ==
    ASSUME TypeOK
    PROVE  StepAttempts - used \in Nat /\ Place \in Nat
  BY BudgetAssumption DEF TypeOK, Place, Rank

\* Every call and every write of a driver descends, and so do its stop and its
\* death.
LEMMA DriverSteps ==
    ASSUME TypeOK, Drive \/ Interrupt \/ Die
    PROVE  Descends
  <1> USE BudgetAssumption
      DEF Goto, Leave, record, Descends, Place, Rank
  <1>1. CASE SkipStaging \/ PublishBoundary
    BY <1>1 DEF SkipStaging, PublishBoundary
  <1>2. CASE StageLook
    BY <1>2 DEF StageLook, StageError, MayRetry, TypeOK
  <1>3. CASE StagePush
    BY <1>3 DEF StagePush, StageError, MayRetry, TypeOK
  <1>4. CASE StageVerify
    BY <1>4 DEF StageVerify, StageError, MayRetry, TypeOK
  <1>5. CASE NoChange \/ Identity
    BY <1>5 DEF NoChange, Identity, Completed
  <1>6. CASE CompleteUnpublished
    BY <1>6 DEF CompleteUnpublished, Completed
  <1>7. CASE Check \/ ReadBase
    BY <1>7 DEF Check, ReadBase, Refused
  <1>8. CASE Swap \/ Reread \/ PushBase
    BY <1>8 DEF Swap, Reread, PushBase, Refused, PushFailed, AfterLanding
  <1>9. CASE EnsureRequest \/ CreateRequest \/ RecordNumber
    BY <1>9 DEF EnsureRequest, CreateRequest, RecordNumber, Misconfigured
  <1>10. CASE RecordPublished \/ Ended
    BY <1>10 DEF RecordPublished, Ended
  <1>11. CASE CleanLook \/ Delete \/ VerifyDelete
    BY <1>11 DEF CleanLook, Delete, VerifyDelete, Cleaned
  <1>12. CASE Interrupt \/ Die
    BY <1>12 DEF Interrupt, Die
  <1> QED
    BY <1>1, <1>2, <1>3, <1>4, <1>5, <1>6, <1>7, <1>8, <1>9, <1>10, <1>11, <1>12 DEF Drive

\* A driver makes finitely many calls, whatever the remote answers and whatever
\* other people move between two of them: each of its steps lowers two natural
\* numbers in their lexicographic order and only a resume raises them.  What
\* DriverLeaves adds is that a driver that has not left has a step to take
\* (CandidateRemoteStaging.stage, publish_candidate).
THEOREM DriversDescend ==
    Spec => /\ [](StepAttempts - used \in Nat /\ Place \in Nat)
            /\ [][Drive \/ Interrupt \/ Die => Descends]_vars
            /\ [][~Resume => Descends \/ UNCHANGED <<used, Place>>]_vars
  <1> DEFINE Natural == StepAttempts - used \in Nat /\ Place \in Nat
  <1>1. TypeOK => Natural
    BY Measured
  <1>2. TypeOK /\ [Next]_vars => [Drive \/ Interrupt \/ Die => Descends]_vars
    BY DriverSteps
  <1>3. TypeOK /\ [Next]_vars => [~Resume => Descends \/ UNCHANGED <<used, Place>>]_vars
    <2>1. Others => UNCHANGED <<used, Place>>
      BY DEF Others, record, Place, Rank
    <2> QED  BY <2>1, DriverSteps DEF Next
  <1>4. TypeOK /\ [Next]_vars => TypeOK'
    BY TypeStep
  <1> QED  BY TypeInit, <1>1, <1>2, <1>3, <1>4, PTL DEF Spec
==============================================================================
