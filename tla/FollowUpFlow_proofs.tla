------------------------ MODULE FollowUpFlow_proofs ------------------------
(***************************************************************************)
(* Proofs about FollowUpFlow for any number of Workers, publishers, tasks, *)
(* attempts and faults: FollowUpInvariant is inductive, every step is one  *)
(* of AsyncJobState (KeepsContract), and what follows from it.             *)
(*                                                                         *)
(* A step has a side in the rows and a side in the flow.  Later says what  *)
(* every transaction leaves of the row for the other processes; the parts  *)
(* of the invariant are then kept one by one: what the processes rely on,  *)
(* the one fallback, and the calls that were counted.                      *)
(***************************************************************************)
EXTENDS FollowUpFlow, FiniteSetTheorems, TLAPS

\* The job of the flow, with what is proved about it: DB and P are the same
\* AsyncJobState, and the facts proved about P are turned to DB.
P == INSTANCE AsyncJobState_proofs
    WITH sent <- {job.task} \cup (IF job.fbStarted THEN {job.fbTask} ELSE {}),
         unsent <- NULL

-----------------------------------------------------------------------------
(* The two instances of AsyncJobState.                                     *)

LEMMA SameRows == DB!JobRow = JobRow /\ P!JobRow = JobRow
BY DEF P!JobRow, DB!JobRow, JobRow, P!Status, DB!Status, Status,
       P!NextAction, DB!NextAction, NextAction, P!Payload, DB!Payload, Payload,
       P!Terminal, DB!Terminal, Terminal,
       P!MessageStatus, DB!MessageStatus, MessageStatus

LEMMA SameInit == DB!Init <=> P!Init
BY DEF DB!Init, P!Init, DB!NewJob, P!NewJob

LEMMA SameLeaseStep == DB!LeaseStep <=> P!LeaseStep
BY DEF DB!LeaseStep, P!LeaseStep,
       DB!AcquireLeaseStep, P!AcquireLeaseStep,
       DB!ReleaseLeaseStep, P!ReleaseLeaseStep,
       DB!LeaseExpires, P!LeaseExpires,
       DB!RetryTimeComes, P!RetryTimeComes,
       DB!FreshToken, P!FreshToken,
       DB!CanAcquireLease, P!CanAcquireLease, DB!AcquireLease, P!AcquireLease,
       DB!ReleaseLease, P!ReleaseLease, DB!ExpireLease, P!ExpireLease,
       DB!LeaseValid, P!LeaseValid, DB!attemptVars, P!attemptVars,
       DB!callVars, P!callVars, DB!Terminal, P!Terminal,
       DB!NextAction, P!NextAction

LEMMA SameSubmitStep == DB!SubmitStep <=> P!SubmitStep
BY DEF DB!SubmitStep, P!SubmitStep,
       DB!PrepareStep, P!PrepareStep, DB!Unused, P!Unused,
       DB!RowChange, P!RowChange,
       DB!CanPreparePruna, P!CanPreparePruna, DB!PreparePruna, P!PreparePruna,
       DB!BeginSubmission, P!BeginSubmission,
       DB!BeginSubmissionTx, P!BeginSubmissionTx,
       DB!CanBeginSubmission, P!CanBeginSubmission,
       DB!BeginRetry, P!BeginRetry, DB!BeginRetryTx, P!BeginRetryTx,
       DB!CanBeginRetry, P!CanBeginRetry, DB!LastAttempt, P!LastAttempt,
       DB!Send, P!Send, DB!CrashBeforeSend, P!CrashBeforeSend,
       DB!CancelUnsent, P!CancelUnsent, DB!CancelUnsentTx, P!CancelUnsentTx,
       DB!CancelApplies, P!CancelApplies, DB!dbVars, P!dbVars,
       DB!LeaseValid, P!LeaseValid, DB!attemptVars, P!attemptVars,
       DB!callVars, P!callVars

LEMMA SameEventStep == DB!EventStep <=> P!EventStep
BY DEF DB!EventStep, P!EventStep,
       DB!RecordAcceptedStep, P!RecordAcceptedStep,
       DB!RecordAuthHoldStep, P!RecordAuthHoldStep,
       DB!RecordSucceededStep, P!RecordSucceededStep,
       DB!FillImageRefStep, P!FillImageRefStep,
       DB!RecordFailedRecoverableStep, P!RecordFailedRecoverableStep,
       DB!RecordFailedFinalStep, P!RecordFailedFinalStep,
       DB!RecordNotAccepted, P!RecordNotAccepted,
       DB!RecordContradiction, P!RecordContradiction,
       DB!ReleaseSlot, P!ReleaseSlot, DB!RowChange, P!RowChange,
       DB!CanRecordAccepted, P!CanRecordAccepted,
       DB!RecordAccepted, P!RecordAccepted,
       DB!CanRecordAuthHold, P!CanRecordAuthHold,
       DB!RecordAuthHold, P!RecordAuthHold,
       DB!CanRecordSucceeded, P!CanRecordSucceeded,
       DB!RecordSucceeded, P!RecordSucceeded,
       DB!CanFillImageRef, P!CanFillImageRef, DB!FillImageRef, P!FillImageRef,
       DB!CanRecordFailed, P!CanRecordFailed,
       DB!RecordFailedRecoverable, P!RecordFailedRecoverable,
       DB!RecordFailedFinal, P!RecordFailedFinal,
       DB!RecordNotAcceptedTx, P!RecordNotAcceptedTx,
       DB!NotAcceptedApplies, P!NotAcceptedApplies,
       DB!WithLegacyAttempt, P!WithLegacyAttempt,
       DB!Progressed, P!Progressed, DB!Exhausted, P!Exhausted,
       DB!RecordContradictionTx, P!RecordContradictionTx,
       DB!ContradictionApplies, P!ContradictionApplies,
       DB!ReleaseSlotTx, P!ReleaseSlotTx, DB!SlotWithout, P!SlotWithout,
       DB!EventApplies, P!EventApplies, DB!AwaitingResult, P!AwaitingResult,
       DB!attemptVars, P!attemptVars, DB!callVars, P!callVars,
       DB!Terminal, P!Terminal

LEMMA SameWorkStep == DB!WorkStep <=> P!WorkStep
BY DEF DB!WorkStep, P!WorkStep,
       DB!ClaimS3CheckStep, P!ClaimS3CheckStep,
       DB!RecordVerifiedStep, P!RecordVerifiedStep,
       DB!ClaimLlmStep, P!ClaimLlmStep,
       DB!MoveToFallbackStep, P!MoveToFallbackStep,
       DB!PrepareFallbackStep, P!PrepareFallbackStep, DB!Unused, P!Unused,
       DB!BeginFallback, P!BeginFallback, DB!BeginFallbackTx, P!BeginFallbackTx,
       DB!CanBeginFallback, P!CanBeginFallback,
       DB!RecordFallbackImageStep, P!RecordFallbackImageStep,
       DB!SaveResultStep, P!SaveResultStep,
       DB!ClaimMessageStep, P!ClaimMessageStep,
       DB!MarkPublishedStep, P!MarkPublishedStep,
       DB!MarkExhaustedStep, P!MarkExhaustedStep, DB!RowChange, P!RowChange,
       DB!CanClaimS3Check, P!CanClaimS3Check, DB!ClaimS3Check, P!ClaimS3Check,
       DB!CanRecordVerified, P!CanRecordVerified,
       DB!RecordVerified, P!RecordVerified,
       DB!CanClaimLlm, P!CanClaimLlm, DB!ClaimLlm, P!ClaimLlm,
       DB!CanMoveToFallback, P!CanMoveToFallback,
       DB!MoveToFallback, P!MoveToFallback,
       DB!CanPrepareFallback, P!CanPrepareFallback,
       DB!PrepareFallback, P!PrepareFallback,
       DB!CanRecordFallbackImage, P!CanRecordFallbackImage,
       DB!RecordFallbackImage, P!RecordFallbackImage,
       DB!CanSaveResult, P!CanSaveResult, DB!SaveResult, P!SaveResult,
       DB!CanClaimMessage, P!CanClaimMessage, DB!ClaimMessage, P!ClaimMessage,
       DB!CanMarkPublished, P!CanMarkPublished,
       DB!MarkPublished, P!MarkPublished,
       DB!CanMarkExhausted, P!CanMarkExhausted,
       DB!MarkExhausted, P!MarkExhausted, DB!Publishing, P!Publishing,
       DB!PayloadStatus, P!PayloadStatus,
       DB!Postprocessing, P!Postprocessing, DB!Fallback, P!Fallback,
       DB!LeaseValid, P!LeaseValid, DB!attemptVars, P!attemptVars,
       DB!callVars, P!callVars, DB!Terminal, P!Terminal

LEMMA SameStep == [P!Next]_(P!vars) => [DB!Next]_(DB!vars)
<1>1. P!Next => DB!Next
  BY SameLeaseStep, SameSubmitStep, SameEventStep, SameWorkStep
     DEF P!Next, DB!Next
<1>2. UNCHANGED P!vars => UNCHANGED DB!vars
  BY DEF P!vars, DB!vars
<1> QED
  BY <1>1, <1>2

LEMMA SameIInv == DB!IInv <=> P!IInv
BY DEF DB!IInv, P!IInv, DB!TypeOK, P!TypeOK,
       DB!NextActionMatchesStatus, P!NextActionMatchesStatus,
       DB!ActionMatchesStatus, P!ActionMatchesStatus,
       DB!TerminalIffPublished, P!TerminalIffPublished,
       DB!EndMatchesPublication, P!EndMatchesPublication,
       DB!PayloadStatus, P!PayloadStatus,
       DB!RowConsistent, P!RowConsistent,
       DB!UnstartedIsClean, P!UnstartedIsClean,
       DB!RejectionsAgree, P!RejectionsAgree,
       DB!SentIsAccountedFor, P!SentIsAccountedFor,
       DB!AttemptChain, P!AttemptChain,
       DB!AttemptNumbersUnique, P!AttemptNumbersUnique,
       DB!EarlierRejected, P!EarlierRejected,
       DB!OldAttemptsRejected, P!OldAttemptsRejected,
       DB!CurrentIsNewest, P!CurrentIsNewest,
       DB!SlotHasOwner, P!SlotHasOwner, DB!UnsentIsCurrent, P!UnsentIsCurrent,
       DB!HoldIsOnCurrentTask, P!HoldIsOnCurrentTask,
       DB!VerifiedNeverFallsBack, P!VerifiedNeverFallsBack,
       P!JobRow, DB!JobRow, P!Status, DB!Status,
       P!NextAction, DB!NextAction, P!Payload, DB!Payload,
       P!Terminal, DB!Terminal, P!MessageStatus, DB!MessageStatus

LEMMA StepKeepsIInv ==
    ASSUME P!IInv, [P!Next]_(P!vars)
    PROVE  P!IInv'
BY P!NextKeeps, LimitAssumption, NullAssumption
   DEF NextAction, P!NextAction, Payload, P!Payload

LEMMA InitIInv ==
    ASSUME P!Init
    PROVE  P!IInv
BY P!InitIInv, LimitAssumption, NullAssumption
   DEF NextAction, P!NextAction, Payload, P!Payload

-----------------------------------------------------------------------------
(* The invariant, and what the rows keep for the processes.                *)

Inv ==
    /\ TypeOK /\ P!IInv
    /\ RowFitsFollowUp /\ FallbackIsOne /\ CallsAreCounted
    /\ ProcessesFit /\ MessageForWork

LEMMA InvIsFollowUpInvariant == Inv <=> FollowUpInvariant
BY SameIInv DEF Inv, FollowUpInvariant

\* Nothing a process relies on is taken back by a later transaction.
Later ==
    /\ RowFitsFollowUp'
    /\ job.fbStarted => job'.fbStarted /\ job'.fbTask = job.fbTask
    /\ job.verified => job'.verified
    /\ job.fbImage => job'.fbImage
    /\ job'.llmCalls >= job.llmCalls /\ job'.msgAttempts >= job.msgAttempts
    /\ job'.nextAction = "POSTPROCESS" => job.nextAction = "POSTPROCESS"
    /\ job'.nextAction = "RUN_FALLBACK" => job.nextAction \in Action
    /\ job.result # NULL => job'.result # NULL

\* The row's side of a step.
RowStep == Later /\ [P!Next]_(P!vars)

\* The side of the row of a step that leaves the slot and starts no fallback.
RowMove == RowStep /\ slot' = slot /\ job'.fbStarted = job.fbStarted

LEMMA TypesOfRows ==
    ASSUME P!IInv'
    PROVE  /\ job' \in JobRow
           /\ attempts' \in [Task -> 0..PrunaSubmitLimit]
           /\ slot' \in Task \cup {NULL}
BY SameRows DEF P!IInv, P!TypeOK

LEMMA Processes == \A p \in Process : p \in Token
BY FollowUpAssumption DEF Process

LEMMA SameRowsMove ==
    ASSUME Inv, UNCHANGED dbVars
    PROVE  RowMove
<1>1. Later
  BY DEF Inv, TypeOK, JobRow, dbVars, Later, RowFitsFollowUp, Action
<1>2. UNCHANGED P!vars
  BY DEF dbVars, P!vars
<1> QED
  BY <1>1, <1>2 DEF RowMove, RowStep, dbVars

\* A row that waits for a Worker has no result.
LEMMA ActionNoResult ==
    ASSUME Inv
    PROVE  /\ job.nextAction \in Action <=> job.result = NULL
           /\ job.status \in Terminal => job.result # NULL
           /\ job.result # NULL /\ job.status \notin Terminal
                => job.nextAction = "PUBLISH_RESULT"
           /\ job.nextAction = "POSTPROCESS" => job.status = "POSTPROCESSING"
           /\ job.nextAction = "RUN_FALLBACK" => job.status = "FALLBACK_RUNNING"
           /\ job.nextAction = NULL => job.status \in Terminal
BY NullAssumption
   DEF Inv, RowFitsFollowUp, P!IInv, P!NextActionMatchesStatus,
       P!ActionMatchesStatus, P!TerminalIffPublished, P!EndMatchesPublication,
       P!Terminal, Terminal, Action, NextAction

LEMMA AcquireRow ==
    ASSUME Inv, NEW p \in Process, NEW a \in NextAction,
           TryRow(CanAcquireLease(job, a), AcquireLease(job, p))
    PROVE  RowMove
<1>1. CASE ~CanAcquireLease(job, a)
  BY <1>1, SameRowsMove DEF TryRow, dbVars, attemptVars
<1>2. CASE CanAcquireLease(job, a)
  <2>1. P!AcquireLeaseStep(p, a)
    BY <1>2, Processes
       DEF TryRow, attemptVars, CanAcquireLease, P!CanAcquireLease, AcquireLease,
           P!AcquireLease, Terminal, P!Terminal, P!AcquireLeaseStep,
           P!FreshToken, P!attemptVars, P!callVars
  <2>2. P!Next
    BY <2>1, Processes DEF P!Next, P!LeaseStep, NextAction, P!NextAction
  <2>3. Later
    BY <1>2, ActionNoResult, NullAssumption
       DEF Inv, TypeOK, JobRow, RowFitsFollowUp, TryRow, attemptVars, Later,
           Action, NextAction, AcquireLease
  <2>4. slot' = slot /\ job'.fbStarted = job.fbStarted
    BY <1>2 DEF Inv, TypeOK, JobRow, TryRow, AcquireLease
  <2> QED
    BY <2>2, <2>3, <2>4 DEF RowMove, RowStep
<1> QED
  BY <1>1, <1>2

LEMMA ReleaseRow ==
    ASSUME Inv, NEW p \in Process,
           TryRow(LeaseValid(job, p), ReleaseLease(job))
    PROVE  RowMove
<1>1. CASE ~LeaseValid(job, p)
  BY <1>1, SameRowsMove DEF TryRow, dbVars, attemptVars
<1>2. CASE LeaseValid(job, p)
  <2>1. P!ReleaseLeaseStep(p)
    BY <1>2, Processes
       DEF TryRow, attemptVars, LeaseValid, P!LeaseValid, ReleaseLease, P!ReleaseLease,
           P!ReleaseLeaseStep, P!attemptVars, P!callVars
  <2>2. P!Next
    BY <2>1, Processes DEF P!Next, P!LeaseStep
  <2>3. Later
    BY <1>2, ActionNoResult, NullAssumption
       DEF Inv, TypeOK, JobRow, RowFitsFollowUp, TryRow, attemptVars, Later,
           Action, NextAction, ReleaseLease
  <2>4. slot' = slot /\ job'.fbStarted = job.fbStarted
    BY <1>2 DEF Inv, TypeOK, JobRow, TryRow, ReleaseLease
  <2> QED
    BY <2>2, <2>3, <2>4 DEF RowMove, RowStep
<1> QED
  BY <1>1, <1>2

LEMMA RecordVerifiedRow ==
    ASSUME Inv, NEW p \in Process,
           TryRow(CanRecordVerified(job, p), RecordVerified(job))
    PROVE  RowMove
<1>1. CASE ~CanRecordVerified(job, p)
  BY <1>1, SameRowsMove DEF TryRow, dbVars, attemptVars
<1>2. CASE CanRecordVerified(job, p)
  <2>1. P!RecordVerifiedStep(p)
    BY <1>2, Processes
       DEF TryRow, attemptVars, CanRecordVerified, P!CanRecordVerified, RecordVerified,
           P!RecordVerified, LeaseValid, P!LeaseValid, Postprocessing,
           P!Postprocessing, P!RecordVerifiedStep, P!RowChange,
           P!attemptVars, P!callVars
  <2>2. P!Next
    BY <2>1, Processes DEF P!Next, P!WorkStep
  <2>3. Later
    BY <1>2, ActionNoResult, NullAssumption
       DEF Inv, TypeOK, JobRow, RowFitsFollowUp, TryRow, attemptVars, Later,
           Action, NextAction, RecordVerified
  <2>4. slot' = slot /\ job'.fbStarted = job.fbStarted
    BY <1>2 DEF Inv, TypeOK, JobRow, TryRow, RecordVerified
  <2> QED
    BY <2>2, <2>3, <2>4 DEF RowMove, RowStep
<1> QED
  BY <1>1, <1>2

LEMMA ClaimS3Row ==
    ASSUME Inv, NEW p \in Process,
           TryRow(CanClaimS3Check(job, p), ClaimS3Check(job))
    PROVE  RowMove
<1>1. CASE ~CanClaimS3Check(job, p)
  BY <1>1, SameRowsMove DEF TryRow, dbVars, attemptVars
<1>2. CASE CanClaimS3Check(job, p)
  <2>1. P!ClaimS3CheckStep(p)
    BY <1>2, Processes
       DEF TryRow, attemptVars, CanClaimS3Check, P!CanClaimS3Check, ClaimS3Check,
           P!ClaimS3Check, LeaseValid, P!LeaseValid, Postprocessing,
           P!Postprocessing, P!ClaimS3CheckStep, P!RowChange,
           P!attemptVars, P!callVars
  <2>2. P!Next
    BY <2>1, Processes DEF P!Next, P!WorkStep
  <2>3. Later
    BY <1>2, ActionNoResult, NullAssumption
       DEF Inv, TypeOK, JobRow, RowFitsFollowUp, TryRow, attemptVars, Later,
           Action, NextAction, ClaimS3Check
  <2>4. slot' = slot /\ job'.fbStarted = job.fbStarted
    BY <1>2 DEF Inv, TypeOK, JobRow, TryRow, ClaimS3Check
  <2> QED
    BY <2>2, <2>3, <2>4 DEF RowMove, RowStep
<1> QED
  BY <1>1, <1>2

LEMMA MoveRow ==
    ASSUME Inv, NEW p \in Process,
           TryRow(CanMoveToFallback(job, p), MoveToFallback(job))
    PROVE  RowMove
<1>1. CASE ~CanMoveToFallback(job, p)
  BY <1>1, SameRowsMove DEF TryRow, dbVars, attemptVars
<1>2. CASE CanMoveToFallback(job, p)
  <2>1. P!MoveToFallbackStep(p)
    BY <1>2, Processes
       DEF TryRow, attemptVars, CanMoveToFallback, P!CanMoveToFallback, MoveToFallback,
           P!MoveToFallback, LeaseValid, P!LeaseValid, Postprocessing,
           P!Postprocessing, P!MoveToFallbackStep, P!RowChange,
           P!attemptVars, P!callVars
  <2>2. P!Next
    BY <2>1, Processes DEF P!Next, P!WorkStep
  <2>3. Later
    BY <1>2, ActionNoResult, NullAssumption
       DEF Inv, TypeOK, JobRow, RowFitsFollowUp, TryRow, attemptVars, Later,
           Action, NextAction, CanMoveToFallback, Postprocessing, MoveToFallback
  <2>4. slot' = slot /\ job'.fbStarted = job.fbStarted
    BY <1>2 DEF Inv, TypeOK, JobRow, TryRow, CanMoveToFallback, Postprocessing, MoveToFallback
  <2> QED
    BY <2>2, <2>3, <2>4 DEF RowMove, RowStep
<1> QED
  BY <1>1, <1>2

LEMMA ClaimLlmRow ==
    ASSUME Inv, NEW p \in Process,
           TryRow(CanClaimLlm(job, p), ClaimLlm(job))
    PROVE  RowMove
<1>1. CASE ~CanClaimLlm(job, p)
  BY <1>1, SameRowsMove DEF TryRow, dbVars, attemptVars
<1>2. CASE CanClaimLlm(job, p)
  <2>1. P!ClaimLlmStep(p)
    BY <1>2, Processes
       DEF TryRow, attemptVars, CanClaimLlm, P!CanClaimLlm, ClaimLlm, P!ClaimLlm, LeaseValid,
           P!LeaseValid, Postprocessing, P!Postprocessing, Fallback,
           P!Fallback, P!ClaimLlmStep, P!RowChange, P!attemptVars,
           P!callVars
  <2>2. P!Next
    BY <2>1, Processes DEF P!Next, P!WorkStep
  <2>3. Later
    BY <1>2, ActionNoResult, NullAssumption
       DEF Inv, TypeOK, JobRow, RowFitsFollowUp, TryRow, attemptVars, Later,
           Action, NextAction, ClaimLlm
  <2>4. slot' = slot /\ job'.fbStarted = job.fbStarted
    BY <1>2 DEF Inv, TypeOK, JobRow, TryRow, ClaimLlm
  <2> QED
    BY <2>2, <2>3, <2>4 DEF RowMove, RowStep
<1> QED
  BY <1>1, <1>2

LEMMA SaveRow ==
    ASSUME Inv, NEW p \in Process, NEW r \in {"COMPLETED", "FAILED"},
           r = "COMPLETED" => job.verified \/ job.fbImage,
           TryRow(CanSaveResult(job, p), SaveResult(job, r))
    PROVE  RowMove
<1>1. CASE ~CanSaveResult(job, p)
  BY <1>1, SameRowsMove DEF TryRow, dbVars, attemptVars
<1>2. CASE CanSaveResult(job, p)
  <2>1. P!SaveResultStep(p, r)
    BY <1>2, Processes
       DEF TryRow, attemptVars, CanSaveResult, P!CanSaveResult, SaveResult, P!SaveResult,
           LeaseValid, P!LeaseValid, Terminal, P!Terminal,
           P!SaveResultStep, P!RowChange, P!attemptVars, P!callVars
  <2>2. P!Next
    BY <2>1, Processes DEF P!Next, P!WorkStep
  <2>3. Later
    BY <1>2, ActionNoResult, NullAssumption
       DEF Inv, TypeOK, JobRow, RowFitsFollowUp, TryRow, attemptVars, Later,
           Action, NextAction, SaveResult, Payload
  <2>4. slot' = slot /\ job'.fbStarted = job.fbStarted
    BY <1>2 DEF Inv, TypeOK, JobRow, TryRow, SaveResult, Payload
  <2> QED
    BY <2>2, <2>3, <2>4 DEF RowMove, RowStep
<1> QED
  BY <1>1, <1>2

LEMMA RecordFallbackRow ==
    ASSUME Inv, NEW p \in Process,
           TryRow(CanRecordFallbackImage(job, p), RecordFallbackImage(job))
    PROVE  RowMove
<1>1. CASE ~CanRecordFallbackImage(job, p)
  BY <1>1, SameRowsMove DEF TryRow, dbVars, attemptVars
<1>2. CASE CanRecordFallbackImage(job, p)
  <2>1. P!RecordFallbackImageStep(p)
    BY <1>2, Processes
       DEF TryRow, attemptVars, CanRecordFallbackImage, P!CanRecordFallbackImage,
           RecordFallbackImage, P!RecordFallbackImage, LeaseValid,
           P!LeaseValid, Fallback, P!Fallback, P!RecordFallbackImageStep,
           P!RowChange, P!attemptVars, P!callVars
  <2>2. P!Next
    BY <2>1, Processes DEF P!Next, P!WorkStep
  <2>3. Later
    BY <1>2, ActionNoResult, NullAssumption
       DEF Inv, TypeOK, JobRow, RowFitsFollowUp, TryRow, attemptVars, Later,
           Action, NextAction, RecordFallbackImage
  <2>4. slot' = slot /\ job'.fbStarted = job.fbStarted
    BY <1>2 DEF Inv, TypeOK, JobRow, TryRow, RecordFallbackImage
  <2> QED
    BY <2>2, <2>3, <2>4 DEF RowMove, RowStep
<1> QED
  BY <1>1, <1>2

LEMMA PrepareRow ==
    ASSUME Inv, NEW p \in Process, NEW t \in Task, attempts[t] = 0, t # job.task,
           TryRow(CanPrepareFallback(job, p, t), PrepareFallback(job, t))
    PROVE  RowMove
<1>1. CASE ~CanPrepareFallback(job, p, t)
  BY <1>1, SameRowsMove DEF TryRow, dbVars, attemptVars
<1>2. CASE CanPrepareFallback(job, p, t)
  <2>1. P!PrepareFallbackStep(p, t)
    BY <1>2, Processes, NullAssumption
       DEF TryRow, attemptVars, CanPrepareFallback, P!CanPrepareFallback, PrepareFallback,
           P!PrepareFallback, LeaseValid, P!LeaseValid, Fallback,
           P!Fallback, P!PrepareFallbackStep, P!Unused, P!RowChange, Inv,
           P!IInv, P!RowConsistent, P!attemptVars, P!callVars
  <2>2. P!Next
    BY <2>1, Processes DEF P!Next, P!WorkStep
  <2>3. Later
    BY <1>2, ActionNoResult, NullAssumption
       DEF Inv, TypeOK, JobRow, RowFitsFollowUp, TryRow, attemptVars, Later,
           Action, NextAction, CanPrepareFallback, PrepareFallback, P!IInv, P!RowConsistent
  <2>4. slot' = slot /\ job'.fbStarted = job.fbStarted
    BY <1>2 DEF Inv, TypeOK, JobRow, TryRow, CanPrepareFallback, PrepareFallback, P!IInv, P!RowConsistent
  <2> QED
    BY <2>2, <2>3, <2>4 DEF RowMove, RowStep
<1> QED
  BY <1>1, <1>2

LEMMA ClaimMessageRow ==
    ASSUME Inv, NEW p \in Process,
           TryRow(CanClaimMessage(job, p), ClaimMessage(job))
    PROVE  RowMove
<1>1. CASE ~CanClaimMessage(job, p)
  BY <1>1, SameRowsMove DEF TryRow, dbVars, attemptVars
<1>2. CASE CanClaimMessage(job, p)
  <2>1. P!ClaimMessageStep(p)
    BY <1>2, Processes
       DEF TryRow, attemptVars, CanClaimMessage, P!CanClaimMessage, ClaimMessage,
           P!ClaimMessage, Publishing, P!Publishing, LeaseValid,
           P!LeaseValid, Terminal, P!Terminal, P!ClaimMessageStep,
           P!RowChange, P!attemptVars, P!callVars
  <2>2. P!Next
    BY <2>1, Processes DEF P!Next, P!WorkStep
  <2>3. Later
    BY <1>2, ActionNoResult, NullAssumption
       DEF Inv, TypeOK, JobRow, RowFitsFollowUp, TryRow, attemptVars, Later,
           Action, NextAction, ClaimMessage
  <2>4. slot' = slot /\ job'.fbStarted = job.fbStarted
    BY <1>2 DEF Inv, TypeOK, JobRow, TryRow, ClaimMessage
  <2> QED
    BY <2>2, <2>3, <2>4 DEF RowMove, RowStep
<1> QED
  BY <1>1, <1>2

LEMMA ExhaustRow ==
    ASSUME Inv, NEW p \in Process,
           TryRow(CanMarkExhausted(job, p), MarkExhausted(job))
    PROVE  RowMove
<1>1. CASE ~CanMarkExhausted(job, p)
  BY <1>1, SameRowsMove DEF TryRow, dbVars, attemptVars
<1>2. CASE CanMarkExhausted(job, p)
  <2>1. P!MarkExhaustedStep(p)
    BY <1>2, Processes
       DEF TryRow, attemptVars, CanMarkExhausted, P!CanMarkExhausted, MarkExhausted,
           P!MarkExhausted, Publishing, P!Publishing, LeaseValid,
           P!LeaseValid, Terminal, P!Terminal, P!MarkExhaustedStep,
           P!RowChange, P!attemptVars, P!callVars
  <2>2. P!Next
    BY <2>1, Processes DEF P!Next, P!WorkStep
  <2>3. Later
    BY <1>2, ActionNoResult, NullAssumption
       DEF Inv, TypeOK, JobRow, RowFitsFollowUp, TryRow, attemptVars, Later,
           Action, NextAction, MarkExhausted
  <2>4. slot' = slot /\ job'.fbStarted = job.fbStarted
    BY <1>2 DEF Inv, TypeOK, JobRow, TryRow, MarkExhausted
  <2> QED
    BY <2>2, <2>3, <2>4 DEF RowMove, RowStep
<1> QED
  BY <1>1, <1>2

LEMMA PublishRow ==
    ASSUME Inv, NEW p \in Process, NEW final \in Terminal,
           TryRow(CanMarkPublished(job, p, final), MarkPublished(job, final))
    PROVE  RowMove
<1>1. CASE ~CanMarkPublished(job, p, final)
  BY <1>1, SameRowsMove DEF TryRow, dbVars, attemptVars
<1>2. CASE CanMarkPublished(job, p, final)
  <2>1. P!MarkPublishedStep(p, final)
    BY <1>2, Processes
       DEF TryRow, attemptVars, CanMarkPublished, P!CanMarkPublished, MarkPublished,
           P!MarkPublished, PayloadStatus, P!PayloadStatus, Publishing,
           P!Publishing, LeaseValid, P!LeaseValid, Terminal, P!Terminal,
           P!MarkPublishedStep, P!RowChange, P!attemptVars, P!callVars
  <2>2. P!Next
    BY <2>1, Processes DEF P!Next, P!WorkStep, Terminal, P!Terminal
  <2>3. Later
    BY <1>2, ActionNoResult, NullAssumption
       DEF Inv, TypeOK, JobRow, RowFitsFollowUp, TryRow, attemptVars, Later,
           Action, NextAction, CanMarkPublished, Publishing, MarkPublished
  <2>4. slot' = slot /\ job'.fbStarted = job.fbStarted
    BY <1>2 DEF Inv, TypeOK, JobRow, TryRow, CanMarkPublished, Publishing, MarkPublished
  <2> QED
    BY <2>2, <2>3, <2>4 DEF RowMove, RowStep
<1> QED
  BY <1>1, <1>2

LEMMA ExpireRow ==
    ASSUME Inv, job.leaseLive, TryRow(TRUE, ExpireLease(job))
    PROVE  RowMove
<1>1. P!LeaseExpires
  BY DEF TryRow, attemptVars, ExpireLease, P!ExpireLease, P!LeaseExpires,
         P!attemptVars, P!callVars, Inv, TypeOK, JobRow
<1>2. P!Next
  BY <1>1 DEF P!Next, P!LeaseStep
<1>3. Later
  BY DEF Inv, TypeOK, JobRow, RowFitsFollowUp, TryRow, attemptVars, Later,
         Action, ExpireLease
<1>4. slot' = slot /\ job'.fbStarted = job.fbStarted
  BY DEF Inv, TypeOK, JobRow, TryRow, ExpireLease
<1> QED
  BY <1>2, <1>3, <1>4 DEF RowMove, RowStep

LEMMA BeginFallbackRow ==
    ASSUME Inv, NEW p \in Process, BeginFallbackTx(p)
    PROVE  /\ RowStep /\ slot' = job'.fbTask
           /\ ~job.fbStarted /\ job'.fbStarted
<1>1. P!BeginFallback(p)
  BY DEF BeginFallbackTx, CanBeginFallback, LeaseValid, Fallback, attemptVars,
         P!BeginFallback, P!BeginFallbackTx, P!CanBeginFallback, P!LeaseValid,
         P!Fallback, P!attemptVars, Inv, TypeOK, JobRow
<1>2. P!Next
  BY <1>1, Processes DEF P!Next, P!WorkStep
<1>3. Later
  BY LimitAssumption
     DEF Inv, TypeOK, JobRow, RowFitsFollowUp, BeginFallbackTx,
         CanBeginFallback, attemptVars, Later, Action
<1>4. slot' = job'.fbTask /\ ~job.fbStarted /\ job'.fbStarted
  BY DEF Inv, TypeOK, JobRow, BeginFallbackTx, CanBeginFallback
<1> QED
  BY <1>2, <1>3, <1>4 DEF RowStep

LEMMA ReleaseSlotRow ==
    ASSUME Inv, NEW t \in Task, t = job.task \/ (t = job.fbTask /\ job.fbStarted),
           ReleaseSlotTx(t)
    PROVE  RowStep /\ job' = job
<1>1. P!ReleaseSlot(t)
  BY DEF ReleaseSlotTx, SlotWithout, attemptVars, P!ReleaseSlot,
         P!ReleaseSlotTx, P!SlotWithout, P!attemptVars, P!callVars
<1>2. P!Next
  BY <1>1 DEF P!Next, P!EventStep
<1>3. Later
  BY DEF Inv, TypeOK, JobRow, RowFitsFollowUp, ReleaseSlotTx, attemptVars,
         Later, Action
<1> QED
  BY <1>2, <1>3 DEF RowStep, ReleaseSlotTx

-----------------------------------------------------------------------------
(* The parts of the invariant, one by one.                                 *)

\* What every step does: it keeps the invariant and is one of AsyncJobState.
Kept == Inv' /\ [P!Next]_(P!vars)

\* What becomes of the messages: that of the job's step stays, or the one of
\* its next step is there.
QueueSafe ==
    /\ queue' \in SUBSET Action
    /\ job'.nextAction \in Action /\ "RUN_FALLBACK" \in queue
         => "RUN_FALLBACK" \in queue'
    /\ job'.nextAction \in Action /\ "POSTPROCESS" \in queue
         => \/ "POSTPROCESS" \in queue'
            \/ job'.nextAction = "RUN_FALLBACK" /\ "RUN_FALLBACK" \in queue'
    /\ "RUN_FALLBACK" \in queue' =>
         "RUN_FALLBACK" \in queue \/ job.nextAction # "POSTPROCESS"

\* What a process relies on stays true when another one takes a step.
LEMMA FitsLater ==
    ASSUME Inv, Later, QueueSafe, NEW l \in Local, FitsJob(l)
    PROVE  FitsJob(l)'
<1>1. CASE l.pc \in {"delete", "releaseDelete"}
  <2>1. l.act # NULL /\ (l.act = "RUN_FALLBACK" => job'.nextAction # "POSTPROCESS")
    BY <1>1 DEF FitsJob, PublisherPc, Later
  <2>2. \/ job'.result # NULL
        \/ /\ l.act = "POSTPROCESS" /\ job'.nextAction # "POSTPROCESS"
           /\ "RUN_FALLBACK" \in queue'
    BY <1>1 DEF FitsJob, Later, QueueSafe, RowFitsFollowUp
  <2> QED
    BY <1>1, <2>1, <2>2 DEF FitsJob, TextPc, PublisherPc
<1>2. CASE l.pc = "reread"
  <2>1. l.act \in Action /\ job.nextAction # l.act
    BY <1>2 DEF FitsJob, PublisherPc, Local
  <2>2. job'.nextAction # l.act
    BY <2>1, <1>2 DEF FitsJob, Later, Action
  <2> QED
    BY <1>2, <2>1, <2>2 DEF FitsJob, Later, TextPc, PublisherPc
<1>3. CASE l.pc \notin {"delete", "releaseDelete", "reread"}
  BY <1>3 DEF FitsJob, Later, TextPc, PublisherPc
<1> QED
  BY <1>1, <1>2, <1>3

LEMMA MessagesKeep ==
    ASSUME Inv, Later, QueueSafe
    PROVE  /\ MessageForWork'
           /\ "RUN_FALLBACK" \in queue' => job'.nextAction # "POSTPROCESS"
<1>1. "RUN_FALLBACK" \in queue' => job'.nextAction # "POSTPROCESS"
  BY DEF Inv, ProcessesFit, QueueSafe, Later
<1>2. ASSUME job'.nextAction \in Action
      PROVE  {job'.nextAction, "POSTPROCESS"} \cap queue' # {}
  <2>1. job.nextAction \in Action
    BY <1>2 DEF Later, Action
  <2>2. {job.nextAction, "POSTPROCESS"} \cap queue # {}
    BY <2>1 DEF Inv, MessageForWork
  <2>3. CASE "POSTPROCESS" \in queue
    BY <1>2, <2>3 DEF QueueSafe
  <2>4. CASE "POSTPROCESS" \notin queue
    <3>1. job.nextAction = "RUN_FALLBACK" /\ "RUN_FALLBACK" \in queue
      BY <2>1, <2>2, <2>4 DEF Action
    <3>2. job'.nextAction = "RUN_FALLBACK"
      BY <1>2, <3>1 DEF Later, Action
    <3> QED
      BY <1>2, <3>1, <3>2 DEF QueueSafe
  <2> QED
    BY <2>3, <2>4
<1> QED
  BY <1>1, <1>2 DEF MessageForWork

LEMMA FitKeeps ==
    ASSUME Inv, Later, QueueSafe, NEW p \in Process, NEW l \in Local,
           loc' = [loc EXCEPT ![p] = l], FitsJob(l)'
    PROVE  ProcessesFit' /\ MessageForWork'
<1>1. loc \in [Process -> Local]
  BY DEF Inv, TypeOK
<1>2. ASSUME NEW q \in Process PROVE FitsJob(loc[q])'
  <2>1. CASE q = p
    <3>1. loc'[q] = l
      BY <1>1, <2>1
    <3> QED
      BY <3>1 DEF FitsJob
  <2>2. CASE q # p
    <3>1. PICK m \in Local : m = loc[q]
      BY <1>1
    <3>2. FitsJob(m)
      BY <3>1 DEF Inv, ProcessesFit
    <3>3. loc'[q] = m
      BY <1>1, <2>2, <3>1
    <3>4. FitsJob(m)'
      BY <3>2, FitsLater
    <3> QED
      BY <3>3, <3>4 DEF FitsJob
  <2> QED
    BY <2>1, <2>2
<1> QED
  BY <1>2, MessagesKeep DEF ProcessesFit

LEMMA FallbackKeeps ==
    ASSUME Inv, Later, slot' = slot, fb' = fb, spent'.fallback = spent.fallback,
           NEW p \in Process, NEW l \in Local, loc' = [loc EXCEPT ![p] = l],
           l.pc \notin {"send", "answer"}
    PROVE  FallbackIsOne'
<1>1. loc \in [Process -> Local]
  BY DEF Inv, TypeOK
<1>2. \A q \in Process : loc'[q].pc \in {"send", "answer"} => loc'[q] = loc[q]
  BY <1>1
<1>3. fb # "none" => job.fbStarted
  BY DEF Inv, FallbackIsOne
<1>4. fb = "generating" => slot = job.fbTask
  BY DEF Inv, FallbackIsOne
<1>5. fb' = "generating" => slot' = job'.fbTask
  BY <1>3, <1>4 DEF Later
<1>6. ASSUME NEW q \in Process
      PROVE  /\ loc'[q].pc = "send" =>
                  fb' = "none" /\ job'.fbStarted /\ slot' = job'.fbTask
             /\ loc'[q].pc = "answer" => fb' # "none"
  BY <1>2 DEF Inv, FallbackIsOne, At, Later
<1>7. \A q, r \in Process : loc'[q].pc = "send" /\ loc'[r].pc = "send" => q = r
  BY <1>2 DEF Inv, FallbackIsOne, At
<1>8. spent'.fallback = IF fb' = "none" THEN 0 ELSE 1
  BY DEF Inv, FallbackIsOne
<1> QED
  BY <1>3, <1>5, <1>6, <1>7, <1>8 DEF FallbackIsOne, At, Later

\* The processes with a counted call are finitely many, and one that moves
\* elsewhere is no longer among them.
LEMMA CallersFinite ==
    /\ IsFiniteSet(Calling) /\ Cardinality(Calling) \in Nat
    /\ IsFiniteSet(Posting) /\ Cardinality(Posting) \in Nat
<1>1. Calling \subseteq Process /\ Posting \subseteq Process /\ IsFiniteSet(Process)
  BY FollowUpAssumption DEF Calling, Posting, Process
<1>2. IsFiniteSet(Calling) /\ IsFiniteSet(Posting)
  BY <1>1, FS_Subset
<1> QED
  BY <1>2, FS_CardinalityType

LEMMA CallersAfter ==
    ASSUME Inv, NEW p \in Process, NEW l \in Local, loc' = [loc EXCEPT ![p] = l]
    PROVE  /\ Calling' = IF l.pc \in {"callComment", "callTitle"}
                         THEN Calling \cup {p} ELSE Calling \ {p}
           /\ Posting' = IF l.pc = "post" THEN Posting \cup {p} ELSE Posting \ {p}
<1>1. loc \in [Process -> Local]
  BY DEF Inv, TypeOK
<1>2. \A q \in Process : loc'[q] = IF q = p THEN l ELSE loc[q]
  BY <1>1
<1> QED
  BY <1>2 DEF Calling, Posting, At

\* A process joins after one more call was counted, or leaves; a call that is
\* made has its process leave.
LEMMA CountsKeep ==
    ASSUME Inv, job' \in JobRow, spent' \in [fallback : Nat, llm : Nat, results : Nat],
           NEW p \in Process, NEW l \in Local, loc' = [loc EXCEPT ![p] = l],
           LET made == IF loc[p].pc \in {"callComment", "callTitle"} THEN 1 ELSE 0
               due == IF l.pc \in {"callComment", "callTitle"} THEN 1 ELSE 0
           IN  spent'.llm + due - made - spent.llm <= job'.llmCalls - job.llmCalls,
           LET made == IF loc[p].pc = "post" THEN 1 ELSE 0
               due == IF l.pc = "post" THEN 1 ELSE 0
           IN  spent'.results + due - made - spent.results
                 <= job'.msgAttempts - job.msgAttempts
    PROVE  CallsAreCounted'
<1>1. ASSUME NEW S, IsFiniteSet(S)
      PROVE  /\ Cardinality(S) \in Nat
             /\ Cardinality(S \cup {p}) = Cardinality(S) + (IF p \in S THEN 0 ELSE 1)
             /\ Cardinality(S \ {p}) = Cardinality(S) - (IF p \in S THEN 1 ELSE 0)
  BY <1>1, FS_CardinalityType, FS_AddElement, FS_RemoveElement
<1>2. p \in Calling <=> loc[p].pc \in {"callComment", "callTitle"}
  BY DEF Calling
<1>3. p \in Posting <=> loc[p].pc = "post"
  BY DEF Posting, At
<1>4. /\ Cardinality(Calling') = Cardinality(Calling)
             + (IF l.pc \in {"callComment", "callTitle"} THEN 1 ELSE 0)
             - (IF loc[p].pc \in {"callComment", "callTitle"} THEN 1 ELSE 0)
      /\ Cardinality(Calling) \in Nat
  <2>1. /\ Cardinality(Calling \cup {p}) = Cardinality(Calling) + (IF p \in Calling THEN 0 ELSE 1)
        /\ Cardinality(Calling \ {p}) = Cardinality(Calling) - (IF p \in Calling THEN 1 ELSE 0)
        /\ Cardinality(Calling) \in Nat
    BY <1>1, CallersFinite
  <2>2. CASE l.pc \in {"callComment", "callTitle"}
    <3>1. Calling' = Calling \cup {p}
      BY <2>2, CallersAfter
    <3> QED
      BY <2>1, <2>2, <3>1, <1>2
  <2>3. CASE l.pc \notin {"callComment", "callTitle"}
    <3>1. Calling' = Calling \ {p}
      BY <2>3, CallersAfter
    <3> QED
      BY <2>1, <2>3, <3>1, <1>2
  <2> QED
    BY <2>2, <2>3
<1>5. /\ Cardinality(Posting') = Cardinality(Posting)
             + (IF l.pc = "post" THEN 1 ELSE 0)
             - (IF loc[p].pc = "post" THEN 1 ELSE 0)
      /\ Cardinality(Posting) \in Nat
  <2>1. /\ Cardinality(Posting \cup {p}) = Cardinality(Posting) + (IF p \in Posting THEN 0 ELSE 1)
        /\ Cardinality(Posting \ {p}) = Cardinality(Posting) - (IF p \in Posting THEN 1 ELSE 0)
        /\ Cardinality(Posting) \in Nat
    BY <1>1, CallersFinite
  <2>2. CASE l.pc = "post"
    <3>1. Posting' = Posting \cup {p}
      BY <2>2, CallersAfter
    <3> QED
      BY <2>1, <2>2, <3>1, <1>3
  <2>3. CASE l.pc # "post"
    <3>1. Posting' = Posting \ {p}
      BY <2>3, CallersAfter
    <3> QED
      BY <2>1, <2>3, <3>1, <1>3
  <2> QED
    BY <2>2, <2>3
<1>6. /\ spent.llm \in Nat /\ spent'.llm \in Nat
      /\ spent.results \in Nat /\ spent'.results \in Nat
      /\ job.llmCalls \in Nat /\ job'.llmCalls \in Nat
      /\ job.msgAttempts \in Nat /\ job'.msgAttempts \in Nat
  BY LimitAssumption DEF Inv, TypeOK, JobRow
<1>7. /\ spent.llm + Cardinality(Calling) <= job.llmCalls
      /\ spent.results + Cardinality(Posting) <= job.msgAttempts
  BY DEF Inv, CallsAreCounted
<1>8. spent'.llm + Cardinality(Calling') <= job'.llmCalls
  BY <1>4, <1>6, <1>7
<1>9. spent'.results + Cardinality(Posting') <= job'.msgAttempts
  BY <1>5, <1>6, <1>7
<1> QED
  BY <1>8, <1>9 DEF CallsAreCounted, Calling, Posting, At

-----------------------------------------------------------------------------
(* How processes move.                                                     *)

LEMMA MoveKeeps ==
    ASSUME Inv, RowStep, QueueSafe, NEW p \in Process, NEW l \in Local,
           loc' = [loc EXCEPT ![p] = l], FitsJob(l)', FallbackIsOne', CallsAreCounted',
           fb' \in {"none", "lost", "refused", "generating", "ended"},
           spent' \in [fallback : Nat, llm : Nat, results : Nat],
           image' \in BOOLEAN, faults' \in 0..MaxFaults
    PROVE  Kept
<1>1. P!IInv'
  BY StepKeepsIInv DEF Inv, RowStep
<1>2. TypeOK'
  BY <1>1, TypesOfRows DEF Inv, TypeOK, QueueSafe
<1>3. ProcessesFit' /\ MessageForWork'
  BY FitKeeps DEF RowStep
<1>4. RowFitsFollowUp'
  BY DEF RowStep, Later
<1> QED
  BY <1>1, <1>2, <1>3, <1>4 DEF Inv, Kept, RowStep

\* Where a process is about to make a call that was counted, or makes the one
\* request of the fallback.
CallPc == {"send", "answer", "callComment", "callTitle", "post"}

\* What a process must find to go to pc.
MayGo(p, pc) ==
    /\ loc[p].act = NULL => pc \in PublisherPc
    /\ pc \in TextPc => job'.verified \/ job'.fbImage
    /\ pc = "reread" => job'.nextAction # loc[p].act
    /\ pc \in {"handOff", "handOffHeld"} =>
          loc[p].act = "POSTPROCESS" /\ job'.nextAction # "POSTPROCESS"
    /\ pc \in {"delete", "releaseDelete"} =>
          \/ job'.result # NULL
          \/ /\ loc[p].act = "POSTPROCESS" /\ job'.nextAction # "POSTPROCESS"
             /\ "RUN_FALLBACK" \in queue'

LEMMA MayGoFits ==
    ASSUME Inv, Later, NEW p \in Process, NEW l \in Local,
           l.act = loc[p].act, MayGo(p, l.pc)
    PROVE  FitsJob(l)'
<1>1. loc[p].act = "RUN_FALLBACK" => job'.nextAction # "POSTPROCESS"
  BY DEF Inv, ProcessesFit, FitsJob, Later
<1> QED
  BY <1>1 DEF MayGo, FitsJob

\* The process as Go leaves it.
LEMMA Gone ==
    ASSUME Inv, Later, NEW p \in Process, NEW pc \in Pc, Go(p, pc),
           pc = "idle" \/ MayGo(p, pc)
    PROVE  \E l \in Local :
             /\ loc' = [loc EXCEPT ![p] = l] /\ l.pc = pc /\ FitsJob(l)'
<1>1. loc[p] \in Local
  BY DEF Inv, TypeOK
<1>2. CASE pc = "idle"
  <2>1. AtRest \in Local /\ AtRest.pc = "idle" /\ AtRest.act = NULL
    BY LimitAssumption DEF AtRest, Local, Pc
  <2>2. PICK l \in Local : l = AtRest
    BY <2>1
  <2>3. FitsJob(l)'
    BY <2>1, <2>2, NullAssumption
       DEF FitsJob, PublisherPc, TextPc, NextAction
  <2> QED
    BY <1>2, <2>1, <2>2, <2>3 DEF Go
<1>3. CASE pc # "idle"
  <2>1. PICK l \in Local : l = [loc[p] EXCEPT !.pc = pc]
    BY <1>1 DEF Local
  <2>2. l.pc = pc /\ l.act = loc[p].act
    BY <1>1, <2>1 DEF Local
  <2>3. FitsJob(l)'
    BY <1>3, <2>2, MayGoFits
  <2> QED
    BY <1>3, <2>1, <2>2, <2>3 DEF Go
<1> QED
  BY <1>2, <1>3

\* A process that goes elsewhere than to a counted call.
LEMMA CountsLeave ==
    ASSUME Inv, RowStep, spent' = spent, NEW p \in Process, NEW l \in Local,
           loc' = [loc EXCEPT ![p] = l],
           l.pc \notin {"callComment", "callTitle", "post"}
    PROVE  CallsAreCounted'
<1>1. P!IInv'
  BY StepKeepsIInv DEF Inv, RowStep
<1>2. /\ job \in JobRow /\ job' \in JobRow
      /\ spent' \in [fallback : Nat, llm : Nat, results : Nat]
  BY <1>1, TypesOfRows DEF Inv, TypeOK
<1>3. /\ job.llmCalls \in Nat /\ job'.llmCalls \in Nat
      /\ job.msgAttempts \in Nat /\ job'.msgAttempts \in Nat
      /\ spent.llm \in Nat /\ spent.results \in Nat
  BY <1>2, LimitAssumption DEF JobRow
<1>4. job'.llmCalls >= job.llmCalls /\ job'.msgAttempts >= job.msgAttempts
  BY DEF RowStep, Later
<1>5. l.pc \notin {"callComment", "callTitle"} /\ l.pc # "post"
  OBVIOUS
<1>6. LET made == IF loc[p].pc \in {"callComment", "callTitle"} THEN 1 ELSE 0
          due == IF l.pc \in {"callComment", "callTitle"} THEN 1 ELSE 0
      IN  spent'.llm + due - made - spent.llm <= job'.llmCalls - job.llmCalls
  BY <1>3, <1>4, <1>5
<1>7. LET made == IF loc[p].pc = "post" THEN 1 ELSE 0
          due == IF l.pc = "post" THEN 1 ELSE 0
      IN  spent'.results + due - made - spent.results
            <= job'.msgAttempts - job.msgAttempts
  BY <1>3, <1>4, <1>5
<1> QED
  BY <1>2, <1>6, <1>7, CountsKeep

LEMMA JumpKeeps ==
    ASSUME Inv, RowMove, QueueSafe, NEW p \in Process, NEW l \in Local,
           loc' = [loc EXCEPT ![p] = l], FitsJob(l)', l.pc \notin CallPc,
           fb' = fb, spent' = spent, image' \in BOOLEAN, faults' \in 0..MaxFaults
    PROVE  Kept
<1>1. FallbackIsOne'
  BY FallbackKeeps DEF RowMove, RowStep, CallPc
<1>2. CallsAreCounted'
  BY CountsLeave DEF RowMove, CallPc
<1> QED
  BY <1>1, <1>2, MoveKeeps DEF RowMove, Inv, TypeOK

LEMMA GoKeeps ==
    ASSUME Inv, RowMove, QueueSafe, NEW p \in Process, NEW pc \in Pc \ CallPc,
           Go(p, pc), pc = "idle" \/ MayGo(p, pc),
           fb' = fb, spent' = spent, image' \in BOOLEAN, faults' \in 0..MaxFaults
    PROVE  Kept
BY Gone, JumpKeeps DEF RowMove, RowStep

\* A message at hand changes nothing in the queue.
LEMMA SameQueueSafe ==
    ASSUME Inv, queue' = queue
    PROVE  QueueSafe
BY DEF Inv, TypeOK, QueueSafe

LEMMA MovesKeeps ==
    ASSUME Inv, RowMove, NEW p \in Process, NEW pc \in Pc \ CallPc,
           Moves(p, pc), pc = "idle" \/ MayGo(p, pc)
    PROVE  Kept
BY SameQueueSafe, GoKeeps DEF Moves, Inv, TypeOK

LEMMA FaultType == ASSUME Inv, Fault PROVE faults' \in 0..MaxFaults
BY FollowUpAssumption DEF Inv, TypeOK, Fault

LEMMA AtWork ==
    ASSUME Inv, NEW p \in Process
    PROVE  /\ loc[p] \in Local /\ FitsJob(loc[p])
           /\ loc[p].pc \notin PublisherPc => loc[p].act \in Action
BY DEF Inv, TypeOK, ProcessesFit, FitsJob, Local

\* Where a process needs to know nothing of the job.
FreePc == {"idle", "acquire", "fetch", "download", "put", "confirm", "record",
           "s3claim", "head", "move", "input", "prepare", "slot", "store",
           "recordFallback", "fail", "finish", "finishMoved", "release", "claim",
           "mark", "notSent", "exhaust"}

LEMMA FreePcGo ==
    ASSUME Inv, NEW p \in Process, NEW pc \in FreePc,
           pc \in PublisherPc \/ loc[p].pc \notin PublisherPc
    PROVE  pc \in Pc \ CallPc /\ MayGo(p, pc)
<1>1. loc[p].act = NULL => pc \in PublisherPc
  BY AtWork, NullAssumption DEF Action, NextAction
<1> QED
  BY <1>1 DEF FreePc, Pc, CallPc, MayGo, TextPc

LEMMA TextPcGo ==
    ASSUME Inv, NEW p \in Process, NEW pc \in TextPc \ CallPc,
           loc[p].pc \notin PublisherPc, job'.verified \/ job'.fbImage
    PROVE  pc \in Pc \ CallPc /\ MayGo(p, pc)
<1>1. loc[p].act # NULL
  BY AtWork, NullAssumption DEF Action, NextAction
<1> QED
  BY <1>1 DEF Pc, CallPc, MayGo, TextPc

\* A step that leaves the rows.
LEMMA SameRowsMoveKeeps ==
    ASSUME Inv, UNCHANGED dbVars, NEW p \in Process, NEW pc \in FreePc,
           Moves(p, pc), pc \in PublisherPc \/ loc[p].pc \notin PublisherPc
    PROVE  Kept
BY SameRowsMove, FreePcGo, MovesKeeps

LEMMA FailsKeeps ==
    ASSUME Inv, NEW p \in Process, NEW pc \in {"idle", "release"}, Fails(p, pc)
    PROVE  Kept
<1>1. RowMove
  BY SameRowsMove DEF Fails
<1>2. pc \in FreePc /\ pc \in PublisherPc
  BY DEF FreePc, PublisherPc
<1> QED
  BY <1>1, <1>2, FaultType, FreePcGo, SameQueueSafe, GoKeeps DEF Fails, Inv, TypeOK

-----------------------------------------------------------------------------
(* The steps of a Worker around its handler.                               *)

LEMMA WaitingNow ==
    ASSUME Inv, NEW a \in Action
    PROVE  WaitingFor(job, a) <=> job.nextAction = a
BY ActionNoResult DEF WaitingFor, ExpectedStatus, Action

\* A job whose POSTPROCESS is done is finished for its message only when it has
\* its result: nobody else answers for a fallback.
LEMMA FinishedHasResult ==
    ASSUME Inv, Finished(job), job.nextAction # "POSTPROCESS"
    PROVE  job.result # NULL
<1> SUFFICES ASSUME job.result = NULL PROVE FALSE
  OBVIOUS
<1>1. /\ job.nextAction = "RUN_FALLBACK" /\ job.status = "FALLBACK_RUNNING"
      /\ job.status \notin Terminal
  BY ActionNoResult DEF Action
<1>2. NextStep(job) = "RUN_FALLBACK"
  BY <1>1 DEF NextStep, AuthHoldActive, WaitingForFallback, AwaitingResultUrl,
              AwaitingWebhook, NotAcceptedPending, SubmitUnknown
<1> QED
  BY <1>1, <1>2 DEF Finished, Published, DeletionAllowed, Followed

LEMMA ReceiveKeeps ==
    ASSUME Inv, NEW w \in Process, NEW a \in Action, Receive(w, a)
    PROVE  Kept
<1> DEFINE pc == Disposition(job, a)
           m == IF pc = "idle" THEN AtRest ELSE [AtRest EXCEPT !.pc = pc, !.act = a]
<1>1. pc \in {"delete", "acquire", "handOff", "idle"}
  BY DEF Disposition
<1>2. a = "RUN_FALLBACK" => job.nextAction # "POSTPROCESS"
  BY DEF Receive, Inv, ProcessesFit
<1>3. pc = "handOff" => a = "POSTPROCESS" /\ job.nextAction # "POSTPROCESS"
  BY WaitingNow DEF Disposition, Action
<1>4. pc = "delete" => job.result # NULL
  <2>1. Published(job) => job.result # NULL
    BY ActionNoResult DEF Published
  <2>2. WaitingFor(job, a) <=> job.nextAction = a
    BY WaitingNow
  <2>3. CASE ~Published(job) /\ ~WaitingFor(job, a)
    <3>1. pc = "delete" => Finished(job)
      BY <2>3 DEF Disposition, Finished
    <3>2. job.nextAction # "POSTPROCESS"
      BY <1>2, <2>2, <2>3 DEF Action
    <3> QED
      BY <3>1, <3>2, FinishedHasResult
  <2>4. ~Published(job) /\ WaitingFor(job, a) => pc = "acquire"
    <3>1. CASE ~Published(job) /\ WaitingFor(job, a) /\ a = "POSTPROCESS"
                /\ WaitingFor(job, "RUN_FALLBACK")
      BY <3>1, <2>2, WaitingNow DEF Action
    <3>2. CASE ~Published(job) /\ WaitingFor(job, a)
               /\ ~(a = "POSTPROCESS" /\ WaitingFor(job, "RUN_FALLBACK"))
      BY <3>2 DEF Disposition
    <3> QED
      BY <3>1, <3>2
  <2> QED
    BY <2>1, <2>3, <2>4
<1>5. m \in Local /\ m.pc = pc /\ m.act = IF pc = "idle" THEN NULL ELSE a
  <2>1. AtRest \in Local /\ AtRest.pc = "idle" /\ AtRest.act = NULL
    BY LimitAssumption DEF AtRest, Local, Pc
  <2>2. pc \in Pc
    BY <1>1 DEF Pc
  <2> HIDE DEF pc
  <2>3. LET l == [AtRest EXCEPT !.pc = pc, !.act = a]
        IN  l \in Local /\ l.pc = pc /\ l.act = a
    BY <2>1, <2>2 DEF Local
  <2> QED
    BY <2>1, <2>3
<1> HIDE DEF pc
<1>6. PICK l \in Local : l = m
  BY <1>5
<1>7. loc' = [loc EXCEPT ![w] = l]
  BY <1>6 DEF Receive, pc
<1>8. FitsJob(l)'
  BY <1>1, <1>2, <1>3, <1>4, <1>5, <1>6, NullAssumption
     DEF FitsJob, TextPc, PublisherPc, Receive, dbVars, Action, NextAction
<1>9. RowMove /\ QueueSafe
  BY SameRowsMove, SameQueueSafe DEF Receive
<1> QED
  BY <1>1, <1>5, <1>6, <1>7, <1>8, <1>9, JumpKeeps
     DEF CallPc, Receive, Inv, TypeOK

\* Going to delete the message at hand.
LEMMA DeletePcGo ==
    ASSUME Inv, NEW p \in Process, NEW pc \in {"delete", "releaseDelete"},
           loc[p].pc \notin PublisherPc,
           \/ job'.result # NULL
           \/ /\ loc[p].act = "POSTPROCESS" /\ job'.nextAction # "POSTPROCESS"
              /\ "RUN_FALLBACK" \in queue'
    PROVE  pc \in Pc \ CallPc /\ MayGo(p, pc)
<1>1. loc[p].act # NULL
  BY AtWork, NullAssumption DEF Action, NextAction
<1> QED
  BY <1>1 DEF Pc, CallPc, MayGo, TextPc

LEMMA HandOffKeeps == ASSUME Inv, NEW w \in Process, HandOff(w) PROVE Kept
<1>1. /\ loc[w].pc \in {"handOff", "handOffHeld"} /\ loc[w].pc \notin PublisherPc
      /\ loc[w].act = "POSTPROCESS" /\ job.nextAction # "POSTPROCESS"
  BY AtWork DEF HandOff, FitsJob, PublisherPc
<1>2. RowMove /\ job' = job
  BY SameRowsMove DEF HandOff, dbVars
<1>3. queue' \in {queue, queue \cup {"RUN_FALLBACK"}} /\ faults' \in 0..MaxFaults
  BY FaultType DEF HandOff, HandOffFailed, Inv, TypeOK
<1>4. QueueSafe
  BY <1>1, <1>2, <1>3 DEF QueueSafe, Inv, TypeOK, Action
<1>5. ASSUME NEW pc \in {"delete", "releaseDelete"},
             Go(w, pc), queue' = queue \cup {"RUN_FALLBACK"}
      PROVE  Kept
  BY <1>1, <1>2, <1>3, <1>4, <1>5, DeletePcGo, GoKeeps DEF HandOff, Inv, TypeOK
<1>6. ASSUME NEW pc \in {"idle", "release"}, Go(w, pc) PROVE Kept
  <2>1. pc \in FreePc
    BY DEF FreePc
  <2> QED
    BY <1>1, <1>2, <1>3, <1>4, <1>6, <2>1, FreePcGo, GoKeeps DEF HandOff, Inv, TypeOK
<1> QED
  BY <1>5, <1>6 DEF HandOff, HandOffFailed

LEMMA AcquireKeeps == ASSUME Inv, NEW w \in Process, Acquire(w) PROVE Kept
<1> DEFINE a == loc[w].act
<1>1. a \in Action /\ a \in NextAction /\ loc[w].pc \notin PublisherPc
      /\ (a = "RUN_FALLBACK" => job.nextAction # "POSTPROCESS")
  BY AtWork DEF Acquire, At, PublisherPc, Action, NextAction, FitsJob
<1>2. RowMove
  BY <1>1, AcquireRow DEF Acquire
<1>3. CASE CanAcquireLease(job, a)
  <2>1. Moves(w, HandlerStart(job, a)) /\ job' = AcquireLease(job, w)
    BY <1>3 DEF Acquire, TryRow, CanAcquireLease
  <2>2. job'.verified = job.verified /\ job'.fbImage = job.fbImage
    BY <2>1 DEF AcquireLease, Inv, TypeOK, JobRow
  <2>3. \/ HandlerStart(job, a) \in FreePc
        \/ HandlerStart(job, a) = "comment" /\ (job.verified \/ job.fbImage)
    BY DEF HandlerStart, FreePc
  <2> QED
    BY <1>1, <1>2, <2>1, <2>2, <2>3, FreePcGo, TextPcGo, MovesKeeps
       DEF TextPc, CallPc
<1>4. CASE ~CanAcquireLease(job, a) /\ job.status \notin Terminal /\ job.nextAction # a
  <2>1. Moves(w, "reread") /\ job' = job
    BY <1>4 DEF Acquire, TryRow
  <2>2. a # NULL
    BY <1>1, NullAssumption
  <2>3. "reread" \in Pc \ CallPc /\ MayGo(w, "reread")
    BY <1>4, <2>1, <2>2 DEF Pc, CallPc, MayGo, TextPc
  <2> QED
    BY <1>2, <2>1, <2>3, MovesKeeps
<1>5. CASE ~CanAcquireLease(job, a) /\ ~(job.status \notin Terminal /\ job.nextAction # a)
  <2>1. Moves(w, "idle") /\ "idle" \in FreePc
    BY <1>5 DEF Acquire, FreePc
  <2> QED
    BY <1>1, <1>2, <2>1, FreePcGo, MovesKeeps
<1> QED
  BY <1>3, <1>4, <1>5

LEMMA RereadKeeps == ASSUME Inv, NEW w \in Process, Reread(w) PROVE Kept
<1>1. /\ loc[w].pc = "reread" /\ loc[w].pc \notin PublisherPc
      /\ loc[w].act \in Action /\ job.nextAction # loc[w].act
      /\ loc[w].act = "RUN_FALLBACK" => job.nextAction # "POSTPROCESS"
  BY AtWork DEF Reread, At, FitsJob, PublisherPc
<1>2. RowMove /\ job' = job
  BY SameRowsMove DEF Reread, dbVars
<1>3. CASE Finished(job) /\ Moves(w, "delete")
  <2>1. job.nextAction # "POSTPROCESS"
    BY <1>1 DEF Action
  <2>2. job'.result # NULL
    BY <1>2, <1>3, <2>1, FinishedHasResult
  <2> QED
    BY <1>1, <1>2, <1>3, <2>2, DeletePcGo, MovesKeeps
<1>4. CASE Moves(w, "idle")
  BY <1>4, SameRowsMoveKeeps DEF Reread, FreePc, PublisherPc
<1> QED
  BY <1>3, <1>4 DEF Reread

LEMMA FinishKeeps == ASSUME Inv, NEW w \in Process, Finish(w) PROVE Kept
<1>1. /\ loc[w].pc \in {"finish", "finishMoved"} /\ loc[w].pc \notin PublisherPc
      /\ loc[w].act \in Action
      /\ loc[w].act = "RUN_FALLBACK" => job.nextAction # "POSTPROCESS"
  BY AtWork DEF Finish, FitsJob, PublisherPc
<1>2. RowMove /\ job' = job
  BY SameRowsMove DEF Finish, dbVars
<1>3. CASE Moves(w, "release")
  BY <1>3, SameRowsMoveKeeps DEF Finish, FreePc, PublisherPc
<1>4. CASE ~WaitingFor(job, loc[w].act)
  <2>1. job.nextAction # loc[w].act /\ job.nextAction # "POSTPROCESS"
    BY <1>1, <1>4, WaitingNow DEF Action
  <2>2. CASE WaitingFor(job, "RUN_FALLBACK") /\ Moves(w, "handOffHeld")
    <3>1. loc[w].act = "POSTPROCESS" /\ loc[w].act # NULL
      BY <1>1, <2>1, <2>2, WaitingNow, NullAssumption DEF Action, NextAction
    <3>2. "handOffHeld" \in Pc \ CallPc /\ MayGo(w, "handOffHeld")
      BY <1>2, <2>1, <3>1 DEF Pc, CallPc, MayGo, TextPc
    <3> QED
      BY <1>2, <2>2, <3>2, MovesKeeps
  <2>3. CASE Finished(job) /\ Moves(w, "releaseDelete")
    <3>1. job'.result # NULL
      BY <1>2, <2>1, <2>3, FinishedHasResult
    <3> QED
      BY <1>1, <1>2, <2>3, <3>1, DeletePcGo, MovesKeeps
  <2> QED
    BY <1>4, <1>3, <2>2, <2>3 DEF Finish
<1> QED
  BY <1>3, <1>4 DEF Finish

LEMMA ReleaseKeeps == ASSUME Inv, NEW p \in Process, Release(p) PROVE Kept
<1>1. RowMove
  BY ReleaseRow DEF Release, Owns
<1>2. CASE loc[p].pc = "release"
  <2>1. Moves(p, "idle") /\ "idle" \in FreePc /\ "idle" \in PublisherPc
    BY <1>2 DEF Release, At, FreePc, PublisherPc
  <2> QED
    BY <1>1, <2>1, FreePcGo, MovesKeeps
<1>3. CASE loc[p].pc = "releaseDelete"
  <2>1. Moves(p, "delete") /\ loc[p].pc \notin PublisherPc
    BY <1>3 DEF Release, At, PublisherPc
  <2>2. \/ job.result # NULL
        \/ /\ loc[p].act = "POSTPROCESS" /\ job.nextAction # "POSTPROCESS"
           /\ "RUN_FALLBACK" \in queue
    BY <1>3, AtWork DEF FitsJob
  <2>3. \/ job'.result # NULL
        \/ /\ loc[p].act = "POSTPROCESS" /\ job'.nextAction # "POSTPROCESS"
           /\ "RUN_FALLBACK" \in queue'
    BY <1>1, <2>1, <2>2 DEF RowMove, RowStep, Later, Moves
  <2> QED
    BY <1>1, <2>1, <2>3, DeletePcGo, MovesKeeps
<1> QED
  BY <1>2, <1>3 DEF Release

LEMMA DeleteKeeps == ASSUME Inv, NEW w \in Process, Delete(w) PROVE Kept
<1>1. RowMove /\ job' = job
  BY SameRowsMove DEF Delete, dbVars
<1>2. /\ loc[w].act \in Action
      /\ \/ job.result # NULL
         \/ /\ loc[w].act = "POSTPROCESS" /\ job.nextAction # "POSTPROCESS"
            /\ "RUN_FALLBACK" \in queue
  BY AtWork DEF Delete, At, FitsJob, PublisherPc
<1>3. QueueSafe
  <2>1. queue' \in {queue, queue \ {loc[w].act}} /\ queue \in SUBSET Action
    BY DEF Delete, Inv, TypeOK
  <2>2. CASE job.result # NULL
    <3>1. job'.nextAction \notin Action
      BY <1>1, <2>2, ActionNoResult
    <3> QED
      BY <2>1, <3>1 DEF QueueSafe
  <2>3. CASE /\ loc[w].act = "POSTPROCESS" /\ job.nextAction # "POSTPROCESS"
             /\ "RUN_FALLBACK" \in queue
    <3>1. "RUN_FALLBACK" \in queue'
      BY <2>1, <2>3
    <3>2. job'.nextAction \in Action => job'.nextAction = "RUN_FALLBACK"
      BY <1>1, <2>3 DEF Action
    <3> QED
      BY <2>1, <2>3, <3>1, <3>2 DEF QueueSafe
  <2> QED
    BY <1>2, <2>2, <2>3
<1>4. Go(w, "idle") /\ "idle" \in FreePc /\ "idle" \in PublisherPc
  BY DEF Delete, FreePc, PublisherPc
<1> QED
  BY <1>1, <1>3, <1>4, FreePcGo, GoKeeps DEF Delete, Inv, TypeOK

-----------------------------------------------------------------------------
(* The steps of the handlers.                                              *)

\* A step of a handler to where nothing needs to be known of the job.
LEMMA FreeMoveKeeps ==
    ASSUME Inv, RowMove, NEW p \in Process, NEW pc \in FreePc,
           loc[p].pc \notin PublisherPc, Moves(p, pc)
    PROVE  Kept
BY FreePcGo, MovesKeeps

\* A step of a handler to the texts, with an image of the job.
LEMMA TextMoveKeeps ==
    ASSUME Inv, RowMove, NEW p \in Process, NEW pc \in TextPc \ CallPc,
           loc[p].pc \notin PublisherPc, job'.verified \/ job'.fbImage, Moves(p, pc)
    PROVE  Kept
BY TextPcGo, MovesKeeps

LEMMA ImageStays ==
    ASSUME RowMove, job.verified \/ job.fbImage
    PROVE  job'.verified \/ job'.fbImage
BY DEF RowMove, RowStep, Later

LEMMA FetchKeeps == ASSUME Inv, NEW w \in Process, Fetch(w) PROVE Kept
<1>1. loc[w].pc \notin PublisherPc
  BY DEF Fetch, At, PublisherPc
<1>2. RowMove
  BY SameRowsMove DEF Fetch
<1>3. {"record", "download"} \subseteq FreePc
  BY DEF FreePc
<1>4. CASE Moves(w, IF image THEN "record" ELSE "download")
  BY <1>1, <1>2, <1>3, <1>4, FreeMoveKeeps
<1>5. CASE Fault /\ Go(w, "download") /\ UNCHANGED <<queue, image, fb, spent>>
  BY <1>1, <1>2, <1>3, <1>5, FreePcGo, FaultType, SameQueueSafe, GoKeeps
     DEF Inv, TypeOK
<1> QED
  BY <1>4, <1>5 DEF Fetch

LEMMA DownloadKeeps == ASSUME Inv, NEW w \in Process, Download(w) PROVE Kept
BY SameRowsMoveKeeps DEF Download, At, FreePc, PublisherPc

LEMMA PutKeeps == ASSUME Inv, NEW w \in Process, Put(w) PROVE Kept
<1>1. loc[w].pc \notin PublisherPc /\ RowMove /\ QueueSafe
  BY SameRowsMove, SameQueueSafe DEF Put, At, PublisherPc
<1>2. \E pc \in {"confirm", "record"} : Go(w, pc)
  BY DEF Put
<1>3. PICK pc \in FreePc : Go(w, pc)
  BY <1>2 DEF FreePc
<1>4. image' \in BOOLEAN /\ faults' \in 0..MaxFaults
  BY FaultType DEF Put, Inv, TypeOK
<1> QED
  BY <1>1, <1>3, <1>4, FreePcGo, GoKeeps DEF Put

LEMMA ConfirmKeeps == ASSUME Inv, NEW w \in Process, Confirm(w) PROVE Kept
BY SameRowsMoveKeeps DEF Confirm, At, FreePc, PublisherPc

LEMMA RecordKeeps == ASSUME Inv, NEW w \in Process, Record(w) PROVE Kept
<1>1. loc[w].pc \notin PublisherPc
  BY DEF Record, At, PublisherPc
<1>2. RowMove
  BY RecordVerifiedRow DEF Record, Transaction
<1>3. \/ Moves(w, "release")
      \/ /\ Moves(w, "comment")
         /\ CanRecordVerified(job, w) \/ job.verified
  BY DEF Record, Transaction
<1>4. CASE Moves(w, "release")
  BY <1>1, <1>2, <1>4, FreeMoveKeeps DEF FreePc
<1>5. CASE Moves(w, "comment") /\ (CanRecordVerified(job, w) \/ job.verified)
  <2>1. job'.verified
    <3>1. CASE CanRecordVerified(job, w)
      BY <3>1 DEF Record, Transaction, TryRow, RecordVerified, Inv, TypeOK, JobRow
    <3>2. CASE job.verified
      BY <3>2, <1>2 DEF RowMove, RowStep, Later
    <3> QED
      BY <1>5, <3>1, <3>2
  <2> QED
    BY <1>1, <1>2, <1>5, <2>1, TextMoveKeeps DEF TextPc, CallPc
<1> QED
  BY <1>3, <1>4, <1>5

\* A process that moves on within its work with other counters.
LEMMA StepOnKeeps ==
    ASSUME Inv, RowMove, NEW p \in Process, NEW l \in Local,
           l.act = loc[p].act, l.pc \in Pc \ CallPc, MayGo(p, l.pc),
           loc' = [loc EXCEPT ![p] = l],
           UNCHANGED <<queue, image, fb, spent, faults>>
    PROVE  Kept
BY MayGoFits, SameQueueSafe, JumpKeeps DEF RowMove, RowStep, Inv, TypeOK

LEMMA ClaimS3Keeps == ASSUME Inv, NEW w \in Process, ClaimS3(w) PROVE Kept
<1>1. loc[w].pc \notin PublisherPc
  BY DEF ClaimS3, At, PublisherPc
<1>2. RowMove
  BY ClaimS3Row DEF ClaimS3
<1>3. CASE CanClaimS3Check(job, w)
  <2>1. loc' = [loc EXCEPT ![w].pc = "head", ![w].n = 1, ![w].bundle = job.s3Checks + 1]
        /\ UNCHANGED <<queue, image, fb, spent, faults>>
    BY <1>3 DEF ClaimS3
  <2>2. job.s3Checks + 1 \in 0..S3CheckLimit
    BY <1>3, LimitAssumption DEF CanClaimS3Check, Inv, TypeOK, JobRow
  <2>3. loc[w] \in Local /\ "head" \in Pc
    BY AtWork DEF Pc
  <2>4. PICK l \in Local :
          l = [loc[w] EXCEPT !.pc = "head", !.n = 1, !.bundle = job.s3Checks + 1]
    BY <2>2, <2>3 DEF Local
  <2>5. l.pc = "head" /\ l.act = loc[w].act
    BY <2>3, <2>4 DEF Local
  <2>6. loc' = [loc EXCEPT ![w] = l]
    BY <2>1, <2>4 DEF Inv, TypeOK
  <2>7. l.pc \in FreePc
    BY <2>5 DEF FreePc
  <2> QED
    BY <1>1, <1>2, <2>1, <2>5, <2>6, <2>7, FreePcGo, StepOnKeeps
<1>4. CASE ~CanClaimS3Check(job, w)
  <2>1. CASE Owns(w) /\ job.s3Checks < S3CheckLimit /\ job.verified
    <3>1. Moves(w, "comment")
      BY <1>4, <2>1 DEF ClaimS3
    <3>2. job'.verified
      BY <1>2, <2>1 DEF RowMove, RowStep, Later
    <3> QED
      BY <1>1, <1>2, <3>1, <3>2, TextMoveKeeps DEF TextPc, CallPc
  <2>2. CASE ~(Owns(w) /\ job.s3Checks < S3CheckLimit /\ job.verified)
    <3>1. Moves(w, "release")
      BY <1>4, <2>2 DEF ClaimS3
    <3> QED
      BY <1>1, <1>2, <3>1, FreeMoveKeeps DEF FreePc
  <2> QED
    BY <2>1, <2>2
<1> QED
  BY <1>3, <1>4

LEMMA HeadObjectKeeps == ASSUME Inv, NEW w \in Process, HeadObject(w) PROVE Kept
<1>1. loc[w].pc = "head" /\ loc[w].pc \notin PublisherPc
  BY DEF HeadObject, At, PublisherPc
<1>2. RowMove
  BY SameRowsMove DEF HeadObject
<1>3. CASE \E pc \in {"record", "move", "s3claim"} : Moves(w, pc)
  BY <1>1, <1>2, <1>3, FreeMoveKeeps DEF FreePc
<1>4. CASE loc' = [loc EXCEPT ![w].n = @ + 1] /\ UNCHANGED <<queue, image, fb, spent, faults>>
  <2>1. loc[w] \in Local
    BY AtWork
  <2>2. PICK l \in Local : l = [loc[w] EXCEPT !.n = @ + 1]
    <3>1. loc[w].n + 1 \in Nat
      BY <2>1 DEF Local
    <3>2. [loc[w] EXCEPT !.n = loc[w].n + 1] \in Local
      BY <2>1, <3>1 DEF Local
    <3> QED
      BY <3>2
  <2>3. l.pc = "head" /\ l.act = loc[w].act
    BY <1>1, <2>1, <2>2 DEF Local
  <2>4. loc' = [loc EXCEPT ![w] = l]
    BY <1>4, <2>2 DEF Inv, TypeOK
  <2>5. l.pc \in FreePc
    BY <2>3 DEF FreePc
  <2> QED
    BY <1>1, <1>2, <1>4, <2>3, <2>4, <2>5, FreePcGo, StepOnKeeps
<1> QED
  BY <1>3, <1>4 DEF HeadObject, AfterLastHead

LEMMA MoveToFallbackKeeps == ASSUME Inv, NEW w \in Process, Move(w) PROVE Kept
<1>1. loc[w].pc \notin PublisherPc
  BY DEF Move, At, PublisherPc
<1>2. RowMove
  BY MoveRow DEF Move, Transaction
<1>3. \E pc \in {"finishMoved", "release"} : Moves(w, pc)
  BY DEF Move, Transaction
<1> QED
  BY <1>1, <1>2, <1>3, FreeMoveKeeps DEF FreePc

LEMMA GateKeeps == ASSUME Inv, NEW w \in Process, Gate(w) PROVE Kept
<1>1. loc[w].pc \in {"comment", "title"} /\ loc[w].pc \notin PublisherPc
  BY DEF Gate, PublisherPc
<1>2. RowMove
  BY SameRowsMove DEF Gate
<1>3. job'.verified \/ job'.fbImage
  BY <1>1, <1>2, AtWork, ImageStays DEF FitsJob, TextPc
<1>4. CASE \E pc \in {"finish", "release"} : Moves(w, pc)
  BY <1>1, <1>2, <1>4, FreeMoveKeeps DEF FreePc
<1>5. CASE Moves(w, "save")
  BY <1>1, <1>2, <1>3, <1>5, TextMoveKeeps DEF TextPc, CallPc
<1>6. CASE /\ loc' = [loc EXCEPT ![w].pc = IF At(w, "comment") THEN "claimComment"
                                           ELSE "claimTitle",
                                 ![w].n = @ + 1]
           /\ UNCHANGED <<queue, image, fb, spent, faults>>
  <2>1. loc[w] \in Local
    BY AtWork
  <2>2. PICK pc \in {"claimComment", "claimTitle"} :
          pc = IF At(w, "comment") THEN "claimComment" ELSE "claimTitle"
    OBVIOUS
  <2>3. PICK l \in Local : l = [loc[w] EXCEPT !.pc = pc, !.n = @ + 1]
    <3>1. loc[w].n + 1 \in Nat /\ pc \in Pc
      BY <2>1 DEF Local, Pc
    <3>2. [loc[w] EXCEPT !.pc = pc, !.n = loc[w].n + 1] \in Local
      BY <2>1, <3>1 DEF Local
    <3> QED
      BY <3>2
  <2>4. l.pc = pc /\ l.act = loc[w].act
    BY <2>1, <2>3 DEF Local
  <2>5. loc' = [loc EXCEPT ![w] = l]
    BY <1>6, <2>2, <2>3 DEF Inv, TypeOK
  <2>6. l.pc \in TextPc \ CallPc
    BY <2>4 DEF TextPc, CallPc
  <2> QED
    BY <1>1, <1>2, <1>3, <1>6, <2>4, <2>5, <2>6, TextPcGo, StepOnKeeps
<1> QED
  BY <1>4, <1>5, <1>6 DEF Gate

\* The claim of an LLM call: the process joins those with a counted call.
LEMMA ClaimTextKeeps == ASSUME Inv, NEW w \in Process, ClaimText(w) PROVE Kept
<1>1. /\ loc[w].pc \in {"claimComment", "claimTitle"} /\ loc[w].pc \notin PublisherPc
      /\ loc[w] \in Local
  BY AtWork DEF ClaimText, PublisherPc
<1>2. RowMove
  BY ClaimLlmRow DEF ClaimText, Transaction
<1>3. job'.verified \/ job'.fbImage
  BY <1>1, <1>2, AtWork, ImageStays DEF FitsJob, TextPc
<1>4. CASE Moves(w, "release")
  BY <1>1, <1>2, <1>4, FreeMoveKeeps DEF FreePc
<1>5. CASE Moves(w, "save")
  BY <1>1, <1>2, <1>3, <1>5, TextMoveKeeps DEF TextPc, CallPc
<1>6. ASSUME CanClaimLlm(job, w), NEW pc \in {"callComment", "callTitle"}, Moves(w, pc)
      PROVE  Kept
  <2>1. pc \in Pc /\ MayGo(w, pc)
    <3>1. loc[w].act # NULL
      BY <1>1, AtWork, NullAssumption DEF Action, NextAction
    <3> QED
      BY <1>3, <3>1 DEF Pc, MayGo, TextPc
  <2>2. PICK l \in Local :
          loc' = [loc EXCEPT ![w] = l] /\ l.pc = pc /\ FitsJob(l)'
    BY <1>2, <1>6, <2>1, Gone DEF Moves, RowMove, RowStep
  <2>3. UNCHANGED <<queue, image, fb, spent, faults>>
    BY <1>6 DEF Moves
  <2>4. FallbackIsOne'
    BY <1>2, <2>2, <2>3, FallbackKeeps DEF RowMove, RowStep
  <2>5. job' = ClaimLlm(job) /\ job \in JobRow
    BY <1>6 DEF ClaimText, Transaction, TryRow, Inv, TypeOK
  <2>6. /\ job'.llmCalls = job.llmCalls + 1 /\ job'.msgAttempts = job.msgAttempts
        /\ job.llmCalls \in Nat /\ job.msgAttempts \in Nat
    BY <2>5, LimitAssumption DEF ClaimLlm, JobRow
  <2>7. job' \in JobRow
    BY <1>2, StepKeepsIInv, TypesOfRows DEF Inv, RowMove, RowStep
  <2>8. CallsAreCounted'
    <3>1. spent' = spent /\ spent \in [fallback : Nat, llm : Nat, results : Nat]
      BY <2>3 DEF Inv, TypeOK
    <3>2. LET made == IF loc[w].pc \in {"callComment", "callTitle"} THEN 1 ELSE 0
              due == IF l.pc \in {"callComment", "callTitle"} THEN 1 ELSE 0
          IN  spent'.llm + due - made - spent.llm <= job'.llmCalls - job.llmCalls
      BY <1>1, <2>2, <2>6, <3>1
    <3>3. LET made == IF loc[w].pc = "post" THEN 1 ELSE 0
              due == IF l.pc = "post" THEN 1 ELSE 0
          IN  spent'.results + due - made - spent.results
                <= job'.msgAttempts - job.msgAttempts
      BY <1>1, <2>2, <2>6, <3>1
    <3> QED
      BY <2>2, <2>7, <3>1, <3>2, <3>3, CountsKeep
  <2> QED
    BY <1>2, <2>2, <2>3, <2>4, <2>8, SameQueueSafe, MoveKeeps
       DEF RowMove, Inv, TypeOK
<1> QED
  BY <1>4, <1>5, <1>6 DEF ClaimText, Transaction

\* The call that was counted is made, and its process leaves.
LEMMA TextKeeps ==
    ASSUME Inv, NEW w \in Process, NEW pc \in TextPc \ CallPc, NEW n \in Nat,
           loc[w].pc \in {"callComment", "callTitle"}, Text(w, pc, n)
    PROVE  Kept
<1>1. loc[w] \in Local /\ loc[w].pc \notin PublisherPc /\ pc \in Pc
  BY AtWork DEF PublisherPc, TextPc, Pc
<1>2. RowMove /\ job' = job
  BY SameRowsMove DEF Text, dbVars
<1>3. MayGo(w, pc)
  BY <1>1, <1>2, AtWork, ImageStays, TextPcGo DEF FitsJob, TextPc
<1>4. PICK l \in Local : l = [loc[w] EXCEPT !.pc = pc, !.n = n]
  BY <1>1 DEF Local
<1>5. l.pc = pc /\ l.act = loc[w].act
  BY <1>1, <1>4 DEF Local
<1>6. loc' = [loc EXCEPT ![w] = l]
  BY <1>4 DEF Text, Inv, TypeOK
<1>7. FitsJob(l)'
  BY <1>2, <1>3, <1>5, MayGoFits DEF RowMove, RowStep
<1>8. /\ spent \in [fallback : Nat, llm : Nat, results : Nat]
      /\ spent' = [spent EXCEPT !.llm = @ + 1]
  BY DEF Text, Inv, TypeOK
<1>9. /\ spent'.llm = spent.llm + 1 /\ spent'.results = spent.results
      /\ spent'.fallback = spent.fallback
      /\ spent.llm \in Nat /\ spent.results \in Nat
      /\ spent' \in [fallback : Nat, llm : Nat, results : Nat]
  BY <1>8
<1>10. FallbackIsOne'
  BY <1>2, <1>5, <1>6, <1>9, FallbackKeeps DEF Text, RowMove, RowStep, CallPc
<1>11. CallsAreCounted'
  <2>1. l.pc \notin {"callComment", "callTitle", "post"} /\ loc[w].pc # "post"
    BY <1>5 DEF CallPc
  <2>2. job.llmCalls \in Nat /\ job.msgAttempts \in Nat /\ job' \in JobRow
    BY <1>2, LimitAssumption DEF Inv, TypeOK, JobRow
  <2>3. LET made == IF loc[w].pc \in {"callComment", "callTitle"} THEN 1 ELSE 0
            due == IF l.pc \in {"callComment", "callTitle"} THEN 1 ELSE 0
        IN  spent'.llm + due - made - spent.llm <= job'.llmCalls - job.llmCalls
    BY <1>2, <1>9, <2>1, <2>2
  <2>4. LET made == IF loc[w].pc = "post" THEN 1 ELSE 0
            due == IF l.pc = "post" THEN 1 ELSE 0
        IN  spent'.results + due - made - spent.results
              <= job'.msgAttempts - job.msgAttempts
    BY <1>2, <1>9, <2>1, <2>2
  <2> QED
    BY <1>6, <1>9, <2>2, <2>3, <2>4, CountsKeep
<1> QED
  BY <1>2, <1>6, <1>7, <1>9, <1>10, <1>11, SameQueueSafe, MoveKeeps
     DEF RowMove, Text, Inv, TypeOK

LEMMA CallCommentKeeps == ASSUME Inv, NEW w \in Process, CallComment(w) PROVE Kept
<1>1. loc[w].pc = "callComment" /\ loc[w].n \in Nat
  BY AtWork DEF CallComment, At, Local
<1>2. {"title", "comment", "save"} \subseteq TextPc \ CallPc
  BY DEF TextPc, CallPc
<1> QED
  BY <1>1, <1>2, TextKeeps DEF CallComment

LEMMA CallTitleKeeps == ASSUME Inv, NEW w \in Process, CallTitle(w) PROVE Kept
<1>1. loc[w].pc = "callTitle" /\ loc[w].n \in Nat
  BY AtWork DEF CallTitle, At, Local
<1>2. {"title", "save"} \subseteq TextPc \ CallPc
  BY DEF TextPc, CallPc
<1> QED
  BY <1>1, <1>2, TextKeeps DEF CallTitle

LEMMA SaveKeeps == ASSUME Inv, NEW w \in Process, Save(w) PROVE Kept
<1>1. loc[w].pc \in {"save", "fail"} /\ loc[w].pc \notin PublisherPc
  BY DEF Save, PublisherPc
<1>2. loc[w].pc = "save" => job.verified \/ job.fbImage
  BY AtWork DEF FitsJob, TextPc
<1>3. RowMove
  <2>1. PICK r \in {"COMPLETED", "FAILED"} :
          r = IF At(w, "save") THEN "COMPLETED" ELSE "FAILED"
    OBVIOUS
  <2>2. r = "COMPLETED" => job.verified \/ job.fbImage
    BY <1>2, <2>1 DEF At
  <2>3. TryRow(CanSaveResult(job, w), SaveResult(job, r))
    BY <2>1 DEF Save, Transaction
  <2> QED
    BY <2>2, <2>3, SaveRow
<1>4. \E pc \in {"finish", "release"} : Moves(w, pc)
  BY DEF Save, Transaction
<1> QED
  BY <1>1, <1>3, <1>4, FreeMoveKeeps DEF FreePc

LEMMA InputKeeps == ASSUME Inv, NEW w \in Process, Input(w) PROVE Kept
BY SameRowsMoveKeeps DEF Input, At, FreePc, PublisherPc

LEMMA PrepareKeeps == ASSUME Inv, NEW w \in Process, Prepare(w) PROVE Kept
<1>1. loc[w].pc \notin PublisherPc
  BY DEF Prepare, At, PublisherPc
<1>2. PICK t \in Task :
        /\ attempts[t] = 0 /\ t # job.task
        /\ Transaction(w, CanPrepareFallback(job, w, t), PrepareFallback(job, t), "slot",
                       job.fbTask # NULL, "slot")
  BY DEF Prepare
<1>3. RowMove
  BY <1>2, PrepareRow DEF Transaction
<1>4. \E pc \in {"slot", "release"} : Moves(w, pc)
  BY <1>2 DEF Transaction
<1> QED
  BY <1>1, <1>3, <1>4, FreeMoveKeeps DEF FreePc

\* The start of the fallback: whoever made it is the one that will send.
LEMMA BeginSendingKeeps ==
    ASSUME Inv, NEW w \in Process, loc[w].pc = "slot", BeginFallbackTx(w), Moves(w, "send")
    PROVE  Kept
<1>1. /\ RowStep /\ Later /\ slot' = job'.fbTask /\ ~job.fbStarted /\ job'.fbStarted
      /\ job'.llmCalls = job.llmCalls /\ job'.msgAttempts = job.msgAttempts
  BY BeginFallbackRow DEF BeginFallbackTx, RowStep, Inv, TypeOK, JobRow
<1>2. loc[w].act # NULL
  BY AtWork, NullAssumption DEF PublisherPc, Action, NextAction
<1>3. "send" \in Pc /\ MayGo(w, "send")
  BY <1>2 DEF Pc, MayGo, TextPc
<1>4. PICK l \in Local :
        loc' = [loc EXCEPT ![w] = l] /\ l.pc = "send" /\ FitsJob(l)'
  BY <1>1, <1>3, Gone DEF Moves
<1>5. UNCHANGED <<queue, image, fb, spent, faults>>
  BY DEF Moves
<1>6. FallbackIsOne'
  <2>1. loc \in [Process -> Local]
    BY DEF Inv, TypeOK
  <2>2. fb = "none" /\ \A q \in Process : loc[q].pc \notin {"send", "answer"}
    BY <1>1 DEF Inv, FallbackIsOne, At
  <2>3. \A q \in Process : loc'[q] = IF q = w THEN l ELSE loc[q]
    BY <1>4, <2>1
  <2>4. spent'.fallback = IF fb' = "none" THEN 0 ELSE 1
    BY <1>5 DEF Inv, FallbackIsOne
  <2> QED
    BY <1>1, <1>4, <1>5, <2>2, <2>3, <2>4 DEF FallbackIsOne, At
<1>7. CallsAreCounted'
  BY <1>1, <1>4, <1>5, CountsLeave
<1> QED
  BY <1>1, <1>4, <1>5, <1>6, <1>7, SameQueueSafe, MoveKeeps DEF Inv, TypeOK

LEMMA SlotKeeps == ASSUME Inv, NEW w \in Process, Slot(w) PROVE Kept
<1>1. loc[w].pc = "slot" /\ loc[w].pc \notin PublisherPc
  BY DEF Slot, At, PublisherPc
<1>2. CASE BeginFallbackTx(w) /\ Moves(w, "send")
  BY <1>1, <1>2, BeginSendingKeeps
<1>3. CASE \E pc \in {"release", "fail"} : Moves(w, pc) /\ UNCHANGED dbVars
  BY <1>1, <1>3, SameRowsMoveKeeps DEF FreePc
<1> QED
  BY <1>2, <1>3 DEF Slot

\* The one request: until now nothing was sent, and no other process is there.
LEMMA SendFallbackKeeps == ASSUME Inv, NEW w \in Process, SendFallback(w) PROVE Kept
<1>1. /\ loc[w].pc = "send" /\ fb = "none" /\ job.fbStarted /\ slot = job.fbTask
      /\ \A q \in Process : loc[q].pc = "send" => q = w
      /\ spent.fallback = 0 /\ loc[w].act # NULL
  BY AtWork, NullAssumption
     DEF SendFallback, At, Inv, FallbackIsOne, PublisherPc, Action, NextAction
<1>2. RowMove /\ job' = job
  BY SameRowsMove DEF SendFallback, dbVars
<1>3. "answer" \in Pc /\ MayGo(w, "answer")
  BY <1>1 DEF Pc, MayGo, TextPc
<1>4. PICK l \in Local :
        loc' = [loc EXCEPT ![w] = l] /\ l.pc = "answer" /\ FitsJob(l)'
  BY <1>2, <1>3, Gone DEF SendFallback, RowMove, RowStep
<1>5. /\ spent \in [fallback : Nat, llm : Nat, results : Nat]
      /\ spent' = [spent EXCEPT !.fallback = @ + 1]
  BY DEF SendFallback, Inv, TypeOK
<1>6. /\ spent'.llm = spent.llm /\ spent'.results = spent.results
      /\ spent'.fallback = 1
      /\ spent.llm \in Nat /\ spent.results \in Nat
      /\ spent' \in [fallback : Nat, llm : Nat, results : Nat]
  BY <1>1, <1>5
<1>7. fb' \in {"lost", "refused", "generating"}
  BY DEF SendFallback
<1>8. FallbackIsOne'
  <2>1. loc \in [Process -> Local]
    BY DEF Inv, TypeOK
  <2>2. \A q \in Process : loc'[q] = IF q = w THEN l ELSE loc[q]
    BY <1>4, <2>1
  <2>3. \A q \in Process : loc'[q].pc # "send"
    BY <1>1, <1>4, <2>2
  <2> QED
    BY <1>1, <1>2, <1>6, <1>7, <2>3 DEF FallbackIsOne, At, RowMove
<1>9. CallsAreCounted'
  <2>1. job.llmCalls \in Nat /\ job.msgAttempts \in Nat /\ job' \in JobRow
    BY <1>2, LimitAssumption DEF Inv, TypeOK, JobRow
  <2>2. LET made == IF loc[w].pc \in {"callComment", "callTitle"} THEN 1 ELSE 0
            due == IF l.pc \in {"callComment", "callTitle"} THEN 1 ELSE 0
        IN  spent'.llm + due - made - spent.llm <= job'.llmCalls - job.llmCalls
    BY <1>1, <1>2, <1>4, <1>6, <2>1
  <2>3. LET made == IF loc[w].pc = "post" THEN 1 ELSE 0
            due == IF l.pc = "post" THEN 1 ELSE 0
        IN  spent'.results + due - made - spent.results
              <= job'.msgAttempts - job.msgAttempts
    BY <1>1, <1>2, <1>4, <1>6, <2>1
  <2> QED
    BY <1>4, <1>6, <2>1, <2>2, <2>3, CountsKeep
<1> QED
  BY <1>2, <1>4, <1>6, <1>7, <1>8, <1>9, SameQueueSafe, MoveKeeps
     DEF SendFallback, RowMove, Inv, TypeOK

\* The answer came: the request is no longer to be sent, and the slot of a
\* generation that ended or never began is returned.
LEMMA AnswerMovesKeeps ==
    ASSUME Inv, NEW w \in Process, loc[w].pc = "answer", fb \in {"ended", "refused"},
           ReleaseSlotTx(job.fbTask), NEW pc \in FreePc, Moves(w, pc)
    PROVE  Kept
<1>1. job.fbStarted /\ job.fbTask \in Task /\ \A q \in Process : loc[q].pc # "send"
  BY NullAssumption
     DEF Inv, FallbackIsOne, At, P!IInv, P!RowConsistent, TypeOK, JobRow
<1>2. RowStep /\ Later /\ job' = job
  BY <1>1, ReleaseSlotRow DEF RowStep
<1>3. pc \in Pc \ CallPc /\ MayGo(w, pc)
  BY FreePcGo DEF PublisherPc
<1>4. PICK l \in Local :
        loc' = [loc EXCEPT ![w] = l] /\ l.pc = pc /\ FitsJob(l)'
  BY <1>2, <1>3, Gone DEF Moves
<1>5. FallbackIsOne'
  <2>1. loc \in [Process -> Local]
    BY DEF Inv, TypeOK
  <2>2. \A q \in Process : loc'[q].pc \notin {"send"}
    BY <1>1, <1>3, <1>4, <2>1 DEF CallPc
  <2>3. fb' = fb /\ spent' = spent
    BY DEF Moves
  <2>4. spent'.fallback = IF fb' = "none" THEN 0 ELSE 1
    BY <2>3 DEF Inv, FallbackIsOne
  <2> QED
    BY <1>1, <1>2, <2>2, <2>3, <2>4 DEF FallbackIsOne, At
<1>6. CallsAreCounted'
  BY <1>2, <1>3, <1>4, CountsLeave DEF Moves, CallPc
<1> QED
  BY <1>2, <1>4, <1>5, <1>6, SameQueueSafe, MoveKeeps DEF Moves, Inv, TypeOK

LEMMA AnswerKeeps == ASSUME Inv, NEW w \in Process, Answer(w) PROVE Kept
<1>1. loc[w].pc = "answer" /\ loc[w].pc \notin PublisherPc
  BY DEF Answer, At, PublisherPc
<1>2. CASE Moves(w, "release") /\ UNCHANGED dbVars
  BY <1>1, <1>2, SameRowsMoveKeeps DEF FreePc
<1>3. ASSUME NEW pc \in {"store", "fail", "release"}, fb \in {"ended", "refused"},
             ReleaseSlotTx(job.fbTask), Moves(w, pc)
      PROVE  Kept
  BY <1>1, <1>3, AnswerMovesKeeps DEF FreePc
<1> QED
  BY <1>2, <1>3 DEF Answer

LEMMA StoreFallbackKeeps == ASSUME Inv, NEW w \in Process, StoreFallback(w) PROVE Kept
BY SameRowsMoveKeeps DEF StoreFallback, At, FreePc, PublisherPc

LEMMA RecordFallbackKeeps ==
    ASSUME Inv, NEW w \in Process, RecordFallback(w)
    PROVE  Kept
<1>1. loc[w].pc \notin PublisherPc
  BY DEF RecordFallback, At, PublisherPc
<1>2. RowMove
  BY RecordFallbackRow DEF RecordFallback, Transaction
<1>3. \/ Moves(w, "release")
      \/ /\ Moves(w, "comment")
         /\ CanRecordFallbackImage(job, w) \/ job.fbImage
  BY DEF RecordFallback, Transaction
<1>4. CASE Moves(w, "release")
  BY <1>1, <1>2, <1>4, FreeMoveKeeps DEF FreePc
<1>5. CASE Moves(w, "comment") /\ (CanRecordFallbackImage(job, w) \/ job.fbImage)
  <2>1. CASE CanRecordFallbackImage(job, w)
    <3>1. job'.fbImage
      BY <2>1 DEF RecordFallback, Transaction, TryRow, RecordFallbackImage,
                  Inv, TypeOK, JobRow
    <3> QED
      BY <1>1, <1>2, <1>5, <3>1, TextMoveKeeps DEF TextPc, CallPc
  <2>2. CASE job.fbImage
    BY <1>1, <1>2, <1>5, <2>2, ImageStays, TextMoveKeeps DEF TextPc, CallPc
  <2> QED
    BY <1>5, <2>1, <2>2
<1> QED
  BY <1>3, <1>4, <1>5

-----------------------------------------------------------------------------
(* The steps of a publisher.                                               *)

LEMMA PublisherMoveKeeps ==
    ASSUME Inv, RowMove, NEW p \in Process, NEW pc \in FreePc \cap PublisherPc,
           Moves(p, pc)
    PROVE  Kept
BY FreePcGo, MovesKeeps

LEMMA PublisherAcquiresKeeps ==
    ASSUME Inv, NEW p \in Process, PublisherAcquires(p)
    PROVE  Kept
<1>1. RowMove
  <2>1. TryRow(CanAcquireLease(job, "PUBLISH_RESULT"), AcquireLease(job, p))
    BY DEF PublisherAcquires, TryRow
  <2> QED
    BY <2>1, AcquireRow DEF NextAction
<1>2. \E pc \in {"exhaust", "claim"} : Moves(p, pc)
  BY DEF PublisherAcquires
<1> QED
  BY <1>1, <1>2, PublisherMoveKeeps DEF FreePc, PublisherPc

\* The claim of a send: the publisher joins those with a counted send.
LEMMA PublisherClaimsKeeps ==
    ASSUME Inv, NEW p \in Process, PublisherClaims(p)
    PROVE  Kept
<1>1. loc[p].pc = "claim" /\ loc[p] \in Local
  BY AtWork DEF PublisherClaims, At
<1>2. RowMove
  BY ClaimMessageRow DEF PublisherClaims
<1>3. CASE ~CanClaimMessage(job, p)
  <2>1. \E pc \in {"exhaust", "release"} : Moves(p, pc)
    BY <1>3 DEF PublisherClaims
  <2> QED
    BY <1>2, <2>1, PublisherMoveKeeps DEF FreePc, PublisherPc
<1>4. CASE CanClaimMessage(job, p)
  <2>1. /\ loc' = [loc EXCEPT ![p].pc = "post", ![p].n = job.msgAttempts + 1]
        /\ UNCHANGED <<queue, image, fb, spent, faults>>
        /\ job' = ClaimMessage(job)
    BY <1>4 DEF PublisherClaims, TryRow
  <2>2. /\ job.msgAttempts \in Nat /\ job.llmCalls \in Nat
        /\ job'.msgAttempts = job.msgAttempts + 1 /\ job'.llmCalls = job.llmCalls
    BY <2>1, LimitAssumption DEF ClaimMessage, Inv, TypeOK, JobRow
  <2>3. PICK l \in Local : l = [loc[p] EXCEPT !.pc = "post", !.n = job.msgAttempts + 1]
    <3>1. job.msgAttempts + 1 \in Nat /\ "post" \in Pc
      BY <2>2 DEF Pc
    <3>2. [loc[p] EXCEPT !.pc = "post", !.n = job.msgAttempts + 1] \in Local
      BY <1>1, <3>1 DEF Local
    <3> QED
      BY <3>2
  <2>4. l.pc = "post" /\ l.act = loc[p].act
    BY <1>1, <2>3 DEF Local
  <2>5. loc' = [loc EXCEPT ![p] = l]
    BY <2>1, <2>3 DEF Inv, TypeOK
  <2>6. FitsJob(l)'
    <3>1. MayGo(p, "post")
      BY DEF MayGo, PublisherPc, TextPc
    <3> QED
      BY <1>2, <2>4, <3>1, MayGoFits DEF RowMove, RowStep
  <2>7. FallbackIsOne'
    BY <1>2, <2>1, <2>4, <2>5, FallbackKeeps DEF RowMove, RowStep
  <2>8. CallsAreCounted'
    <3>1. spent' = spent /\ spent \in [fallback : Nat, llm : Nat, results : Nat]
      BY <2>1 DEF Inv, TypeOK
    <3>2. job' \in JobRow
      BY <1>2, StepKeepsIInv, TypesOfRows DEF Inv, RowMove, RowStep
    <3>3. LET made == IF loc[p].pc \in {"callComment", "callTitle"} THEN 1 ELSE 0
              due == IF l.pc \in {"callComment", "callTitle"} THEN 1 ELSE 0
          IN  spent'.llm + due - made - spent.llm <= job'.llmCalls - job.llmCalls
      BY <1>1, <2>2, <2>4, <3>1
    <3>4. LET made == IF loc[p].pc = "post" THEN 1 ELSE 0
              due == IF l.pc = "post" THEN 1 ELSE 0
          IN  spent'.results + due - made - spent.results
                <= job'.msgAttempts - job.msgAttempts
      BY <1>1, <2>2, <2>4, <3>1
    <3> QED
      BY <2>5, <3>1, <3>2, <3>3, <3>4, CountsKeep
  <2> QED
    BY <1>2, <2>1, <2>5, <2>6, <2>7, <2>8, SameQueueSafe, MoveKeeps
       DEF RowMove, Inv, TypeOK
<1> QED
  BY <1>3, <1>4

\* The send that was counted is made, perhaps without effect.
LEMMA PostKeeps == ASSUME Inv, NEW p \in Process, Post(p) PROVE Kept
<1>1. loc[p].pc = "post" /\ RowMove /\ job' = job
  BY SameRowsMove DEF Post, At, dbVars
<1>2. PICK taken \in BOOLEAN, confirmed \in BOOLEAN :
        /\ spent' = [spent EXCEPT !.results = IF taken THEN @ + 1 ELSE @]
        /\ Go(p, IF confirmed THEN "mark" ELSE "notSent")
  BY DEF Post
<1>3. PICK pc \in {"mark", "notSent"} : Go(p, pc)
  BY <1>2
<1>4. pc \in Pc \ CallPc /\ MayGo(p, pc)
  BY <1>1, <1>3, FreePcGo DEF FreePc, PublisherPc
<1>5. PICK l \in Local :
        loc' = [loc EXCEPT ![p] = l] /\ l.pc = pc /\ FitsJob(l)'
  BY <1>1, <1>3, <1>4, Gone DEF RowMove, RowStep
<1>6. spent \in [fallback : Nat, llm : Nat, results : Nat]
  BY DEF Inv, TypeOK
<1>7. /\ spent'.llm = spent.llm /\ spent'.fallback = spent.fallback
      /\ spent'.results \in {spent.results, spent.results + 1}
      /\ spent.llm \in Nat /\ spent.results \in Nat
      /\ spent' \in [fallback : Nat, llm : Nat, results : Nat]
  BY <1>2, <1>6
<1>8. FallbackIsOne'
  BY <1>1, <1>3, <1>5, <1>7, FallbackKeeps DEF Post, RowMove, RowStep
<1>9. CallsAreCounted'
  <2>1. job.llmCalls \in Nat /\ job.msgAttempts \in Nat /\ job' \in JobRow
    BY <1>1, LimitAssumption DEF Inv, TypeOK, JobRow
  <2>2. LET made == IF loc[p].pc \in {"callComment", "callTitle"} THEN 1 ELSE 0
            due == IF l.pc \in {"callComment", "callTitle"} THEN 1 ELSE 0
        IN  spent'.llm + due - made - spent.llm <= job'.llmCalls - job.llmCalls
    BY <1>1, <1>3, <1>5, <1>7, <2>1
  <2>3. LET made == IF loc[p].pc = "post" THEN 1 ELSE 0
            due == IF l.pc = "post" THEN 1 ELSE 0
        IN  spent'.results + due - made - spent.results
              <= job'.msgAttempts - job.msgAttempts
    BY <1>1, <1>3, <1>5, <1>7, <2>1
  <2> QED
    BY <1>5, <1>7, <2>1, <2>2, <2>3, CountsKeep
<1> QED
  BY <1>1, <1>5, <1>7, <1>8, <1>9, SameQueueSafe, MoveKeeps
     DEF Post, RowMove, Inv, TypeOK

LEMMA MarkKeeps == ASSUME Inv, NEW p \in Process, Mark(p) PROVE Kept
<1>1. RowMove
  <2>1. PICK final \in Terminal : final = PayloadStatus(job.result)
    BY DEF PayloadStatus, Terminal
  <2>2. TryRow(CanMarkPublished(job, p, final), MarkPublished(job, final))
    BY <2>1 DEF Mark
  <2> QED
    BY <2>2, PublishRow
<1>2. \E pc \in {"idle", "notSent"} : Moves(p, pc)
  BY DEF Mark
<1> QED
  BY <1>1, <1>2, PublisherMoveKeeps DEF FreePc, PublisherPc

LEMMA NotSentKeeps == ASSUME Inv, NEW p \in Process, NotSent(p) PROVE Kept
<1>1. RowMove
  BY SameRowsMove DEF NotSent
<1>2. \E pc \in {"exhaust", "idle", "release"} : Moves(p, pc)
  BY DEF NotSent
<1> QED
  BY <1>1, <1>2, PublisherMoveKeeps DEF FreePc, PublisherPc

LEMMA ExhaustKeeps == ASSUME Inv, NEW p \in Process, Exhaust(p) PROVE Kept
<1>1. RowMove
  BY ExhaustRow DEF Exhaust
<1>2. Moves(p, "release")
  BY DEF Exhaust
<1> QED
  BY <1>1, <1>2, PublisherMoveKeeps DEF FreePc, PublisherPc

-----------------------------------------------------------------------------
(* The environment, the clock and the faults.                              *)

\* No process moves, and no call is made.
LEMMA StillKeeps ==
    ASSUME Inv, RowStep, UNCHANGED <<loc, queue, spent>>, FallbackIsOne',
           fb' \in {"none", "lost", "refused", "generating", "ended"},
           image' \in BOOLEAN, faults' \in 0..MaxFaults
    PROVE  Kept
<1>1. P!IInv'
  BY StepKeepsIInv DEF Inv, RowStep
<1>2. TypeOK'
  BY <1>1, TypesOfRows DEF Inv, TypeOK
<1>3. ProcessesFit' /\ MessageForWork'
  <2>1. QueueSafe
    BY SameQueueSafe
  <2>2. ASSUME NEW q \in Process PROVE FitsJob(loc[q])'
    <3>1. PICK m \in Local : m = loc[q]
      BY AtWork
    <3>2. FitsJob(m) /\ loc'[q] = m
      BY <3>1, AtWork
    <3>3. FitsJob(m)'
      BY <2>1, <3>2, FitsLater DEF RowStep
    <3> QED
      BY <3>2, <3>3 DEF FitsJob
  <2> QED
    BY <2>1, <2>2, MessagesKeep DEF ProcessesFit, RowStep
<1>4. CallsAreCounted'
  <2>1. Calling' = Calling /\ Posting' = Posting
    BY DEF Calling, Posting, At
  <2>2. /\ spent' = spent /\ spent.llm \in Nat /\ spent.results \in Nat
        /\ job.llmCalls \in Nat /\ job'.llmCalls \in Nat
        /\ job.msgAttempts \in Nat /\ job'.msgAttempts \in Nat
    BY <1>2, LimitAssumption DEF Inv, TypeOK, JobRow
  <2>3. job'.llmCalls >= job.llmCalls /\ job'.msgAttempts >= job.msgAttempts
    BY DEF RowStep, Later
  <2> HIDE DEF Calling, Posting
  <2> QED
    BY <2>1, <2>2, <2>3, CallersFinite DEF Inv, CallsAreCounted
<1>5. RowFitsFollowUp'
  BY DEF RowStep, Later
<1> QED
  BY <1>1, <1>2, <1>3, <1>4, <1>5 DEF Inv, Kept, RowStep

LEMMA StillFallback ==
    ASSUME Inv, RowMove, UNCHANGED <<loc, fb, spent>>
    PROVE  FallbackIsOne'
BY DEF Inv, FallbackIsOne, At, RowMove, RowStep, Later

LEMMA UploadKeeps == ASSUME Inv, Upload PROVE Kept
BY SameRowsMove, StillFallback, StillKeeps DEF Upload, RowMove, Inv, TypeOK

LEMMA FallbackEndsKeeps == ASSUME Inv, FallbackEnds PROVE Kept
<1>1. RowMove /\ job' = job
  BY SameRowsMove DEF FallbackEnds, dbVars
<1>2. FallbackIsOne'
  BY <1>1 DEF FallbackEnds, Inv, FallbackIsOne, At
<1> QED
  BY <1>1, <1>2, StillKeeps DEF FallbackEnds, RowMove, Inv, TypeOK

\* The slot of the first generation is not that of the fallback.
LEMMA SlotReturnedKeeps == ASSUME Inv, SlotReturned PROVE Kept
<1>1. job.task \in Task /\ slot = job.task
  BY DEF SlotReturned, Inv, RowFitsFollowUp, TypeOK, JobRow
<1>2. RowStep /\ job' = job
  BY <1>1, ReleaseSlotRow DEF SlotReturned
<1>3. job.fbStarted => job.fbTask # job.task
  BY DEF Inv, P!IInv, P!RowConsistent
<1>4. FallbackIsOne'
  BY <1>1, <1>2, <1>3 DEF SlotReturned, flowVars, Inv, FallbackIsOne, At
<1> QED
  BY <1>2, <1>4, StillKeeps DEF SlotReturned, flowVars, Inv, TypeOK

LEMMA AbandonedLeaseExpiresKeeps == ASSUME Inv, AbandonedLeaseExpires PROVE Kept
<1>1. RowMove
  BY ExpireRow DEF AbandonedLeaseExpires
<1> QED
  BY <1>1, StillFallback, StillKeeps
     DEF AbandonedLeaseExpires, flowVars, RowMove, Inv, TypeOK

LEMMA UsedLeaseExpiresKeeps == ASSUME Inv, UsedLeaseExpires PROVE Kept
<1>1. RowMove
  BY ExpireRow DEF UsedLeaseExpires
<1> QED
  BY <1>1, StillFallback, StillKeeps, FaultType
     DEF UsedLeaseExpires, RowMove, Inv, TypeOK

LEMMA CallFailsKeeps == ASSUME Inv, NEW p \in Process, CallFails(p) PROVE Kept
BY FailsKeeps DEF CallFails

LEMMA CrashKeeps == ASSUME Inv, NEW p \in Process, Crash(p) PROVE Kept
BY FailsKeeps DEF Crash

-----------------------------------------------------------------------------
(* The invariant and what follows from it.                                 *)

\* A row of which a submission was accepted and that has done nothing else.
Fresh(j, t) ==
    /\ j \in JobRow
    /\ j.task = t /\ j.started /\ j.accepted /\ ~j.notAccepted
    /\ j.result = NULL /\ j.msgStatus = "PENDING" /\ j.retryAt = NULL
    /\ j.authHold = NULL /\ j.fbTask = NULL /\ ~j.fbStarted
    /\ ~j.fbImage /\ ~j.verified

LEMMA NewJobRow ==
    NewJob \in JobRow
BY LimitAssumption DEF NewJob, JobRow, Status, MessageStatus, Terminal, NextAction

LEMMA SubmittedRow ==
    ASSUME NEW t \in Task, NEW ai \in BOOLEAN
    PROVE  Fresh(SubmittedJob(t, ai), t)
<1>1. PICK j \in JobRow : j = NewJob
  BY NewJobRow
<1>2. /\ ~j.notAccepted /\ j.result = NULL /\ j.msgStatus = "PENDING"
      /\ j.retryAt = NULL /\ j.authHold = NULL /\ j.fbTask = NULL
      /\ ~j.fbStarted /\ ~j.fbImage /\ ~j.verified
  BY <1>1 DEF NewJob
<1> DEFINE k == [j EXCEPT !.task = t, !.aiStores = ai, !.started = TRUE, !.accepted = TRUE]
<1>3. SubmittedJob(t, ai) = k
  BY <1>1 DEF SubmittedJob
<1>4. k \in JobRow
  BY DEF JobRow
<1>5. k.task = t /\ k.started /\ k.accepted
  BY DEF JobRow
<1>6. /\ ~k.notAccepted /\ k.result = NULL /\ k.msgStatus = "PENDING"
      /\ k.retryAt = NULL /\ k.authHold = NULL /\ k.fbTask = NULL
      /\ ~k.fbStarted /\ ~k.fbImage /\ ~k.verified
  BY <1>2 DEF JobRow
<1> HIDE DEF k
<1> QED
  BY <1>3, <1>4, <1>5, <1>6 DEF Fresh

LEMMA RecordedImage ==
    ASSUME NEW t \in Task, NEW j, Fresh(j, t), NEW r \in Ref
    PROVE  /\ Fresh(RecordSucceeded(j, r, r), t)
           /\ RecordSucceeded(j, r, r).status = "POSTPROCESSING"
           /\ RecordSucceeded(j, r, r).nextAction = "POSTPROCESS"
<1> DEFINE k == RecordSucceeded(j, r, r)
<1>0. j \in JobRow
  BY DEF Fresh
<1>1. k \in JobRow
  BY <1>0 DEF JobRow, RecordSucceeded, Status, NextAction
<1>2. k.status = "POSTPROCESSING" /\ k.nextAction = "POSTPROCESS"
  BY <1>0 DEF JobRow, RecordSucceeded
<1>3. /\ k.task = j.task /\ k.started = j.started /\ k.accepted
      /\ k.notAccepted = j.notAccepted /\ k.result = j.result
      /\ k.msgStatus = j.msgStatus /\ k.retryAt = j.retryAt
      /\ k.authHold = j.authHold /\ k.fbTask = j.fbTask
      /\ k.fbStarted = j.fbStarted /\ k.fbImage = j.fbImage
      /\ k.verified = j.verified
  BY <1>0 DEF JobRow, RecordSucceeded
<1> HIDE DEF k
<1>4. Fresh(k, t)
  BY <1>1, <1>3 DEF Fresh
<1> QED
  BY <1>2, <1>4 DEF k

LEMMA RecordedFailure ==
    ASSUME NEW t \in Task, NEW j, Fresh(j, t)
    PROVE  /\ Fresh(RecordFailedRecoverable(j), t)
           /\ RecordFailedRecoverable(j).status = "FALLBACK_RUNNING"
           /\ RecordFailedRecoverable(j).nextAction = "RUN_FALLBACK"
<1> DEFINE k == RecordFailedRecoverable(j)
<1>0. j \in JobRow
  BY DEF Fresh
<1>1. k \in JobRow
  BY <1>0 DEF JobRow, RecordFailedRecoverable, Status, NextAction
<1>2. k.status = "FALLBACK_RUNNING" /\ k.nextAction = "RUN_FALLBACK"
  BY <1>0 DEF JobRow, RecordFailedRecoverable
<1>3. /\ k.task = j.task /\ k.started = j.started /\ k.accepted
      /\ k.notAccepted = j.notAccepted /\ k.result = j.result
      /\ k.msgStatus = j.msgStatus /\ k.retryAt = j.retryAt
      /\ k.authHold = j.authHold /\ k.fbTask = j.fbTask
      /\ k.fbStarted = j.fbStarted /\ k.fbImage = j.fbImage
      /\ k.verified = j.verified
  BY <1>0 DEF JobRow, RecordFailedRecoverable
<1> HIDE DEF k
<1>4. Fresh(k, t)
  BY <1>1, <1>3 DEF Fresh
<1> QED
  BY <1>2, <1>4 DEF k

\* The row that the request flow leaves satisfies what AsyncJobState proves.
LEMMA InitIInvHolds ==
    Init => P!IInv /\ job \in JobRow /\ RowFitsFollowUp /\ job.result = NULL
<1> SUFFICES ASSUME Init
             PROVE  P!IInv /\ job \in JobRow /\ RowFitsFollowUp /\ job.result = NULL
  OBVIOUS
<1>1. PICK t \in Task, r \in Ref :
        /\ job \in {RecordSucceeded(SubmittedJob(t, TRUE), r, r),
                    RecordSucceeded(SubmittedJob(t, FALSE), r, r),
                    RecordFailedRecoverable(SubmittedJob(t, TRUE))}
        /\ attempts = [u \in Task |-> IF u = t THEN 1 ELSE 0]
        /\ slot \in {NULL, t}
  BY DEF Init
<1>10. /\ Fresh(job, t)
       /\ \/ job.status = "POSTPROCESSING" /\ job.nextAction = "POSTPROCESS"
          \/ job.status = "FALLBACK_RUNNING" /\ job.nextAction = "RUN_FALLBACK"
  <2>1. PICK ai \in BOOLEAN :
          \/ job = RecordSucceeded(SubmittedJob(t, ai), r, r)
          \/ job = RecordFailedRecoverable(SubmittedJob(t, ai))
    BY <1>1
  <2>2. Fresh(SubmittedJob(t, ai), t)
    BY SubmittedRow
  <2> QED
    BY <2>1, <2>2, RecordedImage, RecordedFailure
<1>2. job \in JobRow
  BY <1>10 DEF Fresh
<1>3. /\ job.task = t /\ job.started /\ job.accepted /\ ~job.notAccepted
      /\ job.result = NULL /\ job.msgStatus = "PENDING" /\ job.retryAt = NULL
      /\ job.authHold = NULL /\ job.fbTask = NULL /\ ~job.fbStarted
      /\ ~job.fbImage /\ ~job.verified
      /\ \/ job.status = "POSTPROCESSING" /\ job.nextAction = "POSTPROCESS"
         \/ job.status = "FALLBACK_RUNNING" /\ job.nextAction = "RUN_FALLBACK"
  BY <1>10 DEF Fresh
<1>4. rejected = {} /\ conflict = {} /\ t # NULL
  BY NullAssumption DEF Init
<1>5. P!TypeOK
  BY <1>1, <1>2, <1>3, <1>4, SameRows, LimitAssumption DEF P!TypeOK
<1>6. P!NextActionMatchesStatus /\ P!TerminalIffPublished /\ P!RowConsistent(job)
  BY <1>3, <1>4, NullAssumption
     DEF P!NextActionMatchesStatus, P!ActionMatchesStatus, P!TerminalIffPublished,
         P!EndMatchesPublication, P!RowConsistent, P!Terminal, NextAction
<1>7. P!UnstartedIsClean /\ P!RejectionsAgree /\ P!SentIsAccountedFor
  BY <1>3, <1>4
     DEF P!UnstartedIsClean, P!RejectionsAgree, P!SentIsAccountedFor
<1>8. P!AttemptChain
  BY <1>1, <1>3, <1>4
     DEF P!AttemptChain, P!AttemptNumbersUnique, P!EarlierRejected,
         P!OldAttemptsRejected, P!CurrentIsNewest
<1>9. /\ P!SlotHasOwner /\ P!UnsentIsCurrent /\ P!HoldIsOnCurrentTask
      /\ P!VerifiedNeverFallsBack
  BY <1>1, <1>3, <1>4
     DEF P!SlotHasOwner, P!UnsentIsCurrent, P!HoldIsOnCurrentTask,
         P!VerifiedNeverFallsBack
<1>11. RowFitsFollowUp
  BY <1>3, <1>4 DEF RowFitsFollowUp, Action
<1> QED
  BY <1>2, <1>3, <1>5, <1>6, <1>7, <1>8, <1>9, <1>11 DEF P!IInv

LEMMA InitInv == Init => Inv
<1> SUFFICES ASSUME Init PROVE Inv
  OBVIOUS
<1>1. P!IInv /\ job \in JobRow /\ RowFitsFollowUp /\ job.result = NULL
  BY InitIInvHolds
<1>2. /\ loc = [p \in Process |-> AtRest] /\ fb = "none" /\ faults = 0
      /\ spent = [fallback |-> 0, llm |-> 0, results |-> 0]
      /\ queue = {job.nextAction} /\ image = FALSE
  BY DEF Init
<1>3. AtRest \in Local /\ AtRest.pc = "idle" /\ AtRest.act = NULL
  BY LimitAssumption DEF AtRest, Local, Pc
<1>4. \A p \in Process : loc[p] = AtRest
  BY <1>2
<1>5. job.nextAction \in Action /\ job.result = NULL
  BY <1>1 DEF RowFitsFollowUp
<1>6. TypeOK
  <2>1. attempts \in [Task -> 0..PrunaSubmitLimit] /\ slot \in Task \cup {NULL}
    BY <1>1 DEF P!IInv, P!TypeOK
  <2>2. loc \in [Process -> Local]
    BY <1>2, <1>3
  <2>3. faults \in 0..MaxFaults
    BY <1>2, FollowUpAssumption
  <2> QED
    BY <1>1, <1>2, <1>5, <2>1, <2>2, <2>3 DEF TypeOK
<1>7. FallbackIsOne
  BY <1>2, <1>3, <1>4 DEF FallbackIsOne, At
<1>8. CallsAreCounted
  <2>1. Calling = {} /\ Posting = {}
    BY <1>3, <1>4 DEF Calling, Posting, At
  <2>2. Cardinality({}) = 0
    BY FS_EmptySet
  <2>3. job.llmCalls \in Nat /\ job.msgAttempts \in Nat
    BY <1>1, LimitAssumption DEF JobRow
  <2> HIDE DEF Calling, Posting
  <2> QED
    BY <1>2, <2>1, <2>2, <2>3 DEF CallsAreCounted
<1>9. ProcessesFit /\ MessageForWork
  <2>1. FitsJob(AtRest)
    BY <1>3, NullAssumption DEF FitsJob, PublisherPc, TextPc, NextAction
  <2> QED
    BY <1>2, <1>4, <2>1 DEF ProcessesFit, MessageForWork
<1> QED
  BY <1>1, <1>6, <1>7, <1>8, <1>9 DEF Inv

LEMMA StepKeeps == ASSUME Inv, NEW p \in Process, Step(p) PROVE Kept
BY HandOffKeeps, AcquireKeeps, RereadKeeps, FinishKeeps, ReleaseKeeps, DeleteKeeps,
   FetchKeeps, DownloadKeeps, PutKeeps, ConfirmKeeps, RecordKeeps,
   ClaimS3Keeps, HeadObjectKeeps, MoveToFallbackKeeps,
   GateKeeps, ClaimTextKeeps, CallCommentKeeps, CallTitleKeeps, SaveKeeps,
   InputKeeps, PrepareKeeps, SlotKeeps, SendFallbackKeeps, AnswerKeeps,
   StoreFallbackKeeps, RecordFallbackKeeps,
   PublisherClaimsKeeps, PostKeeps, MarkKeeps, NotSentKeeps, ExhaustKeeps
   DEF Step

LEMMA NextKeeps == Inv /\ [Next]_vars => Kept
<1> SUFFICES ASSUME Inv, [Next]_vars PROVE Kept
  OBVIOUS
<1>1. CASE Next
  BY <1>1, ReceiveKeeps, PublisherAcquiresKeeps, StepKeeps, CallFailsKeeps,
     CrashKeeps, UploadKeeps, FallbackEndsKeeps, SlotReturnedKeeps,
     AbandonedLeaseExpiresKeeps, UsedLeaseExpiresKeeps DEF Next
<1>2. CASE UNCHANGED vars
  BY <1>2, SameRowsMove, StillFallback, StillKeeps
     DEF vars, flowVars, RowMove, Inv, TypeOK
<1> QED
  BY <1>1, <1>2

LEMMA InvHolds == Spec => []Inv
<1>1. Inv /\ [Next]_vars => Inv'
  BY NextKeeps DEF Kept
<1> QED
  BY <1>1, InitInv, PTL DEF Spec

\* The invariant holds in every state, for every number of Workers,
\* publishers, tasks, texts and faults: what a process relies on where it
\* stands is never taken back by the others (FollowUpFlow).
THEOREM FollowUpInvariantHolds == Spec => []FollowUpInvariant
BY InvHolds, InvIsFollowUpInvariant, PTL

\* Workers, the handlers and the publishers call the repository only as
\* AsyncJobState allows, from a row the request flow left: each of their steps
\* is one of its steps or invisible to it.
THEOREM ContractKept == Spec => KeepsContract
<1>1. Inv => DB!IInv
  BY SameIInv DEF Inv
<1>2. Inv /\ [Next]_vars => [DB!Next]_(DB!vars)
  BY NextKeeps, SameStep DEF Kept
<1> QED
  BY <1>1, <1>2, InitInv, InvHolds, PTL DEF Spec, KeepsContract

\* At most one fallback is requested, and no more LLM calls and result messages
\* are made than the row counted, whoever died or lost the lease in between.
THEOREM SpentOnlyWithinLimits == Spec => []SpentWithinLimits
<1>1. Inv => SpentWithinLimits
  <2> SUFFICES ASSUME Inv PROVE SpentWithinLimits
    OBVIOUS
  <2>1. /\ spent.fallback \in Nat /\ spent.llm \in Nat /\ spent.results \in Nat
        /\ job.fbAttempts \in Nat /\ job.llmCalls \in Nat /\ job.msgAttempts \in Nat
    BY LimitAssumption DEF Inv, TypeOK, JobRow
  <2>2. spent.fallback <= job.fbAttempts
    BY <2>1 DEF Inv, FallbackIsOne, RowFitsFollowUp
  <2>3. spent.llm <= job.llmCalls /\ spent.results <= job.msgAttempts
    BY <2>1, CallersFinite DEF Inv, CallsAreCounted
  <2> QED
    BY <2>2, <2>3 DEF SpentWithinLimits
<1> QED
  BY <1>1, InvHolds, PTL

\* A verified image never coexists with a paid fallback request.
THEOREM NeverImageAndFallback == Spec => []ImageOrFallback
<1>1. Inv => ImageOrFallback
  BY DEF Inv, FallbackIsOne, P!IInv, P!VerifiedNeverFallsBack, ImageOrFallback
<1> QED
  BY <1>1, InvHolds, PTL

\* A job that waits for a Worker always has a message that leads to it.
THEOREM WorkAlwaysHasMessage == Spec => []MessageForWork
<1>1. Inv => MessageForWork
  BY DEF Inv
<1> QED
  BY <1>1, InvHolds, PTL
=============================================================================
