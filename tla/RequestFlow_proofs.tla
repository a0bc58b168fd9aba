------------------------- MODULE RequestFlow_proofs -------------------------
(***************************************************************************)
(* Proofs about RequestFlow for any number of Request Workers, Watchdogs,  *)
(* Webhook requests, tasks and faults: FlowInvariant is inductive, every   *)
(* step is one of AsyncJobState (CallersKeepContract), and what follows.   *)
(*                                                                         *)
(* Three kinds of steps: those of a process that is not sending, which     *)
(* change the rows quietly (Quiet: the processes that may send and the     *)
(* generations that run notice nothing); the two grants, after which one   *)
(* process may send; and the ends of that: the request, the cancellation   *)
(* and the crash.                                                          *)
(***************************************************************************)
EXTENDS RequestFlow, TLAPS

\* The job of the flow, with what is proved about it: DB and P are the same
\* AsyncJobState, and the facts proved about P are turned to DB.
P == INSTANCE AsyncJobState_proofs WITH sent <- Sent, unsent <- Unsent

-----------------------------------------------------------------------------
(* The two instances of AsyncJobState.                                     *)

LEMMA SameRows == DB!JobRow = JobRow /\ P!JobRow = JobRow
BY DEF P!JobRow, DB!JobRow, JobRow, P!Status, DB!Status, Status,
       P!NextAction, DB!NextAction, NextAction, P!Payload, DB!Payload, Payload,
       P!Terminal, DB!Terminal, Terminal,
       P!MessageStatus, DB!MessageStatus, MessageStatus

LEMMA SameInit == DB!Init <=> P!Init
BY DEF DB!Init, P!Init, DB!NewJob, P!NewJob

LEMMA SameLeaseStep == DB!LeaseStep <=> P!LeaseStep
BY DEF DB!LeaseStep, P!LeaseStep,
       DB!AcquireLeaseStep, P!AcquireLeaseStep,
       DB!ReleaseLeaseStep, P!ReleaseLeaseStep,
       DB!LeaseExpires, P!LeaseExpires,
       DB!RetryTimeComes, P!RetryTimeComes,
       DB!FreshToken, P!FreshToken,
       DB!CanAcquireLease, P!CanAcquireLease, DB!AcquireLease, P!AcquireLease,
       DB!ReleaseLease, P!ReleaseLease, DB!ExpireLease, P!ExpireLease,
       DB!LeaseValid, P!LeaseValid, DB!attemptVars, P!attemptVars,
       DB!callVars, P!callVars, DB!Terminal, P!Terminal,
       DB!NextAction, P!NextAction

LEMMA SameSubmitStep == DB!SubmitStep <=> P!SubmitStep
BY DEF DB!SubmitStep, P!SubmitStep,
       DB!PrepareStep, P!PrepareStep, DB!Unused, P!Unused,
       DB!RowChange, P!RowChange,
       DB!CanPreparePruna, P!CanPreparePruna, DB!PreparePruna, P!PreparePruna,
       DB!BeginSubmission, P!BeginSubmission,
       DB!BeginSubmissionTx, P!BeginSubmissionTx,
       DB!CanBeginSubmission, P!CanBeginSubmission,
       DB!BeginRetry, P!BeginRetry, DB!BeginRetryTx, P!BeginRetryTx,
       DB!CanBeginRetry, P!CanBeginRetry, DB!LastAttempt, P!LastAttempt,
       DB!Send, P!Send, DB!CrashBeforeSend, P!CrashBeforeSend,
       DB!CancelUnsent, P!CancelUnsent, DB!CancelUnsentTx, P!CancelUnsentTx,
       DB!CancelApplies, P!CancelApplies, DB!dbVars, P!dbVars,
       DB!LeaseValid, P!LeaseValid, DB!attemptVars, P!attemptVars,
       DB!callVars, P!callVars

LEMMA SameEventStep == DB!EventStep <=> P!EventStep
BY DEF DB!EventStep, P!EventStep,
       DB!RecordAcceptedStep, P!RecordAcceptedStep,
       DB!RecordAuthHoldStep, P!RecordAuthHoldStep,
       DB!RecordSucceededStep, P!RecordSucceededStep,
       DB!FillImageRefStep, P!FillImageRefStep,
       DB!RecordFailedRecoverableStep, P!RecordFailedRecoverableStep,
       DB!RecordFailedFinalStep, P!RecordFailedFinalStep,
       DB!RecordNotAccepted, P!RecordNotAccepted,
       DB!RecordContradiction, P!RecordContradiction,
       DB!ReleaseSlot, P!ReleaseSlot, DB!RowChange, P!RowChange,
       DB!CanRecordAccepted, P!CanRecordAccepted,
       DB!RecordAccepted, P!RecordAccepted,
       DB!CanRecordAuthHold, P!CanRecordAuthHold,
       DB!RecordAuthHold, P!RecordAuthHold,
       DB!CanRecordSucceeded, P!CanRecordSucceeded,
       DB!RecordSucceeded, P!RecordSucceeded,
       DB!CanFillImageRef, P!CanFillImageRef, DB!FillImageRef, P!FillImageRef,
       DB!CanRecordFailed, P!CanRecordFailed,
       DB!RecordFailedRecoverable, P!RecordFailedRecoverable,
       DB!RecordFailedFinal, P!RecordFailedFinal,
       DB!RecordNotAcceptedTx, P!RecordNotAcceptedTx,
       DB!NotAcceptedApplies, P!NotAcceptedApplies,
       DB!WithLegacyAttempt, P!WithLegacyAttempt,
       DB!Progressed, P!Progressed, DB!Exhausted, P!Exhausted,
       DB!RecordContradictionTx, P!RecordContradictionTx,
       DB!ContradictionApplies, P!ContradictionApplies,
       DB!ReleaseSlotTx, P!ReleaseSlotTx, DB!SlotWithout, P!SlotWithout,
       DB!EventApplies, P!EventApplies, DB!AwaitingResult, P!AwaitingResult,
       DB!attemptVars, P!attemptVars, DB!callVars, P!callVars,
       DB!Terminal, P!Terminal

LEMMA SameWorkStep == DB!WorkStep <=> P!WorkStep
BY DEF DB!WorkStep, P!WorkStep,
       DB!ClaimS3CheckStep, P!ClaimS3CheckStep,
       DB!RecordVerifiedStep, P!RecordVerifiedStep,
       DB!ClaimLlmStep, P!ClaimLlmStep,
       DB!MoveToFallbackStep, P!MoveToFallbackStep,
       DB!PrepareFallbackStep, P!PrepareFallbackStep, DB!Unused, P!Unused,
       DB!BeginFallback, P!BeginFallback, DB!BeginFallbackTx, P!BeginFallbackTx,
       DB!CanBeginFallback, P!CanBeginFallback,
       DB!RecordFallbackImageStep, P!RecordFallbackImageStep,
       DB!SaveResultStep, P!SaveResultStep,
       DB!ClaimMessageStep, P!ClaimMessageStep,
       DB!MarkPublishedStep, P!MarkPublishedStep,
       DB!MarkExhaustedStep, P!MarkExhaustedStep, DB!RowChange, P!RowChange,
       DB!CanClaimS3Check, P!CanClaimS3Check, DB!ClaimS3Check, P!ClaimS3Check,
       DB!CanRecordVerified, P!CanRecordVerified,
       DB!RecordVerified, P!RecordVerified,
       DB!CanClaimLlm, P!CanClaimLlm, DB!ClaimLlm, P!ClaimLlm,
       DB!CanMoveToFallback, P!CanMoveToFallback,
       DB!MoveToFallback, P!MoveToFallback,
       DB!CanPrepareFallback, P!CanPrepareFallback,
       DB!PrepareFallback, P!PrepareFallback,
       DB!CanRecordFallbackImage, P!CanRecordFallbackImage,
       DB!RecordFallbackImage, P!RecordFallbackImage,
       DB!CanSaveResult, P!CanSaveResult, DB!SaveResult, P!SaveResult,
       DB!CanClaimMessage, P!CanClaimMessage, DB!ClaimMessage, P!ClaimMessage,
       DB!CanMarkPublished, P!CanMarkPublished,
       DB!MarkPublished, P!MarkPublished,
       DB!CanMarkExhausted, P!CanMarkExhausted,
       DB!MarkExhausted, P!MarkExhausted, DB!Publishing, P!Publishing,
       DB!PayloadStatus, P!PayloadStatus,
       DB!Postprocessing, P!Postprocessing, DB!Fallback, P!Fallback,
       DB!LeaseValid, P!LeaseValid, DB!attemptVars, P!attemptVars,
       DB!callVars, P!callVars, DB!Terminal, P!Terminal

LEMMA SameStep == [P!Next]_(P!vars) => [DB!Next]_(DB!vars)
<1>1. P!Next => DB!Next
  BY SameLeaseStep, SameSubmitStep, SameEventStep, SameWorkStep
     DEF P!Next, DB!Next
<1>2. UNCHANGED P!vars => UNCHANGED DB!vars
  BY DEF P!vars, DB!vars
<1> QED
  BY <1>1, <1>2

LEMMA SameIInv == DB!IInv <=> P!IInv
BY DEF DB!IInv, P!IInv, DB!TypeOK, P!TypeOK,
       DB!NextActionMatchesStatus, P!NextActionMatchesStatus,
       DB!ActionMatchesStatus, P!ActionMatchesStatus,
       DB!TerminalIffPublished, P!TerminalIffPublished,
       DB!EndMatchesPublication, P!EndMatchesPublication,
       DB!PayloadStatus, P!PayloadStatus,
       DB!RowConsistent, P!RowConsistent,
       DB!UnstartedIsClean, P!UnstartedIsClean,
       DB!RejectionsAgree, P!RejectionsAgree,
       DB!SentIsAccountedFor, P!SentIsAccountedFor,
       DB!AttemptChain, P!AttemptChain,
       DB!AttemptNumbersUnique, P!AttemptNumbersUnique,
       DB!EarlierRejected, P!EarlierRejected,
       DB!OldAttemptsRejected, P!OldAttemptsRejected,
       DB!CurrentIsNewest, P!CurrentIsNewest,
       DB!SlotHasOwner, P!SlotHasOwner, DB!UnsentIsCurrent, P!UnsentIsCurrent,
       DB!HoldIsOnCurrentTask, P!HoldIsOnCurrentTask,
       DB!VerifiedNeverFallsBack, P!VerifiedNeverFallsBack,
       P!JobRow, DB!JobRow, P!Status, DB!Status,
       P!NextAction, DB!NextAction, P!Payload, DB!Payload,
       P!Terminal, DB!Terminal, P!MessageStatus, DB!MessageStatus

LEMMA StepKeepsIInv ==
    ASSUME P!IInv, [P!Next]_(P!vars)
    PROVE  P!IInv'
BY P!NextKeeps, LimitAssumption, NullAssumption
   DEF NextAction, P!NextAction, Payload, P!Payload

LEMMA InitIInv ==
    ASSUME P!Init
    PROVE  P!IInv
BY P!InitIInv, LimitAssumption, NullAssumption
   DEF NextAction, P!NextAction, Payload, P!Payload

-----------------------------------------------------------------------------
(* What the invariant says of the processes.                               *)

Inv ==
    /\ TypeOK /\ P!IInv
    /\ KindsKept /\ ReportsAreTrue
    /\ SenderIsAlone /\ RefusalsAreTrue /\ RunningHoldsSlot
    /\ RowFitsFlow /\ MessageUntilPast

LEMMA InvIsFlowInvariant == Inv <=> FlowInvariant
BY SameIInv DEF Inv, FlowInvariant

LEMMA Processes ==
    /\ Holder \subseteq Process /\ Publisher \in Process
    /\ \A p \in Process : p \notin Hook => p \in Token
    /\ \A p \in Hook : p \notin Token
    /\ \A p \in Holder : p \notin Hook /\ p # Publisher
BY ProcessAssumption DEF Holder, Process

\* The reports about a task agree with what Runware made of it.
LEMMA ReportsOf ==
    ASSUME NEW f \in Fate
    PROVE  /\ Reports(f) \subseteq Report /\ Answers(f) \subseteq Reports(f)
           /\ f \in {"none", "lost", "balance"} => Reports(f) = {}
           /\ f = "running" => Reports(f) = {"processing"}
           /\ "refused" \in Reports(f) => f = "refused"
           /\ f \in {"done", "timedOut"} => "processing" \in Reports(f)
           /\ \A e \in Reports(f) : e \in Progress => "processing" \in Reports(f)
BY DEF Fate, Reports, Answers, Report, Progress

LEMMA SenderFacts ==
    ASSUME Inv, NEW p \in Sender
    PROVE  /\ p \in Process /\ p \in Token /\ p \in Holder /\ loc[p].pc = "send"
           /\ Unsent = <<loc[p].task, p>> /\ Unsent # NULL
           /\ loc[p].task \in Task /\ loc[p].task \notin Sent
           /\ job.task = loc[p].task /\ job.started /\ job.authHold = NULL
           /\ slot = job.task /\ job.task \notin rejected
           /\ attempts[loc[p].task] # 0
           /\ Sender = {p}
<1>1. /\ p \in Process /\ p \in Token /\ p \in Holder /\ loc[p].pc = "send"
      /\ Sender = {p} /\ loc[p].task \in Task /\ slot = loc[p].task
      /\ loc[p].task \notin Sent
  BY Processes DEF Inv, Sender, SenderIsAlone, At, Sent
<1>2. Unsent = <<loc[p].task, p>>
  BY <1>1 DEF Unsent
<1>3. Unsent # NULL
  <2>1. P!TypeOK /\ P!UnsentIsCurrent
    BY DEF Inv, P!IInv
  <2>2. <<loc[p].task, p>> # NULL
    BY <1>1, ProcessAssumption
  <2> QED
    BY <1>2, <2>2
<1>4. /\ job.task = loc[p].task /\ job.started /\ job.authHold = NULL
      /\ job.task \notin rejected /\ attempts[loc[p].task] # 0
  BY <1>1, <1>2, <1>3 DEF Inv, P!IInv, P!UnsentIsCurrent, P!RejectionsAgree
<1> QED
  BY <1>1, <1>2, <1>3, <1>4

-----------------------------------------------------------------------------
(* A step of a process that is not sending.                                *)

\* What such a step may do to the rows the processes rely on.
RowQuiet ==
    /\ job.started => job'.started
    /\ job'.nextAction = "SUBMIT_PRUNA" => job.nextAction = "SUBMIT_PRUNA"
    /\ RowFitsFlow'
    /\ \A p \in Sender :
         /\ LeaseValid(job', p) =>
               LeaseValid(job, p) /\ job'.nextAction = job.nextAction
         /\ attempts'[loc[p].task] = attempts[loc[p].task]
    /\ \A t \in rejected' : fate[t] = "refused"
    /\ slot' = slot \/ (slot # NULL /\ fate[slot] \notin {"none", "running"})

Quiet == RowQuiet /\ [P!Next]_(P!vars)

\* What every step does: it keeps the invariant and is one of AsyncJobState.
Kept == Inv' /\ [P!Next]_(P!vars)

LEMMA SameCalls ==
    ASSUME Inv, NEW p \in Process, NEW l \in Local,
           loc[p].pc # "send", l.pc # "send",
           loc' = [loc EXCEPT ![p] = l], fate' = fate
    PROVE  /\ Sender' = Sender /\ Sent' = Sent /\ Unsent' = Unsent
           /\ \A q \in Sender : q # p /\ loc'[q] = loc[q]
<1>1. loc \in [Process -> Local]
  BY DEF Inv, TypeOK
<1>2. Sender' = Sender
  BY <1>1, Processes DEF Sender, At
<1>3. \A q \in Sender : q # p /\ loc'[q] = loc[q]
  BY <1>1, Processes DEF Sender, At
<1>4. Sent' = Sent
  BY DEF Sent
<1>5. CASE Sender = {}
  BY <1>2, <1>3, <1>4, <1>5 DEF Unsent
<1>6. ASSUME NEW q \in Sender PROVE Unsent' = Unsent
  <2>1. Unsent = <<loc[q].task, q>> /\ Sender = {q}
    BY <1>6, SenderFacts
  <2>2. Unsent' = <<loc'[q].task, q>>
    BY <2>1, <1>2 DEF Unsent
  <2> QED
    BY <2>1, <2>2, <1>3
<1> QED
  BY <1>2, <1>3, <1>4, <1>5, <1>6

LEMMA TypesOfRows ==
    ASSUME P!IInv'
    PROVE  /\ job' \in JobRow
           /\ attempts' \in [Task -> 0..PrunaSubmitLimit]
           /\ rejected' \in SUBSET Task /\ conflict' \in SUBSET Task
           /\ slot' \in Task \cup {NULL}
BY SameRows DEF P!IInv, P!TypeOK

\* The row's part of a step keeps the invariant, whatever else happens, if no
\* process begins or ends to send and Runware does nothing.
LEMMA QuietKeeps ==
    ASSUME Inv, Quiet, Sender' = Sender, fate' = fate,
           \A q \in Sender : loc'[q] = loc[q]
    PROVE  /\ P!IInv'
           /\ SenderIsAlone' /\ RefusalsAreTrue' /\ RunningHoldsSlot'
           /\ RowFitsFlow' /\ (PastRequest => PastRequest')
<1>1. P!IInv'
  BY StepKeepsIInv DEF Inv, Quiet
<1>2. SenderIsAlone'
  <2> SUFFICES ASSUME NEW p \in Sender
               PROVE  /\ loc'[p].task \in Task /\ fate'[loc'[p].task] = "none"
                      /\ slot' = loc'[p].task
                      /\ LeaseValid(job', p) => job'.nextAction = "SUBMIT_PRUNA"
                      /\ \A q \in Sender : q = p
    BY DEF SenderIsAlone, Owns
  <2>1. /\ loc[p].task \in Task /\ fate[loc[p].task] = "none"
        /\ slot = loc[p].task
        /\ LeaseValid(job, p) => job.nextAction = "SUBMIT_PRUNA"
        /\ \A q \in Sender : q = p
    BY DEF Inv, SenderIsAlone, Owns
  <2> QED
    BY <2>1 DEF Quiet, RowQuiet
<1>3. RefusalsAreTrue'
  BY DEF Inv, Quiet, RowQuiet, RefusalsAreTrue, Generated
<1>4. RunningHoldsSlot'
  BY DEF Inv, Quiet, RowQuiet, RunningHoldsSlot
<1>5. PastRequest => PastRequest'
  BY DEF Quiet, RowQuiet, PastRequest, Owns
<1> QED
  BY <1>1, <1>2, <1>3, <1>4, <1>5 DEF Quiet, RowQuiet

\* What processes know of Runware stays true when a task that nobody knows of
\* is sent and when a generation ends.
LEMMA KnowledgeKeeps ==
    ASSUME Inv, NEW p \in Process, NEW l \in Local, loc' = [loc EXCEPT ![p] = l],
           KindAllows(p, l.pc), KnowsTheTruth(l)',
           \A t \in Task :
             \/ fate'[t] = fate[t] \/ fate[t] = "none"
             \/ fate[t] = "running" /\ fate'[t] \in {"done", "timedOut"}
    PROVE  loc' \in [Process -> Local] /\ KindsKept' /\ ReportsAreTrue'
<1>1. loc \in [Process -> Local]
  BY DEF Inv, TypeOK
<1>2. KindsKept'
  BY <1>1 DEF Inv, KindsKept, KindAllows
<1>3. ReportsAreTrue'
  <2> SUFFICES ASSUME NEW q \in Process PROVE KnowsTheTruth(loc[q])'
    BY DEF ReportsAreTrue
  <2>1. CASE q = p
    <3>1. loc'[q] = l
      BY <1>1, <2>1
    <3> QED
      BY <3>1 DEF KnowsTheTruth
  <2>2. CASE q # p
    <3> DEFINE m == loc[q]
    <3>1. loc'[q] = m /\ KnowsTheTruth(m)
      BY <1>1, <2>2 DEF Inv, ReportsAreTrue
    <3> HIDE DEF m
    <3>2. CASE m.task \in Task /\ fate'[m.task] # fate[m.task]
      <4>1. CASE fate[m.task] = "none"
        <5>1. Reports("none") = {}
          BY ReportsOf DEF Fate
        <5> QED
          BY <3>1, <4>1, <5>1 DEF KnowsTheTruth
      <4>2. CASE fate[m.task] = "running" /\ fate'[m.task] \in {"done", "timedOut"}
        <5>1. Reports("running") = {"processing"}
              /\ "processing" \in Reports(fate'[m.task])
          BY <4>2, ReportsOf DEF Fate
        <5> QED
          BY <3>1, <4>2, <5>1 DEF KnowsTheTruth
      <4> QED
        BY <3>2, <4>1, <4>2
    <3>3. CASE ~(m.task \in Task /\ fate'[m.task] # fate[m.task])
      BY <3>1, <3>3 DEF KnowsTheTruth
    <3> QED
      BY <3>2, <3>3
  <2> QED
    BY <2>1, <2>2
<1> QED
  BY <1>1, <1>2, <1>3

\* A process that is not sending moves on and changes the rows quietly.
LEMMA MoveKeeps ==
    ASSUME Inv, Quiet, NEW p \in Process, NEW l \in Local,
           loc[p].pc # "send", l.pc # "send", loc' = [loc EXCEPT ![p] = l],
           KindAllows(p, l.pc), KnowsTheTruth(l),
           fate' = fate, msg' \in BOOLEAN, claimed' \in Claim,
           followUp' \in SUBSET {"POSTPROCESS", "RUN_FALLBACK"},
           faults' \in 0..MaxFaults,
           ~msg' \/ l.pc \in DeletePc =>
             ~msg \/ loc[p].pc \in DeletePc \/ PastRequest \/ PastRequest'
    PROVE  Kept
<1>1. /\ P!IInv'
      /\ SenderIsAlone' /\ RefusalsAreTrue' /\ RunningHoldsSlot'
      /\ RowFitsFlow' /\ (PastRequest => PastRequest')
  BY SameCalls, QuietKeeps
<1>2. TypeOK'
  BY <1>1, TypesOfRows DEF Inv, TypeOK
<1>3. loc \in [Process -> Local]
  BY DEF Inv, TypeOK
<1>4. KindsKept' /\ ReportsAreTrue'
  BY KnowledgeKeeps DEF KnowsTheTruth
<1>5. MessageUntilPast'
  <2> SUFFICES ASSUME ~msg' \/ (\E q \in Process : loc'[q].pc \in DeletePc)
               PROVE  PastRequest'
    BY DEF MessageUntilPast
  <2>1. \/ ~msg \/ \E q \in Process : loc[q].pc \in DeletePc
        \/ PastRequest \/ PastRequest'
    BY <1>3
  <2> QED
    BY <2>1, <1>1 DEF Inv, MessageUntilPast
<1> QED
  BY <1>1, <1>2, <1>4, <1>5 DEF Inv, Kept, Quiet

-----------------------------------------------------------------------------
(* Every transaction of a process that is not sending is quiet.            *)

CallsKept == Sent' = Sent /\ Unsent' = Unsent

LEMMA SameRowsQuiet ==
    ASSUME Inv, CallsKept, UNCHANGED dbVars
    PROVE  Quiet
BY DEF Inv, CallsKept, dbVars, attemptVars, Quiet, RowQuiet, RowFitsFlow,
       RefusalsAreTrue, P!vars

\* While a process may send its task, nothing was reported of the current one.
LEMMA ReportedNotUnsent ==
    ASSUME Inv, NEW t \in Sent, job.task = t
    PROVE  Sender = {}
BY SenderFacts

LEMMA AcquireQuiet ==
    ASSUME Inv, CallsKept, NEW p \in Process \cap Token, p \notin Sender,
           NEW a \in NextAction,
           TryRow(CanAcquireLease(job, a), AcquireLease(job, p))
    PROVE  Quiet
<1>1. CASE ~CanAcquireLease(job, a)
  BY <1>1, SameRowsQuiet DEF TryRow, dbVars, attemptVars
<1>2. CASE CanAcquireLease(job, a)
  <2>1. P!FreshToken(p)
    BY SenderFacts DEF P!FreshToken, Unsent
  <2>2. P!AcquireLeaseStep(p, a)
    BY <1>2, <2>1
       DEF TryRow, CanAcquireLease, AcquireLease, attemptVars, CallsKept, Terminal,
           P!AcquireLeaseStep, P!CanAcquireLease, P!AcquireLease, P!Terminal,
           P!attemptVars, P!callVars
  <2>3. P!Next
    BY <2>2 DEF P!Next, P!LeaseStep, NextAction, P!NextAction
  <2>4. RowQuiet
    BY <1>2 DEF Inv, TypeOK, JobRow, RowFitsFlow, RefusalsAreTrue, TryRow,
                AcquireLease, attemptVars, RowQuiet, LeaseValid
  <2> QED
    BY <2>3, <2>4 DEF Quiet
<1> QED
  BY <1>1, <1>2

LEMMA ReleaseQuiet ==
    ASSUME Inv, CallsKept, NEW p \in Process \cap Token, p \notin Sender,
           TryRow(LeaseValid(job, p), ReleaseLease(job))
    PROVE  Quiet
<1>1. CASE ~LeaseValid(job, p)
  BY <1>1, SameRowsQuiet DEF TryRow, dbVars, attemptVars
<1>2. CASE LeaseValid(job, p)
  <2>1. P!ReleaseLeaseStep(p)
    BY <1>2 DEF TryRow, LeaseValid, ReleaseLease, attemptVars, CallsKept,
                P!ReleaseLeaseStep, P!LeaseValid, P!ReleaseLease,
                P!attemptVars, P!callVars
  <2>2. P!Next
    BY <2>1 DEF P!Next, P!LeaseStep
  <2>3. RowQuiet
    BY <1>2 DEF Inv, TypeOK, JobRow, RowFitsFlow, RefusalsAreTrue, TryRow,
                ReleaseLease, attemptVars, RowQuiet, LeaseValid
  <2> QED
    BY <2>2, <2>3 DEF Quiet
<1> QED
  BY <1>1, <1>2

LEMMA ExpireQuiet ==
    ASSUME Inv, CallsKept, job.leaseLive, TryRow(TRUE, ExpireLease(job))
    PROVE  Quiet
<1>1. P!LeaseExpires
  BY DEF TryRow, ExpireLease, attemptVars, CallsKept,
         P!LeaseExpires, P!ExpireLease, P!attemptVars, P!callVars
<1>2. P!Next
  BY <1>1 DEF P!Next, P!LeaseStep
<1>3. RowQuiet
  BY DEF Inv, TypeOK, JobRow, RowFitsFlow, RefusalsAreTrue, TryRow,
         ExpireLease, attemptVars, RowQuiet, LeaseValid
<1> QED
  BY <1>2, <1>3 DEF Quiet

LEMMA RetryTimeQuiet ==
    ASSUME Inv, CallsKept, job.retryAt = "later",
           TryRow(TRUE, [job EXCEPT !.retryAt = "due"])
    PROVE  Quiet
<1>1. P!RetryTimeComes
  BY DEF TryRow, attemptVars, CallsKept, P!RetryTimeComes, P!attemptVars, P!callVars
<1>2. P!Next
  BY <1>1 DEF P!Next, P!LeaseStep
<1>3. RowQuiet
  BY DEF Inv, TypeOK, JobRow, RowFitsFlow, RefusalsAreTrue, TryRow,
         attemptVars, RowQuiet, LeaseValid
<1> QED
  BY <1>2, <1>3 DEF Quiet

LEMMA SaveQuiet ==
    ASSUME Inv, CallsKept, NEW p \in Process \cap Token, p \notin Sender,
           TryRow(CanSaveResult(job, p), SaveResult(job, "FAILED"))
    PROVE  Quiet
<1>1. CASE ~CanSaveResult(job, p)
  BY <1>1, SameRowsQuiet DEF TryRow, dbVars, attemptVars
<1>2. CASE CanSaveResult(job, p)
  <2>1. P!SaveResultStep(p, "FAILED")
    BY <1>2 DEF TryRow, CanSaveResult, SaveResult, LeaseValid, Terminal,
                attemptVars, CallsKept, P!SaveResultStep, P!RowChange,
                P!CanSaveResult, P!SaveResult, P!LeaseValid, P!Terminal,
                P!attemptVars, P!callVars
  <2>2. P!Next
    BY <2>1 DEF P!Next, P!WorkStep
  <2>3. RowQuiet
    BY <1>2 DEF Inv, TypeOK, JobRow, RowFitsFlow, RefusalsAreTrue, TryRow,
                CanSaveResult, SaveResult, attemptVars, RowQuiet, LeaseValid
  <2> QED
    BY <2>2, <2>3 DEF Quiet
<1> QED
  BY <1>1, <1>2

LEMMA UnusedTask ==
    ASSUME Inv, NEW t \in Task, NewTask(t)
    PROVE  P!Unused(t)
BY NullAssumption DEF Inv, RowFitsFlow, NewTask, P!Unused, Sent

LEMMA PrepareQuiet ==
    ASSUME Inv, CallsKept, NEW p \in Process \cap Token, p \notin Sender,
           NEW t \in Task, NewTask(t), CanPreparePruna(job, p),
           TryRow(TRUE, PreparePruna(job, t, TRUE))
    PROVE  Quiet
<1>1. P!PrepareStep(p, t)
  BY UnusedTask
     DEF TryRow, CanPreparePruna, PreparePruna, LeaseValid, attemptVars, CallsKept,
         P!PrepareStep, P!RowChange, P!CanPreparePruna, P!PreparePruna,
         P!LeaseValid, P!attemptVars, P!callVars
<1>2. P!Next
  BY <1>1 DEF P!Next, P!SubmitStep
<1>3. RowQuiet
  BY DEF Inv, TypeOK, JobRow, RowFitsFlow, RefusalsAreTrue, TryRow,
         PreparePruna, attemptVars, RowQuiet, LeaseValid
<1> QED
  BY <1>2, <1>3 DEF Quiet

LEMMA AcceptedQuiet ==
    ASSUME Inv, CallsKept, NEW t \in Task \cap Sent,
           TryRow(CanRecordAccepted(job, t), RecordAccepted(job))
    PROVE  Quiet
<1>1. CASE ~CanRecordAccepted(job, t)
  BY <1>1, SameRowsQuiet DEF TryRow, dbVars, attemptVars
<1>2. CASE CanRecordAccepted(job, t)
  <2>1. P!RecordAcceptedStep(t)
    BY <1>2 DEF TryRow, CanRecordAccepted, EventApplies, RecordAccepted, Terminal,
                attemptVars, CallsKept, P!RecordAcceptedStep, P!RowChange,
                P!CanRecordAccepted, P!EventApplies, P!RecordAccepted, P!Terminal,
                P!attemptVars, P!callVars
  <2>2. P!Next
    BY <2>1 DEF P!Next, P!EventStep
  <2>3. Sender = {}
    BY <1>2, ReportedNotUnsent DEF CanRecordAccepted, EventApplies
  <2>4. RowQuiet
    BY <2>3, <1>2, NullAssumption
       DEF Inv, TypeOK, JobRow, RowFitsFlow, RefusalsAreTrue, TryRow,
           CanRecordAccepted, EventApplies, RecordAccepted, attemptVars,
           RowQuiet, NextAction
  <2> QED
    BY <2>2, <2>4 DEF Quiet
<1> QED
  BY <1>1, <1>2

LEMMA FailedQuiet ==
    ASSUME Inv, CallsKept, NEW t \in Task \cap Sent,
           TryRow(CanRecordFailed(job, t), RecordFailedRecoverable(job))
    PROVE  Quiet
<1>1. CASE ~CanRecordFailed(job, t)
  BY <1>1, SameRowsQuiet DEF TryRow, dbVars, attemptVars
<1>2. CASE CanRecordFailed(job, t)
  <2>1. P!RecordFailedRecoverableStep(t)
    BY <1>2 DEF TryRow, CanRecordFailed, EventApplies, AwaitingResult, Terminal,
                RecordFailedRecoverable, attemptVars, CallsKept,
                P!RecordFailedRecoverableStep, P!RowChange, P!CanRecordFailed,
                P!EventApplies, P!AwaitingResult, P!RecordFailedRecoverable,
                P!Terminal, P!attemptVars, P!callVars
  <2>2. P!Next
    BY <2>1 DEF P!Next, P!EventStep
  <2>3. Sender = {}
    BY <1>2, ReportedNotUnsent DEF CanRecordFailed, EventApplies
  <2>4. RowQuiet
    BY <2>3, <1>2
       DEF Inv, TypeOK, JobRow, RowFitsFlow, RefusalsAreTrue, TryRow,
           CanRecordFailed, EventApplies, RecordFailedRecoverable, attemptVars,
           RowQuiet
  <2> QED
    BY <2>2, <2>4 DEF Quiet
<1> QED
  BY <1>1, <1>2

LEMMA HoldQuiet ==
    ASSUME Inv, CallsKept, NEW t \in Task \cap Sent,
           TryRow(CanRecordAuthHold(job, t), RecordAuthHold(job))
    PROVE  Quiet
<1>1. CASE ~CanRecordAuthHold(job, t)
  BY <1>1, SameRowsQuiet DEF TryRow, dbVars, attemptVars
<1>2. CASE CanRecordAuthHold(job, t)
  <2>1. P!RecordAuthHoldStep(t)
    BY <1>2 DEF TryRow, CanRecordAuthHold, EventApplies, AwaitingResult, Terminal,
                RecordAuthHold, attemptVars, CallsKept,
                P!RecordAuthHoldStep, P!RowChange, P!CanRecordAuthHold,
                P!EventApplies, P!AwaitingResult, P!RecordAuthHold,
                P!Terminal, P!attemptVars, P!callVars
  <2>2. P!Next
    BY <2>1 DEF P!Next, P!EventStep
  <2>3. RowQuiet
    BY <1>2 DEF Inv, TypeOK, JobRow, RowFitsFlow, RefusalsAreTrue, TryRow,
                RecordAuthHold, attemptVars, RowQuiet, LeaseValid
  <2> QED
    BY <2>2, <2>3 DEF Quiet
<1> QED
  BY <1>1, <1>2

LEMMA SucceededQuiet ==
    ASSUME Inv, CallsKept, NEW t \in Task \cap Sent,
           NEW url \in Ref \cup {NULL}, NEW uuid \in Ref \cup {NULL},
           TryRow(CanRecordSucceeded(job, t), RecordSucceeded(job, url, uuid))
    PROVE  Quiet
<1>1. CASE ~CanRecordSucceeded(job, t)
  BY <1>1, SameRowsQuiet DEF TryRow, dbVars, attemptVars
<1>2. CASE CanRecordSucceeded(job, t)
  <2>1. P!RecordSucceededStep(t, url, uuid)
    BY <1>2 DEF TryRow, CanRecordSucceeded, EventApplies, AwaitingResult, Terminal,
                RecordSucceeded, attemptVars, CallsKept,
                P!RecordSucceededStep, P!RowChange, P!CanRecordSucceeded,
                P!EventApplies, P!AwaitingResult, P!RecordSucceeded,
                P!Terminal, P!attemptVars, P!callVars
  <2>2. P!Next
    BY <2>1 DEF P!Next, P!EventStep
  <2>3. Sender = {}
    BY <1>2, ReportedNotUnsent DEF CanRecordSucceeded, EventApplies
  <2>4. RowQuiet
    BY <2>3, <1>2
       DEF Inv, TypeOK, JobRow, RowFitsFlow, RefusalsAreTrue, TryRow,
           CanRecordSucceeded, EventApplies, RecordSucceeded, attemptVars,
           RowQuiet
  <2> QED
    BY <2>2, <2>4 DEF Quiet
<1> QED
  BY <1>1, <1>2

LEMMA FillQuiet ==
    ASSUME Inv, CallsKept, NEW t \in Task \cap Sent,
           NEW url \in Ref \cup {NULL}, NEW uuid \in Ref \cup {NULL},
           NEW confirmed \in BOOLEAN,
           TryRow(CanFillImageRef(job, t, url, uuid, confirmed),
                  FillImageRef(job, url, uuid))
    PROVE  Quiet
<1>1. CASE ~CanFillImageRef(job, t, url, uuid, confirmed)
  BY <1>1, SameRowsQuiet DEF TryRow, dbVars, attemptVars
<1>2. CASE CanFillImageRef(job, t, url, uuid, confirmed)
  <2>1. P!FillImageRefStep(t, url, uuid, confirmed)
    BY <1>2 DEF TryRow, CanFillImageRef, FillImageRef, attemptVars, CallsKept,
                P!FillImageRefStep, P!RowChange, P!CanFillImageRef,
                P!FillImageRef, P!attemptVars, P!callVars
  <2>2. P!Next
    BY <2>1 DEF P!Next, P!EventStep
  <2>3. /\ UNCHANGED <<attempts, rejected, slot>>
        /\ job'.started = job.started /\ job'.nextAction = job.nextAction
        /\ job'.status = job.status /\ job'.accepted = job.accepted
        /\ job'.fbTask = job.fbTask
        /\ job'.lease = job.lease /\ job'.leaseLive = job.leaseLive
    BY <1>2 DEF Inv, TypeOK, JobRow, TryRow, FillImageRef, attemptVars
  <2>4. RowQuiet
    BY <2>3 DEF Inv, RowFitsFlow, RefusalsAreTrue, RowQuiet, LeaseValid
  <2> QED
    BY <2>2, <2>4 DEF Quiet
<1> QED
  BY <1>1, <1>2

LEMMA NotAcceptedQuiet ==
    ASSUME Inv, CallsKept, NEW t \in Task, fate[t] = "refused",
           NEW r \in RetryGuidance, RecordNotAcceptedTx(t, r)
    PROVE  Quiet
<1>1. P!RecordNotAccepted(t, r)
  BY DEF Sent, RecordNotAcceptedTx, NotAcceptedApplies, WithLegacyAttempt,
         Progressed, Exhausted, SlotWithout, Terminal, CallsKept,
         P!RecordNotAccepted, P!RecordNotAcceptedTx, P!NotAcceptedApplies,
         P!WithLegacyAttempt, P!Progressed, P!Exhausted, P!SlotWithout,
         P!Terminal, P!callVars
<1>2. P!Next
  BY <1>1 DEF P!Next, P!EventStep, RetryGuidance
<1>3. Sender = {}
  BY ReportedNotUnsent DEF Sent, RecordNotAcceptedTx, NotAcceptedApplies
<1>4. /\ job'.started = job.started /\ job'.fbTask = job.fbTask
      /\ job'.status = job.status /\ job'.accepted = job.accepted
      /\ job'.nextAction \in {job.nextAction, "PUBLISH_RESULT"}
      /\ rejected' \subseteq rejected \cup {t}
      /\ slot' = slot \/ (slot' = NULL /\ slot = t)
  <2>1. job' = job \/ job' = [job EXCEPT !.result = "REJECTED",
                                        !.nextAction = "PUBLISH_RESULT",
                                        !.notAccepted = TRUE, !.retryAt = NULL]
        \/ job' = [job EXCEPT !.notAccepted = TRUE, !.retryAt = r]
    BY DEF RecordNotAcceptedTx
  <2>2. rejected' = rejected \/ rejected' = rejected \cup {t}
    BY DEF RecordNotAcceptedTx
  <2>3. slot' = slot \/ slot' = SlotWithout(t)
    BY DEF RecordNotAcceptedTx
  <2>4. job \in JobRow
    BY DEF Inv, TypeOK
  <2>5. /\ job'.started = job.started /\ job'.fbTask = job.fbTask
        /\ job'.status = job.status /\ job'.accepted = job.accepted
        /\ job'.nextAction \in {job.nextAction, "PUBLISH_RESULT"}
    BY <2>1, <2>4 DEF JobRow
  <2>6. slot' = slot \/ (slot' = NULL /\ slot = t)
    BY <2>3 DEF SlotWithout
  <2> QED
    BY <2>2, <2>5, <2>6
<1>5. RowQuiet
  BY <1>3, <1>4, NullAssumption
     DEF Inv, RowFitsFlow, RefusalsAreTrue, RowQuiet, TypeOK
<1> QED
  BY <1>2, <1>5 DEF Quiet

LEMMA ContradictionQuiet ==
    ASSUME Inv, CallsKept, NEW t \in Task \cap Sent, RecordContradictionTx(t)
    PROVE  Quiet
<1>1. P!RecordContradiction(t)
  BY DEF RecordContradictionTx, ContradictionApplies, CallsKept,
         P!RecordContradiction, P!RecordContradictionTx, P!ContradictionApplies,
         P!callVars
<1>2. P!Next
  BY <1>1 DEF P!Next, P!EventStep
<1>3. RowQuiet
  BY DEF Inv, TypeOK, JobRow, RowFitsFlow, RefusalsAreTrue, RowQuiet,
         RecordContradictionTx, LeaseValid
<1> QED
  BY <1>2, <1>3 DEF Quiet

LEMMA SlotQuiet ==
    ASSUME Inv, CallsKept, NEW t \in Task, fate[t] \notin {"none", "running"},
           ReleaseSlotTx(t)
    PROVE  Quiet
<1>1. P!ReleaseSlot(t)
  BY DEF Sent, ReleaseSlotTx, SlotWithout, attemptVars, CallsKept,
         P!ReleaseSlot, P!ReleaseSlotTx, P!SlotWithout, P!attemptVars, P!callVars
<1>2. P!Next
  BY <1>1 DEF P!Next, P!EventStep
<1>3. RowQuiet
  BY NullAssumption
     DEF Inv, RowFitsFlow, RefusalsAreTrue, RowQuiet, LeaseValid, attemptVars,
         ReleaseSlotTx, SlotWithout
<1> QED
  BY <1>2, <1>3 DEF Quiet

LEMMA ClaimQuiet ==
    ASSUME Inv, CallsKept, NEW p \in Process \cap Token,
           CanClaimMessage(job, p), TryRow(TRUE, ClaimMessage(job))
    PROVE  Quiet
<1>1. P!ClaimMessageStep(p)
  BY DEF TryRow, CanClaimMessage, Publishing, LeaseValid, ClaimMessage, Terminal,
         attemptVars, CallsKept, P!ClaimMessageStep, P!RowChange,
         P!CanClaimMessage, P!Publishing, P!LeaseValid, P!ClaimMessage,
         P!Terminal, P!attemptVars, P!callVars
<1>2. P!Next
  BY <1>1 DEF P!Next, P!WorkStep
<1>3. RowQuiet
  BY DEF Inv, TypeOK, JobRow, RowFitsFlow, RefusalsAreTrue, TryRow,
         ClaimMessage, attemptVars, RowQuiet, LeaseValid
<1> QED
  BY <1>2, <1>3 DEF Quiet

LEMMA ExhaustedQuiet ==
    ASSUME Inv, CallsKept, NEW p \in Process \cap Token,
           TryRow(CanMarkExhausted(job, p), MarkExhausted(job))
    PROVE  Quiet
<1>1. CASE ~CanMarkExhausted(job, p)
  BY <1>1, SameRowsQuiet DEF TryRow, dbVars, attemptVars
<1>2. CASE CanMarkExhausted(job, p)
  <2>1. P!MarkExhaustedStep(p)
    BY <1>2 DEF TryRow, CanMarkExhausted, Publishing, LeaseValid, MarkExhausted,
                Terminal, attemptVars, CallsKept, P!MarkExhaustedStep,
                P!RowChange, P!CanMarkExhausted, P!Publishing, P!LeaseValid,
                P!MarkExhausted, P!Terminal, P!attemptVars, P!callVars
  <2>2. P!Next
    BY <2>1 DEF P!Next, P!WorkStep
  <2>3. RowQuiet
    BY <1>2 DEF Inv, TypeOK, JobRow, RowFitsFlow, RefusalsAreTrue, TryRow,
                MarkExhausted, attemptVars, RowQuiet, LeaseValid
  <2> QED
    BY <2>2, <2>3 DEF Quiet
<1> QED
  BY <1>1, <1>2

LEMMA PublishedQuiet ==
    ASSUME Inv, CallsKept, NEW p \in Process \cap Token,
           CanMarkPublished(job, p, PayloadStatus(job.result)),
           TryRow(TRUE, MarkPublished(job, PayloadStatus(job.result)))
    PROVE  Quiet
<1> DEFINE final == PayloadStatus(job.result)
<1>1. P!MarkPublishedStep(p, final)
  BY DEF TryRow, CanMarkPublished, Publishing, LeaseValid, MarkPublished,
         Terminal, PayloadStatus, attemptVars, CallsKept, P!MarkPublishedStep,
         P!RowChange, P!CanMarkPublished, P!Publishing, P!LeaseValid,
         P!MarkPublished, P!PayloadStatus, P!Terminal, P!attemptVars, P!callVars
<1>2. final \in Terminal
  BY DEF PayloadStatus, Terminal
<1>3. P!Next
  BY <1>1, <1>2 DEF P!Next, P!WorkStep, Terminal, P!Terminal
<1>4. RowQuiet
  BY <1>2, NullAssumption
     DEF Inv, TypeOK, JobRow, RowFitsFlow, RefusalsAreTrue, TryRow, NextAction,
         MarkPublished, attemptVars, RowQuiet, LeaseValid, PayloadStatus
<1> QED
  BY <1>3, <1>4 DEF Quiet

-----------------------------------------------------------------------------
(* How processes move.                                                     *)

LEMMA WhereTheyAre ==
    ASSUME Inv, NEW p \in Process
    PROVE  /\ loc[p] \in Local /\ (loc[p].pc # "send" => p \notin Sender)
           /\ loc[p].pc \notin {"idle", "event", "apply", "fill", "conflict",
                                "slot", "publish"}
                => p \notin Hook /\ p \in Process \cap Token
           /\ loc[p].pc \notin {"idle", "event", "apply", "fill", "conflict",
                                "slot", "publish", "claim", "mark", "release"}
                => p \in Holder /\ \A pc \in Pc : KindAllows(p, pc)
BY Processes DEF Inv, TypeOK, KindsKept, KindAllows, Sender, At, Process

LEMMA GoCalls ==
    ASSUME Inv, NEW p \in Process, NEW pc \in Pc, loc[p].pc # "send",
           pc # "send", Go(p, pc), fate' = fate
    PROVE  CallsKept
<1> DEFINE l == IF pc = "idle" THEN AtRest ELSE [loc[p] EXCEPT !.pc = pc]
<1>1. l \in Local /\ l.pc # "send"
  BY WhereTheyAre DEF Local, AtRest, Pc
<1>2. loc' = [loc EXCEPT ![p] = l]
  BY DEF Go
<1> QED
  BY <1>1, <1>2, SameCalls DEF CallsKept

LEMMA GoKeeps ==
    ASSUME Inv, Quiet, NEW p \in Process, NEW pc \in Pc, loc[p].pc # "send",
           pc # "send", Go(p, pc), fate' = fate, KindAllows(p, pc),
           pc # "idle" => KnowsTheTruth([loc[p] EXCEPT !.pc = pc]),
           msg' \in BOOLEAN, claimed' \in Claim,
           followUp' \in SUBSET {"POSTPROCESS", "RUN_FALLBACK"},
           faults' \in 0..MaxFaults,
           ~msg' \/ pc \in DeletePc =>
             ~msg \/ loc[p].pc \in DeletePc \/ PastRequest \/ PastRequest'
    PROVE  Kept
<1> DEFINE l == IF pc = "idle" THEN AtRest ELSE [loc[p] EXCEPT !.pc = pc]
<1>1. l \in Local /\ l.pc = pc
  BY WhereTheyAre DEF Local, AtRest, Pc
<1>2. loc' = [loc EXCEPT ![p] = l]
  BY DEF Go
<1>3. KnowsTheTruth(l)
  BY DEF KnowsTheTruth, AtRest
<1> HIDE DEF l
<1> QED
  BY <1>1, <1>2, <1>3, MoveKeeps

\* Where a process needs to know nothing.
PlainPc == {"idle", "handover", "acquire", "check", "precheck", "prepare",
            "grant", "regrant", "decide", "release", "releaseDelete", "delete",
            "claim", "mark"}

LEMMA PlainGoKeeps ==
    ASSUME Inv, Quiet, NEW p \in Process, NEW pc \in PlainPc,
           loc[p].pc # "send", Go(p, pc), KindAllows(p, pc),
           UNCHANGED <<msg, followUp, claimed, fate>>, faults' \in 0..MaxFaults,
           pc \in DeletePc => ~msg \/ loc[p].pc \in DeletePc \/ PastRequest \/ PastRequest'
    PROVE  Kept
<1>1. pc \in Pc /\ pc # "send"
  BY DEF PlainPc, Pc
<1>2. KnowsTheTruth([loc[p] EXCEPT !.pc = pc])
  BY WhereTheyAre DEF KnowsTheTruth, PlainPc, Local
<1>3. /\ msg' \in BOOLEAN /\ claimed' \in Claim
      /\ followUp' \in SUBSET {"POSTPROCESS", "RUN_FALLBACK"}
  BY DEF Inv, TypeOK
<1> QED
  BY <1>1, <1>2, <1>3, GoKeeps

LEMMA PlainMoveKeeps ==
    ASSUME Inv, Quiet, NEW p \in Process, NEW pc \in PlainPc,
           loc[p].pc # "send", Moves(p, pc), KindAllows(p, pc),
           pc \in DeletePc => ~msg \/ loc[p].pc \in DeletePc \/ PastRequest \/ PastRequest'
    PROVE  Kept
BY PlainGoKeeps DEF Moves, Inv, TypeOK

LEMMA MovesCalls ==
    ASSUME Inv, NEW p \in Process, NEW pc \in Pc, loc[p].pc # "send",
           pc # "send", Moves(p, pc)
    PROVE  CallsKept
BY GoCalls DEF Moves

LEMMA FaultType == ASSUME Inv, Fault PROVE faults' \in 0..MaxFaults
BY ProcessAssumption DEF Inv, TypeOK, Fault

LEMMA FailsKeeps ==
    ASSUME Inv, NEW p \in Process, NEW pc \in PlainPc, loc[p].pc # "send",
           Fails(p, pc), KindAllows(p, pc),
           pc \in DeletePc => loc[p].pc \in DeletePc
    PROVE  Kept
<1>1. CallsKept
  BY GoCalls DEF Fails, PlainPc, Pc
<1>2. Quiet
  BY <1>1, SameRowsQuiet DEF Fails
<1>3. pc \in Pc /\ pc # "send" /\ KnowsTheTruth([loc[p] EXCEPT !.pc = pc])
  BY WhereTheyAre DEF KnowsTheTruth, PlainPc, Pc, Local
<1>4. claimed' \in Claim
  BY DEF Fails, ClaimLeft, Claim, Inv, TypeOK
<1>5. /\ Go(p, pc) /\ fate' = fate /\ msg' = msg /\ msg' \in BOOLEAN
      /\ followUp' \in SUBSET {"POSTPROCESS", "RUN_FALLBACK"}
      /\ faults' \in 0..MaxFaults
  BY FaultType DEF Fails, Inv, TypeOK
<1> QED
  BY <1>2, <1>3, <1>4, <1>5, GoKeeps

\* No process but the row's owner and the senders counts for PastRequest.
LEMMA PastOtherwise ==
    ASSUME Inv, job.nextAction # "SUBMIT_PRUNA" \/ job.status \in Terminal
    PROVE  PastRequest /\ job.nextAction # "SUBMIT_PRUNA"
<1>1. job.nextAction # "SUBMIT_PRUNA"
  BY DEF Inv, P!IInv, P!NextActionMatchesStatus, P!ActionMatchesStatus, Terminal
<1> QED
  BY <1>1 DEF Inv, SenderIsAlone, PastRequest

LEMMA PastOwner ==
    ASSUME Inv, NEW p \in Process, p \notin Sender, Owns(p), job.started
    PROVE  PastRequest
BY DEF PastRequest, Owns, LeaseValid

-----------------------------------------------------------------------------
(* The Request Worker.                                                     *)

LEMMA ReceiveKeeps ==
    ASSUME Inv, NEW w \in Worker, Receive(w)
    PROVE  Kept
<1> DEFINE over == job.status \in Terminal /\ job.msgStatus = "PUBLISHED"
           open == job.status \notin Terminal /\ job.nextAction = "SUBMIT_PRUNA"
           pc == CASE over -> "delete" [] open -> "acquire" [] OTHER -> "handover"
<1>1. /\ w \in Process /\ w \in Holder /\ loc[w].pc = "idle"
      /\ \A c \in Pc : KindAllows(w, c)
  BY Processes DEF Receive, At, Holder, KindAllows
<1>2. pc \in PlainPc /\ pc \in Pc /\ pc # "send" /\ (pc = "acquire" <=> open)
  BY DEF PlainPc, Pc
<1>3. Moves(w, pc) /\ UNCHANGED dbVars
  BY DEF Receive
<1>4. pc \in DeletePc => PastRequest
  BY <1>2, PastOtherwise DEF DeletePc
<1> HIDE DEF pc
<1>5. CallsKept
  BY <1>1, <1>2, <1>3, MovesCalls
<1>6. Quiet
  BY <1>3, <1>5, SameRowsQuiet
<1> QED
  BY <1>1, <1>2, <1>3, <1>4, <1>6, PlainMoveKeeps

LEMMA PublishKeeps ==
    ASSUME Inv, NEW p \in Process, loc[p].pc # "send",
           NEW a \in {"POSTPROCESS", "RUN_FALLBACK"},
           NEW yes \in PlainPc, NEW no \in PlainPc,
           KindAllows(p, yes), KindAllows(p, no),
           yes \in DeletePc => loc[p].pc \in DeletePc,
           no \in DeletePc => loc[p].pc \in DeletePc,
           Publish(p, a, yes, no)
    PROVE  Kept
<1>1. CASE Fails(p, no)
  BY <1>1, FailsKeeps
<1>2. CASE /\ followUp' = followUp \cup {a} /\ Go(p, yes)
           /\ UNCHANGED <<dbVars, msg, claimed, fate, faults>>
  <2>1. yes \in Pc /\ yes # "send"
    BY DEF PlainPc, Pc
  <2>2. CallsKept
    BY <1>2, <2>1, GoCalls
  <2>3. Quiet
    BY <1>2, <2>2, SameRowsQuiet
  <2>4. KnowsTheTruth([loc[p] EXCEPT !.pc = yes])
    BY WhereTheyAre DEF KnowsTheTruth, PlainPc, Local
  <2>5. /\ msg' \in BOOLEAN /\ claimed' \in Claim /\ faults' \in 0..MaxFaults
        /\ followUp' \in SUBSET {"POSTPROCESS", "RUN_FALLBACK"}
    BY <1>2 DEF Inv, TypeOK
  <2> QED
    BY <1>2, <2>1, <2>3, <2>4, <2>5, GoKeeps
<1> QED
  BY <1>1, <1>2 DEF Publish

LEMMA SameRowsMoveKeeps ==
    ASSUME Inv, NEW p \in Process, NEW pc \in PlainPc, loc[p].pc # "send",
           Moves(p, pc), UNCHANGED dbVars, KindAllows(p, pc),
           pc \in DeletePc => loc[p].pc \in DeletePc \/ PastRequest
    PROVE  Kept
<1>1. CallsKept
  BY MovesCalls DEF PlainPc, Pc
<1> QED
  BY <1>1, SameRowsQuiet, PlainMoveKeeps

LEMMA DecideDeleteKeeps ==
    ASSUME Inv, NEW p \in Process, loc[p].pc \in {"handover", "decide"},
           NEW yes \in PlainPc, NEW no \in PlainPc, DecideDelete(p, yes, no)
    PROVE  Kept
<1>1. KindAllows(p, yes) /\ KindAllows(p, no) /\ loc[p].pc \in DeletePc
  BY WhereTheyAre DEF PlainPc, Pc, DeletePc
<1> QED
  BY <1>1, PublishKeeps, SameRowsMoveKeeps DEF DecideDelete

LEMMA HandOverKeeps == ASSUME Inv, NEW p \in Process, HandOver(p) PROVE Kept
BY DecideDeleteKeeps DEF HandOver, At, PlainPc

LEMMA DecideKeeps == ASSUME Inv, NEW p \in Process, Decide(p) PROVE Kept
BY DecideDeleteKeeps DEF Decide, At, PlainPc

LEMMA WorkerAcquiresKeeps ==
    ASSUME Inv, NEW p \in Process, WorkerAcquires(p)
    PROVE  Kept
<1> DEFINE can == CanAcquireLease(job, "SUBMIT_PRUNA")
<1>1. /\ p \in Process \cap Token /\ p \notin Sender /\ loc[p].pc = "acquire"
      /\ \A pc \in Pc : KindAllows(p, pc)
  BY WhereTheyAre DEF WorkerAcquires, At
<1>2. PICK pc \in {"idle", "check", "precheck"} :
         Moves(p, pc) /\ (pc = "check" => can /\ job.started)
  BY DEF WorkerAcquires
<1>3. CallsKept
  BY <1>1, <1>2, MovesCalls DEF Pc
<1>4. Quiet
  BY <1>1, <1>3, AcquireQuiet DEF WorkerAcquires, NextAction
<1>5. pc = "check" => PastRequest
  BY <1>2, NullAssumption, SenderFacts
     DEF CanAcquireLease, PastRequest, Owns, LeaseValid
<1> QED
  BY <1>1, <1>2, <1>4, <1>5, PlainMoveKeeps DEF PlainPc, Pc, DeletePc

LEMMA WatchdogAcquiresKeeps ==
    ASSUME Inv, NEW p \in Process, WatchdogAcquires(p)
    PROVE  Kept
<1>1. /\ p \in Process \cap Token /\ p \notin Sender /\ loc[p].pc = "acquire"
      /\ \A pc \in Pc : KindAllows(p, pc)
  BY WhereTheyAre DEF WatchdogAcquires, At
<1>2. PICK pc \in {"idle", "precheck", "release"} : Moves(p, pc)
  BY DEF WatchdogAcquires
<1>3. CallsKept
  BY <1>1, <1>2, MovesCalls DEF Pc
<1>4. Quiet
  BY <1>1, <1>3, AcquireQuiet DEF WatchdogAcquires, NextAction
<1> QED
  BY <1>1, <1>2, <1>4, PlainMoveKeeps DEF PlainPc, Pc, DeletePc

LEMMA CheckKeeps == ASSUME Inv, NEW p \in Process, Check(p) PROVE Kept
<1>1. loc[p].pc = "check" /\ \A pc \in Pc : KindAllows(p, pc)
  BY WhereTheyAre DEF Check, At
<1> QED
  BY <1>1, SameRowsMoveKeeps DEF Check, PlainPc, Pc, DeletePc

LEMMA PrecheckPassesKeeps ==
    ASSUME Inv, NEW p \in Process, PrecheckPasses(p)
    PROVE  Kept
<1>1. loc[p].pc = "precheck" /\ \A pc \in Pc : KindAllows(p, pc)
  BY WhereTheyAre DEF PrecheckPasses, At
<1> QED
  BY <1>1, SameRowsMoveKeeps DEF PrecheckPasses, PlainPc, Pc, DeletePc

LEMMA PrecheckFailsKeeps ==
    ASSUME Inv, NEW p \in Process, PrecheckFails(p)
    PROVE  Kept
<1> DEFINE pc == IF p \in Worker /\ Owns(p) THEN "check" ELSE "release"
<1>1. /\ p \in Process \cap Token /\ p \notin Sender /\ loc[p].pc = "precheck"
      /\ \A c \in Pc : KindAllows(p, c)
  BY WhereTheyAre DEF PrecheckFails, At
<1>2. pc \in {"check", "release"} /\ (pc = "check" => Owns(p)) /\ Moves(p, pc)
  BY DEF PrecheckFails
<1> HIDE DEF pc
<1>3. CallsKept
  BY <1>1, <1>2, MovesCalls DEF Pc
<1>4. Quiet
  BY <1>1, <1>3, SaveQuiet DEF PrecheckFails
<1>5. pc = "check" => PastRequest'
  <2> SUFFICES ASSUME pc = "check" PROVE PastRequest'
    OBVIOUS
  <2>1. Inv => job \in JobRow
    BY DEF Inv, TypeOK
  <2>2. job'.lease = p /\ job'.nextAction # "SUBMIT_PRUNA"
    <3>1. CASE CanSaveResult(job, p)
      BY <1>2, <2>1, <3>1
         DEF PrecheckFails, TryRow, SaveResult, Owns, LeaseValid, JobRow
    <3>2. CASE ~CanSaveResult(job, p)
      <4>1. job' = job /\ (job.status \in Terminal \/ job.result # NULL)
        BY <1>2, <3>2 DEF PrecheckFails, TryRow, CanSaveResult, Owns
      <4>2. job.nextAction # "SUBMIT_PRUNA"
        BY <4>1 DEF Inv, P!IInv, P!NextActionMatchesStatus,
                    P!ActionMatchesStatus, Terminal, P!Terminal
      <4> QED
        BY <1>2, <4>1, <4>2 DEF Owns, LeaseValid
    <3> QED
      BY <3>1, <3>2
  <2>3. Sender' = Sender
    BY <1>1, <1>2, WhereTheyAre
       DEF Inv, TypeOK, Moves, Go, Sender, At, Local, AtRest, Process
  <2> QED
    BY <1>1, <2>2, <2>3 DEF PastRequest, Owns, LeaseValid
<1> QED
  BY <1>1, <1>2, <1>4, <1>5, PlainMoveKeeps DEF PlainPc, Pc, DeletePc

LEMMA ReleaseKeeps == ASSUME Inv, NEW p \in Process, Release(p) PROVE Kept
<1>1. /\ p \in Process \cap Token /\ p \notin Sender /\ loc[p].pc # "send"
      /\ loc[p].pc = "releaseDelete" => \A c \in Pc : KindAllows(p, c)
      /\ KindAllows(p, "idle")
  BY WhereTheyAre DEF Release, KindAllows
<1>2. PICK pc \in {"delete", "idle"} :
         Moves(p, pc) /\ (pc = "delete" => loc[p].pc = "releaseDelete")
  BY DEF Release, At
<1>3. CallsKept
  BY <1>1, <1>2, MovesCalls DEF Pc
<1>4. Quiet
  BY <1>1, <1>3, ReleaseQuiet DEF Release, Owns
<1> QED
  BY <1>1, <1>2, <1>4, PlainMoveKeeps DEF PlainPc, Pc, DeletePc

LEMMA DeleteKeeps == ASSUME Inv, NEW p \in Process, Delete(p) PROVE Kept
<1>1. loc[p].pc = "delete" /\ KindAllows(p, "idle")
  BY DEF Delete, At, KindAllows
<1>2. CallsKept
  BY <1>1, GoCalls DEF Delete, Pc
<1>3. Quiet
  BY <1>2, SameRowsQuiet DEF Delete
<1>4. /\ msg' \in BOOLEAN /\ claimed' \in Claim /\ faults' \in 0..MaxFaults
      /\ followUp' \in SUBSET {"POSTPROCESS", "RUN_FALLBACK"}
  BY DEF Delete, Inv, TypeOK
<1> QED
  BY <1>1, <1>3, <1>4, GoKeeps DEF Delete, Pc, DeletePc

-----------------------------------------------------------------------------
(* The submitter: who may send, who sends, and who gives the grant back.   *)

LEMMA PrepareKeeps == ASSUME Inv, NEW p \in Process, Prepare(p) PROVE Kept
<1>1. /\ p \in Process \cap Token /\ p \notin Sender /\ loc[p].pc = "prepare"
      /\ \A pc \in Pc : KindAllows(p, pc)
  BY WhereTheyAre DEF Prepare, At
<1>2. ASSUME NEW t \in Task, NewTask(t), CanPreparePruna(job, p),
             TryRow(TRUE, PreparePruna(job, t, TRUE)), Moves(p, "grant")
      PROVE  Kept
  <2>1. CallsKept
    BY <1>1, <1>2, MovesCalls DEF Pc
  <2>2. Quiet
    BY <1>1, <1>2, <2>1, PrepareQuiet
  <2> QED
    BY <1>1, <1>2, <2>2, PlainMoveKeeps DEF PlainPc, Pc, DeletePc
<1>3. CASE /\ Moves(p, IF Owns(p) /\ job.task # NULL THEN AfterPrepare(job)
                       ELSE "release")
           /\ UNCHANGED dbVars
  <2>1. PICK pc \in {"release", "regrant", "decide", "grant"} :
           Moves(p, pc) /\ (pc = "decide" => Owns(p) /\ job.started)
    BY <1>3 DEF AfterPrepare
  <2>2. pc = "decide" => PastRequest
    BY <1>1, <2>1, PastOwner
  <2> QED
    BY <1>1, <1>3, <2>1, <2>2, SameRowsMoveKeeps DEF PlainPc, Pc, DeletePc
<1> QED
  BY <1>2, <1>3 DEF Prepare

LEMMA RecheckFailsKeeps ==
    ASSUME Inv, NEW p \in Process, RecheckFails(p)
    PROVE  Kept
<1>1. /\ p \in Process \cap Token /\ p \notin Sender
      /\ loc[p].pc \in {"grant", "regrant"}
      /\ \A pc \in Pc : KindAllows(p, pc)
  BY WhereTheyAre DEF RecheckFails
<1>2. CallsKept
  BY <1>1, MovesCalls DEF RecheckFails, Pc
<1>3. Quiet
  BY <1>1, <1>2, SaveQuiet DEF RecheckFails
<1> QED
  BY <1>1, <1>3, PlainMoveKeeps DEF RecheckFails, PlainPc, Pc, DeletePc

\* Both grants: nobody could send before, and now only p can.
LEMMA GrantedFacts ==
    ASSUME Inv, NEW p \in Process, loc[p].pc \in {"grant", "regrant"},
           NEW t \in Task, Granted(p, t), Sender = {}
    PROVE  /\ p \in Token /\ Unsent = NULL
           /\ Sender' = {p} /\ loc'[p].task = t
           /\ Unsent' = <<t, p>> /\ Sent' = Sent
           /\ KindsKept' /\ ReportsAreTrue'
           /\ \A q \in Process : loc'[q].pc \in DeletePc => loc[q].pc \in DeletePc
           /\ loc' \in [Process -> Local]
           /\ UNCHANGED <<msg, followUp, claimed, fate, faults>>
<1> DEFINE l == [loc[p] EXCEPT !.pc = "send", !.task = t]
<1>1. /\ p \in Token /\ p \in Holder
      /\ \A pc \in Pc : KindAllows(p, pc)
  BY WhereTheyAre
<1>2. l \in Local /\ l.pc = "send" /\ l.task = t
  BY WhereTheyAre DEF Local, Pc
<1>3. loc' = [loc EXCEPT ![p] = l]
  BY DEF Granted
<1> HIDE DEF l
<1>4. loc \in [Process -> Local]
  BY DEF Inv, TypeOK
<1>5. UNCHANGED <<msg, followUp, claimed, fate, faults>>
  BY DEF Granted
<1>6. loc' \in [Process -> Local] /\ KindsKept' /\ ReportsAreTrue'
  BY <1>1, <1>2, <1>3, <1>5, KnowledgeKeeps DEF KnowsTheTruth, Pc
<1>7. \A q \in Holder : loc'[q].pc = "send" <=> q = p
  BY <1>1, <1>2, <1>3, <1>4, Processes DEF Sender, At
<1>8. Sender' = {p} /\ loc'[p].task = t
  BY <1>1, <1>2, <1>3, <1>4, <1>7 DEF Sender, At
<1>9. Unsent' = <<t, p>>
  BY <1>8 DEF Unsent
<1>10. Unsent = NULL
  BY DEF Unsent
<1>11. Sent' = Sent
  BY <1>5 DEF Sent
<1>12. \A q \in Process : loc'[q].pc \in DeletePc => loc[q].pc \in DeletePc
  BY <1>2, <1>3, <1>4 DEF DeletePc
<1> QED
  BY <1>1, <1>5, <1>6, <1>8, <1>9, <1>10, <1>11, <1>12

\* What is left to show after a grant is about the task it was given to.
LEMMA GrantedKeeps ==
    ASSUME Inv, NEW p \in Process, loc[p].pc \in {"grant", "regrant"},
           NEW t \in Task, Granted(p, t), Sender = {}, P!Next,
           fate[t] = "none", slot' = t, slot \in {NULL, t},
           job'.nextAction = "SUBMIT_PRUNA", rejected' = rejected, RowFitsFlow',
           PastRequest => job'.started /\ attempts'[t] > 1
    PROVE  Kept
<1>1. P!IInv'
  BY StepKeepsIInv DEF Inv
<1>2. TypeOK' /\ KindsKept' /\ ReportsAreTrue'
  BY <1>1, TypesOfRows, GrantedFacts DEF Inv, TypeOK
<1>3. SenderIsAlone'
  BY GrantedFacts DEF SenderIsAlone
<1>4. RefusalsAreTrue'
  BY GrantedFacts DEF Inv, RefusalsAreTrue, Generated
<1>5. RunningHoldsSlot'
  BY GrantedFacts, NullAssumption DEF Inv, RunningHoldsSlot
<1>6. MessageUntilPast'
  BY GrantedFacts DEF Inv, MessageUntilPast, PastRequest
<1> QED
  BY <1>1, <1>2, <1>3, <1>4, <1>5, <1>6 DEF Inv, Kept

LEMMA GrantKeeps == ASSUME Inv, NEW p \in Process, Grant(p) PROVE Kept
<1>1. /\ p \in Process \cap Token /\ loc[p].pc = "grant"
      /\ \A pc \in Pc : KindAllows(p, pc)
  BY WhereTheyAre DEF Grant, At
<1>2. CASE BeginSubmissionTx(p) /\ Granted(p, job.task)
  <2> DEFINE t == job.task
  <2>1. /\ t \in Task /\ ~job.started /\ job.nextAction = "SUBMIT_PRUNA"
        /\ job \in JobRow
    BY <1>2 DEF BeginSubmissionTx, CanBeginSubmission, Inv, TypeOK, JobRow
  <2>2. Sender = {}
    BY <2>1, SenderFacts
  <2>3. Sent = {} /\ slot = NULL
    BY <2>1 DEF Inv, P!IInv, P!UnstartedIsClean
  <2>4. fate[t] = "none" /\ slot' = t
    BY <1>2, <2>1, <2>3 DEF Sent, BeginSubmissionTx
  <2>5. Unsent' = <<t, p>> /\ Sent' = Sent
    BY <1>1, <1>2, <2>1, <2>2, GrantedFacts
  <2>6. P!BeginSubmission(p)
    BY <1>2, <2>5
       DEF BeginSubmissionTx, CanBeginSubmission, LeaseValid,
           P!BeginSubmission, P!BeginSubmissionTx, P!CanBeginSubmission,
           P!LeaseValid
  <2>7. P!Next
    BY <1>1, <2>6 DEF P!Next, P!SubmitStep
  <2>8. job'.nextAction = "SUBMIT_PRUNA" /\ rejected' = rejected /\ RowFitsFlow'
    BY <1>2, <2>1 DEF BeginSubmissionTx, JobRow, Inv, RowFitsFlow
  <2>9. ~PastRequest
    BY <2>1 DEF PastRequest
  <2> QED
    BY <1>1, <1>2, <2>1, <2>2, <2>3, <2>4, <2>7, <2>8, <2>9, GrantedKeeps
<1>3. CASE Moves(p, "release") /\ UNCHANGED dbVars
  BY <1>1, <1>3, SameRowsMoveKeeps DEF PlainPc, Pc, DeletePc
<1> QED
  BY <1>2, <1>3 DEF Grant

LEMMA RegrantKeeps == ASSUME Inv, NEW p \in Process, Regrant(p) PROVE Kept
<1>1. /\ p \in Process \cap Token /\ loc[p].pc = "regrant"
      /\ \A pc \in Pc : KindAllows(p, pc)
  BY WhereTheyAre DEF Regrant, At
<1>2. ASSUME NEW t \in Task, NewTask(t), BeginRetryTx(p, t), Granted(p, t)
      PROVE  Kept
  <2>1. /\ job.task \in rejected /\ job.nextAction = "SUBMIT_PRUNA"
        /\ job.started /\ slot \in {NULL, t}
    BY <1>2 DEF BeginRetryTx, CanBeginRetry
  <2>2. Sender = {}
    BY <2>1, SenderFacts
  <2>3. fate[t] = "none"
    BY <1>2 DEF NewTask
  <2>4. Unsent' = <<t, p>> /\ Sent' = Sent
    BY <1>1, <1>2, <2>2, GrantedFacts
  <2>5. P!BeginRetry(p, t)
    BY <1>2, <2>4, UnusedTask
       DEF BeginRetryTx, CanBeginRetry, LastAttempt, LeaseValid,
           P!BeginRetry, P!BeginRetryTx, P!CanBeginRetry, P!LastAttempt,
           P!LeaseValid
  <2>6. P!Next
    BY <1>1, <2>5 DEF P!Next, P!SubmitStep
  <2>7. /\ job'.nextAction = "SUBMIT_PRUNA" /\ rejected' = rejected
        /\ job'.started /\ slot' = t /\ RowFitsFlow'
    BY <1>2, <2>1 DEF BeginRetryTx, JobRow, Inv, TypeOK, RowFitsFlow
  <2>8. attempts'[t] > 1
    <3>1. PICK n \in 1..(PrunaSubmitLimit - 1) :
             attempts' = [attempts EXCEPT ![t] = n + 1]
      BY <1>2 DEF BeginRetryTx
    <3>2. attempts'[t] = n + 1
      BY <3>1 DEF Inv, TypeOK
    <3> QED
      BY <3>2, LimitAssumption
  <2> QED
    BY <1>1, <1>2, <2>1, <2>2, <2>3, <2>6, <2>7, <2>8, GrantedKeeps
<1>3. CASE Moves(p, "release") /\ UNCHANGED dbVars
  BY <1>1, <1>3, SameRowsMoveKeeps DEF PlainPc, Pc, DeletePc
<1> QED
  BY <1>2, <1>3 DEF Regrant

\* The process that could send goes elsewhere: there is no grant any more.
LEMMA StopsSending ==
    ASSUME Inv, NEW p \in Sender, NEW pc \in PlainPc \cup {"http"}, Go(p, pc)
    PROVE  /\ Sender' = {} /\ Unsent' = NULL
           /\ \E l \in Local :
                /\ loc' = [loc EXCEPT ![p] = l] /\ l.pc = pc
                /\ pc = "http" => l.task = loc[p].task
<1> DEFINE l == IF pc = "idle" THEN AtRest ELSE [loc[p] EXCEPT !.pc = pc]
<1>1. p \in Process /\ Sender = {p} /\ loc \in [Process -> Local]
  BY SenderFacts DEF Inv, TypeOK
<1>2. /\ l \in Local /\ l.pc = pc /\ pc # "send"
      /\ pc = "http" => l.task = loc[p].task
  BY <1>1 DEF Local, AtRest, Pc, PlainPc
<1>3. loc' = [loc EXCEPT ![p] = l]
  BY DEF Go
<1> HIDE DEF l
<1>4. Sender' = {}
  BY <1>1, <1>2, <1>3, Processes DEF Sender, At
<1>5. Unsent' = NULL
  BY <1>4 DEF Unsent
<1> QED
  BY <1>2, <1>3, <1>4, <1>5

LEMMA StopsSendingKeeps ==
    ASSUME Inv, NEW p \in Sender, NEW pc \in {"idle", "release"}, Go(p, pc),
           P!Next, fate' = fate, UNCHANGED <<msg, followUp, claimed>>,
           faults' \in 0..MaxFaults,
           rejected' \subseteq rejected, slot' \in {slot, NULL},
           RowFitsFlow',
           PastRequest => job'.started \/ job'.nextAction # "SUBMIT_PRUNA"
    PROVE  Kept
<1>1. /\ p \in Process /\ slot = loc[p].task /\ fate[loc[p].task] = "none"
      /\ loc \in [Process -> Local] /\ \A c \in Pc : KindAllows(p, c)
  BY SenderFacts, WhereTheyAre DEF Inv, SenderIsAlone, TypeOK
<1>2. PICK l \in Local : loc' = [loc EXCEPT ![p] = l] /\ l.pc = pc
  BY StopsSending DEF PlainPc
<1>3. Sender' = {}
  BY StopsSending DEF PlainPc
<1>4. P!IInv'
  BY StepKeepsIInv DEF Inv
<1>5. KnowsTheTruth(l)'
  BY <1>2 DEF KnowsTheTruth
<1>6. KindsKept' /\ ReportsAreTrue' /\ loc' \in [Process -> Local]
  BY <1>1, <1>2, <1>5, KnowledgeKeeps DEF Pc
<1>7. TypeOK'
  BY <1>4, <1>6, TypesOfRows DEF Inv, TypeOK
<1>8. SenderIsAlone'
  BY <1>3 DEF SenderIsAlone
<1>9. RefusalsAreTrue'
  BY DEF Inv, RefusalsAreTrue, Generated
<1>10. RunningHoldsSlot'
  BY <1>1 DEF Inv, RunningHoldsSlot
<1>11. MessageUntilPast'
  <2> SUFFICES ASSUME ~msg' \/ \E q \in Process : loc'[q].pc \in DeletePc
               PROVE  PastRequest'
    BY DEF MessageUntilPast
  <2>1. ~msg \/ \E q \in Process : loc[q].pc \in DeletePc
    BY <1>1, <1>2 DEF DeletePc
  <2> QED
    BY <1>3, <2>1 DEF Inv, MessageUntilPast, PastRequest
<1> QED
  BY <1>4, <1>6, <1>7, <1>8, <1>9, <1>10, <1>11 DEF Inv, Kept

LEMMA InputRefusedKeeps ==
    ASSUME Inv, NEW p \in Process, InputRefused(p)
    PROVE  Kept
<1> DEFINE t == loc[p].task
<1>1. p \in Sender
  BY WhereTheyAre DEF InputRefused, At, Sender
<1>2. /\ Go(p, "release") /\ fate' = fate /\ UNCHANGED <<msg, followUp, claimed>>
      /\ faults' \in 0..MaxFaults /\ CancelUnsentTx(t, p)
  BY FaultType DEF InputRefused
<1>3. /\ Unsent = <<t, p>> /\ Unsent # NULL /\ job.started /\ t \in Task
      /\ slot = job.task /\ job.task = t
  BY <1>1, SenderFacts
<1>4. Unsent' = NULL /\ Sent' = Sent
  BY <1>1, <1>2, StopsSending DEF PlainPc, Sent
<1>5. P!CancelUnsent
  BY <1>2, <1>3, <1>4
     DEF CancelUnsentTx, CancelApplies, LeaseValid, dbVars, attemptVars,
         P!CancelUnsent, P!CancelUnsentTx, P!CancelApplies, P!LeaseValid,
         P!dbVars, P!attemptVars
<1>6. P!Next
  BY <1>5 DEF P!Next, P!SubmitStep
<1>7. /\ rejected' \subseteq rejected /\ slot' \in {slot, NULL}
      /\ job'.status = job.status /\ job'.nextAction = job.nextAction
      /\ job'.accepted = job.accepted /\ job'.fbTask = job.fbTask
      /\ job'.started = job.started \/ ~job.accepted
  <2>1. CASE ~CancelApplies(t, p)
    BY <1>2, <2>1 DEF CancelUnsentTx, dbVars, attemptVars
  <2>2. CASE CancelApplies(t, p)
    <3>1. ~job.accepted
      BY <2>2 DEF CancelApplies
    <3>2. rejected' = rejected \ {t} /\ slot' = NULL
      BY <1>2, <2>2 DEF CancelUnsentTx
    <3>3. job \in JobRow
      BY DEF Inv, TypeOK
    <3>4. CASE job' = [job EXCEPT !.started = FALSE]
      BY <3>1, <3>2, <3>3, <3>4 DEF JobRow
    <3>5. CASE \E u \in Task :
                 job' = [job EXCEPT !.task = u, !.retryAt = "due",
                                    !.notAccepted = (u \in rejected)]
      BY <3>1, <3>2, <3>3, <3>5 DEF JobRow
    <3> QED
      BY <1>2, <2>2, <3>4, <3>5 DEF CancelUnsentTx
  <2> QED
    BY <2>1, <2>2
<1>8. RowFitsFlow'
  BY <1>7 DEF Inv, RowFitsFlow
<1>9. PastRequest => job'.started
  <2> SUFFICES ASSUME PastRequest PROVE job'.started
    OBVIOUS
  <2>1. CASE ~CancelApplies(t, p)
    BY <1>2, <1>3, <2>1 DEF CancelUnsentTx, dbVars
  <2>2. CASE CancelApplies(t, p)
    <3>1. attempts[t] > 1
      BY <1>1, <2>2 DEF PastRequest, Owns, CancelApplies
    <3>2. PICK r \in rejected : attempts[r] = attempts[t] - 1
      BY <1>3, <3>1 DEF Inv, P!IInv, P!AttemptChain, P!EarlierRejected
    <3>3. r \in Task /\ attempts[r] >= 1
      BY <1>3, <3>1, <3>2 DEF Inv, TypeOK
    <3>4. PICK u \in Task :
             job' = [job EXCEPT !.task = u, !.retryAt = "due",
                                !.notAccepted = (u \in rejected)]
      BY <1>2, <2>2, <3>2, <3>3 DEF CancelUnsentTx
    <3> QED
      BY <1>3, <3>4 DEF Inv, TypeOK, JobRow
  <2> QED
    BY <2>1, <2>2
<1> QED
  BY <1>1, <1>2, <1>6, <1>7, <1>8, <1>9, StopsSendingKeeps

LEMMA CrashKeeps == ASSUME Inv, NEW p \in Process, Crash(p) PROVE Kept
<1>1. Fails(p, "idle") /\ KindAllows(p, "idle")
  BY DEF Crash, KindAllows
<1>2. CASE loc[p].pc # "send"
  BY <1>1, <1>2, FailsKeeps DEF PlainPc, DeletePc
<1>3. CASE loc[p].pc = "send"
  <2>1. p \in Sender
    BY <1>3, WhereTheyAre DEF At, Sender
  <2>2. /\ Go(p, "idle") /\ fate' = fate /\ UNCHANGED <<msg, followUp, claimed>>
        /\ faults' \in 0..MaxFaults /\ UNCHANGED dbVars
    BY <1>1, <1>3, FaultType DEF Fails, ClaimLeft, At
  <2>3. Unsent # NULL /\ Unsent' = NULL /\ Sent' = Sent
    BY <2>1, <2>2, SenderFacts, StopsSending DEF PlainPc, Sent
  <2>4. P!CrashBeforeSend
    BY <2>2, <2>3 DEF dbVars, attemptVars, P!CrashBeforeSend, P!attemptVars
  <2>5. P!Next
    BY <2>4 DEF P!Next, P!SubmitStep
  <2>6. UNCHANGED <<job, rejected, slot>>
    BY <2>2 DEF dbVars, attemptVars
  <2>7. RowFitsFlow'
    BY <2>6 DEF Inv, RowFitsFlow
  <2> QED
    BY <2>1, <2>2, <2>5, <2>6, <2>7, StopsSendingKeeps DEF PastRequest
<1> QED
  BY <1>2, <1>3

LEMMA SendKeeps == ASSUME Inv, NEW p \in Process, Send(p) PROVE Kept
<1> DEFINE t == loc[p].task
<1>1. p \in Sender
  BY WhereTheyAre DEF Send, At, Sender
<1>2. /\ p \in Process /\ Unsent = <<t, p>> /\ Unsent # NULL /\ t \in Task
      /\ t \notin Sent /\ job.task = t /\ job.started /\ slot = t
      /\ t \notin rejected /\ loc \in [Process -> Local]
      /\ \A c \in Pc : KindAllows(p, c)
  BY <1>1, SenderFacts, WhereTheyAre DEF Inv, TypeOK
<1>3. fate[t] = "none" /\ fate \in [Task -> Fate]
  BY <1>2 DEF Sent, Inv, TypeOK
<1>4. /\ Go(p, "http")
      /\ UNCHANGED <<job, attempts, rejected, conflict, slot>>
      /\ UNCHANGED <<msg, followUp, claimed, faults>>
  BY DEF Send, dbVars
<1>5. PICK f \in {"lost", "refused", "auth", "balance", "other", "running"} :
         fate' = [fate EXCEPT ![t] = f]
  BY DEF Send
<1>6. f \in Fate /\ f # "none"
  BY DEF Fate
<1>7. /\ Sender' = {} /\ Unsent' = NULL
  BY <1>1, <1>4, StopsSending
<1>8. PICK l \in Local : loc' = [loc EXCEPT ![p] = l] /\ l.pc = "http" /\ l.task = t
  BY <1>1, <1>4, StopsSending
<1>9. Sent' = Sent \cup {t}
  BY <1>2, <1>3, <1>5, <1>6 DEF Sent
<1>10. P!Send
  BY <1>2, <1>4, <1>7, <1>9 DEF P!Send, P!attemptVars
<1>11. P!IInv'
  BY <1>10, StepKeepsIInv DEF Inv, P!Next, P!SubmitStep
<1>12. KnowsTheTruth(l)'
  BY <1>2, <1>3, <1>5, <1>6, <1>8 DEF KnowsTheTruth
<1>13. KindsKept' /\ ReportsAreTrue' /\ loc' \in [Process -> Local]
  BY <1>2, <1>3, <1>5, <1>8, <1>12, KnowledgeKeeps DEF Pc
<1>14. TypeOK'
  BY <1>3, <1>4, <1>5, <1>6, <1>11, <1>13, TypesOfRows DEF Inv, TypeOK
<1>15. SenderIsAlone'
  BY <1>7 DEF SenderIsAlone
<1>16. RefusalsAreTrue'
  <2>1. \A u \in Task : Generated(u) => FALSE
    <3> SUFFICES ASSUME NEW u \in Task, Generated(u) PROVE FALSE
      OBVIOUS
    <3>1. u \in Sent /\ fate[u] # "refused"
      BY DEF Generated, Sent
    <3>2. u \in rejected \/ u = job.task \/ u = job.fbTask
      BY <3>1 DEF Inv, P!IInv, P!SentIsAccountedFor
    <3> QED
      BY <1>2, <3>1, <3>2, NullAssumption DEF Inv, RefusalsAreTrue, RowFitsFlow
  <2>2. \A u \in Task : Generated(u)' => u = t
    BY <1>3, <1>5, <2>1 DEF Generated
  <2> QED
    BY <1>2, <1>3, <1>4, <1>5, <2>2
       DEF Inv, RefusalsAreTrue, TypeOK
<1>17. RunningHoldsSlot'
  BY <1>2, <1>3, <1>4, <1>5 DEF Inv, RunningHoldsSlot
<1>18. RowFitsFlow' /\ MessageUntilPast'
  BY <1>2, <1>4, <1>7 DEF Inv, RowFitsFlow, MessageUntilPast, PastRequest
<1> QED
  BY <1>10, <1>11, <1>13, <1>14, <1>15, <1>16, <1>17, <1>18
     DEF Inv, Kept, P!Next, P!SubmitStep

LEMMA RecordRefusedQuiet ==
    ASSUME Inv, CallsKept, NEW t \in Task, fate[t] = "refused", RecordRefused(t)
    PROVE  Quiet
BY NotAcceptedQuiet, SameRowsQuiet DEF RecordRefused

LEMMA RespondKeeps == ASSUME Inv, NEW p \in Process, Respond(p) PROVE Kept
<1> DEFINE t == loc[p].task
<1>1. /\ loc[p].pc = "http" /\ p \in Process \cap Token /\ p \notin Sender
      /\ \A c \in Pc : KindAllows(p, c)
  BY WhereTheyAre DEF Respond, At
<1>2. t \in Task \cap Sent /\ fate[t] # "none"
  BY <1>1 DEF Inv, ReportsAreTrue, KnowsTheTruth, Sent
<1>3. CASE Accepted(p, t)
  <2>1. PICK pc \in {"decide", "release"} : Moves(p, pc)
    BY <1>3 DEF Accepted
  <2>2. CallsKept
    BY <1>1, <2>1, MovesCalls DEF Pc
  <2>3. Quiet
    BY <1>2, <1>3, <2>2, AcceptedQuiet DEF Accepted
  <2> QED
    BY <1>1, <2>1, <2>3, PlainMoveKeeps DEF PlainPc, Pc, DeletePc
<1>4. CASE fate[t] = "refused" /\ RecordRefused(t) /\ Moves(p, "decide")
  <2>1. CallsKept
    BY <1>1, <1>4, MovesCalls DEF Pc
  <2>2. Quiet
    BY <1>2, <1>4, <2>1, RecordRefusedQuiet
  <2> QED
    BY <1>1, <1>4, <2>2, PlainMoveKeeps DEF PlainPc, Pc, DeletePc
<1>5. CASE /\ fate[t] \in {"timedOut", "auth", "balance", "other"}
           /\ ReleaseSlotTx(t) /\ Moves(p, "rejected")
  <2>1. CallsKept
    BY <1>1, <1>5, MovesCalls DEF Pc
  <2>2. Quiet
    BY <1>2, <1>5, <2>1, SlotQuiet
  <2>3. KnowsTheTruth([loc[p] EXCEPT !.pc = "rejected"])
    BY <1>1, <1>2, <1>5, WhereTheyAre DEF KnowsTheTruth, Local
  <2>4. /\ msg' \in BOOLEAN /\ claimed' \in Claim /\ faults' \in 0..MaxFaults
        /\ followUp' \in SUBSET {"POSTPROCESS", "RUN_FALLBACK"}
        /\ Go(p, "rejected") /\ fate' = fate /\ msg' = msg
    BY <1>5 DEF Moves, Inv, TypeOK
  <2> QED
    BY <1>1, <2>2, <2>3, <2>4, GoKeeps DEF Pc, DeletePc
<1>6. CASE NoAnswer(p)
  BY <1>1, <1>6, SameRowsMoveKeeps DEF NoAnswer, PlainPc, Pc, DeletePc
<1> QED
  BY <1>3, <1>4, <1>5, <1>6 DEF Respond

LEMMA RejectedKeeps == ASSUME Inv, NEW p \in Process, Rejected(p) PROVE Kept
<1> DEFINE t == loc[p].task
<1>1. /\ loc[p].pc = "rejected" /\ p \in Process \cap Token /\ p \notin Sender
      /\ \A c \in Pc : KindAllows(p, c)
  BY WhereTheyAre DEF Rejected, At
<1>2. t \in Task \cap Sent
  BY <1>1 DEF Inv, ReportsAreTrue, KnowsTheTruth, Sent
<1>3. Moves(p, "decide")
  BY DEF Rejected
<1>4. CallsKept
  BY <1>1, <1>3, MovesCalls DEF Pc
<1>5. \/ TryRow(CanRecordFailed(job, t), RecordFailedRecoverable(job))
      \/ TryRow(CanRecordAuthHold(job, t), RecordAuthHold(job))
      \/ TryRow(CanSaveResult(job, p), SaveResult(job, "FAILED"))
      \/ UNCHANGED dbVars
  <2>1. CASE fate[t] = "timedOut"
    BY <2>1 DEF Rejected
  <2>2. CASE fate[t] = "auth"
    BY <2>2 DEF Rejected
  <2>3. CASE fate[t] = "balance"
    BY <2>3 DEF Rejected
  <2>4. CASE fate[t] \notin {"timedOut", "auth", "balance"}
    BY <2>4 DEF Rejected
  <2> QED
    BY <2>1, <2>2, <2>3, <2>4
<1>6. Quiet
  BY <1>1, <1>2, <1>4, <1>5, FailedQuiet, HoldQuiet, SaveQuiet, SameRowsQuiet
<1> QED
  BY <1>1, <1>3, <1>6, PlainMoveKeeps DEF PlainPc, Pc, DeletePc

-----------------------------------------------------------------------------
(* Webhooks and status queries.                                            *)

LEMMA EventFacts ==
    ASSUME Inv, NEW p \in Process,
           loc[p].pc \in {"event", "apply", "fill", "conflict", "slot"}
    PROVE  /\ p \notin Sender /\ loc[p] \in Local
           /\ p # Publisher /\ \A pc \in {"idle", "event", "apply", "fill",
                                          "conflict", "slot", "publish"} :
                                  pc \in Pc /\ KindAllows(p, pc)
           /\ loc[p].task \in Task \cap Sent /\ loc[p].ev \in Report
           /\ loc[p].ev \in Reports(fate[loc[p].task])
           /\ loc[p].pc \in {"apply", "fill", "slot"} =>
                 loc[p].ev # "processing" /\ fate[loc[p].task] # "running"
           /\ loc[p].ev = "refused" => fate[loc[p].task] = "refused"
<1>1. loc[p] \in Local /\ KindAllows(p, loc[p].pc) /\ KnowsTheTruth(loc[p])
  BY DEF Inv, TypeOK, KindsKept, ReportsAreTrue
<1>2. /\ p \notin Sender /\ p # Publisher
      /\ \A pc \in {"idle", "event", "apply", "fill", "conflict", "slot",
                    "publish"} : pc \in Pc /\ KindAllows(p, pc)
  BY <1>1, WhereTheyAre DEF KindAllows, Pc
<1>3. /\ loc[p].task \in Task /\ loc[p].ev \in Reports(fate[loc[p].task])
      /\ loc[p].pc \in {"apply", "fill", "slot"} => loc[p].ev # "processing"
  BY <1>1 DEF KnowsTheTruth
<1>4. fate[loc[p].task] \in Fate
  BY <1>3 DEF Inv, TypeOK
<1>5. loc[p].task \in Sent /\ loc[p].ev \in Report
  BY <1>3, <1>4, ReportsOf DEF Sent
<1> QED
  BY <1>1, <1>2, <1>3, <1>4, <1>5, ReportsOf

LEMMA HandlesKeeps ==
    ASSUME Inv, NEW p \in Process, loc[p].pc # "send", p # Publisher,
           NEW t \in Task, NEW e \in Reports(fate[t]), Handles(p, t, e)
    PROVE  Kept
<1> DEFINE l == [AtRest EXCEPT !.pc = "event", !.task = t, !.ev = e]
<1>1. e \in Report
  BY ReportsOf DEF Inv, TypeOK
<1>2. l \in Local /\ l.pc = "event" /\ l.task = t /\ l.ev = e
  BY <1>1 DEF Local, AtRest, Pc
<1>3. loc' = [loc EXCEPT ![p] = l] /\ UNCHANGED dbVars
      /\ UNCHANGED <<msg, followUp, claimed, fate, faults>>
  BY DEF Handles
<1> HIDE DEF l
<1>4. KindAllows(p, l.pc) /\ KnowsTheTruth(l)
  BY <1>2 DEF KindAllows, KnowsTheTruth
<1>5. CallsKept
  BY <1>2, <1>3, SameCalls DEF CallsKept
<1>6. Quiet
  BY <1>3, <1>5, SameRowsQuiet
<1>7. /\ msg' \in BOOLEAN /\ claimed' \in Claim /\ faults' \in 0..MaxFaults
      /\ followUp' \in SUBSET {"POSTPROCESS", "RUN_FALLBACK"}
  BY <1>3 DEF Inv, TypeOK
<1> QED
  BY <1>2, <1>3, <1>4, <1>6, <1>7, MoveKeeps DEF DeletePc

LEMMA ReceiveWebhookKeeps ==
    ASSUME Inv, NEW p \in Process, ReceiveWebhook(p)
    PROVE  Kept
BY HandlesKeeps, Processes, ProcessAssumption DEF ReceiveWebhook, At, Process

LEMMA EventMoveKeeps ==
    ASSUME Inv, NEW p \in Process, NEW l \in Local,
           loc[p].pc \in {"event", "apply", "fill", "conflict", "slot"},
           l.pc \in {"idle", "apply", "fill", "conflict", "slot", "publish"},
           KnowsTheTruth(l), loc' = [loc EXCEPT ![p] = l],
           UNCHANGED <<msg, followUp, claimed, fate, faults>>,
           CallsKept => Quiet
    PROVE  Kept
<1>1. KindAllows(p, l.pc)
  BY EventFacts
<1>2. Quiet
  BY SameCalls DEF CallsKept
<1>3. /\ msg' \in BOOLEAN /\ claimed' \in Claim /\ faults' \in 0..MaxFaults
      /\ followUp' \in SUBSET {"POSTPROCESS", "RUN_FALLBACK"}
  BY DEF Inv, TypeOK
<1> QED
  BY <1>1, <1>2, <1>3, MoveKeeps DEF DeletePc

LEMMA EventGoKeeps ==
    ASSUME Inv, NEW p \in Process,
           loc[p].pc \in {"event", "apply", "fill", "conflict", "slot"},
           NEW pc \in {"idle", "apply", "fill", "conflict", "slot", "publish"},
           pc # "idle" => KnowsTheTruth([loc[p] EXCEPT !.pc = pc]),
           Moves(p, pc), CallsKept => Quiet
    PROVE  Kept
<1> DEFINE l == IF pc = "idle" THEN AtRest ELSE [loc[p] EXCEPT !.pc = pc]
<1>1. l \in Local /\ l.pc = pc
  BY EventFacts DEF Local, AtRest, Pc
<1>2. loc' = [loc EXCEPT ![p] = l]
      /\ UNCHANGED <<msg, followUp, claimed, fate, faults>>
  BY DEF Moves, Go
<1>3. KnowsTheTruth(l)
  BY DEF KnowsTheTruth, AtRest
<1> HIDE DEF l
<1> QED
  BY <1>1, <1>2, <1>3, EventMoveKeeps

LEMMA ReadJobKeeps == ASSUME Inv, NEW p \in Process, ReadJob(p) PROVE Kept
<1> DEFINE a == [loc[p] EXCEPT !.pc = "apply", !.was = job.notAccepted]
           c == [loc[p] EXCEPT !.pc = "conflict", !.ev = "processing"]
           e == loc[p].ev
<1>1. loc[p].pc = "event" /\ UNCHANGED dbVars
      /\ UNCHANGED <<msg, followUp, claimed, fate, faults>>
  BY DEF ReadJob, At
<1>2. CallsKept => Quiet
  BY <1>1, SameRowsQuiet
<1>3. /\ loc[p] \in Local /\ loc[p].task \in Task /\ e \in Report
      /\ e \in Reports(fate[loc[p].task]) /\ fate[loc[p].task] \in Fate
  BY <1>1, EventFacts DEF Inv, TypeOK
<1>4. /\ e \in Progress => "processing" \in Reports(fate[loc[p].task])
      /\ a \in Local /\ a.pc = "apply" /\ a.task = loc[p].task /\ a.ev = e
      /\ c \in Local /\ c.pc = "conflict" /\ c.task = loc[p].task
      /\ c.ev = "processing"
  <2>1. job.notAccepted \in BOOLEAN
    BY DEF Inv, TypeOK, JobRow
  <2>2. e \in Progress => "processing" \in Reports(fate[loc[p].task])
    BY <1>3, ReportsOf
  <2>3. a \in Local /\ a.pc = "apply" /\ a.task = loc[p].task /\ a.ev = e
    BY <1>3, <2>1 DEF Local, Pc
  <2>4. /\ c \in Local /\ c.pc = "conflict" /\ c.task = loc[p].task
        /\ c.ev = "processing"
    BY <1>3 DEF Local, Pc, Report
  <2> QED
    BY <2>2, <2>3, <2>4
<1>5. \/ loc' = [loc EXCEPT ![p] = a] /\ e # "processing"
      \/ loc' = [loc EXCEPT ![p] = c] /\ (e = "processing" \/ e \in Progress)
      \/ Go(p, "idle")
  BY DEF ReadJob
<1>6. CASE loc' = [loc EXCEPT ![p] = a] /\ e # "processing"
  <2>1. KnowsTheTruth(a)
    BY <1>3, <1>4, <1>6 DEF KnowsTheTruth
  <2> HIDE DEF a
  <2> QED
    BY <1>1, <1>2, <1>4, <1>6, <2>1, EventMoveKeeps
<1>7. CASE loc' = [loc EXCEPT ![p] = c] /\ (e = "processing" \/ e \in Progress)
  <2>1. KnowsTheTruth(c)
    BY <1>3, <1>4, <1>7 DEF KnowsTheTruth
  <2> HIDE DEF c
  <2> QED
    BY <1>1, <1>2, <1>4, <1>7, <2>1, EventMoveKeeps
<1>8. CASE Go(p, "idle")
  BY <1>1, <1>2, <1>8, EventGoKeeps DEF Moves
<1> QED
  BY <1>5, <1>6, <1>7, <1>8

\* A report that was recorded goes on with its evidence, then its slot.
LEMMA RecordedKeeps ==
    ASSUME Inv, NEW p \in Process, loc[p].pc \in {"apply", "fill"},
           NEW applied \in BOOLEAN, Recorded(p, applied), CallsKept => Quiet
    PROVE  Kept
<1> DEFINE pc == IF applied /\ loc[p].was THEN "conflict" ELSE "slot"
           next == FollowUpAction(loc[p].ev, loc[p].task, job')
           l == [loc[p] EXCEPT !.pc = pc, !.next = next]
<1>1. next \in {NULL, "POSTPROCESS", "RUN_FALLBACK"}
  BY DEF FollowUpAction
<1>2. /\ loc[p] \in Local /\ loc[p].task \in Task
      /\ loc[p].ev \in Reports(fate[loc[p].task]) /\ loc[p].ev # "processing"
  BY EventFacts
<1>3. loc' = [loc EXCEPT ![p] = l]
      /\ UNCHANGED <<msg, followUp, claimed, fate, faults>>
  BY DEF Recorded
<1> HIDE DEF next
<1>4. /\ l \in Local /\ l.pc \in {"conflict", "slot"} /\ l.task = loc[p].task
      /\ l.ev = loc[p].ev
  BY <1>1, <1>2 DEF Local, Pc
<1> HIDE DEF l
<1>5. KnowsTheTruth(l)
  BY <1>2, <1>4 DEF KnowsTheTruth
<1> QED
  BY <1>3, <1>4, <1>5, EventMoveKeeps

LEMMA References ==
    TheRef \in Ref /\ \A e \in Report : Url(e) \in Ref \cup {NULL}
BY ProcessAssumption DEF TheRef, Url

LEMMA ApplyKeeps == ASSUME Inv, NEW p \in Process, Apply(p) PROVE Kept
<1> DEFINE t == loc[p].task
           url == Url(loc[p].ev)
<1>1. /\ loc[p].pc = "apply" /\ t \in Task \cap Sent /\ loc[p] \in Local
      /\ url \in Ref \cup {NULL} /\ TheRef \in Ref
      /\ loc[p].ev \in Reports(fate[t]) /\ loc[p].ev # "processing"
      /\ loc[p].ev = "refused" => fate[t] = "refused"
  BY EventFacts, References DEF Apply, At
<1>2. \A pc \in {"fill", "slot"} : KnowsTheTruth([loc[p] EXCEPT !.pc = pc])
  BY <1>1 DEF KnowsTheTruth, Local
<1> HIDE DEF url
<1>3. CASE ApplySuccess(p, t, url)
  <2>1. CallsKept => Quiet
    BY <1>1, <1>3, SucceededQuiet DEF ApplySuccess
  <2>2. CASE Moves(p, "fill")
    BY <1>1, <1>2, <2>1, <2>2, EventGoKeeps
  <2>3. CASE Recorded(p, CanRecordSucceeded(job, t))
    <3>1. CanRecordSucceeded(job, t) \in BOOLEAN
      BY DEF CanRecordSucceeded, EventApplies
    <3> QED
      BY <1>1, <2>1, <2>3, <3>1, RecordedKeeps
  <2> QED
    BY <1>3, <2>2, <2>3 DEF ApplySuccess
<1>4. CASE /\ TryRow(CanRecordFailed(job, t), RecordFailedRecoverable(job))
           /\ Recorded(p, CanRecordFailed(job, t))
  <2>1. CallsKept => Quiet
    BY <1>1, <1>4, FailedQuiet
  <2>2. CanRecordFailed(job, t) \in BOOLEAN
    BY DEF CanRecordFailed
  <2> QED
    BY <1>1, <1>4, <2>1, <2>2, RecordedKeeps
<1>5. CASE /\ TryRow(CanRecordAuthHold(job, t), RecordAuthHold(job))
           /\ Moves(p, "slot")
  <2>1. CallsKept => Quiet
    BY <1>1, <1>5, HoldQuiet
  <2> QED
    BY <1>1, <1>2, <1>5, <2>1, EventGoKeeps
<1>6. CASE loc[p].ev = "refused" /\ RecordRefused(t) /\ Moves(p, "idle")
  <2>1. CallsKept => Quiet
    BY <1>1, <1>6, RecordRefusedQuiet
  <2> QED
    BY <1>1, <1>6, <2>1, EventGoKeeps
<1>7. CASE Moves(p, "idle") /\ UNCHANGED dbVars
  <2>1. CallsKept => Quiet
    BY <1>7, SameRowsQuiet
  <2> QED
    BY <1>1, <1>7, <2>1, EventGoKeeps
<1> QED
  BY <1>3, <1>4, <1>5, <1>6, <1>7 DEF Apply, url

LEMMA FillKeeps == ASSUME Inv, NEW p \in Process, Fill(p) PROVE Kept
<1>1. loc[p].pc = "fill" /\ loc[p].task \in Task \cap Sent
  BY EventFacts DEF Fill, At
<1>2. Url(loc[p].ev) \in Ref \cup {NULL} /\ TheRef \in Ref
  BY <1>1, EventFacts, References
<1>3. (p \in Watchdog) \in BOOLEAN
  OBVIOUS
<1>4. CallsKept => Quiet
  BY <1>1, <1>2, <1>3, FillQuiet DEF Fill
<1> QED
  BY <1>1, <1>4, RecordedKeeps DEF Fill

LEMMA RecordConflictKeeps ==
    ASSUME Inv, NEW p \in Process, RecordConflict(p)
    PROVE  Kept
<1>1. /\ loc[p].pc = "conflict" /\ loc[p].task \in Task \cap Sent
      /\ loc[p] \in Local /\ loc[p].ev \in Reports(fate[loc[p].task])
  BY EventFacts DEF RecordConflict, At
<1>2. CallsKept => Quiet
  BY <1>1, ContradictionQuiet, SameRowsQuiet DEF RecordConflict
<1>3. loc[p].ev # "processing" => KnowsTheTruth([loc[p] EXCEPT !.pc = "slot"])
  BY <1>1 DEF KnowsTheTruth, Local
<1>4. CASE Moves(p, "idle")
  BY <1>1, <1>2, <1>4, EventGoKeeps
<1>5. CASE loc[p].ev # "processing" /\ Moves(p, "slot")
  BY <1>1, <1>2, <1>3, <1>5, EventGoKeeps
<1> QED
  BY <1>4, <1>5 DEF RecordConflict

LEMMA ReleaseSlotKeeps ==
    ASSUME Inv, NEW p \in Process, ReleaseSlot(p)
    PROVE  Kept
<1>1. /\ loc[p].pc = "slot" /\ loc[p].task \in Task \cap Sent
      /\ loc[p] \in Local /\ fate[loc[p].task] # "running"
  BY EventFacts DEF ReleaseSlot, At
<1>2. CallsKept => Quiet
  BY <1>1, SlotQuiet DEF ReleaseSlot, Sent
<1>3. loc[p].next # NULL => KnowsTheTruth([loc[p] EXCEPT !.pc = "publish"])
  BY <1>1 DEF KnowsTheTruth, Local
<1>4. CASE Moves(p, "idle")
  BY <1>1, <1>2, <1>4, EventGoKeeps
<1>5. CASE loc[p].next # NULL /\ Moves(p, "publish")
  BY <1>1, <1>2, <1>3, <1>5, EventGoKeeps
<1> QED
  BY <1>4, <1>5 DEF ReleaseSlot

LEMMA PublishFollowUpKeeps ==
    ASSUME Inv, NEW p \in Process, PublishFollowUp(p)
    PROVE  Kept
<1>1. /\ loc[p].pc = "publish" /\ KindAllows(p, "idle")
      /\ loc[p].next \in {"POSTPROCESS", "RUN_FALLBACK"}
  BY WhereTheyAre
     DEF PublishFollowUp, At, Inv, ReportsAreTrue, KnowsTheTruth, Local, KindAllows
<1> QED
  BY <1>1, PublishKeeps DEF PublishFollowUp, PlainPc, DeletePc

-----------------------------------------------------------------------------
(* The Watchdog.                                                           *)

LEMMA InspectAsksKeeps ==
    ASSUME Inv, NEW p \in Process, InspectAsks(p)
    PROVE  Kept
<1> DEFINE l == [loc[p] EXCEPT !.pc = "query", !.task = job.task]
<1>1. /\ loc[p].pc = "idle" /\ p \in Watchdog /\ loc[p] \in Local
      /\ loc' = [loc EXCEPT ![p] = l]
      /\ UNCHANGED dbVars /\ UNCHANGED <<msg, followUp, claimed, fate, faults>>
  BY WhereTheyAre DEF InspectAsks, At
<1>2. job.task \in Task
  <2>1. (slot # NULL /\ slot = job.task) \/ job.started
    BY DEF InspectAsks, AsksAbout, SubmitUnknown, AwaitingWebhook,
           AwaitingResultUrl, Inv, RowFitsFlow, P!IInv, P!RowConsistent
  <2> QED
    BY <2>1 DEF Inv, TypeOK, JobRow, P!IInv, P!RowConsistent
<1>3. l \in Local /\ l.pc = "query" /\ l.task \in Task
  BY <1>1, <1>2 DEF Local, Pc
<1> HIDE DEF l
<1>4. KindAllows(p, l.pc) /\ KnowsTheTruth(l)
  BY <1>1, <1>3, Processes DEF Holder, KindAllows, KnowsTheTruth
<1>5. CallsKept
  BY <1>1, <1>3, SameCalls DEF CallsKept
<1>6. Quiet
  BY <1>1, <1>5, SameRowsQuiet
<1>7. /\ msg' \in BOOLEAN /\ claimed' \in Claim /\ faults' \in 0..MaxFaults
      /\ followUp' \in SUBSET {"POSTPROCESS", "RUN_FALLBACK"}
  BY <1>1 DEF Inv, TypeOK
<1> QED
  BY <1>1, <1>3, <1>4, <1>6, <1>7, MoveKeeps DEF DeletePc

LEMMA QueryKeeps == ASSUME Inv, NEW p \in Process, Query(p) PROVE Kept
<1> DEFINE t == loc[p].task
<1>1. /\ loc[p].pc = "query" /\ p \in Process \cap Token /\ p \notin Sender
      /\ p # Publisher /\ \A pc \in Pc : KindAllows(p, pc)
  BY WhereTheyAre, Processes DEF Query, At
<1>2. t \in Task /\ fate[t] \in Fate
  BY <1>1 DEF Inv, TypeOK, ReportsAreTrue, KnowsTheTruth
<1>3. CASE /\ "processing" \in Answers(fate[t])
           /\ \/ RecordContradictionTx(t)
              \/ ~ContradictionApplies(t) /\ UNCHANGED dbVars
           /\ Moves(p, "idle")
  <2>1. t \in Task \cap Sent
    BY <1>2, <1>3, ReportsOf DEF Sent
  <2>2. CallsKept
    BY <1>1, <1>3, MovesCalls DEF Pc
  <2>3. Quiet
    BY <1>3, <2>1, <2>2, ContradictionQuiet, SameRowsQuiet
  <2> QED
    BY <1>1, <1>3, <2>3, PlainMoveKeeps DEF PlainPc, Pc, DeletePc
<1>4. ASSUME NEW e \in Answers(fate[t]) \ {"processing"}, Handles(p, t, e)
      PROVE  Kept
  <2>1. e \in Reports(fate[t])
    BY <1>2, ReportsOf
  <2> QED
    BY <1>1, <1>2, <1>4, <2>1, HandlesKeeps
<1>5. CASE Moves(p, "idle") /\ UNCHANGED dbVars
  BY <1>1, <1>5, SameRowsMoveKeeps DEF PlainPc, Pc, DeletePc
<1> QED
  BY <1>3, <1>4, <1>5 DEF Query

LEMMA InspectResubmitsKeeps ==
    ASSUME Inv, NEW p \in Process, InspectResubmits(p)
    PROVE  Kept
<1>1. loc[p].pc = "idle" /\ KindAllows(p, "acquire")
  BY Processes DEF InspectResubmits, At, Holder, KindAllows
<1> QED
  BY <1>1, SameRowsMoveKeeps DEF InspectResubmits, PlainPc, DeletePc

LEMMA InspectRepublishesKeeps ==
    ASSUME Inv, NEW p \in Process, InspectRepublishes(p)
    PROVE  Kept
<1> DEFINE l == [loc[p] EXCEPT !.pc = "republish", !.next = job.nextAction]
<1>1. /\ loc[p].pc = "idle" /\ p \in Watchdog /\ loc[p] \in Local
      /\ loc' = [loc EXCEPT ![p] = l]
      /\ UNCHANGED dbVars /\ UNCHANGED <<msg, followUp, fate, faults>>
      /\ job.nextAction \in {"POSTPROCESS", "RUN_FALLBACK"} /\ claimed' = "yes"
  BY WhereTheyAre DEF InspectRepublishes, At
<1>2. l \in Local /\ l.pc = "republish" /\ l.next \in NextAction
  BY <1>1 DEF Local, Pc, NextAction
<1> HIDE DEF l
<1>3. KindAllows(p, l.pc) /\ KnowsTheTruth(l)
  BY <1>1, <1>2, Processes, NullAssumption DEF Holder, KindAllows, KnowsTheTruth
<1>4. CallsKept
  BY <1>1, <1>2, SameCalls DEF CallsKept
<1>5. Quiet
  BY <1>1, <1>4, SameRowsQuiet
<1>6. /\ msg' \in BOOLEAN /\ claimed' \in Claim /\ faults' \in 0..MaxFaults
      /\ followUp' \in SUBSET {"POSTPROCESS", "RUN_FALLBACK"}
  BY <1>1 DEF Inv, TypeOK, Claim
<1> QED
  BY <1>1, <1>2, <1>3, <1>5, <1>6, MoveKeeps DEF DeletePc

LEMMA RepublishKeeps == ASSUME Inv, NEW p \in Process, Republish(p) PROVE Kept
<1>1. /\ loc[p].pc = "republish" /\ KindAllows(p, "idle")
      /\ loc[p].next \in {"POSTPROCESS", "RUN_FALLBACK"}
  BY WhereTheyAre
     DEF Republish, At, Inv, ReportsAreTrue, KnowsTheTruth, Local, KindAllows
<1>2. Go(p, "idle") /\ UNCHANGED <<dbVars, msg, fate>>
  BY DEF Republish
<1>3. /\ msg' \in BOOLEAN /\ claimed' \in Claim /\ faults' \in 0..MaxFaults
      /\ followUp' \in SUBSET {"POSTPROCESS", "RUN_FALLBACK"}
  BY <1>1, FaultType DEF Republish, ClaimAfter, Claim, Inv, TypeOK
<1>4. CallsKept
  BY <1>1, <1>2, GoCalls DEF Pc
<1>5. Quiet
  BY <1>2, <1>4, SameRowsQuiet
<1> QED
  BY <1>1, <1>2, <1>3, <1>5, GoKeeps DEF Pc, DeletePc

-----------------------------------------------------------------------------
(* The publisher, the environment and the faults.                          *)

LEMMA PublisherAcquiresKeeps ==
    ASSUME Inv, NEW p \in Process, PublisherAcquires(p)
    PROVE  Kept
<1>1. /\ loc[p].pc = "idle" /\ p \in Process \cap Token /\ p \notin Sender
      /\ KindAllows(p, "claim")
  BY Processes, WhereTheyAre, ProcessAssumption
     DEF PublisherAcquires, At, KindAllows
<1>2. CallsKept
  BY <1>1, MovesCalls DEF PublisherAcquires, Pc
<1>3. Quiet
  BY <1>1, <1>2, AcquireQuiet DEF PublisherAcquires, NextAction, TryRow
<1> QED
  BY <1>1, <1>3, PlainMoveKeeps DEF PublisherAcquires, PlainPc, DeletePc

LEMMA PublisherClaimsKeeps ==
    ASSUME Inv, NEW p \in Process, PublisherClaims(p)
    PROVE  Kept
<1>1. /\ loc[p].pc = "claim" /\ p \in Process \cap Token /\ p \notin Sender
      /\ p \notin Hook /\ KindAllows(p, "mark") /\ KindAllows(p, "release")
  BY WhereTheyAre DEF PublisherClaims, At, KindAllows
<1>2. PICK pc \in {"mark", "release"} : Moves(p, pc)
  BY DEF PublisherClaims
<1>3. CallsKept
  BY <1>1, <1>2, MovesCalls DEF Pc
<1>4. Quiet
  BY <1>1, <1>3, ClaimQuiet, ExhaustedQuiet DEF PublisherClaims
<1> QED
  BY <1>1, <1>2, <1>4, PlainMoveKeeps DEF PlainPc, DeletePc

LEMMA PublisherMarksKeeps ==
    ASSUME Inv, NEW p \in Process, PublisherMarks(p)
    PROVE  Kept
<1> DEFINE final == PayloadStatus(job.result)
           can == CanMarkPublished(job, p, final)
<1>1. /\ loc[p].pc = "mark" /\ p \in Process \cap Token /\ p \notin Sender
      /\ p \notin Hook /\ KindAllows(p, "idle") /\ KindAllows(p, "release")
  BY WhereTheyAre DEF PublisherMarks, At, KindAllows
<1>2. CASE can /\ TryRow(TRUE, MarkPublished(job, final)) /\ Moves(p, "idle")
  <2>1. CallsKept
    BY <1>1, <1>2, MovesCalls DEF Pc
  <2>2. Quiet
    BY <1>1, <1>2, <2>1, PublishedQuiet
  <2> QED
    BY <1>1, <1>2, <2>2, PlainMoveKeeps DEF PlainPc, DeletePc
<1>3. CASE NotPublished(p) /\ (UNCHANGED faults \/ Fault)
  <2>1. PICK pc \in {"idle", "release"} : Go(p, pc)
    BY <1>3 DEF NotPublished
  <2>2. /\ UNCHANGED <<msg, followUp, claimed, fate>>
        /\ TryRow(CanMarkExhausted(job, p), MarkExhausted(job))
    BY <1>3 DEF NotPublished
  <2>3. CallsKept
    BY <1>1, <2>1, <2>2, GoCalls DEF Pc
  <2>4. Quiet
    BY <1>1, <2>2, <2>3, ExhaustedQuiet
  <2>5. faults' \in 0..MaxFaults
    BY <1>3, FaultType DEF Inv, TypeOK
  <2> QED
    BY <1>1, <2>1, <2>2, <2>4, <2>5, PlainGoKeeps DEF PlainPc, DeletePc
<1> QED
  BY <1>2, <1>3 DEF PublisherMarks

\* Steps that move no process.
LEMMA StillKeeps ==
    ASSUME Inv, CallsKept => Quiet,
           UNCHANGED <<msg, followUp, claimed, fate, loc>>,
           faults' \in 0..MaxFaults
    PROVE  Kept
<1>1. Sender' = Sender /\ Sent' = Sent /\ Unsent' = Unsent
  BY DEF Sender, At, Sent, Unsent
<1>2. Quiet
  BY <1>1 DEF CallsKept
<1>3. /\ P!IInv'
      /\ SenderIsAlone' /\ RefusalsAreTrue' /\ RunningHoldsSlot'
      /\ RowFitsFlow' /\ (PastRequest => PastRequest')
  BY <1>1, <1>2, QuietKeeps
<1>4. TypeOK' /\ KindsKept' /\ ReportsAreTrue' /\ MessageUntilPast'
  BY <1>3, TypesOfRows
     DEF Inv, TypeOK, KindsKept, ReportsAreTrue, KnowsTheTruth, MessageUntilPast
<1> QED
  BY <1>2, <1>3, <1>4 DEF Inv, Kept, Quiet

LEMMA RetryTimeComesKeeps == ASSUME Inv, RetryTimeComes PROVE Kept
<1>1. faults' \in 0..MaxFaults
  BY DEF Inv, TypeOK, RetryTimeComes, flowVars
<1> QED
  BY <1>1, RetryTimeQuiet, StillKeeps DEF RetryTimeComes, flowVars

LEMMA LeaseExpiresKeeps ==
    ASSUME Inv, AbandonedLeaseExpires \/ UsedLeaseExpires
    PROVE  Kept
<1>1. faults' \in 0..MaxFaults
  BY FaultType
     DEF Inv, TypeOK, AbandonedLeaseExpires, UsedLeaseExpires, flowVars
<1> QED
  BY <1>1, ExpireQuiet, StillKeeps
     DEF AbandonedLeaseExpires, UsedLeaseExpires, flowVars

LEMMA GenerateKeeps == ASSUME Inv, NEW t \in Task, Generate(t) PROVE Kept
<1>1. PICK f \in {"done", "timedOut"} : fate' = [fate EXCEPT ![t] = f]
  BY DEF Generate
<1>2. /\ fate[t] = "running" /\ fate \in [Task -> Fate] /\ f \in Fate
      /\ loc \in [Process -> Local]
      /\ UNCHANGED <<job, attempts, rejected, conflict, slot>>
      /\ UNCHANGED <<msg, followUp, claimed, loc, faults>>
  BY DEF Generate, dbVars, attemptVars, Inv, TypeOK, Fate
<1>3. Sender' = Sender
  BY <1>2 DEF Sender, At
<1>4. Sent' = Sent /\ Unsent' = Unsent
  BY <1>1, <1>2, <1>3 DEF Sent, Unsent
<1>5. P!IInv'
  BY <1>2, <1>4, StepKeepsIInv DEF Inv, P!vars
<1>6. TypeOK'
  BY <1>1, <1>2 DEF Inv, TypeOK
<1>7. KindsKept' /\ ReportsAreTrue'
  <2>1. PICK l \in Local :
           /\ Publisher \in Process /\ KindAllows(Publisher, l.pc)
           /\ loc' = [loc EXCEPT ![Publisher] = l]
    BY <1>2, Processes DEF Inv, KindsKept
  <2>2. KnowsTheTruth(l)'
    <3>1. l.pc \in {"idle", "claim", "mark", "release"}
      BY <2>1 DEF KindAllows
    <3> QED
      BY <3>1 DEF KnowsTheTruth
  <2>3. \A u \in Task : \/ fate'[u] = fate[u] \/ fate[u] = "none"
                        \/ fate[u] = "running" /\ fate'[u] \in {"done", "timedOut"}
    BY <1>1, <1>2
  <2> QED
    BY <2>1, <2>2, <2>3, KnowledgeKeeps
<1>8. \A p \in Sender : fate'[loc[p].task] = fate[loc[p].task]
  BY <1>1, <1>2 DEF Inv, SenderIsAlone
<1>9. SenderIsAlone'
  BY <1>2, <1>3, <1>8 DEF Inv, SenderIsAlone, Owns
<1>10. RefusalsAreTrue' /\ RunningHoldsSlot' /\ RowFitsFlow'
  BY <1>1, <1>2
     DEF Inv, RefusalsAreTrue, Generated, RunningHoldsSlot, RowFitsFlow, TypeOK
<1>11. MessageUntilPast'
  BY <1>2, <1>3 DEF Inv, MessageUntilPast, PastRequest, Owns
<1> QED
  BY <1>2, <1>4, <1>5, <1>6, <1>7, <1>9, <1>10, <1>11 DEF Inv, Kept, P!vars

LEMMA CallFailsKeeps == ASSUME Inv, NEW p \in Process, CallFails(p) PROVE Kept
<1>1. CASE /\ loc[p].pc \in {"check", "precheck", "prepare", "grant", "regrant",
                             "http", "rejected", "decide", "claim", "mark"}
           /\ Fails(p, "release")
  <2>1. p \notin Hook /\ KindAllows(p, "release")
    BY <1>1, WhereTheyAre DEF KindAllows
  <2> QED
    BY <1>1, <2>1, FailsKeeps DEF PlainPc, DeletePc
<1>2. CASE /\ loc[p].pc \in {"query", "event", "apply", "fill", "conflict",
                             "slot", "republish", "release", "releaseDelete"}
           /\ Fails(p, "idle")
  BY <1>2, FailsKeeps DEF KindAllows, PlainPc, DeletePc
<1> QED
  BY <1>1, <1>2 DEF CallFails

-----------------------------------------------------------------------------
(* The invariant and what follows from it.                                 *)

LEMMA InitInv == Init => Inv
<1> SUFFICES ASSUME Init PROVE Inv
  OBVIOUS
<1>1. /\ Sender = {} /\ Sent = {}
      /\ loc \in [Process -> Local] /\ \A p \in Process : loc[p] = AtRest
  BY DEF Init, Sender, At, AtRest, Sent, Local, Pc, Process
<1>2. Unsent = NULL
  BY <1>1 DEF Unsent
<1>3. P!Init
  BY <1>1, <1>2 DEF Init, P!Init, NewJob, P!NewJob
<1>4. P!IInv
  BY <1>3, InitIInv
<1>5. TypeOK
  <2>1. /\ job \in JobRow /\ attempts \in [Task -> 0..PrunaSubmitLimit]
        /\ rejected \in SUBSET Task /\ conflict \in SUBSET Task
        /\ slot \in Task \cup {NULL}
    BY <1>4, SameRows DEF P!IInv, P!TypeOK
  <2>2. /\ msg \in BOOLEAN /\ claimed \in Claim
        /\ followUp \in SUBSET {"POSTPROCESS", "RUN_FALLBACK"}
        /\ fate \in [Task -> Fate]
    BY DEF Init, Fate, Claim
  <2>3. faults \in 0..MaxFaults
    BY ProcessAssumption DEF Init
  <2> QED
    BY <1>1, <2>1, <2>2, <2>3 DEF TypeOK
<1>6. KindsKept /\ ReportsAreTrue
  BY <1>1 DEF KindsKept, KindAllows, ReportsAreTrue, KnowsTheTruth, AtRest
<1>7. SenderIsAlone /\ RefusalsAreTrue /\ RunningHoldsSlot /\ RowFitsFlow
  BY <1>1 DEF Init, SenderIsAlone, RefusalsAreTrue, Generated, RunningHoldsSlot,
              RowFitsFlow, NewJob
<1>8. MessageUntilPast
  BY <1>1 DEF Init, MessageUntilPast, DeletePc, AtRest
<1> QED
  BY <1>4, <1>5, <1>6, <1>7, <1>8 DEF Inv

LEMMA StepKeeps == ASSUME Inv, NEW p \in Process, Step(p) PROVE Kept
BY HandOverKeeps, WorkerAcquiresKeeps, WatchdogAcquiresKeeps, CheckKeeps,
   PrecheckPassesKeeps, PrecheckFailsKeeps, ReleaseKeeps, DeleteKeeps,
   PrepareKeeps, GrantKeeps, RegrantKeeps, RecheckFailsKeeps, SendKeeps,
   RespondKeeps, RejectedKeeps, DecideKeeps, ReadJobKeeps, ApplyKeeps,
   FillKeeps, RecordConflictKeeps, ReleaseSlotKeeps, PublishFollowUpKeeps,
   QueryKeeps, RepublishKeeps, PublisherClaimsKeeps, PublisherMarksKeeps
   DEF Step

LEMMA BeginKeeps == ASSUME Inv, NEW p \in Process, Begin(p) PROVE Kept
BY ReceiveKeeps, ReceiveWebhookKeeps, InspectAsksKeeps, InspectResubmitsKeeps,
   InspectRepublishesKeeps, PublisherAcquiresKeeps DEF Begin

LEMMA NextKeeps == Inv /\ [Next]_vars => Kept
<1> SUFFICES ASSUME Inv, [Next]_vars PROVE Kept
  OBVIOUS
<1>1. CASE Next
  BY <1>1, BeginKeeps, StepKeeps, InputRefusedKeeps, CallFailsKeeps, CrashKeeps,
     GenerateKeeps, RetryTimeComesKeeps, LeaseExpiresKeeps DEF Next
<1>2. CASE UNCHANGED vars
  <2>1. CallsKept => Quiet
    BY <1>2, SameRowsQuiet DEF vars
  <2> QED
    BY <1>2, <2>1, StillKeeps DEF vars, flowVars, Inv, TypeOK
<1> QED
  BY <1>1, <1>2

LEMMA InvHolds == Spec => []Inv
<1>1. Inv /\ [Next]_vars => Inv'
  BY NextKeeps DEF Kept
<1> QED
  BY <1>1, InitInv, PTL DEF Spec

\* The invariant holds in every state, for every number of Workers,
\* Watchdogs, Webhook requests, tasks and faults: what a process knows where
\* it stands stays true of Runware and of the rows (RequestFlow).
THEOREM FlowInvariantHolds == Spec => []FlowInvariant
BY InvHolds, InvIsFlowInvariant, PTL

\* Every variable of the flow keeps its type: no handler leaves a row, a message
\* or a process in a state the code has no name for.
THEOREM TypeCorrect == Spec => []TypeOK
<1>1. FlowInvariant => TypeOK
  BY DEF FlowInvariant
<1> QED
  BY <1>1, FlowInvariantHolds, PTL

\* Request Workers, submitters, resubmitters, Watchdogs, Webhooks and the
\* publisher call the repository only as AsyncJobState allows: each of their
\* steps is one of its steps or invisible to it, also when leases expire,
\* calls fail and processes die.  So what is proved of AsyncJobState holds of
\* the running system.
THEOREM ContractKept == Spec => CallersKeepContract
<1>1. Init => DB!Init
  <2> SUFFICES ASSUME Init PROVE DB!Init
    OBVIOUS
  <2>1. Sender = {} /\ Sent = {}
    BY DEF Init, Sender, At, AtRest, Sent, Process
  <2>2. Unsent = NULL
    BY <2>1 DEF Unsent
  <2> QED
    BY <2>1, <2>2 DEF Init, DB!Init, NewJob, DB!NewJob
<1>2. Inv /\ [Next]_vars => [DB!Next]_(DB!vars)
  BY NextKeeps, SameStep DEF Kept
<1> QED
  BY <1>1, <1>2, InvHolds, PTL DEF Spec, CallersKeepContract, DB!Spec

\* Runware generates at most once for a job, whatever is resubmitted.
THEOREM PaidOnlyOnce == Spec => []PaidOnce
<1>1. FlowInvariant => PaidOnce
  BY DEF FlowInvariant, RefusalsAreTrue, Generated, PaidOnce
<1> QED
  BY <1>1, FlowInvariantHolds, PTL

\* A running generation never loses its slot.
THEOREM RunningAlwaysHoldsSlot == Spec => []RunningHoldsSlot
<1>1. FlowInvariant => RunningHoldsSlot
  BY DEF FlowInvariant
<1> QED
  BY <1>1, FlowInvariantHolds, PTL

\* A job whose message is gone has ended or is one the Watchdog selects: a
\* job past its request is started or has another next action, and each of
\* these is a candidate.
THEOREM NoJobIsForgotten == Spec => []NoJobForgotten
<1>1. Inv => NoJobForgotten
  <2> SUFFICES ASSUME Inv, ~msg, job.status \notin Terminal
               PROVE  Candidate(job)
    BY DEF NoJobForgotten
  <2>1. job.started \/ job.nextAction # "SUBMIT_PRUNA"
    BY DEF Inv, MessageUntilPast, PastRequest
  <2>2. /\ job \in JobRow
        /\ job.status = "RECEIVED" /\ job.nextAction = "SUBMIT_PRUNA" => ~job.accepted
    BY DEF Inv, TypeOK, RowFitsFlow
  <2>3. /\ job.nextAction = "PUBLISH_RESULT" <=> job.result # NULL
        /\ job.nextAction = NULL => job.status = "WAITING_PRUNA" /\ job.accepted
        /\ job.nextAction = "SUBMIT_PRUNA" => job.status = "RECEIVED"
    BY DEF Inv, P!IInv, P!NextActionMatchesStatus, P!ActionMatchesStatus,
           Terminal, P!Terminal
  <2>4. job.nextAction \in NextAction \cup {NULL}
    BY <2>2 DEF JobRow
  <2> QED
    BY <2>1, <2>2, <2>3, <2>4, NullAssumption
       DEF Candidate, AwaitingWebhook, SubmitUnknown, NotAcceptedPending, NextAction
<1> QED
  BY <1>1, InvHolds, PTL
=============================================================================
