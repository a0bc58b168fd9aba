------------------------ MODULE AsyncJobState_proofs ------------------------
(***************************************************************************)
(* Proofs about AsyncJobState for every number of tasks, lease tokens,     *)
(* references and every value of the limits.                               *)
(*                                                                         *)
(* IInv is split in two: what one row says by itself (RowOK) and what      *)
(* relates it to the attempts, the slot and the grants (Chain).  First,    *)
(* for each repository method, the new row is RowOK; then, for each step,  *)
(* Chain is kept; a step that leaves the columns Chain reads (SameChain)   *)
(* keeps it for one common reason (RowStep).                               *)
(***************************************************************************)
EXTENDS AsyncJobState, TLAPS

RowOK(j) ==
    /\ j \in JobRow
    /\ ActionMatchesStatus(j) /\ EndMatchesPublication(j)
    /\ RowConsistent(j)
    /\ j.verified => j.status # "FALLBACK_RUNNING" /\ ~j.fbStarted

Chain ==
    /\ UnstartedIsClean /\ RejectionsAgree /\ SentIsAccountedFor
    /\ AttemptChain
    /\ SlotHasOwner /\ UnsentIsCurrent
    /\ HoldIsOnCurrentTask

\* The columns that Chain reads.
SameChain(j, k) ==
    /\ k.task = j.task /\ k.started = j.started
    /\ k.notAccepted = j.notAccepted /\ k.authHold = j.authHold
    /\ k.fbTask = j.fbTask /\ k.fbStarted = j.fbStarted
    /\ k.retryAt = j.retryAt

\* The columns that RowOK relates.
SameCore(j, k) ==
    /\ SameChain(j, k)
    /\ k.status = j.status /\ k.nextAction = j.nextAction
    /\ k.accepted = j.accepted /\ k.verified = j.verified
    /\ k.result = j.result /\ k.msgStatus = j.msgStatus
    /\ k.msgAttempts = j.msgAttempts
    /\ k.fbImage = j.fbImage \/ k.fbStarted
    /\ \/ k.url = j.url /\ k.uuid = j.uuid
       \/ k.status \notin {"RECEIVED", "WAITING_PRUNA"}

-----------------------------------------------------------------------------
(* The row after each repository method. *)

LEMMA SameCoreOK ==
    ASSUME NEW j \in JobRow, NEW k \in JobRow, RowOK(j), SameCore(j, k)
    PROVE  RowOK(k) /\ SameChain(j, k)
<1>1. ActionMatchesStatus(k)
  BY DEF RowOK, SameCore, ActionMatchesStatus
<1>2. EndMatchesPublication(k)
  BY DEF RowOK, SameCore, EndMatchesPublication
<1>3. RowConsistent(k)
  BY DEF RowOK, SameCore, SameChain, RowConsistent
<1> QED
  BY <1>1, <1>2, <1>3 DEF RowOK, SameCore, SameChain

LEMMA AcquireLeaseRow ==
    ASSUME NEW j \in JobRow, NEW tok \in Token, RowOK(j)
    PROVE  RowOK(AcquireLease(j, tok)) /\ SameChain(j, AcquireLease(j, tok))
<1>1. AcquireLease(j, tok) \in JobRow
  BY DEF JobRow, AcquireLease
<1>2. SameCore(j, AcquireLease(j, tok))
  BY DEF JobRow, SameCore, SameChain, AcquireLease
<1> QED
  BY <1>1, <1>2, SameCoreOK

LEMMA ReleaseLeaseRow ==
    ASSUME NEW j \in JobRow, RowOK(j)
    PROVE  RowOK(ReleaseLease(j)) /\ SameChain(j, ReleaseLease(j))
<1>1. ReleaseLease(j) \in JobRow
  BY DEF JobRow, ReleaseLease
<1>2. SameCore(j, ReleaseLease(j))
  BY DEF JobRow, SameCore, SameChain, ReleaseLease
<1> QED
  BY <1>1, <1>2, SameCoreOK

LEMMA ExpireLeaseRow ==
    ASSUME NEW j \in JobRow, RowOK(j)
    PROVE  RowOK(ExpireLease(j)) /\ SameChain(j, ExpireLease(j))
<1>1. ExpireLease(j) \in JobRow
  BY DEF JobRow, ExpireLease
<1>2. SameCore(j, ExpireLease(j))
  BY DEF JobRow, SameCore, SameChain, ExpireLease
<1> QED
  BY <1>1, <1>2, SameCoreOK

LEMMA ClaimS3CheckRow ==
    ASSUME NEW j \in JobRow, NEW tok \in Token, RowOK(j), CanClaimS3Check(j, tok)
    PROVE  RowOK(ClaimS3Check(j)) /\ SameChain(j, ClaimS3Check(j))
<1>1. ClaimS3Check(j) \in JobRow
  BY LimitAssumption DEF JobRow, ClaimS3Check, CanClaimS3Check
<1>2. SameCore(j, ClaimS3Check(j))
  BY DEF JobRow, SameCore, SameChain, ClaimS3Check
<1> QED
  BY <1>1, <1>2, SameCoreOK

LEMMA ClaimLlmRow ==
    ASSUME NEW j \in JobRow, NEW tok \in Token, RowOK(j), CanClaimLlm(j, tok)
    PROVE  RowOK(ClaimLlm(j)) /\ SameChain(j, ClaimLlm(j))
<1>1. ClaimLlm(j) \in JobRow
  BY LimitAssumption DEF JobRow, ClaimLlm, CanClaimLlm
<1>2. SameCore(j, ClaimLlm(j))
  BY DEF JobRow, SameCore, SameChain, ClaimLlm
<1> QED
  BY <1>1, <1>2, SameCoreOK

LEMMA RecordFallbackImageRow ==
    ASSUME NEW j \in JobRow, NEW tok \in Token, RowOK(j),
           CanRecordFallbackImage(j, tok)
    PROVE  RowOK(RecordFallbackImage(j)) /\ SameChain(j, RecordFallbackImage(j))
<1>1. RecordFallbackImage(j) \in JobRow
  BY DEF JobRow, RecordFallbackImage
<1>2. SameCore(j, RecordFallbackImage(j))
  BY DEF JobRow, SameCore, SameChain, RecordFallbackImage,
         CanRecordFallbackImage
<1> QED
  BY <1>1, <1>2, SameCoreOK

LEMMA FillImageRefRow ==
    ASSUME NEW j \in JobRow, NEW url \in Ref \cup {NULL},
           NEW uuid \in Ref \cup {NULL}, NEW t \in Task,
           NEW confirmed \in BOOLEAN,
           RowOK(j), CanFillImageRef(j, t, url, uuid, confirmed)
    PROVE  /\ RowOK(FillImageRef(j, url, uuid))
           /\ SameChain(j, FillImageRef(j, url, uuid))
<1> DEFINE u == IF j.url = NULL THEN url ELSE j.url
           v == IF j.uuid = NULL THEN uuid ELSE j.uuid
           k == [j EXCEPT !.url = u, !.uuid = v]
<1>1. u \in Ref \cup {NULL} /\ v \in Ref \cup {NULL}
  BY DEF JobRow
<1>2. k \in JobRow /\ SameCore(j, k)
  <2> HIDE DEF u, v
  <2>1. k \in JobRow
    BY <1>1 DEF JobRow
  <2>2. SameCore(j, k)
    BY DEF JobRow, SameCore, SameChain, CanFillImageRef
  <2> QED
    BY <2>1, <2>2
<1> QED
  BY <1>2, SameCoreOK DEF FillImageRef

LEMMA PreparePrunaRow ==
    ASSUME NEW j \in JobRow, NEW tok \in Token, NEW t \in Task, NEW ai \in BOOLEAN,
           RowOK(j), CanPreparePruna(j, tok)
    PROVE  RowOK(PreparePruna(j, t, ai))
<1> DEFINE k == PreparePruna(j, t, ai)
<1>1. k \in JobRow
  BY DEF JobRow, PreparePruna
<1>3. ActionMatchesStatus(k)
  BY NullAssumption
  DEF JobRow, PreparePruna, RowOK, ActionMatchesStatus, CanPreparePruna,
      NextAction, Payload, Terminal
<1>4. EndMatchesPublication(k)
  BY NullAssumption
  DEF JobRow, PreparePruna, RowOK, EndMatchesPublication, CanPreparePruna,
      PayloadStatus, Payload, Terminal
<1>5. RowConsistent(k)
  BY NullAssumption
  DEF JobRow, PreparePruna, RowOK, RowConsistent, CanPreparePruna, Terminal
<1>6. k.verified => k.status # "FALLBACK_RUNNING" /\ ~k.fbStarted
  BY DEF JobRow, PreparePruna, RowOK, RowConsistent, CanPreparePruna, Terminal
<1> QED
  BY <1>1, <1>3, <1>4, <1>5, <1>6 DEF RowOK

LEMMA RecordAuthHoldRow ==
    ASSUME NEW j \in JobRow, NEW t \in Task,
           RowOK(j), CanRecordAuthHold(j, t)
    PROVE  RowOK(RecordAuthHold(j))
<1> DEFINE k == RecordAuthHold(j)
<1>1. k \in JobRow
  BY DEF JobRow, RecordAuthHold
<1>3. ActionMatchesStatus(k)
  BY NullAssumption
  DEF JobRow, RecordAuthHold, RowOK, ActionMatchesStatus, CanRecordAuthHold,
      EventApplies, AwaitingResult, NextAction, Payload, Terminal
<1>4. EndMatchesPublication(k)
  BY NullAssumption
  DEF JobRow, RecordAuthHold, RowOK, EndMatchesPublication, CanRecordAuthHold,
      EventApplies, AwaitingResult, PayloadStatus, Payload, Terminal
<1>5. RowConsistent(k)
  BY NullAssumption
  DEF JobRow, RecordAuthHold, RowOK, RowConsistent, CanRecordAuthHold,
      EventApplies, AwaitingResult, Terminal
<1>6. k.verified => k.status # "FALLBACK_RUNNING" /\ ~k.fbStarted
  BY
  DEF JobRow, RecordAuthHold, RowOK, RowConsistent, CanRecordAuthHold,
      EventApplies, AwaitingResult, Terminal
<1> QED
  BY <1>1, <1>3, <1>4, <1>5, <1>6 DEF RowOK

LEMMA PrepareFallbackRow ==
    ASSUME NEW j \in JobRow, NEW tok \in Token, NEW t \in Task,
           RowOK(j), CanPrepareFallback(j, tok, t)
    PROVE  RowOK(PrepareFallback(j, t))
<1> DEFINE k == PrepareFallback(j, t)
<1>1. k \in JobRow
  BY DEF JobRow, PrepareFallback
<1>3. ActionMatchesStatus(k)
  BY NullAssumption
  DEF JobRow, PrepareFallback, RowOK, ActionMatchesStatus, CanPrepareFallback,
      Fallback, NextAction, Payload, Terminal
<1>4. EndMatchesPublication(k)
  BY NullAssumption
  DEF JobRow, PrepareFallback, RowOK, EndMatchesPublication,
      CanPrepareFallback, Fallback, PayloadStatus, Payload, Terminal
<1>5. RowConsistent(k)
  BY NullAssumption
  DEF JobRow, PrepareFallback, RowOK, RowConsistent, CanPrepareFallback,
      Fallback, Terminal
<1>6. k.verified => k.status # "FALLBACK_RUNNING" /\ ~k.fbStarted
  BY
  DEF JobRow, PrepareFallback, RowOK, RowConsistent, CanPrepareFallback,
      Fallback, Terminal
<1> QED
  BY <1>1, <1>3, <1>4, <1>5, <1>6 DEF RowOK

LEMMA RecordAcceptedRow ==
    ASSUME NEW j \in JobRow, NEW t \in Task, RowOK(j), CanRecordAccepted(j, t)
    PROVE  RowOK(RecordAccepted(j)) /\ SameChain(j, RecordAccepted(j))
<1> DEFINE k == RecordAccepted(j)
<1>1. CASE j.status = "RECEIVED" /\ j.nextAction = "SUBMIT_PRUNA"
  <2>1. k = [j EXCEPT !.accepted = TRUE, !.status = "WAITING_PRUNA",
                      !.nextAction = NULL]
    BY <1>1 DEF RecordAccepted
  <2> HIDE DEF k
  <2>2. k \in JobRow
    BY <2>1 DEF JobRow, Status
  <2>3. SameChain(j, k)
    BY <2>1 DEF JobRow, SameChain
  <2>4. ActionMatchesStatus(k)
    BY <1>1, <2>1, NullAssumption
    DEF JobRow, RowOK, ActionMatchesStatus, NextAction, Terminal
  <2>5. EndMatchesPublication(k)
    BY <1>1, <2>1 DEF JobRow, RowOK, EndMatchesPublication, Terminal
  <2>6. RowConsistent(k)
    BY <1>1, <2>1
    DEF JobRow, RowOK, RowConsistent, CanRecordAccepted, EventApplies, Terminal
  <2>7. k.verified => k.status # "FALLBACK_RUNNING" /\ ~k.fbStarted
    BY <2>1 DEF JobRow, RowOK
  <2> QED
    BY <2>2, <2>3, <2>4, <2>5, <2>6, <2>7 DEF RowOK, k
<1>2. CASE ~(j.status = "RECEIVED" /\ j.nextAction = "SUBMIT_PRUNA")
  <2>1. k = [j EXCEPT !.accepted = TRUE]
    BY <1>2 DEF RecordAccepted
  <2> HIDE DEF k
  <2>2. k \in JobRow
    BY <2>1 DEF JobRow
  <2>3. SameChain(j, k)
    BY <2>1 DEF JobRow, SameChain
  <2>4. ActionMatchesStatus(k)
    BY <2>1 DEF JobRow, RowOK, ActionMatchesStatus
  <2>5. EndMatchesPublication(k)
    BY <2>1 DEF JobRow, RowOK, EndMatchesPublication
  <2>6. RowConsistent(k)
    BY <2>1 DEF JobRow, RowOK, RowConsistent
  <2>7. k.verified => k.status # "FALLBACK_RUNNING" /\ ~k.fbStarted
    BY <2>1 DEF JobRow, RowOK
  <2> QED
    BY <2>2, <2>3, <2>4, <2>5, <2>6, <2>7 DEF RowOK, k
<1> QED
  BY <1>1, <1>2

LEMMA WithOneColumn ==
    ASSUME NEW j \in JobRow
    PROVE  /\ \A s \in Status : [j EXCEPT !.status = s] \in JobRow
           /\ \A a \in NextAction \cup {NULL} : [j EXCEPT !.nextAction = a] \in JobRow
           /\ \A b \in BOOLEAN : [j EXCEPT !.accepted = b] \in JobRow
           /\ \A u \in Ref \cup {NULL} : [j EXCEPT !.url = u] \in JobRow
           /\ \A u \in Ref \cup {NULL} : [j EXCEPT !.uuid = u] \in JobRow
<1>1. ASSUME NEW s \in Status PROVE [j EXCEPT !.status = s] \in JobRow
  BY DEF JobRow
<1>2. ASSUME NEW a \in NextAction \cup {NULL} PROVE [j EXCEPT !.nextAction = a] \in JobRow
  BY DEF JobRow
<1>3. ASSUME NEW b \in BOOLEAN PROVE [j EXCEPT !.accepted = b] \in JobRow
  BY DEF JobRow
<1>4. ASSUME NEW u \in Ref \cup {NULL} PROVE [j EXCEPT !.url = u] \in JobRow
  BY DEF JobRow
<1>5. ASSUME NEW u \in Ref \cup {NULL} PROVE [j EXCEPT !.uuid = u] \in JobRow
  BY DEF JobRow
<1> QED
  BY <1>1, <1>2, <1>3, <1>4, <1>5

LEMMA RecordSucceededRow ==
    ASSUME NEW j \in JobRow, NEW t \in Task, NEW url \in Ref \cup {NULL}, NEW uuid \in Ref \cup {NULL},
           RowOK(j), CanRecordSucceeded(j, t)
    PROVE  RowOK(RecordSucceeded(j, url, uuid)) /\ SameChain(j, RecordSucceeded(j, url, uuid))
<1> DEFINE k == RecordSucceeded(j, url, uuid)
<1>1. k \in JobRow
  <2> DEFINE c1 == [j EXCEPT !.status = "POSTPROCESSING"]
             c2 == [c1 EXCEPT !.nextAction = "POSTPROCESS"]
             c3 == [c2 EXCEPT !.accepted = TRUE]
             c4 == [c3 EXCEPT !.url = url]
             c5 == [c4 EXCEPT !.uuid = uuid]
  <2>1. k = c5
    BY DEF JobRow, RecordSucceeded
  <2> HIDE DEF k, c5
  <2>2. "POSTPROCESSING" \in Status /\ "POSTPROCESS" \in NextAction \cup {NULL}
    BY DEF Status, NextAction
  <2>3. c1 \in JobRow
    BY <2>2, WithOneColumn
  <2> HIDE DEF c1
  <2>4. c2 \in JobRow
    BY <2>2, <2>3, WithOneColumn
  <2> HIDE DEF c2
  <2>5. c3 \in JobRow
    BY <2>4, WithOneColumn
  <2> HIDE DEF c3
  <2>6. c4 \in JobRow
    BY <2>5, WithOneColumn
  <2> HIDE DEF c4
  <2>7. c5 \in JobRow
    BY <2>6, WithOneColumn DEF c5
  <2> QED
    BY <2>1, <2>7
<1>2. SameChain(j, k)
  BY DEF SameChain, JobRow, RecordSucceeded
<1>3. ActionMatchesStatus(k)
  BY NullAssumption
  DEF JobRow, RecordSucceeded, RowOK, ActionMatchesStatus, CanRecordSucceeded,
      EventApplies, AwaitingResult, NextAction, Payload, Terminal
<1>4. EndMatchesPublication(k)
  BY NullAssumption
  DEF JobRow, RecordSucceeded, RowOK, EndMatchesPublication,
      CanRecordSucceeded, EventApplies, AwaitingResult, PayloadStatus, Payload,
      Terminal
<1>5. RowConsistent(k)
  BY NullAssumption
  DEF JobRow, RecordSucceeded, RowOK, RowConsistent, CanRecordSucceeded,
      EventApplies, AwaitingResult, Terminal
<1>6. k.verified => k.status # "FALLBACK_RUNNING" /\ ~k.fbStarted
  BY
  DEF JobRow, RecordSucceeded, RowOK, RowConsistent, CanRecordSucceeded,
      EventApplies, AwaitingResult, Terminal
<1> QED
  BY <1>1, <1>2, <1>3, <1>4, <1>5, <1>6 DEF RowOK

LEMMA RecordFailedRecoverableRow ==
    ASSUME NEW j \in JobRow, NEW t \in Task,
           RowOK(j), CanRecordFailed(j, t)
    PROVE  RowOK(RecordFailedRecoverable(j)) /\ SameChain(j, RecordFailedRecoverable(j))
<1> DEFINE k == RecordFailedRecoverable(j)
<1>1. k \in JobRow
  BY DEF JobRow, RecordFailedRecoverable, Status, NextAction
<1>2. SameChain(j, k)
  BY DEF SameChain, JobRow, RecordFailedRecoverable
<1>3. ActionMatchesStatus(k)
  BY NullAssumption
  DEF JobRow, RecordFailedRecoverable, RowOK, ActionMatchesStatus,
      CanRecordFailed, EventApplies, AwaitingResult, NextAction, Payload, Terminal
<1>4. EndMatchesPublication(k)
  BY NullAssumption
  DEF JobRow, RecordFailedRecoverable, RowOK, EndMatchesPublication,
      CanRecordFailed, EventApplies, AwaitingResult, PayloadStatus, Payload,
      Terminal
<1>5. RowConsistent(k)
  BY NullAssumption
  DEF JobRow, RecordFailedRecoverable, RowOK, RowConsistent, CanRecordFailed,
      EventApplies, AwaitingResult, Terminal
<1>6. k.verified => k.status # "FALLBACK_RUNNING" /\ ~k.fbStarted
  BY
  DEF JobRow, RecordFailedRecoverable, RowOK, RowConsistent, CanRecordFailed,
      EventApplies, AwaitingResult, Terminal
<1> QED
  BY <1>1, <1>2, <1>3, <1>4, <1>5, <1>6 DEF RowOK

LEMMA RecordFailedFinalRow ==
    ASSUME NEW j \in JobRow, NEW t \in Task,
           RowOK(j), CanRecordFailed(j, t)
    PROVE  RowOK(RecordFailedFinal(j)) /\ SameChain(j, RecordFailedFinal(j))
<1> DEFINE k == RecordFailedFinal(j)
<1>1. k \in JobRow
  BY DEF JobRow, RecordFailedFinal, NextAction, Payload
<1>2. SameChain(j, k)
  BY DEF SameChain, JobRow, RecordFailedFinal
<1>3. ActionMatchesStatus(k)
  BY NullAssumption
  DEF JobRow, RecordFailedFinal, RowOK, ActionMatchesStatus, CanRecordFailed,
      EventApplies, AwaitingResult, NextAction, Payload, Terminal
<1>4. EndMatchesPublication(k)
  BY NullAssumption
  DEF JobRow, RecordFailedFinal, RowOK, EndMatchesPublication, CanRecordFailed,
      EventApplies, AwaitingResult, PayloadStatus, Payload, Terminal
<1>5. RowConsistent(k)
  BY NullAssumption
  DEF JobRow, RecordFailedFinal, RowOK, RowConsistent, CanRecordFailed,
      EventApplies, AwaitingResult, Terminal
<1>6. k.verified => k.status # "FALLBACK_RUNNING" /\ ~k.fbStarted
  BY
  DEF JobRow, RecordFailedFinal, RowOK, RowConsistent, CanRecordFailed,
      EventApplies, AwaitingResult, Terminal
<1> QED
  BY <1>1, <1>2, <1>3, <1>4, <1>5, <1>6 DEF RowOK

LEMMA RecordVerifiedRow ==
    ASSUME NEW j \in JobRow, NEW tok \in Token,
           RowOK(j), CanRecordVerified(j, tok)
    PROVE  RowOK(RecordVerified(j)) /\ SameChain(j, RecordVerified(j))
<1> DEFINE k == RecordVerified(j)
<1>1. k \in JobRow
  BY DEF JobRow, RecordVerified
<1>2. SameChain(j, k)
  BY DEF SameChain, JobRow, RecordVerified
<1>3. ActionMatchesStatus(k)
  BY NullAssumption
  DEF JobRow, RecordVerified, RowOK, ActionMatchesStatus, CanRecordVerified,
      Postprocessing, NextAction, Payload, Terminal
<1>4. EndMatchesPublication(k)
  BY NullAssumption
  DEF JobRow, RecordVerified, RowOK, EndMatchesPublication, CanRecordVerified,
      Postprocessing, PayloadStatus, Payload, Terminal
<1>5. RowConsistent(k)
  BY NullAssumption
  DEF JobRow, RecordVerified, RowOK, RowConsistent, CanRecordVerified,
      Postprocessing, Terminal
<1>6. k.verified => k.status # "FALLBACK_RUNNING" /\ ~k.fbStarted
  BY
  DEF JobRow, RecordVerified, RowOK, RowConsistent, CanRecordVerified,
      Postprocessing, Terminal
<1> QED
  BY <1>1, <1>2, <1>3, <1>4, <1>5, <1>6 DEF RowOK

LEMMA MoveToFallbackRow ==
    ASSUME NEW j \in JobRow, NEW tok \in Token,
           RowOK(j), CanMoveToFallback(j, tok)
    PROVE  RowOK(MoveToFallback(j)) /\ SameChain(j, MoveToFallback(j))
<1> DEFINE k == MoveToFallback(j)
<1>1. k \in JobRow
  BY DEF JobRow, MoveToFallback, Status, NextAction
<1>2. SameChain(j, k)
  BY DEF SameChain, JobRow, MoveToFallback
<1>3. ActionMatchesStatus(k)
  BY NullAssumption
  DEF JobRow, MoveToFallback, RowOK, ActionMatchesStatus, CanMoveToFallback,
      Postprocessing, NextAction, Payload, Terminal
<1>4. EndMatchesPublication(k)
  BY NullAssumption
  DEF JobRow, MoveToFallback, RowOK, EndMatchesPublication, CanMoveToFallback,
      Postprocessing, PayloadStatus, Payload, Terminal
<1>5. RowConsistent(k)
  BY NullAssumption
  DEF JobRow, MoveToFallback, RowOK, RowConsistent, CanMoveToFallback,
      Postprocessing, Terminal
<1>6. k.verified => k.status # "FALLBACK_RUNNING" /\ ~k.fbStarted
  BY
  DEF JobRow, MoveToFallback, RowOK, RowConsistent, CanMoveToFallback,
      Postprocessing, Terminal
<1> QED
  BY <1>1, <1>2, <1>3, <1>4, <1>5, <1>6 DEF RowOK

LEMMA SaveResultRow ==
    ASSUME NEW j \in JobRow, NEW p \in Payload, NEW tok \in Token,
           RowOK(j), CanSaveResult(j, tok)
    PROVE  RowOK(SaveResult(j, p)) /\ SameChain(j, SaveResult(j, p))
<1> DEFINE k == SaveResult(j, p)
<1>1. k \in JobRow
  BY DEF JobRow, SaveResult, NextAction
<1>2. SameChain(j, k)
  BY DEF SameChain, JobRow, SaveResult
<1>3. ActionMatchesStatus(k)
  BY NullAssumption
  DEF JobRow, SaveResult, RowOK, ActionMatchesStatus, CanSaveResult,
      NextAction, Payload, Terminal
<1>4. EndMatchesPublication(k)
  BY NullAssumption
  DEF JobRow, SaveResult, RowOK, EndMatchesPublication, CanSaveResult,
      PayloadStatus, Payload, Terminal
<1>5. RowConsistent(k)
  BY NullAssumption
  DEF JobRow, SaveResult, RowOK, RowConsistent, CanSaveResult, Terminal
<1>6. k.verified => k.status # "FALLBACK_RUNNING" /\ ~k.fbStarted
  BY DEF JobRow, SaveResult, RowOK, RowConsistent, CanSaveResult, Terminal
<1> QED
  BY <1>1, <1>2, <1>3, <1>4, <1>5, <1>6 DEF RowOK

LEMMA ClaimMessageRow ==
    ASSUME NEW j \in JobRow, NEW tok \in Token,
           RowOK(j), CanClaimMessage(j, tok)
    PROVE  RowOK(ClaimMessage(j)) /\ SameChain(j, ClaimMessage(j))
<1> DEFINE k == ClaimMessage(j)
<1>1. k \in JobRow
  BY LimitAssumption DEF JobRow, ClaimMessage, CanClaimMessage, Publishing
<1>2. SameChain(j, k)
  BY DEF SameChain, JobRow, ClaimMessage
<1>3. ActionMatchesStatus(k)
  BY NullAssumption
  DEF JobRow, ClaimMessage, RowOK, ActionMatchesStatus, CanClaimMessage,
      Publishing, NextAction, Payload, Terminal
<1>4. EndMatchesPublication(k)
  BY NullAssumption, LimitAssumption
  DEF JobRow, ClaimMessage, RowOK, EndMatchesPublication, CanClaimMessage,
      Publishing, PayloadStatus, Payload, Terminal
<1>5. RowConsistent(k)
  BY NullAssumption
  DEF JobRow, ClaimMessage, RowOK, RowConsistent, CanClaimMessage, Publishing,
      Terminal
<1>6. k.verified => k.status # "FALLBACK_RUNNING" /\ ~k.fbStarted
  BY
  DEF JobRow, ClaimMessage, RowOK, RowConsistent, CanClaimMessage, Publishing,
      Terminal
<1> QED
  BY <1>1, <1>2, <1>3, <1>4, <1>5, <1>6 DEF RowOK

LEMMA MarkPublishedRow ==
    ASSUME NEW j \in JobRow, NEW tok \in Token, NEW f \in Terminal,
           RowOK(j), CanMarkPublished(j, tok, f)
    PROVE  RowOK(MarkPublished(j, f)) /\ SameChain(j, MarkPublished(j, f))
<1> DEFINE k == MarkPublished(j, f)
<1>1. k \in JobRow
  <2>1. f \in Status /\ "PUBLISHED" \in MessageStatus /\ FALSE \in BOOLEAN
    BY DEF Status, MessageStatus
  <2> QED
    BY <2>1 DEF JobRow, MarkPublished
<1>2. SameChain(j, k)
  BY DEF SameChain, JobRow, MarkPublished
<1>3. ActionMatchesStatus(k)
  BY NullAssumption
  DEF JobRow, MarkPublished, RowOK, ActionMatchesStatus, CanMarkPublished,
      Publishing, NextAction, Payload, Terminal
<1>4. EndMatchesPublication(k)
  BY NullAssumption
  DEF JobRow, MarkPublished, RowOK, EndMatchesPublication, CanMarkPublished,
      Publishing, PayloadStatus, Payload, Terminal
<1>5. RowConsistent(k)
  BY NullAssumption
  DEF JobRow, MarkPublished, RowOK, RowConsistent, CanMarkPublished,
      Publishing, Terminal
<1>6. k.verified => k.status # "FALLBACK_RUNNING" /\ ~k.fbStarted
  BY
  DEF JobRow, MarkPublished, RowOK, RowConsistent, CanMarkPublished,
      Publishing, Terminal
<1> QED
  BY <1>1, <1>2, <1>3, <1>4, <1>5, <1>6 DEF RowOK

LEMMA MarkExhaustedRow ==
    ASSUME NEW j \in JobRow, NEW tok \in Token,
           RowOK(j), CanMarkExhausted(j, tok)
    PROVE  RowOK(MarkExhausted(j)) /\ SameChain(j, MarkExhausted(j))
<1> DEFINE k == MarkExhausted(j)
<1>1. k \in JobRow
  BY LimitAssumption DEF JobRow, MarkExhausted, MessageStatus
<1>2. SameChain(j, k)
  BY DEF SameChain, JobRow, MarkExhausted
<1>3. ActionMatchesStatus(k)
  BY NullAssumption
  DEF JobRow, MarkExhausted, RowOK, ActionMatchesStatus, CanMarkExhausted,
      Publishing, NextAction, Payload, Terminal
<1>4. EndMatchesPublication(k)
  BY NullAssumption, LimitAssumption
  DEF JobRow, MarkExhausted, RowOK, EndMatchesPublication, CanMarkExhausted,
      Publishing, PayloadStatus, Payload, Terminal
<1>5. RowConsistent(k)
  BY NullAssumption
  DEF JobRow, MarkExhausted, RowOK, RowConsistent, CanMarkExhausted,
      Publishing, Terminal
<1>6. k.verified => k.status # "FALLBACK_RUNNING" /\ ~k.fbStarted
  BY
  DEF JobRow, MarkExhausted, RowOK, RowConsistent, CanMarkExhausted,
      Publishing, Terminal
<1> QED
  BY <1>1, <1>2, <1>3, <1>4, <1>5, <1>6 DEF RowOK

-----------------------------------------------------------------------------
(* The steps. *)

LEMMA IInvParts == IInv <=> TypeOK /\ RowOK(job) /\ Chain
BY DEF IInv, TypeOK, RowOK, Chain, NextActionMatchesStatus,
       TerminalIffPublished, VerifiedNeverFallsBack

LEMMA IInvPrimed == TypeOK' /\ RowOK(job') /\ Chain' => IInv'
BY DEF IInv, TypeOK, RowOK, Chain, NextActionMatchesStatus,
       TerminalIffPublished, VerifiedNeverFallsBack

LEMMA InitIInv == Init => IInv
<1> SUFFICES ASSUME Init PROVE TypeOK /\ RowOK(job) /\ Chain
  BY IInvParts
<1>0. /\ attempts = [t \in Task |-> 0]
      /\ rejected = {} /\ conflict = {} /\ unsent = NULL
  BY DEF Init
<1>1. CASE job = NewJob /\ slot = NULL /\ sent = {}
  <2>1. job \in JobRow
    BY <1>1, LimitAssumption, NullAssumption
    DEF NewJob, JobRow, Status, NextAction, MessageStatus
  <2>2. RowOK(job)
    BY <1>1, <2>1, NullAssumption
    DEF RowOK, NewJob, ActionMatchesStatus, EndMatchesPublication,
        RowConsistent, Terminal, NextAction
  <2>3. TypeOK
    BY <1>0, <1>1, <2>1, LimitAssumption DEF TypeOK
  <2>4. Chain
    BY <1>0, <1>1, NullAssumption
    DEF NewJob, Chain, UnstartedIsClean, RejectionsAgree,
        SentIsAccountedFor, AttemptChain, AttemptNumbersUnique,
        EarlierRejected, OldAttemptsRejected, CurrentIsNewest, SlotHasOwner,
        UnsentIsCurrent, HoldIsOnCurrentTask
  <2> QED
    BY <2>2, <2>3, <2>4
<1>2. ASSUME NEW t \in Task,
             job = [NewJob EXCEPT !.task = t, !.started = TRUE],
             slot = t, sent = {t}
      PROVE  TypeOK /\ RowOK(job) /\ Chain
  <2>1. NewJob \in JobRow
    BY LimitAssumption, NullAssumption
    DEF NewJob, JobRow, Status, NextAction, MessageStatus
  <2>2. job \in JobRow
    BY <1>2, <2>1 DEF JobRow
  <2>3. RowOK(job)
    BY <1>2, <2>2, NullAssumption
    DEF RowOK, NewJob, ActionMatchesStatus, EndMatchesPublication,
        RowConsistent, Terminal, NextAction
  <2>4. TypeOK
    BY <1>0, <1>2, <2>2, LimitAssumption DEF TypeOK
  <2>5. /\ job.task = t /\ job.started /\ ~job.notAccepted
        /\ job.authHold = NULL /\ job.retryAt = NULL
    BY <1>2 DEF NewJob
  <2>6. Chain
    BY <1>0, <1>2, <2>5, NullAssumption
    DEF Chain, UnstartedIsClean, RejectionsAgree,
        SentIsAccountedFor, AttemptChain, AttemptNumbersUnique,
        EarlierRejected, OldAttemptsRejected, CurrentIsNewest, SlotHasOwner,
        UnsentIsCurrent, HoldIsOnCurrentTask
  <2> QED
    BY <2>3, <2>4, <2>6
<1> QED
  BY <1>1, <1>2 DEF Init

\* A transaction that leaves the columns Chain reads and everything but the
\* row as they were.
LEMMA RowStep ==
    ASSUME IInv, RowOK(job'), SameChain(job, job'),
           UNCHANGED <<attemptVars, slot, callVars>>
    PROVE  IInv'
<1>1. TypeOK'
  BY DEF IInv, TypeOK, RowOK, attemptVars, callVars
<1>2. Chain'
  BY IInvParts
  DEF SameChain, attemptVars, callVars, Chain, UnstartedIsClean,
      RejectionsAgree, SentIsAccountedFor, AttemptChain, AttemptNumbersUnique,
      EarlierRejected, OldAttemptsRejected, CurrentIsNewest, SlotHasOwner,
      UnsentIsCurrent, HoldIsOnCurrentTask
<1> QED
  BY <1>1, <1>2, IInvPrimed

LEMMA PrepareKeeps ==
    ASSUME IInv, NEW tok \in Token, NEW t \in Task, PrepareStep(tok, t)
    PROVE  IInv'
<1>1. /\ CanPreparePruna(job, tok) /\ Unused(t)
      /\ job' = PreparePruna(job, t, TRUE)
      /\ UNCHANGED <<attemptVars, slot, callVars>>
  BY DEF PrepareStep, RowChange
<1>2. RowOK(job')
  BY <1>1, PreparePrunaRow, IInvParts DEF RowOK
<1>3. /\ job'.started = job.started /\ ~job.started /\ job'.task = t
      /\ job'.notAccepted = job.notAccepted /\ job'.authHold = job.authHold
      /\ job'.retryAt = job.retryAt /\ job.task = NULL
  BY <1>1 DEF PreparePruna, CanPreparePruna, IInv, TypeOK, JobRow
<1>4. TypeOK'
  BY <1>1, <1>2 DEF IInv, TypeOK, RowOK, attemptVars, callVars
<1>5. Chain'
  BY <1>1, <1>3, NullAssumption
  DEF IInv, TypeOK, attemptVars, callVars, Unused, Chain, UnstartedIsClean,
      RejectionsAgree, SentIsAccountedFor, AttemptChain, AttemptNumbersUnique,
      EarlierRejected, OldAttemptsRejected, CurrentIsNewest, SlotHasOwner,
      UnsentIsCurrent, HoldIsOnCurrentTask
<1> QED
  BY <1>2, <1>4, <1>5, IInvPrimed

LEMMA BeginSubmissionKeeps ==
    ASSUME IInv, NEW tok \in Token, BeginSubmission(tok)
    PROVE  IInv'
<1> DEFINE t == job.task
<1>1. /\ ~job.started /\ job.status = "RECEIVED" /\ t # NULL
      /\ job' = [job EXCEPT !.started = TRUE]
      /\ attempts' = [attempts EXCEPT ![t] = 1]
      /\ slot' = IF slot = NULL THEN t ELSE slot
      /\ unsent' = <<t, tok>>
      /\ rejected' = rejected /\ conflict' = conflict /\ sent' = sent
  BY DEF BeginSubmission, BeginSubmissionTx, CanBeginSubmission
<1>2. job \in JobRow /\ RowOK(job) /\ t \in Task
  BY <1>1, IInvParts DEF RowOK, JobRow
<1>3. /\ \A u \in Task : attempts[u] = 0
      /\ sent = {} /\ slot = NULL /\ unsent = NULL /\ job.authHold = NULL
  BY <1>1 DEF IInv, UnstartedIsClean
<1>4. rejected = {} /\ ~job.notAccepted
  BY <1>3 DEF IInv, TypeOK, RejectionsAgree
<1>5. /\ job' \in JobRow
      /\ job'.task = t /\ job'.started
      /\ job'.notAccepted = job.notAccepted /\ job'.authHold = job.authHold
      /\ job'.retryAt = job.retryAt
  BY <1>1, <1>2 DEF JobRow
<1>6. RowOK(job')
  BY <1>1, <1>2, <1>5
  DEF JobRow, RowOK, ActionMatchesStatus, EndMatchesPublication, RowConsistent
<1>7. TypeOK'
  BY <1>1, <1>2, <1>3, <1>5, LimitAssumption DEF IInv, TypeOK
<1>8. \A u \in Task : attempts'[u] = IF u = t THEN 1 ELSE 0
  BY <1>1, <1>2, <1>3 DEF IInv, TypeOK
<1>9. Chain'
  BY <1>1, <1>2, <1>3, <1>4, <1>5, <1>8, NullAssumption
  DEF IInv, TypeOK, Chain, UnstartedIsClean,
      RejectionsAgree, SentIsAccountedFor, AttemptChain, AttemptNumbersUnique,
      EarlierRejected, OldAttemptsRejected, CurrentIsNewest, SlotHasOwner,
      UnsentIsCurrent, HoldIsOnCurrentTask
<1> QED
  BY <1>6, <1>7, <1>9, IInvPrimed

LEMMA BeginRetryKeeps ==
    ASSUME IInv, NEW tok \in Token, NEW t \in Task, BeginRetry(tok, t)
    PROVE  IInv'
<1> DEFINE p == job.task
<1>1. /\ Unused(t) /\ job.started /\ job.status = "RECEIVED"
      /\ job.authHold = NULL /\ p \in rejected /\ slot \in {NULL, t}
      /\ job' = [job EXCEPT !.task = t, !.notAccepted = FALSE,
                            !.retryAt = NULL]
      /\ slot' = t /\ unsent' = <<t, tok>>
      /\ rejected' = rejected /\ conflict' = conflict /\ sent' = sent
  BY DEF BeginRetry, BeginRetryTx, CanBeginRetry
<1>2. PICK n \in 1..(PrunaSubmitLimit - 1) :
         LastAttempt(n) /\ attempts' = [attempts EXCEPT ![t] = n + 1]
  BY DEF BeginRetry, BeginRetryTx
<1>3. job \in JobRow /\ RowOK(job) /\ p \in Task /\ n \in Nat /\ n >= 1
  BY <1>1, LimitAssumption, IInvParts DEF RowOK, IInv, TypeOK
<1>4. t # p /\ attempts[t] = 0 /\ t \notin sent /\ t \notin rejected
  BY <1>1 DEF Unused, IInv, RejectionsAgree
<1>0. [job EXCEPT !.task = t, !.notAccepted = FALSE, !.retryAt = NULL]
          \in JobRow
  BY <1>3 DEF JobRow
<1>5. /\ job' \in JobRow
      /\ job'.task = t /\ job'.started /\ ~job'.notAccepted
      /\ job'.authHold = NULL /\ job'.retryAt = NULL
      /\ job'.fbTask = job.fbTask /\ job'.fbStarted = job.fbStarted
  BY <1>1, <1>3, <1>0 DEF JobRow
<1>6. RowOK(job')
  <2>1. ActionMatchesStatus(job') /\ EndMatchesPublication(job')
    BY <1>1, <1>3
    DEF JobRow, RowOK, ActionMatchesStatus, EndMatchesPublication
  <2>2. job.fbTask = NULL /\ ~job.fbStarted
    BY <1>1, <1>3 DEF RowOK, RowConsistent, Terminal
  <2>3. RowConsistent(job')
    BY <1>1, <1>3, <1>5, <2>2, NullAssumption DEF JobRow, RowOK, RowConsistent
  <2>4. job'.verified => job'.status # "FALLBACK_RUNNING" /\ ~job'.fbStarted
    BY <1>1, <1>3 DEF JobRow, RowOK
  <2> QED
    BY <1>5, <2>1, <2>3, <2>4 DEF RowOK
<1>7. \A u \in Task : attempts'[u] = IF u = t THEN n + 1 ELSE attempts[u]
  BY <1>2 DEF IInv, TypeOK
<1>8. TypeOK'
  BY <1>1, <1>2, <1>3, <1>5, LimitAssumption DEF IInv, TypeOK
<1>9. /\ \A u \in Task : attempts[u] \in Nat /\ attempts[u] <= n
      /\ attempts[p] = n
  <2>1. \A u \in Task : attempts[u] \in Nat /\ attempts[u] <= n
    BY <1>2, LimitAssumption DEF IInv, TypeOK, LastAttempt
  <2>2. PICK u \in Task : attempts[u] = n
    BY <1>2 DEF LastAttempt
  <2>3. attempts[u] <= attempts[p]
    BY <1>3, <2>2 DEF IInv, AttemptChain, CurrentIsNewest
  <2> QED
    BY <1>3, <2>1, <2>2, <2>3
<1>10. AttemptChain'
  <2>1. AttemptNumbersUnique'
    BY <1>3, <1>7, <1>9 DEF IInv, AttemptChain, AttemptNumbersUnique
  <2>2. EarlierRejected'
    <3> SUFFICES ASSUME NEW u \in Task, attempts'[u] > 1
                 PROVE  \E q \in rejected : attempts'[q] = attempts'[u] - 1
      BY <1>1 DEF EarlierRejected
    <3>1. CASE u = t
      BY <1>1, <1>3, <1>4, <1>7, <1>9, <3>1
    <3>2. CASE u # t
      <4>1. PICK q \in rejected : attempts[q] = attempts[u] - 1
        BY <1>7, <3>2 DEF IInv, AttemptChain, EarlierRejected
      <4> QED
        BY <1>4, <1>7, <3>2, <4>1 DEF IInv, TypeOK
    <3> QED
      BY <3>1, <3>2
  <2>3. OldAttemptsRejected'
    BY <1>1, <1>5, <1>7 DEF IInv, AttemptChain, OldAttemptsRejected
  <2>4. CurrentIsNewest'
    BY <1>3, <1>5, <1>7, <1>9, NullAssumption DEF CurrentIsNewest
  <2> QED
    BY <1>5, <2>1, <2>2, <2>3, <2>4 DEF AttemptChain
<1>11. ~job.fbStarted
  BY <1>1, <1>3 DEF RowOK, RowConsistent, Terminal, JobRow
<1>12. UnstartedIsClean' /\ HoldIsOnCurrentTask'
  BY <1>5 DEF UnstartedIsClean, HoldIsOnCurrentTask
<1>13. RejectionsAgree'
  BY <1>1, <1>3, <1>4, <1>5, <1>7 DEF IInv, TypeOK, RejectionsAgree
<1>14. SentIsAccountedFor'
  BY <1>1, <1>3, <1>4, <1>5, <1>11 DEF IInv, SentIsAccountedFor
<1>15. SlotHasOwner' /\ UnsentIsCurrent'
  BY <1>1, <1>4, <1>5 DEF SlotHasOwner, UnsentIsCurrent
<1> QED
  BY <1>6, <1>8, <1>10, <1>12, <1>13, <1>14, <1>15, IInvPrimed DEF Chain

LEMMA SendKeeps == ASSUME IInv, Send PROVE IInv'
<1>1. /\ unsent # NULL /\ unsent' = NULL
      /\ sent' = sent \cup {unsent[1]}
      /\ UNCHANGED <<job, attempts, rejected, conflict, slot>>
  BY DEF Send, attemptVars
<1>2. unsent[1] \in Task /\ job.task = unsent[1] /\ job.started
  BY <1>1 DEF IInv, TypeOK, UnsentIsCurrent
<1>3. TypeOK'
  BY <1>1, <1>2 DEF IInv, TypeOK
<1>4. RowOK(job')
  BY <1>1, IInvParts
<1>5. Chain'
  BY <1>1, <1>2
  DEF IInv, Chain, UnstartedIsClean, RejectionsAgree, SentIsAccountedFor,
      AttemptChain, AttemptNumbersUnique, EarlierRejected,
      OldAttemptsRejected, CurrentIsNewest, SlotHasOwner, UnsentIsCurrent,
      HoldIsOnCurrentTask
<1> QED
  BY <1>3, <1>4, <1>5, IInvPrimed

LEMMA CrashBeforeSendKeeps == ASSUME IInv, CrashBeforeSend PROVE IInv'
<1>1. /\ unsent' = NULL
      /\ UNCHANGED <<job, attempts, rejected, conflict, slot, sent>>
  BY DEF CrashBeforeSend, attemptVars
<1>2. TypeOK' /\ RowOK(job')
  BY <1>1, IInvParts DEF TypeOK
<1>3. Chain'
  BY <1>1
  DEF IInv, Chain, UnstartedIsClean, RejectionsAgree, SentIsAccountedFor,
      AttemptChain, AttemptNumbersUnique, EarlierRejected,
      OldAttemptsRejected, CurrentIsNewest, SlotHasOwner, UnsentIsCurrent,
      HoldIsOnCurrentTask
<1> QED
  BY <1>2, <1>3, IInvPrimed

\* The case in which the start record is really taken back.

LEMMA CancelUnsentKeeps == ASSUME IInv, CancelUnsent PROVE IInv'
<1> DEFINE t == unsent[1]
<1>1. /\ unsent # NULL /\ unsent' = NULL /\ sent' = sent
      /\ t \in Task /\ unsent[2] \in Token
  BY DEF CancelUnsent, CancelUnsentTx, dbVars, IInv, TypeOK
<1>2. /\ job.task = t /\ job.started /\ t \notin sent /\ t \notin rejected
      /\ attempts[t] # 0 /\ job.authHold = NULL /\ ~job.notAccepted
  BY <1>1 DEF IInv, UnsentIsCurrent, RejectionsAgree
<1>3. job \in JobRow /\ RowOK(job)
  BY IInvParts DEF RowOK
<1>4. CASE ~CancelApplies(t, unsent[2])
  <2>1. UNCHANGED <<job, attempts, rejected, conflict, slot>>
    BY <1>1, <1>4 DEF CancelUnsent, CancelUnsentTx, dbVars, CancelApplies, attemptVars
  <2> QED
    BY <1>1, <2>1, CrashBeforeSendKeeps DEF CrashBeforeSend, attemptVars
<1>5. CASE CancelApplies(t, unsent[2])
  <2>1. /\ attempts' = [attempts EXCEPT ![t] = 0]
        /\ rejected' = rejected \ {t} /\ conflict' = conflict \ {t}
        /\ slot' = NULL
        /\ \/ /\ ~\E p \in Task : attempts[p] >= 1
                                  /\ attempts[p] = attempts[t] - 1
              /\ job' = [job EXCEPT !.started = FALSE]
           \/ \E p \in Task :
                /\ attempts[p] >= 1 /\ attempts[p] = attempts[t] - 1
                /\ job' = [job EXCEPT !.task = p, !.retryAt = "due",
                                      !.notAccepted = (p \in rejected)]
    BY <1>5 DEF CancelUnsent, CancelUnsentTx, dbVars, CancelApplies
  <2>2. rejected' = rejected
    BY <1>2, <2>1
  <2>3. /\ \A u \in Task : attempts'[u] = IF u = t THEN 0 ELSE attempts[u]
        /\ \A u \in Task : attempts[u] \in Nat
        /\ \A u \in Task : attempts[u] # 0 => attempts[u] <= attempts[t]
    <3>1. attempts \in [Task -> Nat]
      BY LimitAssumption DEF IInv, TypeOK
    <3>2. \A u \in Task : attempts[u] # 0 => attempts[u] <= attempts[t]
      BY <1>2 DEF IInv, AttemptChain, CurrentIsNewest
    <3> QED
      BY <1>1, <2>1, <3>1, <3>2
  <2>0. /\ attempts' \in [Task -> 0..PrunaSubmitLimit]
         /\ rejected' \in SUBSET Task /\ conflict' \in SUBSET Task
         /\ slot' \in Task \cup {NULL} /\ sent' \in SUBSET Task
         /\ unsent' \in (Task \X Token) \cup {NULL}
    <3>1. attempts' \in [Task -> 0..PrunaSubmitLimit]
      <4>1. attempts' = [attempts EXCEPT ![t] = 0]
        BY <2>1
      <4>2. /\ attempts \in [Task -> 0..PrunaSubmitLimit]
            /\ 0 \in 0..PrunaSubmitLimit
        BY LimitAssumption DEF IInv, TypeOK
      <4> QED
        BY <4>1, <4>2
    <3> QED
      BY <1>1, <2>1, <3>1 DEF IInv, TypeOK
  <2>4. job.status = "RECEIVED" /\ ~job.fbStarted /\ job.fbTask = NULL
    BY <1>3, <1>5 DEF CancelApplies, RowOK, RowConsistent, Terminal, JobRow
  <2>5. CASE /\ ~\E p \in Task : attempts[p] >= 1
                                 /\ attempts[p] = attempts[t] - 1
             /\ job' = [job EXCEPT !.started = FALSE]
    <3>1. attempts[t] = 1
      <4> SUFFICES ASSUME attempts[t] > 1 PROVE FALSE
        BY <1>1, <1>2, <2>3
      <4>1. PICK p \in rejected : attempts[p] = attempts[t] - 1
        BY <1>1 DEF IInv, AttemptChain, EarlierRejected
      <4> QED
        BY <1>1, <2>3, <2>5, <4>1 DEF IInv, TypeOK
    <3>2. \A u \in Task : attempts'[u] = 0
      BY <1>1, <2>3, <3>1 DEF IInv, AttemptChain, AttemptNumbersUnique
    <3>3. rejected = {}
      <4> SUFFICES ASSUME NEW r \in rejected PROVE FALSE
        OBVIOUS
      <4>1. r \in Task /\ attempts[r] # 0 /\ r # t
        BY <1>2 DEF IInv, TypeOK, RejectionsAgree
      <4> QED
        BY <2>3, <3>2, <4>1
    <3>4. sent = {}
      BY <1>2, <2>4, <3>3 DEF IInv, SentIsAccountedFor
    <3>5. /\ job' \in JobRow /\ ~job'.started
          /\ job'.task = t /\ job'.authHold = NULL
          /\ job'.notAccepted = job.notAccepted /\ job'.retryAt = job.retryAt
      <4>1. job' = [job EXCEPT !.started = FALSE]
        BY <2>5
      <4>2. [job EXCEPT !.started = FALSE] \in JobRow
        BY <1>3 DEF JobRow
      <4> QED
        BY <1>2, <1>3, <4>1, <4>2 DEF JobRow
    <3>6. RowOK(job')
      BY <1>3, <2>4, <2>5, <3>5
      DEF JobRow, RowOK, ActionMatchesStatus, EndMatchesPublication,
          RowConsistent
    <3>7. TypeOK'
      BY <2>0, <3>5 DEF TypeOK
    <3>8. Chain'
      <4>1. /\ slot' = NULL /\ unsent' = NULL /\ sent' = {}
            /\ rejected' = {} /\ ~job'.notAccepted /\ job'.retryAt = NULL
        BY <1>1, <1>2, <2>1, <2>2, <3>3, <3>4, <3>5 DEF IInv, AttemptChain
      <4> QED
        BY <3>2, <3>5, <4>1
        DEF Chain, UnstartedIsClean, RejectionsAgree, SentIsAccountedFor,
            AttemptChain, AttemptNumbersUnique, EarlierRejected,
            OldAttemptsRejected, CurrentIsNewest, SlotHasOwner,
            UnsentIsCurrent, HoldIsOnCurrentTask
    <3> QED
      BY <3>6, <3>7, <3>8, IInvPrimed
  <2>6. ASSUME NEW p \in Task,
               attempts[p] >= 1, attempts[p] = attempts[t] - 1,
               job' = [job EXCEPT !.task = p, !.retryAt = "due",
                                  !.notAccepted = (p \in rejected)]
        PROVE  IInv'
    <3>1. p # t /\ attempts[p] # 0 /\ attempts[t] > 1
      BY <1>1, <2>3, <2>6
    <3>2. p \in rejected
      BY <1>2, <2>6, <3>1 DEF IInv, AttemptChain, OldAttemptsRejected
    <3>3. job' = [job EXCEPT !.task = p, !.retryAt = "due",
                             !.notAccepted = TRUE]
      BY <2>6, <3>2
    <3>4. [job EXCEPT !.task = p, !.retryAt = "due", !.notAccepted = TRUE]
            \in JobRow
      BY <1>3 DEF JobRow
    <3>5. /\ job' \in JobRow /\ job'.started /\ job'.task = p
          /\ job'.authHold = NULL /\ job'.notAccepted
          /\ job'.retryAt = "due"
          /\ job'.fbTask = job.fbTask /\ job'.fbStarted = job.fbStarted
      BY <1>2, <1>3, <3>3, <3>4 DEF JobRow
    <3>6. RowOK(job')
      <4>1. ActionMatchesStatus(job') /\ EndMatchesPublication(job')
        BY <1>3, <3>3
        DEF JobRow, RowOK, ActionMatchesStatus, EndMatchesPublication
      <4>2. RowConsistent(job')
        BY <1>3, <2>4, <3>3, <3>5, NullAssumption
        DEF JobRow, RowOK, RowConsistent
      <4>3. job'.verified => job'.status # "FALLBACK_RUNNING" /\ ~job'.fbStarted
        BY <1>3, <3>3 DEF JobRow, RowOK
      <4> QED
        BY <3>5, <4>1, <4>2, <4>3 DEF RowOK
    <3>7. TypeOK'
      BY <2>0, <3>5 DEF TypeOK
    <3>8. AttemptChain'
      <4>1. AttemptNumbersUnique'
        BY <2>3 DEF IInv, AttemptChain, AttemptNumbersUnique
      <4>2. EarlierRejected'
        BY <1>2, <2>2, <2>3 DEF IInv, TypeOK, AttemptChain, EarlierRejected
      <4>3. OldAttemptsRejected'
        BY <1>2, <2>2, <2>3, <3>5
        DEF IInv, AttemptChain, OldAttemptsRejected
      <4>4. CurrentIsNewest'
        <5>1. \A u \in Task : u # t /\ attempts[u] # 0 => attempts[u] < attempts[t]
          BY <1>1, <2>3 DEF IInv, AttemptChain, AttemptNumbersUnique
        <5> QED
          BY <1>1, <2>3, <2>6, <3>1, <3>5, <5>1, NullAssumption
          DEF CurrentIsNewest
      <4> QED
        BY <3>5, <4>1, <4>2, <4>3, <4>4 DEF AttemptChain
    <3>9. RejectionsAgree'
      BY <1>1, <1>2, <2>2, <2>3, <3>2, <3>5 DEF IInv, TypeOK, RejectionsAgree
    <3>10. SentIsAccountedFor'
      BY <1>1, <1>2, <2>2, <2>4, <3>5 DEF IInv, SentIsAccountedFor
    <3>11. /\ UnstartedIsClean' /\ HoldIsOnCurrentTask'
           /\ SlotHasOwner' /\ UnsentIsCurrent'
      BY <1>1, <2>1, <3>5
      DEF UnstartedIsClean, HoldIsOnCurrentTask, SlotHasOwner, UnsentIsCurrent
    <3> QED
      BY <3>6, <3>7, <3>8, <3>9, <3>10, <3>11, IInvPrimed DEF Chain
  <2> QED
    BY <2>1, <2>5, <2>6
<1> QED
  BY <1>4, <1>5

LEMMA RecordAuthHoldKeeps ==
    ASSUME IInv, NEW t \in Task, RecordAuthHoldStep(t)
    PROVE  IInv'
<1>1. /\ t \in sent /\ CanRecordAuthHold(job, t)
      /\ job' = RecordAuthHold(job)
      /\ UNCHANGED <<attempts, rejected, conflict, slot, sent, unsent>>
  BY DEF RecordAuthHoldStep, RowChange, attemptVars, callVars
<1>2. job \in JobRow /\ RowOK(job) /\ RowOK(job')
  BY <1>1, RecordAuthHoldRow, IInvParts DEF RowOK
<1>3. /\ job.task = t /\ job.started
      /\ job'.task = t /\ job'.started /\ job'.authHold = t
      /\ job'.notAccepted = job.notAccepted /\ job'.retryAt = job.retryAt
      /\ job'.fbTask = job.fbTask /\ job'.fbStarted = job.fbStarted
  BY <1>1, <1>2 DEF CanRecordAuthHold, EventApplies, RecordAuthHold, JobRow
<1>4. TypeOK'
  BY <1>1, <1>2 DEF IInv, TypeOK, RowOK
<1>5. unsent = NULL
  BY <1>1, <1>3 DEF IInv, UnsentIsCurrent
<1>6. Chain'
  BY <1>1, <1>3, <1>5
  DEF IInv, Chain, UnstartedIsClean, RejectionsAgree, SentIsAccountedFor,
      AttemptChain, AttemptNumbersUnique, EarlierRejected,
      OldAttemptsRejected, CurrentIsNewest, SlotHasOwner, UnsentIsCurrent,
      HoldIsOnCurrentTask
<1> QED
  BY <1>2, <1>4, <1>6, IInvPrimed

LEMMA PrepareFallbackKeeps ==
    ASSUME IInv, NEW tok \in Token, NEW t \in Task, PrepareFallbackStep(tok, t)
    PROVE  IInv'
<1>1. /\ CanPrepareFallback(job, tok, t)
      /\ job' = PrepareFallback(job, t)
      /\ UNCHANGED <<attempts, rejected, conflict, slot, sent, unsent>>
  BY DEF PrepareFallbackStep, RowChange, attemptVars, callVars
<1>2. job \in JobRow /\ RowOK(job) /\ RowOK(job')
  BY <1>1, PrepareFallbackRow, IInvParts DEF RowOK
<1>3. /\ ~job.fbStarted /\ ~job'.fbStarted
      /\ job'.task = job.task /\ job'.started = job.started
      /\ job'.authHold = job.authHold
      /\ job'.notAccepted = job.notAccepted /\ job'.retryAt = job.retryAt
  BY <1>1, <1>2
  DEF CanPrepareFallback, PrepareFallback, JobRow, RowOK, RowConsistent
<1>4. TypeOK'
  BY <1>1, <1>2 DEF IInv, TypeOK, RowOK
<1>5. Chain'
  BY <1>1, <1>3
  DEF IInv, Chain, UnstartedIsClean, RejectionsAgree, SentIsAccountedFor,
      AttemptChain, AttemptNumbersUnique, EarlierRejected,
      OldAttemptsRejected, CurrentIsNewest, SlotHasOwner, UnsentIsCurrent,
      HoldIsOnCurrentTask
<1> QED
  BY <1>2, <1>4, <1>5, IInvPrimed

LEMMA BeginFallbackKeeps ==
    ASSUME IInv, NEW tok \in Token, BeginFallback(tok)
    PROVE  IInv'
<1> DEFINE t == job.fbTask
<1>1. /\ ~job.fbStarted /\ job.fbAttempts < FallbackLimit /\ Fallback(job)
      /\ t # NULL
      /\ job' = [job EXCEPT !.fbAttempts = @ + 1, !.fbStarted = TRUE]
      /\ slot' = t /\ sent' = sent \cup {t}
      /\ UNCHANGED <<attempts, rejected, conflict, unsent>>
  BY DEF BeginFallback, BeginFallbackTx, CanBeginFallback, attemptVars
<1>2. job \in JobRow /\ RowOK(job) /\ t \in Task
  BY <1>1, IInvParts DEF RowOK, JobRow
<1>3. [job EXCEPT !.fbAttempts = @ + 1, !.fbStarted = TRUE] \in JobRow
  <2>1. job.fbAttempts + 1 \in 0..FallbackLimit
    BY <1>1, <1>2, LimitAssumption DEF JobRow
  <2> QED
    BY <1>2, <2>1 DEF JobRow
<1>4. /\ job' \in JobRow /\ job'.task = job.task /\ job'.started = job.started
      /\ job'.authHold = job.authHold /\ job'.notAccepted = job.notAccepted
      /\ job'.retryAt = job.retryAt /\ job'.fbTask = t /\ job'.fbStarted
  BY <1>1, <1>2, <1>3 DEF JobRow
<1>5. job.started /\ ~job.verified
  BY <1>1, <1>2 DEF RowOK, RowConsistent, Fallback
<1>6. RowOK(job')
  <2>1. ActionMatchesStatus(job') /\ EndMatchesPublication(job')
    BY <1>1, <1>2
    DEF JobRow, RowOK, ActionMatchesStatus, EndMatchesPublication
  <2>2. RowConsistent(job')
    BY <1>1, <1>2 DEF JobRow, RowOK, RowConsistent
  <2>3. ~job'.verified
    BY <1>1, <1>2, <1>5 DEF JobRow
  <2> QED
    BY <1>4, <2>1, <2>2, <2>3 DEF RowOK
<1>7. TypeOK'
  BY <1>1, <1>2, <1>4 DEF IInv, TypeOK
<1>8. unsent # NULL => t # unsent[1]
  BY <1>1, <1>2 DEF IInv, UnsentIsCurrent, RowConsistent
<1>9. Chain'
  BY <1>1, <1>4, <1>5, <1>8
  DEF IInv, Chain, UnstartedIsClean, RejectionsAgree, SentIsAccountedFor,
      AttemptChain, AttemptNumbersUnique, EarlierRejected,
      OldAttemptsRejected, CurrentIsNewest, SlotHasOwner, UnsentIsCurrent,
      HoldIsOnCurrentTask
<1> QED
  BY <1>6, <1>7, <1>9, IInvPrimed

LEMMA RecordContradictionKeeps ==
    ASSUME IInv, NEW t \in Task, RecordContradiction(t)
    PROVE  IInv'
<1>1. /\ attempts[t] # 0 /\ conflict' = conflict \cup {t}
      /\ job' = job \/ job' = [job EXCEPT !.retryAt = NULL]
      /\ UNCHANGED <<attempts, rejected, slot, sent, unsent>>
  BY DEF RecordContradiction, RecordContradictionTx, ContradictionApplies, callVars
<1>2. job \in JobRow /\ RowOK(job)
  BY IInvParts DEF RowOK
<1>3. /\ job' \in JobRow
      /\ job'.task = job.task /\ job'.started = job.started
      /\ job'.authHold = job.authHold /\ job'.notAccepted = job.notAccepted
      /\ job'.retryAt # NULL => job.retryAt # NULL
      /\ job'.fbTask = job.fbTask /\ job'.fbStarted = job.fbStarted
  BY <1>1, <1>2 DEF JobRow
<1>4. RowOK(job')
  <2>1. CASE job' = job
    BY <1>2, <2>1
  <2>2. CASE job' = [job EXCEPT !.retryAt = NULL]
    BY <1>2, <1>3, <2>2
    DEF JobRow, RowOK, ActionMatchesStatus, EndMatchesPublication,
        RowConsistent
  <2> QED
    BY <1>1, <2>1, <2>2
<1>5. TypeOK'
  BY <1>1, <1>3 DEF IInv, TypeOK
<1>6. Chain'
  BY <1>1, <1>3
  DEF IInv, Chain, UnstartedIsClean, RejectionsAgree, SentIsAccountedFor,
      AttemptChain, AttemptNumbersUnique, EarlierRejected,
      OldAttemptsRejected, CurrentIsNewest, SlotHasOwner, UnsentIsCurrent,
      HoldIsOnCurrentTask
<1> QED
  BY <1>4, <1>5, <1>6, IInvPrimed

LEMMA ReleaseSlotKeeps ==
    ASSUME IInv, NEW t \in Task, ReleaseSlot(t)
    PROVE  IInv'
<1>1. /\ slot' = NULL \/ slot' = slot
      /\ UNCHANGED <<job, attempts, rejected, conflict, sent, unsent>>
  BY DEF ReleaseSlot, ReleaseSlotTx, SlotWithout, attemptVars, callVars
<1>2. TypeOK' /\ RowOK(job')
  BY <1>1, IInvParts DEF TypeOK
<1>3. Chain'
  BY <1>1
  DEF IInv, Chain, UnstartedIsClean, RejectionsAgree, SentIsAccountedFor,
      AttemptChain, AttemptNumbersUnique, EarlierRejected,
      OldAttemptsRejected, CurrentIsNewest, SlotHasOwner, UnsentIsCurrent,
      HoldIsOnCurrentTask
<1> QED
  BY <1>2, <1>3, IInvPrimed

\* A legacy job's first attempt row changes nothing else that Chain reads.
LEMMA LegacyAttemptKeeps ==
    ASSUME IInv, NEW t \in Task, t \in sent, job.task = t, job.started,
           attempts' = WithLegacyAttempt(t),
           UNCHANGED <<rejected, slot, sent, unsent>>
    PROVE  /\ attempts' \in [Task -> 0..PrunaSubmitLimit]
           /\ unsent = NULL
           /\ AttemptNumbersUnique' /\ EarlierRejected'
           /\ \A u \in Task : attempts'[u] # 0 /\ u # t => u \in rejected
           /\ \A u \in Task : attempts'[u] # 0 => attempts'[u] <= attempts'[t]
           /\ \A r \in rejected : attempts'[r] # 0
           /\ t # NULL
<1>1. attempts \in [Task -> 0..PrunaSubmitLimit] /\ unsent = NULL /\ t # NULL
  BY NullAssumption DEF IInv, TypeOK, UnsentIsCurrent
<1>2. CASE \A p \in Task : attempts[p] = 0
  <2>1. attempts' = [attempts EXCEPT ![t] = 1]
    BY <1>2 DEF WithLegacyAttempt
  <2>2. \A u \in Task : attempts'[u] = IF u = t THEN 1 ELSE 0
    BY <1>1, <1>2, <2>1
  <2>3. attempts' \in [Task -> 0..PrunaSubmitLimit]
    BY <1>1, <2>1, LimitAssumption
  <2>4. rejected = {}
    BY <1>2 DEF IInv, TypeOK, RejectionsAgree
  <2> QED
    BY <1>1, <2>2, <2>3, <2>4
    DEF AttemptNumbersUnique, EarlierRejected
<1>3. CASE ~\A p \in Task : attempts[p] = 0
  <2>1. attempts' = attempts
    BY <1>3 DEF WithLegacyAttempt
  <2> QED
    BY <1>1, <2>1
    DEF IInv, TypeOK, RejectionsAgree, AttemptChain, AttemptNumbersUnique,
        EarlierRejected, OldAttemptsRejected, CurrentIsNewest
<1> QED
  BY <1>2, <1>3

LEMMA RecordNotAcceptedKeeps ==
    ASSUME IInv, NEW t \in Task, NEW r \in {NULL, "later"},
           RecordNotAccepted(t, r)
    PROVE  IInv'
<1>1. /\ t \in sent /\ job.task = t /\ job.started
      /\ attempts' = WithLegacyAttempt(t)
      /\ attempts'[t] # 0 /\ t \notin rejected
      /\ sent' = sent /\ unsent' = unsent
  BY DEF RecordNotAccepted, RecordNotAcceptedTx, NotAcceptedApplies, callVars
<1>2. job \in JobRow /\ RowOK(job)
  BY IInvParts DEF RowOK
<1>3. CASE job' = job /\ rejected' = rejected /\ slot' = slot
           /\ conflict' \in SUBSET Task
  <2>1. /\ attempts' \in [Task -> 0..PrunaSubmitLimit] /\ unsent = NULL
        /\ AttemptNumbersUnique' /\ EarlierRejected'
        /\ \A u \in Task : attempts'[u] # 0 /\ u # t => u \in rejected
        /\ \A u \in Task : attempts'[u] # 0 => attempts'[u] <= attempts'[t]
        /\ \A q \in rejected : attempts'[q] # 0 /\ t # NULL
    BY <1>1, <1>3, LegacyAttemptKeeps
  <2>2. TypeOK'
    BY <1>1, <1>3, <2>1 DEF IInv, TypeOK
  <2>3. Chain'
    BY <1>1, <1>3, <2>1, NullAssumption
    DEF IInv, TypeOK, Chain, UnstartedIsClean, RejectionsAgree,
        SentIsAccountedFor, AttemptChain, OldAttemptsRejected,
        CurrentIsNewest, SlotHasOwner, UnsentIsCurrent, HoldIsOnCurrentTask
  <2> QED
    BY <1>2, <1>3, <2>2, <2>3, IInvPrimed
<1>4. CASE /\ job.status \notin Terminal /\ ~Progressed(job)
           /\ job.nextAction = "SUBMIT_PRUNA"
           /\ job.result = NULL /\ job.authHold = NULL
           /\ rejected' = rejected \cup {t}
           /\ job' = IF Exhausted(attempts'[t])
                     THEN [job EXCEPT !.result = "REJECTED",
                                      !.nextAction = "PUBLISH_RESULT",
                                      !.notAccepted = TRUE, !.retryAt = NULL]
                     ELSE [job EXCEPT !.notAccepted = TRUE, !.retryAt = r]
           /\ slot' = SlotWithout(t) /\ conflict' = conflict
  <2>1. /\ [job EXCEPT !.result = "REJECTED", !.nextAction = "PUBLISH_RESULT",
                       !.notAccepted = TRUE, !.retryAt = NULL] \in JobRow
        /\ [job EXCEPT !.notAccepted = TRUE, !.retryAt = r] \in JobRow
    <3>1. "REJECTED" \in Payload /\ "PUBLISH_RESULT" \in NextAction
      BY DEF Payload, NextAction
    <3>2. [job EXCEPT !.result = "REJECTED", !.nextAction = "PUBLISH_RESULT",
                      !.notAccepted = TRUE, !.retryAt = NULL] \in JobRow
      BY <1>2, <3>1 DEF JobRow
    <3>3. [job EXCEPT !.notAccepted = TRUE, !.retryAt = r] \in JobRow
      BY <1>2 DEF JobRow
    <3> QED
      BY <3>2, <3>3
  <2>2. /\ job' \in JobRow
        /\ job'.task = t /\ job'.started /\ job'.notAccepted
        /\ job'.authHold = job.authHold
        /\ job'.fbTask = job.fbTask /\ job'.fbStarted = job.fbStarted
    BY <1>1, <1>2, <1>4, <2>1 DEF JobRow
  <2>3. RowOK(job')
    <3>1. CASE Exhausted(attempts'[t])
      <4>1. job' = [job EXCEPT !.result = "REJECTED",
                               !.nextAction = "PUBLISH_RESULT",
                               !.notAccepted = TRUE, !.retryAt = NULL]
        BY <1>4, <3>1
      <4>2. ActionMatchesStatus(job')
        BY <1>2, <1>4, <4>1, NullAssumption
        DEF JobRow, RowOK, ActionMatchesStatus, NextAction, Payload
      <4>3. EndMatchesPublication(job')
        BY <1>2, <1>4, <4>1, NullAssumption
        DEF JobRow, RowOK, EndMatchesPublication, Payload
      <4>4. RowConsistent(job')
        BY <1>2, <4>1 DEF JobRow, RowOK, RowConsistent
      <4> QED
        BY <1>2, <2>2, <4>1, <4>2, <4>3, <4>4 DEF RowOK, JobRow
    <3>2. CASE ~Exhausted(attempts'[t])
      <4>1. job' = [job EXCEPT !.notAccepted = TRUE, !.retryAt = r]
        BY <1>4, <3>2
      <4> QED
        BY <1>2, <2>2, <4>1
        DEF JobRow, RowOK, ActionMatchesStatus, EndMatchesPublication,
            RowConsistent
    <3> QED
      BY <3>1, <3>2
  <2>4. ~job.fbStarted
    BY <1>2, <1>4
    DEF Progressed, RowOK, RowConsistent, Terminal, JobRow, Status
  <2>5. slot' = NULL \/ (slot' = slot /\ slot # t)
    BY <1>4 DEF SlotWithout
  <2>6. slot' = NULL
    BY <1>1, <2>4, <2>5 DEF IInv, SlotHasOwner
  <2>7. \A u \in Task : attempts'[u] = attempts[u] \/ (u = t /\ attempts'[u] = 1)
    BY <1>1 DEF WithLegacyAttempt, IInv, TypeOK
  <2>8. /\ attempts' \in [Task -> 0..PrunaSubmitLimit] /\ unsent = NULL
        /\ t # NULL
    BY <1>1, LimitAssumption, NullAssumption
    DEF WithLegacyAttempt, IInv, TypeOK, UnsentIsCurrent
  <2>9. AttemptChain'
    <3>1. CASE \A p \in Task : attempts[p] = 0
      BY <1>1, <1>4, <2>2, <2>8, <3>1
      DEF WithLegacyAttempt, IInv, TypeOK, AttemptChain,
          AttemptNumbersUnique, EarlierRejected, OldAttemptsRejected,
          CurrentIsNewest
    <3>2. CASE ~\A p \in Task : attempts[p] = 0
      <4>1. attempts' = attempts
        BY <1>1, <3>2 DEF WithLegacyAttempt
      <4> QED
        BY <1>1, <1>4, <2>2, <2>8, <4>1
        DEF IInv, TypeOK, AttemptChain, AttemptNumbersUnique,
            EarlierRejected, OldAttemptsRejected, CurrentIsNewest
    <3> QED
      BY <3>1, <3>2
  <2>10. TypeOK'
    BY <1>1, <1>4, <2>2, <2>6, <2>8 DEF IInv, TypeOK
  <2>11. RejectionsAgree'
    BY <1>1, <1>4, <2>2, <2>7, <2>8 DEF IInv, TypeOK, RejectionsAgree
  <2>12. /\ UnstartedIsClean' /\ SentIsAccountedFor' /\ SlotHasOwner'
         /\ UnsentIsCurrent' /\ HoldIsOnCurrentTask'
    BY <1>1, <1>4, <2>2, <2>6, <2>8
    DEF IInv, UnstartedIsClean, SentIsAccountedFor, SlotHasOwner,
        UnsentIsCurrent, HoldIsOnCurrentTask
  <2> QED
    BY <2>3, <2>9, <2>10, <2>11, <2>12, IInvPrimed DEF Chain
<1> QED
  BY <1>1, <1>3, <1>4 DEF RecordNotAccepted, RecordNotAcceptedTx, NotAcceptedApplies, IInv, TypeOK

LEMMA RetryTimeKeeps == ASSUME IInv, RetryTimeComes PROVE IInv'
<1>1. /\ job.retryAt = "later" /\ job' = [job EXCEPT !.retryAt = "due"]
      /\ UNCHANGED <<attempts, rejected, conflict, slot, sent, unsent>>
  BY DEF RetryTimeComes, attemptVars, callVars
<1>2. job \in JobRow /\ RowOK(job)
  BY IInvParts DEF RowOK
<1>3. /\ job' \in JobRow
      /\ job'.task = job.task /\ job'.started = job.started
      /\ job'.authHold = job.authHold /\ job'.notAccepted = job.notAccepted
      /\ job'.fbTask = job.fbTask /\ job'.fbStarted = job.fbStarted
  BY <1>1, <1>2 DEF JobRow
<1>4. RowOK(job')
  BY <1>1, <1>2, <1>3
  DEF JobRow, RowOK, ActionMatchesStatus, EndMatchesPublication, RowConsistent
<1>5. job.notAccepted
  BY <1>1, NullAssumption DEF IInv, AttemptChain
<1>6. TypeOK'
  BY <1>1, <1>3 DEF IInv, TypeOK
<1>7. Chain'
  BY <1>1, <1>3, <1>5
  DEF IInv, Chain, UnstartedIsClean, RejectionsAgree, SentIsAccountedFor,
      AttemptChain, AttemptNumbersUnique, EarlierRejected,
      OldAttemptsRejected, CurrentIsNewest, SlotHasOwner, UnsentIsCurrent,
      HoldIsOnCurrentTask
<1> QED
  BY <1>4, <1>6, <1>7, IInvPrimed

LEMMA LeaseStepKeeps == ASSUME IInv, LeaseStep PROVE IInv'
<1>0. job \in JobRow /\ RowOK(job)
  BY IInvParts DEF RowOK
<1>1. ASSUME NEW tok \in Token, NEW action \in NextAction,
             AcquireLeaseStep(tok, action)
      PROVE  IInv'
  BY <1>0, <1>1, AcquireLeaseRow, RowStep DEF AcquireLeaseStep
<1>2. ASSUME NEW tok \in Token, ReleaseLeaseStep(tok) PROVE IInv'
  BY <1>0, <1>2, ReleaseLeaseRow, RowStep DEF ReleaseLeaseStep
<1>3. CASE LeaseExpires
  BY <1>0, <1>3, ExpireLeaseRow, RowStep DEF LeaseExpires
<1> QED
  BY <1>1, <1>2, <1>3, RetryTimeKeeps DEF LeaseStep

LEMMA SubmitStepKeeps == ASSUME IInv, SubmitStep PROVE IInv'
BY PrepareKeeps, BeginSubmissionKeeps, BeginRetryKeeps, SendKeeps,
   CrashBeforeSendKeeps, CancelUnsentKeeps
DEF SubmitStep

LEMMA EventStepKeeps == ASSUME IInv, EventStep PROVE IInv'
<1>0. job \in JobRow /\ RowOK(job)
  BY IInvParts DEF RowOK
<1>1. ASSUME NEW t \in Task, RecordAcceptedStep(t) PROVE IInv'
  BY <1>0, <1>1, RecordAcceptedRow, RowStep DEF RecordAcceptedStep, RowChange
<1>2. ASSUME NEW t \in Task, NEW url \in Ref \cup {NULL},
             NEW uuid \in Ref \cup {NULL}, RecordSucceededStep(t, url, uuid)
      PROVE  IInv'
  BY <1>0, <1>2, RecordSucceededRow, RowStep
  DEF RecordSucceededStep, RowChange
<1>3. ASSUME NEW t \in Task, NEW url \in Ref \cup {NULL},
             NEW uuid \in Ref \cup {NULL}, NEW confirmed \in BOOLEAN,
             FillImageRefStep(t, url, uuid, confirmed)
      PROVE  IInv'
  BY <1>0, <1>3, FillImageRefRow, RowStep DEF FillImageRefStep, RowChange
<1>4. ASSUME NEW t \in Task, RecordFailedRecoverableStep(t) PROVE IInv'
  BY <1>0, <1>4, RecordFailedRecoverableRow, RowStep
  DEF RecordFailedRecoverableStep, RowChange
<1>5. ASSUME NEW t \in Task, RecordFailedFinalStep(t) PROVE IInv'
  BY <1>0, <1>5, RecordFailedFinalRow, RowStep
  DEF RecordFailedFinalStep, RowChange
<1> QED
  BY <1>1, <1>2, <1>3, <1>4, <1>5, RecordAuthHoldKeeps,
     RecordNotAcceptedKeeps, RecordContradictionKeeps, ReleaseSlotKeeps
  DEF EventStep

LEMMA WorkStepKeeps == ASSUME IInv, WorkStep PROVE IInv'
<1>0. job \in JobRow /\ RowOK(job)
  BY IInvParts DEF RowOK
<1> SUFFICES ASSUME NEW tok \in Token,
                    \/ ClaimS3CheckStep(tok)
                    \/ RecordVerifiedStep(tok)
                    \/ ClaimLlmStep(tok)
                    \/ MoveToFallbackStep(tok)
                    \/ \E t \in Task : PrepareFallbackStep(tok, t)
                    \/ BeginFallback(tok)
                    \/ RecordFallbackImageStep(tok)
                    \/ \E p \in {"COMPLETED", "FAILED"} : SaveResultStep(tok, p)
                    \/ ClaimMessageStep(tok)
                    \/ \E final \in Terminal : MarkPublishedStep(tok, final)
                    \/ MarkExhaustedStep(tok)
             PROVE  IInv'
  BY DEF WorkStep
<1>1. CASE ClaimS3CheckStep(tok)
  BY <1>0, <1>1, ClaimS3CheckRow, RowStep DEF ClaimS3CheckStep, RowChange
<1>2. CASE RecordVerifiedStep(tok)
  BY <1>0, <1>2, RecordVerifiedRow, RowStep DEF RecordVerifiedStep, RowChange
<1>3. CASE ClaimLlmStep(tok)
  BY <1>0, <1>3, ClaimLlmRow, RowStep DEF ClaimLlmStep, RowChange
<1>4. CASE MoveToFallbackStep(tok)
  BY <1>0, <1>4, MoveToFallbackRow, RowStep DEF MoveToFallbackStep, RowChange
<1>5. CASE RecordFallbackImageStep(tok)
  BY <1>0, <1>5, RecordFallbackImageRow, RowStep
  DEF RecordFallbackImageStep, RowChange
<1>6. ASSUME NEW p \in {"COMPLETED", "FAILED"}, SaveResultStep(tok, p)
      PROVE  IInv'
  <2>1. p \in Payload
    BY DEF Payload
  <2> QED
    BY <1>0, <1>6, <2>1, SaveResultRow, RowStep DEF SaveResultStep, RowChange
<1>7. CASE ClaimMessageStep(tok)
  BY <1>0, <1>7, ClaimMessageRow, RowStep DEF ClaimMessageStep, RowChange
<1>8. ASSUME NEW final \in Terminal, MarkPublishedStep(tok, final)
      PROVE  IInv'
  BY <1>0, <1>8, MarkPublishedRow, RowStep DEF MarkPublishedStep, RowChange
<1>9. CASE MarkExhaustedStep(tok)
  BY <1>0, <1>9, MarkExhaustedRow, RowStep DEF MarkExhaustedStep, RowChange
<1> QED
  BY <1>1, <1>2, <1>3, <1>4, <1>5, <1>6, <1>7, <1>8, <1>9,
     PrepareFallbackKeeps, BeginFallbackKeeps

LEMMA NextKeeps == IInv /\ [Next]_vars => IInv'
<1> SUFFICES ASSUME IInv, [Next]_vars PROVE IInv'
  OBVIOUS
<1>1. CASE Next
  BY <1>1, LeaseStepKeeps, SubmitStepKeeps, EventStepKeeps, WorkStepKeeps
  DEF Next
<1>2. CASE UNCHANGED vars
  <2>1. TypeOK' /\ RowOK(job') /\ Chain'
    BY <1>2, IInvParts
    DEF vars, TypeOK, Chain, UnstartedIsClean, RejectionsAgree,
        SentIsAccountedFor, AttemptChain, AttemptNumbersUnique,
        EarlierRejected, OldAttemptsRejected, CurrentIsNewest, SlotHasOwner,
        UnsentIsCurrent, HoldIsOnCurrentTask
  <2> QED
    BY <2>1, IInvPrimed
<1> QED
  BY <1>1, <1>2

-----------------------------------------------------------------------------
(* Theorems. *)

\* The inductive invariant: whatever order the transactions of Workers,
\* Webhooks and status queries commit in, with crashes before the send and
\* expired leases, the row, its attempts, its slot and its grants agree.
THEOREM InvariantHolds == Spec => []IInv
<1> QED
  BY InitIInv, NextKeeps, PTL DEF Spec

\* Every column keeps its type and every counter its limit.
THEOREM TypeCorrect == Spec => []TypeOK
<1>1. IInv => TypeOK
  BY DEF IInv
<1> QED
  BY <1>1, InvariantHolds, PTL

\* The pair every Worker dispatches on agrees with the stored result, and the
\* end of a job with what was published.
THEOREM StatusCorrect == Spec => [](NextActionMatchesStatus /\ TerminalIffPublished)
<1>1. IInv => NextActionMatchesStatus /\ TerminalIffPublished
  BY DEF IInv
<1> QED
  BY <1>1, InvariantHolds, PTL

\* Paid submissions form a chain in which every earlier one was rejected.
THEOREM AttemptChainHolds == Spec => []AttemptChain
<1>1. IInv => AttemptChain
  BY DEF IInv
<1> QED
  BY <1>1, InvariantHolds, PTL

\* The job's in-flight slot belongs to a generation that may still be running,
\* and its unsent grant to the current, undecided submission.
THEOREM SlotCorrect == Spec => [](SlotHasOwner /\ UnsentIsCurrent)
<1>1. IInv => SlotHasOwner /\ UnsentIsCurrent
  BY DEF IInv
<1> QED
  BY <1>1, InvariantHolds, PTL

\* A hold stays on the current task; a verified image excludes the fallback.
THEOREM HoldAndVerified == Spec => [](HoldIsOnCurrentTask /\ VerifiedNeverFallsBack)
<1>1. IInv => HoldIsOnCurrentTask /\ VerifiedNeverFallsBack
  BY DEF IInv
<1> QED
  BY <1>1, InvariantHolds, PTL

-----------------------------------------------------------------------------
(* AsyncJobState implements FittingContract, and its action properties.    *)
(*                                                                         *)
(* For each repository method: what it keeps (KeepsRecords) and whether    *)
(* the contract can see it (Quiet).  The contract sees five things only:   *)
(* a try, one taken back, the fallback, the outcome and the message.       *)


\* A change the contract cannot see, once the tries are the same.
Quiet(j, k) ==
    /\ k.result = j.result /\ k.fbStarted = j.fbStarted
    /\ \/ k.status = j.status
       \/ j.status \notin Terminal /\ k.status \notin Terminal

-----------------------------------------------------------------------------
(* What each repository method keeps. *)

LEMMA AcquireLeaseEffect ==
    ASSUME NEW j \in JobRow, NEW tok \in Token
    PROVE  KeepsRecords(j, AcquireLease(j, tok)) /\ Quiet(j, AcquireLease(j, tok))
BY DEF JobRow, AcquireLease, KeepsRecords, Quiet

LEMMA ReleaseLeaseEffect ==
    ASSUME NEW j \in JobRow
    PROVE  KeepsRecords(j, ReleaseLease(j)) /\ Quiet(j, ReleaseLease(j))
BY DEF JobRow, ReleaseLease, KeepsRecords, Quiet

LEMMA ExpireLeaseEffect ==
    ASSUME NEW j \in JobRow
    PROVE  KeepsRecords(j, ExpireLease(j)) /\ Quiet(j, ExpireLease(j))
BY DEF JobRow, ExpireLease, KeepsRecords, Quiet

LEMMA PreparePrunaEffect ==
    ASSUME NEW j \in JobRow, NEW tok \in Token, NEW t \in Task, NEW ai \in BOOLEAN,
           RowOK(j), CanPreparePruna(j, tok)
    PROVE  KeepsRecords(j, PreparePruna(j, t, ai)) /\ Quiet(j, PreparePruna(j, t, ai))
BY
DEF JobRow, PreparePruna, KeepsRecords, Quiet, CanPreparePruna, RowOK,
    RowConsistent

LEMMA RecordAuthHoldEffect ==
    ASSUME NEW j \in JobRow, NEW t \in Task,
           RowOK(j), CanRecordAuthHold(j, t)
    PROVE  KeepsRecords(j, RecordAuthHold(j)) /\ Quiet(j, RecordAuthHold(j))
BY
DEF JobRow, RecordAuthHold, KeepsRecords, Quiet, CanRecordAuthHold, RowOK,
    RowConsistent

LEMMA RecordSucceededEffect ==
    ASSUME NEW j \in JobRow, NEW t \in Task, NEW url \in Ref \cup {NULL}, NEW uuid \in Ref \cup {NULL},
           RowOK(j), CanRecordSucceeded(j, t)
    PROVE  KeepsRecords(j, RecordSucceeded(j, url, uuid)) /\ Quiet(j, RecordSucceeded(j, url, uuid))
BY
DEF JobRow, RecordSucceeded, KeepsRecords, Quiet, CanRecordSucceeded,
    AwaitingResult, Terminal, RowOK, RowConsistent

LEMMA FillImageRefEffect ==
    ASSUME NEW j \in JobRow, NEW url \in Ref \cup {NULL}, NEW uuid \in Ref \cup {NULL}
    PROVE  KeepsRecords(j, FillImageRef(j, url, uuid)) /\ Quiet(j, FillImageRef(j, url, uuid))
BY DEF JobRow, FillImageRef, KeepsRecords, Quiet

LEMMA RecordFailedRecoverableEffect ==
    ASSUME NEW j \in JobRow, NEW t \in Task,
           RowOK(j), CanRecordFailed(j, t)
    PROVE  KeepsRecords(j, RecordFailedRecoverable(j)) /\ Quiet(j, RecordFailedRecoverable(j))
BY
DEF JobRow, RecordFailedRecoverable, KeepsRecords, Quiet, CanRecordFailed,
    EventApplies, AwaitingResult, Terminal, RowOK, RowConsistent

LEMMA ClaimS3CheckEffect ==
    ASSUME NEW j \in JobRow
    PROVE  KeepsRecords(j, ClaimS3Check(j)) /\ Quiet(j, ClaimS3Check(j))
BY DEF JobRow, ClaimS3Check, KeepsRecords, Quiet

LEMMA RecordVerifiedEffect ==
    ASSUME NEW j \in JobRow, NEW tok \in Token
    PROVE  KeepsRecords(j, RecordVerified(j)) /\ Quiet(j, RecordVerified(j))
BY DEF JobRow, RecordVerified, KeepsRecords, Quiet

LEMMA ClaimLlmEffect ==
    ASSUME NEW j \in JobRow
    PROVE  KeepsRecords(j, ClaimLlm(j)) /\ Quiet(j, ClaimLlm(j))
BY DEF JobRow, ClaimLlm, KeepsRecords, Quiet

LEMMA MoveToFallbackEffect ==
    ASSUME NEW j \in JobRow, NEW tok \in Token,
           RowOK(j), CanMoveToFallback(j, tok)
    PROVE  KeepsRecords(j, MoveToFallback(j)) /\ Quiet(j, MoveToFallback(j))
BY
DEF JobRow, MoveToFallback, KeepsRecords, Quiet, CanMoveToFallback,
    Postprocessing, Terminal, RowOK, RowConsistent

LEMMA PrepareFallbackEffect ==
    ASSUME NEW j \in JobRow, NEW tok \in Token, NEW t \in Task,
           RowOK(j), CanPrepareFallback(j, tok, t)
    PROVE  KeepsRecords(j, PrepareFallback(j, t)) /\ Quiet(j, PrepareFallback(j, t))
BY
DEF JobRow, PrepareFallback, KeepsRecords, Quiet, CanPrepareFallback, RowOK,
    RowConsistent

LEMMA RecordFallbackImageEffect ==
    ASSUME NEW j \in JobRow
    PROVE  KeepsRecords(j, RecordFallbackImage(j)) /\ Quiet(j, RecordFallbackImage(j))
BY DEF JobRow, RecordFallbackImage, KeepsRecords, Quiet

LEMMA ClaimMessageEffect ==
    ASSUME NEW j \in JobRow
    PROVE  KeepsRecords(j, ClaimMessage(j)) /\ Quiet(j, ClaimMessage(j))
BY DEF JobRow, ClaimMessage, KeepsRecords, Quiet

LEMMA MarkExhaustedEffect ==
    ASSUME NEW j \in JobRow
    PROVE  KeepsRecords(j, MarkExhausted(j)) /\ Quiet(j, MarkExhausted(j))
BY DEF JobRow, MarkExhausted, KeepsRecords, Quiet

LEMMA RecordAcceptedEffect ==
    ASSUME NEW j \in JobRow
    PROVE  /\ KeepsRecords(j, RecordAccepted(j))
           /\ Quiet(j, RecordAccepted(j))
<1>1. CASE j.status = "RECEIVED" /\ j.nextAction = "SUBMIT_PRUNA"
  BY <1>1 DEF JobRow, RecordAccepted, KeepsRecords, Quiet, Terminal
<1>2. CASE ~(j.status = "RECEIVED" /\ j.nextAction = "SUBMIT_PRUNA")
  BY <1>2 DEF JobRow, RecordAccepted, KeepsRecords, Quiet
<1> QED
  BY <1>1, <1>2

LEMMA RecordFailedFinalEffect ==
    ASSUME NEW j \in JobRow, NEW t \in Task, CanRecordFailed(j, t)
    PROVE  LET k == RecordFailedFinal(j)
           IN  /\ KeepsRecords(j, k)
               /\ j.result = NULL /\ k.result = "FAILED"
               /\ k.fbStarted = j.fbStarted /\ k.status = j.status
BY DEF JobRow, RecordFailedFinal, KeepsRecords, CanRecordFailed, AwaitingResult

LEMMA SaveResultEffect ==
    ASSUME NEW j \in JobRow, NEW p \in Payload, NEW tok \in Token,
           CanSaveResult(j, tok)
    PROVE  LET k == SaveResult(j, p)
           IN  /\ KeepsRecords(j, k)
               /\ j.result = NULL /\ k.result = p
               /\ k.fbStarted = j.fbStarted /\ k.status = j.status
BY DEF JobRow, SaveResult, KeepsRecords, CanSaveResult

LEMMA MarkPublishedEffect ==
    ASSUME NEW j \in JobRow, NEW tok \in Token, NEW f \in Terminal,
           CanMarkPublished(j, tok, f)
    PROVE  LET k == MarkPublished(j, f)
           IN  /\ KeepsRecords(j, k)
               /\ k.result = j.result /\ k.fbStarted = j.fbStarted
               /\ j.status \notin Terminal /\ k.status = f
               /\ j.result # NULL /\ PayloadStatus(j.result) = f
BY DEF JobRow, MarkPublished, KeepsRecords, CanMarkPublished, Publishing
-----------------------------------------------------------------------------
(* What each step does, seen from the contract. *)

\* What has to be shown of every step.
Effect ==
    /\ KeepsRecords(job, job')
    /\ [Contract!Next]_(Contract!vars)
    /\ StartsGeneration => GenerationAllowed

LEMMA QuietStep ==
    ASSUME KeepsRecords(job, job'), Quiet(job, job'), attempts' = attempts,
           job'.started = job.started,
           job'.task = job.task \/ ~job.started
    PROVE  Effect
<1>1. Tries' = Tries
  BY DEF Tries
<1>2. Told' = Told
  BY DEF Told, Quiet
<1>3. UNCHANGED Contract!vars
  BY <1>1, <1>2 DEF Contract!vars, Quiet
<1>4. ~StartsGeneration
  BY DEF StartsGeneration, Quiet
<1> QED
  BY <1>3, <1>4 DEF Effect

LEMMA DecideStep ==
    ASSUME NEW o \in {"COMPLETED", "FAILED"},
           KeepsRecords(job, job'), attempts' = attempts,
           job'.started = job.started, job'.task = job.task,
           job.result = NULL, job'.result = o,
           job'.fbStarted = job.fbStarted, job'.status = job.status,
           o = "COMPLETED" => Tries > 0
    PROVE  Effect
<1>1. Tries' = Tries /\ Told' = Told
  BY DEF Tries, Told
<1>2. Contract!Decide(o)
  BY <1>1 DEF Contract!Decide
<1>3. ~StartsGeneration
  BY DEF StartsGeneration
<1> QED
  BY <1>2, <1>3 DEF Effect, Contract!Next

LEMMA TriesPositive ==
    ASSUME IInv, job.started
    PROVE  Tries \in Nat /\ Tries > 0
BY LimitAssumption DEF IInv, TypeOK, RowConsistent, JobRow, Tries

LEMMA LeaseStepEffect == ASSUME IInv, LeaseStep PROVE Effect
<1>0. job \in JobRow /\ RowOK(job)
  BY IInvParts DEF RowOK
<1>1. ASSUME NEW tok \in Token, NEW action \in NextAction,
             AcquireLeaseStep(tok, action)
      PROVE  Effect
  BY <1>0, <1>1, AcquireLeaseEffect, AcquireLeaseRow, QuietStep
  DEF AcquireLeaseStep, SameChain, attemptVars
<1>2. ASSUME NEW tok \in Token, ReleaseLeaseStep(tok) PROVE Effect
  BY <1>0, <1>2, ReleaseLeaseEffect, ReleaseLeaseRow, QuietStep
  DEF ReleaseLeaseStep, SameChain, attemptVars
<1>3. CASE LeaseExpires
  BY <1>0, <1>3, ExpireLeaseEffect, ExpireLeaseRow, QuietStep
  DEF LeaseExpires, SameChain, attemptVars
<1>4. CASE RetryTimeComes
  <2>1. job' = [job EXCEPT !.retryAt = "due"] /\ attempts' = attempts
    BY <1>4 DEF RetryTimeComes, attemptVars
  <2>2. KeepsRecords(job, job') /\ Quiet(job, job')
    BY <1>0, <2>1 DEF JobRow, KeepsRecords, Quiet
  <2>3. job'.started = job.started /\ job'.task = job.task
    BY <1>0, <2>1 DEF JobRow
  <2> QED
    BY <2>1, <2>2, <2>3, QuietStep
<1> QED
  BY <1>1, <1>2, <1>3, <1>4 DEF LeaseStep

LEMMA BeginSubmissionEffect ==
    ASSUME IInv, NEW tok \in Token, BeginSubmission(tok)
    PROVE  Effect
<1>0. job \in JobRow /\ RowOK(job)
  BY IInvParts DEF RowOK
<1>1. /\ ~job.started /\ job.status = "RECEIVED" /\ job.task \in Task
      /\ job.nextAction = "SUBMIT_PRUNA"
      /\ job' = [job EXCEPT !.started = TRUE]
      /\ attempts' = [attempts EXCEPT ![job.task] = 1]
  BY <1>0 DEF BeginSubmission, BeginSubmissionTx, CanBeginSubmission, JobRow
<1>2. /\ job'.started /\ job'.task = job.task /\ job'.result = job.result
      /\ job'.fbStarted = job.fbStarted /\ job'.status = job.status
      /\ KeepsRecords(job, job')
  BY <1>0, <1>1 DEF JobRow, KeepsRecords
<1>3. job.result = NULL /\ ~job.fbStarted
  BY <1>0, <1>1
  DEF RowOK, ActionMatchesStatus, RowConsistent, Terminal, JobRow
<1>4. sent = {} /\ job.authHold = NULL
  BY <1>1 DEF IInv, UnstartedIsClean
<1>5. Tries = 0 /\ Tries' = 1 /\ Told' = Told
  BY <1>1, <1>2 DEF Tries, Told, IInv, TypeOK
<1>6. Contract!Try
  BY <1>2, <1>3, <1>5, LimitAssumption DEF Contract!Try
<1> QED
  BY <1>1, <1>2, <1>3, <1>4, <1>6
  DEF Effect, Contract!Next, GenerationAllowed

LEMMA BeginRetryEffect ==
    ASSUME IInv, NEW tok \in Token, NEW t \in Task, BeginRetry(tok, t)
    PROVE  Effect
<1>0. job \in JobRow /\ RowOK(job)
  BY IInvParts DEF RowOK
<1>1. /\ job.started /\ job.status = "RECEIVED" /\ job.result = NULL
      /\ job.authHold = NULL /\ job.task \in rejected
      /\ job' = [job EXCEPT !.task = t, !.notAccepted = FALSE,
                            !.retryAt = NULL]
  BY DEF BeginRetry, BeginRetryTx, CanBeginRetry
<1>2. PICK n \in 1..(PrunaSubmitLimit - 1) :
         LastAttempt(n) /\ attempts' = [attempts EXCEPT ![t] = n + 1]
  BY DEF BeginRetry, BeginRetryTx
<1>3. /\ job'.started = job.started /\ job'.task = t
      /\ job'.result = job.result
      /\ job'.fbStarted = job.fbStarted /\ job'.status = job.status
      /\ KeepsRecords(job, job')
  BY <1>0, <1>1 DEF JobRow, KeepsRecords
<1>4. ~job.fbStarted /\ job.fbTask = NULL
  BY <1>0, <1>1 DEF RowOK, RowConsistent, Terminal, JobRow
<1>5. job.task \in Task /\ attempts[job.task] = n /\ n \in Nat /\ n > 0
  <2>1. job.task \in Task /\ n \in Nat /\ n > 0
    BY <1>1, <1>2, LimitAssumption DEF IInv, TypeOK
  <2>2. PICK u \in Task : attempts[u] = n
    BY <1>2 DEF LastAttempt
  <2>3. attempts[job.task] <= n /\ attempts[u] <= attempts[job.task]
    BY <1>2, <2>1, <2>2
    DEF LastAttempt, IInv, AttemptChain, CurrentIsNewest
  <2>4. attempts[job.task] \in Nat
    BY <2>1, LimitAssumption DEF IInv, TypeOK
  <2> QED
    BY <2>1, <2>2, <2>3, <2>4
<1>6. attempts'[t] = n + 1
  BY <1>2 DEF IInv, TypeOK
<1>7. Tries = n /\ Tries' = n + 1 /\ Told' = Told
  BY <1>1, <1>3, <1>5, <1>6 DEF Tries, Told
<1>8. n < PrunaSubmitLimit
  BY <1>2, LimitAssumption
<1>9. Contract!Try
  BY <1>1, <1>3, <1>4, <1>7, <1>8 DEF Contract!Try
<1>10. sent \subseteq rejected
  BY <1>1, <1>4 DEF IInv, SentIsAccountedFor
<1> QED
  BY <1>1, <1>3, <1>9, <1>10 DEF Effect, Contract!Next, GenerationAllowed

LEMMA CancelUnsentEffect == ASSUME IInv, CancelUnsent PROVE Effect
<1> DEFINE t == unsent[1]
<1>u. unsent # NULL
  BY DEF CancelUnsent, CancelUnsentTx, dbVars
<1>0. job \in JobRow /\ RowOK(job) /\ t \in Task
  BY <1>u, IInvParts DEF RowOK, IInv, TypeOK
<1>n. attempts \in [Task -> Nat]
  BY LimitAssumption DEF IInv, TypeOK
<1>p. attempts[t] \in Nat /\ attempts[t] # 0
  BY <1>u, <1>0, <1>n DEF IInv, RejectionsAgree
<1>1. CASE ~CancelApplies(t, unsent[2])
  <2>1. job' = job /\ attempts' = attempts
    BY <1>1 DEF CancelUnsent, CancelUnsentTx, dbVars, CancelApplies, attemptVars
  <2>2. KeepsRecords(job, job') /\ Quiet(job, job')
    BY <2>1 DEF KeepsRecords, Quiet
  <2> QED
    BY <2>1, <2>2, QuietStep
<1>2. CASE CancelApplies(t, unsent[2])
  <2>1. /\ attempts' = [attempts EXCEPT ![t] = 0]
        /\ \/ job' = [job EXCEPT !.started = FALSE] /\ attempts[t] = 1
           \/ \E p \in Task :
                /\ attempts[p] >= 1 /\ attempts[p] = attempts[t] - 1
                /\ job' = [job EXCEPT !.task = p, !.retryAt = "due",
                                      !.notAccepted = (p \in rejected)]
    <3>1. ASSUME attempts[t] > 1
          PROVE  \E p \in Task : attempts[p] >= 1 /\ attempts[p] = attempts[t] - 1
      <4>1. PICK p \in rejected : attempts[p] = attempts[t] - 1
        BY <1>0, <3>1 DEF IInv, AttemptChain, EarlierRejected
      <4>2. p \in Task /\ attempts[t] \in Nat
        BY <1>0, LimitAssumption DEF IInv, TypeOK
      <4> QED
        BY <3>1, <4>1, <4>2
    <3>3. attempts[t] > 1 \/ attempts[t] = 1
      BY <1>p
    <3> QED
      BY <1>2, <3>1, <3>3 DEF CancelUnsent, CancelUnsentTx, dbVars, CancelApplies
  <2>2. /\ job.task = t /\ job.started /\ job.status = "RECEIVED"
        /\ ~job.fbStarted
    BY <1>0, <1>2 DEF CancelApplies, RowOK, RowConsistent, Terminal, JobRow
  <2>3. attempts[t] \in Nat /\ attempts[t] # 0
    BY <1>p
  <2>4. Tries = attempts[t] /\ Told = NULL
    BY <2>2, <2>3 DEF Tries, Told, Terminal
  <2>5. CASE job' = [job EXCEPT !.started = FALSE] /\ attempts[t] = 1
    <3>1. /\ KeepsRecords(job, job') /\ ~job'.started
          /\ job'.result = job.result /\ job'.fbStarted = job.fbStarted
          /\ job'.status = job.status
      BY <1>0, <2>5 DEF JobRow, KeepsRecords
    <3>2. Tries' = 0 /\ Told' = NULL
      BY <2>2, <3>1 DEF Tries, Told, Terminal
    <3>3. Contract!TakeBack
      BY <2>2, <2>4, <2>5, <3>1, <3>2 DEF Contract!TakeBack
    <3>4. ~StartsGeneration
      BY <1>0, <2>1, <3>1 DEF StartsGeneration, IInv, TypeOK
    <3> QED
      BY <3>1, <3>3, <3>4 DEF Effect, Contract!Next
  <2>6. ASSUME NEW p \in Task, attempts[p] >= 1, attempts[p] = attempts[t] - 1,
               job' = [job EXCEPT !.task = p, !.retryAt = "due",
                                  !.notAccepted = (p \in rejected)]
        PROVE  Effect
    <3>1. /\ KeepsRecords(job, job') /\ job'.started /\ job'.task = p
          /\ job'.result = job.result /\ job'.fbStarted = job.fbStarted
          /\ job'.status = job.status
      BY <1>0, <2>2, <2>6 DEF JobRow, KeepsRecords
    <3>e. attempts' = [attempts EXCEPT ![t] = 0]
      BY <2>1
    <3>d. p # t /\ attempts[p] \in Nat
      BY <1>n, <2>3, <2>6
    <3>2. attempts'[p] = attempts[p] /\ attempts[p] # 0
      BY <1>0, <1>n, <2>6, <3>d, <3>e
    <3>3. Tries' = attempts[t] - 1 /\ Told' = NULL
      BY <2>2, <2>6, <3>1, <3>2 DEF Tries, Told, Terminal
    <3>4. Contract!TakeBack
      BY <2>2, <2>3, <2>4, <3>1, <3>3 DEF Contract!TakeBack
    <3>5. ~StartsGeneration
      BY <1>0, <2>1, <3>1 DEF StartsGeneration, IInv, TypeOK
    <3> QED
      BY <3>1, <3>4, <3>5 DEF Effect, Contract!Next
  <2> QED
    BY <2>1, <2>5, <2>6
<1> QED
  BY <1>1, <1>2

LEMMA SubmitStepEffect == ASSUME IInv, SubmitStep PROVE Effect
<1>0. job \in JobRow /\ RowOK(job)
  BY IInvParts DEF RowOK
<1>1. ASSUME NEW tok \in Token, NEW t \in Task, PrepareStep(tok, t)
      PROVE  Effect
  <2>1. /\ CanPreparePruna(job, tok) /\ job' = PreparePruna(job, t, TRUE)
        /\ attempts' = attempts
    BY <1>1 DEF PrepareStep, RowChange, attemptVars
  <2>2. job'.started = job.started /\ ~job.started
    BY <1>0, <2>1 DEF PreparePruna, CanPreparePruna, JobRow
  <2> QED
    BY <1>0, <2>1, <2>2, PreparePrunaEffect, QuietStep
<1>2. CASE Send \/ CrashBeforeSend
  <2>1. job' = job /\ attempts' = attempts
    BY <1>2 DEF Send, CrashBeforeSend, attemptVars
  <2>2. KeepsRecords(job, job') /\ Quiet(job, job')
    BY <2>1 DEF KeepsRecords, Quiet
  <2> QED
    BY <2>1, <2>2, QuietStep
<1> QED
  BY <1>1, <1>2, BeginSubmissionEffect, BeginRetryEffect, CancelUnsentEffect
  DEF SubmitStep

LEMMA BeginFallbackEffect ==
    ASSUME IInv, NEW tok \in Token, BeginFallback(tok)
    PROVE  Effect
<1>0. job \in JobRow /\ RowOK(job)
  BY IInvParts DEF RowOK
<1>1. /\ ~job.fbStarted /\ job.status = "FALLBACK_RUNNING"
      /\ job.result = NULL
      /\ job' = [job EXCEPT !.fbAttempts = @ + 1, !.fbStarted = TRUE]
      /\ attempts' = attempts
  BY DEF BeginFallback, BeginFallbackTx, CanBeginFallback, Fallback, attemptVars
<1>2. /\ job'.started = job.started /\ job'.task = job.task
      /\ job'.result = job.result /\ job'.fbStarted
      /\ job'.status = job.status /\ KeepsRecords(job, job')
  BY <1>0, <1>1 DEF JobRow, KeepsRecords
<1>3. job.started
  BY <1>0, <1>1 DEF RowOK, RowConsistent
<1>4. Tries' = Tries /\ Told' = Told
  BY <1>1, <1>2 DEF Tries, Told
<1>5. Tries \in Nat /\ Tries > 0
  BY <1>3, TriesPositive
<1>6. Contract!FallBack
  BY <1>1, <1>2, <1>4, <1>5 DEF Contract!FallBack
<1> QED
  BY <1>1, <1>2, <1>6 DEF Effect, Contract!Next, GenerationAllowed

\* A change of the row alone that the contract cannot see.
LEMMA QuietRowStep ==
    ASSUME NEW k, job' = k, UNCHANGED attempts,
           KeepsRecords(job, k), Quiet(job, k),
           k.started = job.started, k.task = job.task
    PROVE  Effect
BY QuietStep

LEMMA LegacyKeepsTries ==
    ASSUME IInv, NEW t \in Task, job.task = t, job.started,
           attempts' = WithLegacyAttempt(t),
           job'.task = t, job'.started
    PROVE  Tries' = Tries /\ attempts'[t] = Tries'
<1>0. attempts \in [Task -> Nat]
  BY LimitAssumption DEF IInv, TypeOK
<1>1. CASE \A p \in Task : attempts[p] = 0
  BY <1>0, <1>1 DEF WithLegacyAttempt, Tries
<1>2. CASE ~\A p \in Task : attempts[p] = 0
  <2>1. attempts' = attempts
    BY <1>2 DEF WithLegacyAttempt
  <2>2. attempts[t] # 0
    BY <1>0, <1>2 DEF IInv, AttemptChain, CurrentIsNewest
  <2> QED
    BY <2>1, <2>2 DEF Tries
<1> QED
  BY <1>1, <1>2

LEMMA RecordNotAcceptedEffect ==
    ASSUME IInv, NEW t \in Task, NEW retryAt \in {NULL, "later"},
           RecordNotAccepted(t, retryAt)
    PROVE  Effect
<1>0. job \in JobRow /\ RowOK(job)
  BY IInvParts DEF RowOK
<1>1. /\ job.task = t /\ job.started
      /\ attempts' = WithLegacyAttempt(t)
      /\ unsent' = unsent
  BY DEF RecordNotAccepted, RecordNotAcceptedTx, NotAcceptedApplies, callVars
<1>2. CASE job' = job
  <2>1. Tries' = Tries
    BY <1>1, <1>2, LegacyKeepsTries
  <2>2. KeepsRecords(job, job') /\ UNCHANGED Contract!vars
    BY <1>2, <2>1 DEF KeepsRecords, Contract!vars, Told
  <2>3. ~StartsGeneration
    BY <1>1, <1>2 DEF StartsGeneration
  <2> QED
    BY <2>2, <2>3 DEF Effect
<1>3. CASE job' # job
  <2>1. /\ job.status \notin Terminal /\ job.result = NULL
        /\ ~Progressed(job)
        /\ job' = IF Exhausted(attempts'[t])
                  THEN [job EXCEPT !.result = "REJECTED",
                                   !.nextAction = "PUBLISH_RESULT",
                                   !.notAccepted = TRUE, !.retryAt = NULL]
                  ELSE [job EXCEPT !.notAccepted = TRUE,
                                   !.retryAt = retryAt]
    BY <1>3 DEF RecordNotAccepted, RecordNotAcceptedTx, NotAcceptedApplies
  <2>2. ~job.fbStarted
    BY <1>0, <2>1 DEF Progressed, RowOK, RowConsistent, Terminal, JobRow
  <2>3. CASE ~Exhausted(attempts'[t])
    <3>1. job' = [job EXCEPT !.notAccepted = TRUE, !.retryAt = retryAt]
      BY <2>1, <2>3
    <3>2. /\ KeepsRecords(job, job') /\ Quiet(job, job')
          /\ job'.task = job.task /\ job'.started = job.started
          /\ job'.status = job.status
      BY <1>0, <3>1 DEF JobRow, KeepsRecords, Quiet
    <3>3. Tries' = Tries
      BY <1>1, <3>2, LegacyKeepsTries
    <3>4. UNCHANGED Contract!vars
      BY <3>2, <3>3 DEF Quiet, Contract!vars, Told
    <3>5. ~StartsGeneration
      BY <1>1, <3>2 DEF StartsGeneration, Quiet
    <3> QED
      BY <3>2, <3>4, <3>5 DEF Effect
  <2>4. CASE Exhausted(attempts'[t])
    <3>1. job' = [job EXCEPT !.result = "REJECTED",
                             !.nextAction = "PUBLISH_RESULT",
                             !.notAccepted = TRUE, !.retryAt = NULL]
      BY <2>1, <2>4
    <3>n. job.result = NULL
      BY <2>1
    <3>2. /\ KeepsRecords(job, job') /\ job'.result = "REJECTED"
          /\ job'.fbStarted = job.fbStarted
          /\ job'.task = job.task /\ job'.started = job.started
          /\ job'.status = job.status
      BY <1>0, <3>n, <3>1 DEF JobRow, KeepsRecords
    <3>3. Tries' = Tries /\ attempts'[t] = Tries /\ Told' = Told
      BY <1>1, <3>2, LegacyKeepsTries DEF Told
    <3>4. Tries = PrunaSubmitLimit
      <4>1. Tries >= PrunaSubmitLimit
        BY <2>4, <3>3 DEF Exhausted
      <4>2. attempts \in [Task -> 0..PrunaSubmitLimit]
        BY DEF IInv, TypeOK
      <4>3. Tries \in Nat /\ Tries <= PrunaSubmitLimit
        BY <1>1, <4>2, LimitAssumption DEF Tries
      <4> QED
        BY <4>1, <4>3, LimitAssumption
    <3>5. Contract!Decide("REJECTED")
      BY <2>1, <2>2, <3>2, <3>3, <3>4 DEF Contract!Decide
    <3>6. ~StartsGeneration
      BY <1>1, <3>2 DEF StartsGeneration
    <3> QED
      BY <3>2, <3>5, <3>6 DEF Effect, Contract!Next
  <2> QED
    BY <2>3, <2>4
<1> QED
  BY <1>2, <1>3

LEMMA RecordContradictionEffect ==
    ASSUME IInv, NEW t \in Task, RecordContradiction(t)
    PROVE  Effect
<1>0. job \in JobRow
  BY IInvParts DEF RowOK
<1>1. /\ job' = job \/ job' = [job EXCEPT !.retryAt = NULL]
      /\ attempts' = attempts
  BY DEF RecordContradiction, RecordContradictionTx, ContradictionApplies
<1>2. /\ KeepsRecords(job, job') /\ Quiet(job, job')
      /\ job'.started = job.started /\ job'.task = job.task
  BY <1>0, <1>1 DEF JobRow, KeepsRecords, Quiet
<1> QED
  BY <1>1, <1>2, QuietStep

LEMMA EventStepEffect == ASSUME IInv, EventStep PROVE Effect
<1>0. job \in JobRow /\ RowOK(job)
  BY IInvParts DEF RowOK
<1> SUFFICES ASSUME NEW t \in Task,
                    \/ RecordAcceptedStep(t)
                    \/ RecordAuthHoldStep(t)
                    \/ \E url, uuid \in Ref \cup {NULL} :
                         \/ RecordSucceededStep(t, url, uuid)
                         \/ \E confirmed \in BOOLEAN :
                              FillImageRefStep(t, url, uuid, confirmed)
                    \/ RecordFailedRecoverableStep(t)
                    \/ RecordFailedFinalStep(t)
                    \/ \E retryAt \in {NULL, "later"} :
                         RecordNotAccepted(t, retryAt)
                    \/ RecordContradiction(t)
                    \/ ReleaseSlot(t)
             PROVE  Effect
  BY DEF EventStep
<1>1. CASE RecordAcceptedStep(t)
  <2>1. job' = RecordAccepted(job) /\ attempts' = attempts
    BY <1>1 DEF RecordAcceptedStep, RowChange, attemptVars
  <2>2. job'.started = job.started /\ job'.task = job.task
    BY <1>0, <2>1 DEF RecordAccepted, JobRow
  <2> QED
    BY <1>0, <2>1, <2>2, RecordAcceptedEffect, QuietStep
<1>2. CASE RecordAuthHoldStep(t)
  <2>1. /\ CanRecordAuthHold(job, t)
        /\ job' = RecordAuthHold(job) /\ attempts' = attempts
    BY <1>2 DEF RecordAuthHoldStep, RowChange, attemptVars
  <2>2. job'.started = job.started /\ job'.task = job.task
    BY <1>0, <2>1 DEF RecordAuthHold, JobRow
  <2> QED
    BY <1>0, <2>1, <2>2, RecordAuthHoldEffect, QuietStep
<1>3. ASSUME NEW url \in Ref \cup {NULL}, NEW uuid \in Ref \cup {NULL},
             RecordSucceededStep(t, url, uuid)
      PROVE  Effect
  <2>1. /\ CanRecordSucceeded(job, t)
        /\ job' = RecordSucceeded(job, url, uuid) /\ attempts' = attempts
    BY <1>3 DEF RecordSucceededStep, RowChange, attemptVars
  <2>2. job'.started = job.started /\ job'.task = job.task
    BY <1>0, <2>1 DEF RecordSucceeded, JobRow
  <2> QED
    BY <1>0, <2>1, <2>2, RecordSucceededEffect, QuietStep
<1>4. ASSUME NEW url \in Ref \cup {NULL}, NEW uuid \in Ref \cup {NULL},
             NEW confirmed \in BOOLEAN,
             FillImageRefStep(t, url, uuid, confirmed)
      PROVE  Effect
  <2>1. job' = FillImageRef(job, url, uuid) /\ attempts' = attempts
    BY <1>4 DEF FillImageRefStep, RowChange, attemptVars
  <2>2. job'.started = job.started /\ job'.task = job.task
    BY <1>0, <2>1 DEF FillImageRef, JobRow
  <2> QED
    BY <1>0, <2>1, <2>2, FillImageRefEffect, QuietStep
<1>5. CASE RecordFailedRecoverableStep(t)
  <2>1. /\ CanRecordFailed(job, t)
        /\ job' = RecordFailedRecoverable(job) /\ attempts' = attempts
    BY <1>5 DEF RecordFailedRecoverableStep, RowChange, attemptVars
  <2>2. job'.started = job.started /\ job'.task = job.task
    BY <1>0, <2>1 DEF RecordFailedRecoverable, JobRow
  <2> QED
    BY <1>0, <2>1, <2>2, RecordFailedRecoverableEffect, QuietStep
<1>6. CASE RecordFailedFinalStep(t)
  <2>1. /\ CanRecordFailed(job, t)
        /\ job' = RecordFailedFinal(job) /\ attempts' = attempts
    BY <1>6 DEF RecordFailedFinalStep, RowChange, attemptVars
  <2>2. job'.started = job.started /\ job'.task = job.task
    BY <1>0, <2>1 DEF RecordFailedFinal, JobRow
  <2> QED
    BY <1>0, <2>1, <2>2, RecordFailedFinalEffect, DecideStep
<1>7. ASSUME NEW retryAt \in {NULL, "later"}, RecordNotAccepted(t, retryAt)
      PROVE  Effect
  BY <1>7, RecordNotAcceptedEffect
<1>8. CASE RecordContradiction(t)
  BY <1>8, RecordContradictionEffect
<1>9. CASE ReleaseSlot(t)
  <2>1. job' = job /\ attempts' = attempts
    BY <1>9 DEF ReleaseSlot, ReleaseSlotTx, attemptVars
  <2>2. KeepsRecords(job, job') /\ Quiet(job, job')
    BY <2>1 DEF KeepsRecords, Quiet
  <2> QED
    BY <2>1, <2>2, QuietStep
<1> QED
  BY <1>1, <1>2, <1>3, <1>4, <1>5, <1>6, <1>7, <1>8, <1>9

LEMMA WorkStepEffect == ASSUME IInv, WorkStep PROVE Effect
<1>0. job \in JobRow /\ RowOK(job)
  BY IInvParts DEF RowOK
<1> SUFFICES ASSUME NEW tok \in Token,
                    \/ ClaimS3CheckStep(tok)
                    \/ RecordVerifiedStep(tok)
                    \/ ClaimLlmStep(tok)
                    \/ MoveToFallbackStep(tok)
                    \/ \E t \in Task : PrepareFallbackStep(tok, t)
                    \/ BeginFallback(tok)
                    \/ RecordFallbackImageStep(tok)
                    \/ \E p \in {"COMPLETED", "FAILED"} : SaveResultStep(tok, p)
                    \/ ClaimMessageStep(tok)
                    \/ \E final \in Terminal : MarkPublishedStep(tok, final)
                    \/ MarkExhaustedStep(tok)
             PROVE  Effect
  BY DEF WorkStep
<1>1. CASE ClaimS3CheckStep(tok)
  <2>1. job' = ClaimS3Check(job) /\ attempts' = attempts
    BY <1>1 DEF ClaimS3CheckStep, RowChange, attemptVars
  <2>2. job'.started = job.started /\ job'.task = job.task
    BY <1>0, <2>1 DEF ClaimS3Check, JobRow
  <2> QED
    BY <1>0, <2>1, <2>2, ClaimS3CheckEffect, QuietStep
<1>2. CASE RecordVerifiedStep(tok)
  <2>1. job' = RecordVerified(job) /\ attempts' = attempts
    BY <1>2 DEF RecordVerifiedStep, RowChange, attemptVars
  <2>2. job'.started = job.started /\ job'.task = job.task
    BY <1>0, <2>1 DEF RecordVerified, JobRow
  <2> QED
    BY <1>0, <2>1, <2>2, RecordVerifiedEffect, QuietStep
<1>3. CASE ClaimLlmStep(tok)
  <2>1. job' = ClaimLlm(job) /\ attempts' = attempts
    BY <1>3 DEF ClaimLlmStep, RowChange, attemptVars
  <2>2. job'.started = job.started /\ job'.task = job.task
    BY <1>0, <2>1 DEF ClaimLlm, JobRow
  <2> QED
    BY <1>0, <2>1, <2>2, ClaimLlmEffect, QuietStep
<1>4. CASE MoveToFallbackStep(tok)
  <2>1. /\ CanMoveToFallback(job, tok)
        /\ job' = MoveToFallback(job) /\ attempts' = attempts
    BY <1>4 DEF MoveToFallbackStep, RowChange, attemptVars
  <2>2. job'.started = job.started /\ job'.task = job.task
    BY <1>0, <2>1 DEF MoveToFallback, JobRow
  <2> QED
    BY <1>0, <2>1, <2>2, MoveToFallbackEffect, QuietStep
<1>5. ASSUME NEW t \in Task, PrepareFallbackStep(tok, t) PROVE Effect
  <2>1. /\ CanPrepareFallback(job, tok, t)
        /\ job' = PrepareFallback(job, t) /\ attempts' = attempts
    BY <1>5 DEF PrepareFallbackStep, RowChange, attemptVars
  <2>2. job'.started = job.started /\ job'.task = job.task
    BY <1>0, <2>1 DEF PrepareFallback, JobRow
  <2> QED
    BY <1>0, <2>1, <2>2, PrepareFallbackEffect, QuietStep
<1>6. CASE BeginFallback(tok)
  BY <1>6, BeginFallbackEffect
<1>7. CASE RecordFallbackImageStep(tok)
  <2>1. job' = RecordFallbackImage(job) /\ attempts' = attempts
    BY <1>7 DEF RecordFallbackImageStep, RowChange, attemptVars
  <2>2. job'.started = job.started /\ job'.task = job.task
    BY <1>0, <2>1 DEF RecordFallbackImage, JobRow
  <2> QED
    BY <1>0, <2>1, <2>2, RecordFallbackImageEffect, QuietStep
<1>8. ASSUME NEW p \in {"COMPLETED", "FAILED"}, SaveResultStep(tok, p)
      PROVE  Effect
  <2>1. /\ p = "COMPLETED" => job.verified \/ job.fbImage
        /\ CanSaveResult(job, tok)
        /\ job' = SaveResult(job, p) /\ attempts' = attempts
    BY <1>8 DEF SaveResultStep, RowChange, attemptVars
  <2>2. job'.started = job.started /\ job'.task = job.task
    BY <1>0, <2>1 DEF SaveResult, JobRow
  <2>3. p \in Payload /\ job.status \notin Terminal
    BY <2>1 DEF Payload, CanSaveResult
  <2>4. p = "COMPLETED" => job.started
    BY <1>0, <2>1, <2>3 DEF RowOK, RowConsistent, Terminal
  <2>5. p = "COMPLETED" => Tries > 0
    BY <2>4, TriesPositive
  <2>6. /\ KeepsRecords(job, job')
        /\ job.result = NULL /\ job'.result = p
        /\ job'.fbStarted = job.fbStarted /\ job'.status = job.status
    BY <1>0, <2>1, <2>3, SaveResultEffect
  <2> QED
    BY <2>1, <2>2, <2>5, <2>6, DecideStep
<1>9. CASE ClaimMessageStep(tok)
  <2>1. job' = ClaimMessage(job) /\ attempts' = attempts
    BY <1>9 DEF ClaimMessageStep, RowChange, attemptVars
  <2>2. job'.started = job.started /\ job'.task = job.task
    BY <1>0, <2>1 DEF ClaimMessage, JobRow
  <2> QED
    BY <1>0, <2>1, <2>2, ClaimMessageEffect, QuietStep
<1>10. ASSUME NEW final \in Terminal, MarkPublishedStep(tok, final)
       PROVE  Effect
  <2>1. /\ CanMarkPublished(job, tok, final)
        /\ job' = MarkPublished(job, final) /\ attempts' = attempts
    BY <1>10 DEF MarkPublishedStep, RowChange, attemptVars
  <2>2. job'.started = job.started /\ job'.task = job.task
    BY <1>0, <2>1 DEF MarkPublished, JobRow
  <2>3. /\ KeepsRecords(job, job')
        /\ job'.result = job.result /\ job'.fbStarted = job.fbStarted
        /\ job.status \notin Terminal /\ job'.status = final
        /\ job.result # NULL /\ PayloadStatus(job.result) = final
    BY <1>0, <2>1, MarkPublishedEffect
  <2>4. Tries' = Tries /\ Told = NULL /\ Told' = final
    BY <2>1, <2>2, <2>3 DEF Tries, Told
  <2>5. Contract!Tell
    BY <2>3, <2>4 DEF Contract!Tell, PayloadStatus
  <2>6. ~StartsGeneration
    BY <2>1, <2>3 DEF StartsGeneration
  <2> QED
    BY <2>3, <2>5, <2>6 DEF Effect, Contract!Next
<1>11. CASE MarkExhaustedStep(tok)
  <2>1. job' = MarkExhausted(job) /\ attempts' = attempts
    BY <1>11 DEF MarkExhaustedStep, RowChange, attemptVars
  <2>2. job'.started = job.started /\ job'.task = job.task
    BY <1>0, <2>1 DEF MarkExhausted, JobRow
  <2> QED
    BY <1>0, <2>1, <2>2, MarkExhaustedEffect, QuietStep
<1> QED
  BY <1>1, <1>2, <1>3, <1>4, <1>5, <1>6, <1>7, <1>8, <1>9, <1>10, <1>11

LEMMA NextEffect == ASSUME IInv, [Next]_vars PROVE Effect
<1>1. CASE Next
  BY <1>1, LeaseStepEffect, SubmitStepEffect, EventStepEffect,
     WorkStepEffect DEF Next
<1>2. CASE UNCHANGED vars
  <2>1. job' = job /\ attempts' = attempts
    BY <1>2 DEF vars
  <2>2. KeepsRecords(job, job') /\ Quiet(job, job')
    BY <2>1 DEF KeepsRecords, Quiet
  <2> QED
    BY <2>1, <2>2, QuietStep
<1> QED
  BY <1>1, <1>2

LEMMA InitContract == ASSUME Init PROVE Contract!Init
<1>0. attempts = [t \in Task |-> 0]
  BY DEF Init
<1>1. CASE job = NewJob
  BY <1>1 DEF NewJob, Terminal, Contract!Init, Told, Tries
<1>2. ASSUME NEW t \in Task, job = [NewJob EXCEPT !.task = t, !.started = TRUE]
      PROVE  Contract!Init
  <2>1. /\ job.fbStarted = FALSE /\ job.result = NULL
        /\ job.status = "RECEIVED" /\ job.task = t /\ job.started
    BY <1>2 DEF NewJob
  <2>2. Tries = 1
    BY <1>0, <2>1 DEF Tries
  <2> QED
    BY <2>1, <2>2 DEF Contract!Init, Told, Terminal
<1> QED
  BY <1>1, <1>2 DEF Init

-----------------------------------------------------------------------------
(* The theorems. *)

\* The detailed job implements the contract: every transaction of Workers
\* and of Runware's reports is one of the contract's five steps or invisible,
\* so there are at most PrunaSubmitLimit tries, one outcome and one message.
THEOREM ContractImplemented == Spec => ImplementsContract
<1>1. Init => Contract!Init
  BY InitContract
<1>2. IInv /\ [Next]_vars => [Contract!Next]_(Contract!vars)
  BY NextEffect DEF Effect
<1> QED
  BY <1>1, <1>2, InvariantHolds, PTL
  DEF Spec, ImplementsContract, Contract!Spec

\* What was recorded first is never replaced or lost by a later commit.
THEOREM RecordsKept == Spec => FirstRecordWins
<1>1. IInv /\ [Next]_vars => [KeepsRecords(job, job')]_vars
  BY NextEffect DEF Effect
<1> QED
  BY <1>1, InvariantHolds, PTL DEF Spec, FirstRecordWins

\* A paid generation starts only while nothing about the job is decided, held
\* or still running.
THEOREM GenerationsAllowed == Spec => GenerationOnlyWhenAllowed
<1>1. IInv /\ [Next]_vars => [StartsGeneration => GenerationAllowed]_vars
  BY NextEffect DEF Effect
<1> QED
  BY <1>1, InvariantHolds, PTL DEF Spec, GenerationOnlyWhenAllowed
=============================================================================
