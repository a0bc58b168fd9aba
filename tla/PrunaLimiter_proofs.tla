-------------------------- MODULE PrunaLimiter_proofs --------------------------
(***************************************************************************)
(* The limits of PrunaLimiter hold for any number of jobs and servers.     *)
(*                                                                         *)
(* LimiterIInv is inductive: the newest generation of a job owns its slot  *)
(* until Runware reported its end, so the slots count the running          *)
(* generations; the send row outlives its request, so the rows count the   *)
(* open requests; and next_send_at is never before the interval or the     *)
(* guidance has passed.                                                    *)
(***************************************************************************)
EXTENDS PrunaLimiter, FiniteSetTheorems, TLAPS

LEMMA InitLimiter == Init => LimiterIInv
<1> SUFFICES ASSUME Init PROVE LimiterIInv
  OBVIOUS
<1> USE LimiterAssumption
<1>1. TypeOK
  <2>1. /\ req \in [Job \X Gen -> ReqState] /\ left \in [Job \X Gen -> Nat]
        /\ over \in SUBSET (Job \X Gen) /\ sendHold \in BOOLEAN
    BY DEF Init, ReqState
  <2>2. /\ inFlight \in [Job -> 0..MaxGen] /\ newest \in [Job -> 0..MaxGen]
        /\ held \in [Job -> 0..SendHold]
    BY DEF Init
  <2>3. wait \in Nat /\ guidance \in Nat /\ sinceGrant \in 0..MinInterval
    BY DEF Init
  <2> QED
    BY <2>1, <2>2, <2>3 DEF TypeOK
<1>2. OneAfterTheOther /\ RunningHasSlot /\ RowOutlivesRequest
  BY DEF Init, OneAfterTheOther, RunningHasSlot, RowOutlivesRequest, Sent,
         Active, Gen
<1>3. WaitCovers
  BY DEF Init, WaitCovers
<1>4. Holders = {} /\ Sending = {}
  BY DEF Init, Holders, Sending
<1>5. Cardinality(Holders) <= MaxInFlight /\ Cardinality(Sending) <= MaxSends
  BY <1>4, FS_EmptySet
<1> QED
  BY <1>1, <1>2, <1>3, <1>5 DEF LimiterIInv

-----------------------------------------------------------------------------
(* Counting. *)

\* Fewer rows in use: the bounds stay.
LEMMA FewerRows ==
    ASSUME LimiterIInv, Holders' \subseteq Holders, Sending' \subseteq Sending
    PROVE  /\ Cardinality(Holders') <= MaxInFlight
           /\ Cardinality(Sending') <= MaxSends
<1> USE LimiterAssumption
<1>1. IsFiniteSet(Holders) /\ IsFiniteSet(Sending)
  BY FS_Subset DEF Holders, Sending
<1>2. /\ Cardinality(Holders') <= Cardinality(Holders)
      /\ Cardinality(Sending') <= Cardinality(Sending)
      /\ Cardinality(Holders') \in Nat /\ Cardinality(Sending') \in Nat
      /\ Cardinality(Holders) \in Nat /\ Cardinality(Sending) \in Nat
  BY <1>1, FS_Subset, FS_CardinalityType
<1> QED
  BY <1>2 DEF LimiterIInv

\* One more element than a set that is smaller than the bound.
LEMMA OneMore ==
    ASSUME NEW S, NEW j, NEW n \in Nat, IsFiniteSet(S),
           Cardinality(S \ {j}) < n
    PROVE  Cardinality(S \cup {j}) <= n
<1>1. IsFiniteSet(S \ {j}) /\ Cardinality(S \ {j}) \in Nat
  BY FS_Subset, FS_CardinalityType
<1>2. S \cup {j} = (S \ {j}) \cup {j}
  OBVIOUS
<1>3. Cardinality((S \ {j}) \cup {j}) = Cardinality(S \ {j}) + 1
  BY <1>1, FS_AddElement
<1> QED
  BY <1>1, <1>2, <1>3

\* A set of generations, at most one per job of another set, is no larger.
LEMMA OnePerJob ==
    ASSUME NEW G \in SUBSET (Job \X Gen), NEW J \in SUBSET Job,
           \A g \in G : g[1] \in J,
           \A g, h \in G : g[1] = h[1] => g = h
    PROVE  /\ Cardinality(G) <= Cardinality(J)
           /\ Cardinality(G) \in Nat /\ Cardinality(J) \in Nat
<1> USE LimiterAssumption
<1> DEFINE f == [g \in G |-> g[1]]
<1>1. IsFiniteSet(J)
  BY FS_Subset
<1>2. f \in Injection(G, J)
  BY DEF Injection, IsInjective
<1> QED
  BY <1>1, <1>2, FS_Injection, FS_CardinalityType

-----------------------------------------------------------------------------
(* Grants. *)

\* What a grant of the job's next generation does to every part.
LEMMA TakeSlotKeeps ==
    ASSUME LimiterIInv, NEW j \in Job, NEW n \in Gen,
           n = newest[j] + 1, inFlight[j] = 0,
           \A m \in Gen : m < n => <<j, m>> \in over,
           LeaseOutlastsRequest => \A m \in Gen : ~Active(<<j, m>>),
           TakeSlot(j, n)
    PROVE  LimiterIInv'
<1> USE LimiterAssumption
<1>0. TypeOK /\ OneAfterTheOther /\ RunningHasSlot /\ WaitCovers
      /\ RowOutlivesRequest
  BY DEF LimiterIInv
<1>1. /\ inFlight' = [inFlight EXCEPT ![j] = n]
      /\ held' = [held EXCEPT ![j] = SendHold]
      /\ wait' = MinInterval /\ wait = 0
      /\ newest' = [newest EXCEPT ![j] = n]
      /\ req' = [req EXCEPT ![<<j, n>>] = "granted"]
      /\ left' = [left EXCEPT ![<<j, n>>] = SendMargin]
      /\ sinceGrant' = 0
      /\ over' = over /\ guidance' = guidance /\ sendHold' = sendHold
  BY <1>0 DEF TakeSlot, MaySendNow, TypeOK
<1>2. TypeOK'
  BY <1>0, <1>1 DEF TypeOK, ReqState, Gen
<1>3. /\ \A k \in Job : newest'[k] = IF k = j THEN n ELSE newest[k]
      /\ \A k \in Job : inFlight'[k] = IF k = j THEN n ELSE inFlight[k]
      /\ \A k \in Job : held'[k] = IF k = j THEN SendHold ELSE held[k]
      /\ \A k \in Job, m \in Gen :
           /\ req'[<<k, m>>] = IF k = j /\ m = n THEN "granted" ELSE req[<<k, m>>]
           /\ left'[<<k, m>>] = IF k = j /\ m = n THEN SendMargin ELSE left[<<k, m>>]
  BY <1>0, <1>1 DEF TypeOK
<1>4. \A m \in Gen : m >= n => req[<<j, m>>] = "none"
  BY <1>0 DEF OneAfterTheOther, TypeOK, Gen
<1>5. <<j, n>> \notin over
  BY <1>0, <1>4 DEF OneAfterTheOther, Sent, Gen
<1>6. OneAfterTheOther'
  <2>1. ASSUME NEW k \in Job, NEW m \in Gen, req'[<<k, m>>] # "none"
        PROVE  m <= newest'[k]
    BY <1>0, <1>3, <2>1 DEF OneAfterTheOther, TypeOK, Gen
  <2>2. ASSUME NEW k \in Job, NEW m \in Gen, m < newest'[k]
        PROVE  <<k, m>> \in over'
    BY <1>0, <1>1, <1>3, <2>2 DEF OneAfterTheOther
  <2>3. ASSUME NEW g \in over' PROVE Sent(g)'
    <3>1. g \in over /\ g # <<j, n>> /\ Sent(g) /\ g \in Job \X Gen
      BY <1>0, <1>1, <1>5, <2>3 DEF OneAfterTheOther, TypeOK
    <3> QED
      BY <1>0, <1>1, <3>1 DEF Sent, TypeOK
  <2>4. ASSUME NEW k \in Job PROVE inFlight'[k] <= newest'[k]
    BY <1>0, <1>3, <2>4 DEF OneAfterTheOther, TypeOK, Gen
  <2>5. ASSUME NEW k \in Job, NEW m \in Gen, req'[<<k, m>>] = "granted"
        PROVE  inFlight'[k] = m
    <3>1. CASE k = j
      <4>1. m = n \/ req[<<j, m>>] = "granted"
        BY <1>3, <2>5, <3>1
      <4>2. req[<<j, m>>] = "granted" => <<j, m>> \notin over
        BY <1>0 DEF OneAfterTheOther, Sent
      <4>3. m = n
        BY <1>4, <4>1, <4>2 DEF Gen
      <4> QED
        BY <1>3, <3>1, <4>3
    <3>2. CASE k # j
      BY <1>0, <1>3, <2>5, <3>2 DEF OneAfterTheOther
    <3> QED
      BY <3>1, <3>2
  <2> QED
    BY <2>1, <2>2, <2>3, <2>4, <2>5 DEF OneAfterTheOther
<1>7. RunningHasSlot'
  <2> SUFFICES ASSUME NEW k \in Job, NEW m \in Gen,
                      Sent(<<k, m>>)', <<k, m>> \notin over
               PROVE  inFlight'[k] = m
    BY <1>1 DEF RunningHasSlot
  <2>1. req'[<<k, m>>] = req[<<k, m>>] /\ Sent(<<k, m>>)
    BY <1>3 DEF Sent
  <2>2. k # j
    BY <1>4, <2>1 DEF Sent, Gen
  <2> QED
    BY <1>0, <1>3, <2>1, <2>2 DEF RunningHasSlot
<1>8. WaitCovers'
  BY <1>0, <1>1 DEF WaitCovers, TypeOK
<1>9. RowOutlivesRequest'
  <2> SUFFICES ASSUME LeaseOutlastsRequest, NEW k \in Job, NEW m \in Gen
               PROVE  /\ Active(<<k, m>>)' => m = newest'[k]
                      /\ req'[<<k, m>>] = "granted" =>
                           held'[k] > left'[<<k, m>>] + HttpTimeout
                      /\ req'[<<k, m>>] = "open" => held'[k] > left'[<<k, m>>]
    BY DEF RowOutlivesRequest
  <2>1. CASE k = j /\ m = n
    BY <1>3, <2>1
  <2>2. CASE k = j /\ m # n
    <3>1. req'[<<k, m>>] = req[<<k, m>>] /\ ~Active(<<k, m>>)
      BY <1>3, <2>2
    <3> QED
      BY <3>1 DEF Active
  <2>3. CASE k # j
    BY <1>0, <1>3, <2>3 DEF RowOutlivesRequest, Active
  <2> QED
    BY <2>1, <2>2, <2>3
<1>10. IsFiniteSet(Holders) /\ IsFiniteSet(Sending)
  BY FS_Subset DEF Holders, Sending
<1>11. Holders' \subseteq Holders \cup {j} /\ Sending' \subseteq Sending \cup {j}
  BY <1>3 DEF Holders, Sending
<1>12. /\ Cardinality(Holders \cup {j}) <= MaxInFlight
       /\ Cardinality(Sending \cup {j}) <= MaxSends
  <2>1. Cardinality(Holders \ {j}) < MaxInFlight
    BY DEF TakeSlot, SlotFree
  <2>2. Cardinality(Sending \ {j}) < MaxSends
    BY DEF TakeSlot, SendFree
  <2> QED
    BY <1>10, <2>1, <2>2, OneMore
<1>13. /\ Cardinality(Holders') <= MaxInFlight
       /\ Cardinality(Sending') <= MaxSends
  <2>1. IsFiniteSet(Holders \cup {j}) /\ IsFiniteSet(Sending \cup {j})
    BY <1>10, FS_AddElement
  <2>2. /\ Cardinality(Holders') <= Cardinality(Holders \cup {j})
        /\ Cardinality(Sending') <= Cardinality(Sending \cup {j})
        /\ Cardinality(Holders') \in Nat /\ Cardinality(Sending') \in Nat
        /\ Cardinality(Holders \cup {j}) \in Nat
        /\ Cardinality(Sending \cup {j}) \in Nat
    BY <1>11, <2>1, FS_Subset, FS_CardinalityType
  <2> QED
    BY <1>12, <2>2
<1> QED
  BY <1>2, <1>6, <1>7, <1>8, <1>9, <1>13 DEF LimiterIInv

LEMMA BeginSubmissionKeeps ==
    ASSUME LimiterIInv, NEW j \in Job, BeginSubmission(j)
    PROVE  LimiterIInv'
<1> USE LimiterAssumption
<1>1. newest[j] = 0 /\ TakeSlot(j, 1) /\ 1 \in Gen
  BY DEF BeginSubmission, Gen
<1>2. inFlight[j] = 0
  BY <1>1 DEF LimiterIInv, OneAfterTheOther, TypeOK
<1>3. \A m \in Gen : req[<<j, m>>] = "none"
  BY <1>1 DEF LimiterIInv, OneAfterTheOther, Gen
<1> QED
  BY <1>1, <1>2, <1>3, TakeSlotKeeps DEF Active, Gen

LEMMA BeginNextKeeps ==
    ASSUME LimiterIInv, NEW j \in Job, BeginNext(j)
    PROVE  LimiterIInv'
<1> USE LimiterAssumption
<1>1. PICK n \in Gen : CanBeginNext(j, n) /\ TakeSlot(j, n + 1)
  BY DEF BeginNext
<1>2. /\ newest[j] = n /\ n + 1 \in Gen /\ <<j, n>> \in over
      /\ LeaseOutlastsRequest => ~Active(<<j, n>>)
  BY <1>1 DEF CanBeginNext, Gen
<1>3. inFlight[j] = 0
  BY <1>1, <1>2 DEF CanBeginNext, LimiterIInv, OneAfterTheOther, TypeOK, Gen
<1>4. \A m \in Gen : m < n + 1 => <<j, m>> \in over
  BY <1>2 DEF LimiterIInv, OneAfterTheOther, Gen
<1>5. LeaseOutlastsRequest => \A m \in Gen : ~Active(<<j, m>>)
  BY <1>2 DEF LimiterIInv, RowOutlivesRequest
<1> QED
  BY <1>1, <1>2, <1>3, <1>4, <1>5, TakeSlotKeeps

-----------------------------------------------------------------------------
(* The granted process. *)

LEMMA SendRequestKeeps ==
    ASSUME LimiterIInv, NEW g \in Job \X Gen, SendRequest(g)
    PROVE  LimiterIInv'
<1> USE LimiterAssumption
<1>0. /\ TypeOK /\ OneAfterTheOther /\ RunningHasSlot /\ WaitCovers
      /\ RowOutlivesRequest
  BY DEF LimiterIInv
<1>1. TypeOK'
  BY <1>0 DEF TypeOK, ReqState, SendRequest, limiterVars, clockVars
<1>2. OneAfterTheOther'
  BY <1>0 DEF OneAfterTheOther, TypeOK, Sent, Active, SendRequest, limiterVars, clockVars
<1>3. RunningHasSlot'
  BY <1>0 DEF RunningHasSlot, OneAfterTheOther, TypeOK, Sent, Active, SendRequest, limiterVars, clockVars
<1>4. WaitCovers'
  BY <1>0 DEF WaitCovers, TypeOK, SendRequest, limiterVars, clockVars
<1>5. RowOutlivesRequest'
  <2> SUFFICES ASSUME LeaseOutlastsRequest, NEW k \in Job, NEW m \in Gen
               PROVE  /\ Active(<<k, m>>)' => m = newest'[k]
                      /\ req'[<<k, m>>] = "granted" =>
                           held'[k] > left'[<<k, m>>] + HttpTimeout
                      /\ req'[<<k, m>>] = "open" => held'[k] > left'[<<k, m>>]
    BY DEF RowOutlivesRequest
  <2>1. CASE <<k, m>> = g
    <3>1. /\ req[<<k, m>>] = "granted" /\ held' = held /\ newest' = newest
          /\ left'[<<k, m>>] = HttpTimeout /\ req'[<<k, m>>] = "open"
      BY <1>0, <2>1 DEF SendRequest, TypeOK, limiterVars
    <3>2. m = newest[k] /\ held[k] > left[<<k, m>>] + HttpTimeout
      BY <1>0, <3>1 DEF RowOutlivesRequest, Active
    <3>3. left[<<k, m>>] \in Nat /\ held[k] \in Nat
      BY <1>0 DEF TypeOK
    <3> QED
      BY <3>1, <3>2, <3>3
  <2>2. CASE <<k, m>> # g
    <3>1. /\ req'[<<k, m>>] = req[<<k, m>>] /\ left'[<<k, m>>] = left[<<k, m>>]
          /\ held' = held /\ newest' = newest
      BY <1>0, <2>2 DEF SendRequest, TypeOK, limiterVars
    <3> QED
      BY <1>0, <3>1 DEF RowOutlivesRequest, Active
  <2> QED
    BY <2>1, <2>2
<1>6. Holders' \subseteq Holders /\ Sending' \subseteq Sending
  BY <1>0 DEF Holders, Sending, TypeOK, SendRequest, limiterVars, clockVars
<1> QED
  BY <1>1, <1>2, <1>3, <1>4, <1>5, <1>6, FewerRows DEF LimiterIInv

LEMMA FinishSendKeeps ==
    ASSUME LimiterIInv, NEW g \in Job \X Gen, FinishSend(g)
    PROVE  LimiterIInv'
<1> USE LimiterAssumption
<1>0. /\ TypeOK /\ OneAfterTheOther /\ RunningHasSlot /\ WaitCovers
      /\ RowOutlivesRequest
  BY DEF LimiterIInv
<1>1. TypeOK'
  BY <1>0 DEF TypeOK, ReqState, FinishSend, clockVars
<1>2. OneAfterTheOther'
  BY <1>0 DEF OneAfterTheOther, TypeOK, Sent, Active, FinishSend, clockVars
<1>3. RunningHasSlot'
  BY <1>0 DEF RunningHasSlot, OneAfterTheOther, TypeOK, Sent, Active, FinishSend, clockVars
<1>4. WaitCovers'
  BY <1>0 DEF WaitCovers, TypeOK, FinishSend, clockVars
<1>5. RowOutlivesRequest'
  <2> SUFFICES ASSUME LeaseOutlastsRequest, NEW k \in Job, NEW m \in Gen
               PROVE  /\ Active(<<k, m>>)' => m = newest'[k]
                      /\ req'[<<k, m>>] = "granted" =>
                           held'[k] > left'[<<k, m>>] + HttpTimeout
                      /\ req'[<<k, m>>] = "open" => held'[k] > left'[<<k, m>>]
    BY DEF RowOutlivesRequest
  <2>1. CASE k = g[1]
    <3>1. Active(g) /\ g = <<g[1], g[2]>>
      BY DEF Active, FinishSend
    <3>2. g[2] = newest[k]
      BY <1>0, <2>1, <3>1 DEF RowOutlivesRequest
    <3>3. ~Active(<<k, m>>)'
      <4>1. CASE m = g[2]
        BY <1>0, <2>1, <3>1, <4>1 DEF Active, FinishSend, TypeOK
      <4>2. CASE m # g[2]
        <5>1. ~Active(<<k, m>>)
          BY <1>0, <3>2, <4>2 DEF RowOutlivesRequest
        <5>2. <<k, m>> # g
          BY <3>1, <4>2
        <5> QED
          BY <1>0, <5>1, <5>2 DEF Active, FinishSend, TypeOK
      <4> QED
        BY <4>1, <4>2
    <3> QED
      BY <3>3 DEF Active
  <2>2. CASE k # g[1]
    <3>1. /\ req'[<<k, m>>] = req[<<k, m>>] /\ left'[<<k, m>>] = left[<<k, m>>]
          /\ held'[k] = held[k] /\ newest'[k] = newest[k]
      BY <1>0, <2>2 DEF FinishSend, TypeOK
    <3> QED
      BY <1>0, <3>1 DEF RowOutlivesRequest, Active
  <2> QED
    BY <2>1, <2>2
<1>6. Holders' \subseteq Holders /\ Sending' \subseteq Sending
  BY <1>0 DEF Holders, Sending, TypeOK, FinishSend, clockVars
<1> QED
  BY <1>1, <1>2, <1>3, <1>4, <1>5, <1>6, FewerRows DEF LimiterIInv

LEMMA DeferSendsKeeps ==
    ASSUME LimiterIInv, NEW g \in Job \X Gen, NEW seconds \in 1..MaxGuidance,
           DeferSends(g, seconds)
    PROVE  LimiterIInv'
<1> USE LimiterAssumption
<1>0. /\ TypeOK /\ OneAfterTheOther /\ RunningHasSlot /\ WaitCovers
      /\ RowOutlivesRequest
  BY DEF LimiterIInv
<1>1. TypeOK'
  BY <1>0 DEF TypeOK, ReqState, DeferSends, Later
<1>2. OneAfterTheOther'
  BY <1>0 DEF OneAfterTheOther, TypeOK, Sent, Active, DeferSends, Later
<1>3. RunningHasSlot'
  BY <1>0 DEF RunningHasSlot, OneAfterTheOther, TypeOK, Sent, Active, DeferSends, Later
<1>4. WaitCovers'
  BY <1>0 DEF WaitCovers, TypeOK, DeferSends, Later
<1>5. RowOutlivesRequest'
  BY <1>0 DEF RowOutlivesRequest, TypeOK, Active, DeferSends, Later
<1>6. Holders' \subseteq Holders /\ Sending' \subseteq Sending
  BY <1>0 DEF Holders, Sending, TypeOK, DeferSends, Later
<1> QED
  BY <1>1, <1>2, <1>3, <1>4, <1>5, <1>6, FewerRows DEF LimiterIInv

LEMMA HoldSendsKeeps ==
    ASSUME LimiterIInv, NEW g \in Job \X Gen, HoldSends(g)
    PROVE  LimiterIInv'
<1> USE LimiterAssumption
<1>0. /\ TypeOK /\ OneAfterTheOther /\ RunningHasSlot /\ WaitCovers
      /\ RowOutlivesRequest
  BY DEF LimiterIInv
<1>1. TypeOK'
  BY <1>0 DEF TypeOK, ReqState, HoldSends, clockVars
<1>2. OneAfterTheOther'
  BY <1>0 DEF OneAfterTheOther, TypeOK, Sent, Active, HoldSends, clockVars
<1>3. RunningHasSlot'
  BY <1>0 DEF RunningHasSlot, OneAfterTheOther, TypeOK, Sent, Active, HoldSends, clockVars
<1>4. WaitCovers'
  BY <1>0 DEF WaitCovers, TypeOK, HoldSends, clockVars
<1>5. RowOutlivesRequest'
  BY <1>0 DEF RowOutlivesRequest, TypeOK, Active, HoldSends, clockVars
<1>6. Holders' \subseteq Holders /\ Sending' \subseteq Sending
  BY <1>0 DEF Holders, Sending, TypeOK, HoldSends, clockVars
<1> QED
  BY <1>1, <1>2, <1>3, <1>4, <1>5, <1>6, FewerRows DEF LimiterIInv

LEMMA NoGuidanceKeeps ==
    ASSUME LimiterIInv, NEW g \in Job \X Gen, NoGuidance(g)
    PROVE  LimiterIInv'
<1> USE LimiterAssumption
<1>0. /\ TypeOK /\ OneAfterTheOther /\ RunningHasSlot /\ WaitCovers
      /\ RowOutlivesRequest
  BY DEF LimiterIInv
<1>1. TypeOK'
  BY <1>0 DEF TypeOK, ReqState, NoGuidance, limiterVars, clockVars
<1>2. OneAfterTheOther'
  BY <1>0 DEF OneAfterTheOther, TypeOK, Sent, Active, NoGuidance, limiterVars, clockVars
<1>3. RunningHasSlot'
  BY <1>0 DEF RunningHasSlot, OneAfterTheOther, TypeOK, Sent, Active, NoGuidance, limiterVars, clockVars
<1>4. WaitCovers'
  BY <1>0 DEF WaitCovers, TypeOK, NoGuidance, limiterVars, clockVars
<1>5. RowOutlivesRequest'
  BY <1>0 DEF RowOutlivesRequest, TypeOK, Active, NoGuidance, limiterVars, clockVars
<1>6. Holders' \subseteq Holders /\ Sending' \subseteq Sending
  BY <1>0 DEF Holders, Sending, TypeOK, NoGuidance, limiterVars, clockVars
<1> QED
  BY <1>1, <1>2, <1>3, <1>4, <1>5, <1>6, FewerRows DEF LimiterIInv

LEMMA CrashKeeps ==
    ASSUME LimiterIInv, NEW g \in Job \X Gen, Crash(g)
    PROVE  LimiterIInv'
<1> USE LimiterAssumption
<1>0. /\ TypeOK /\ OneAfterTheOther /\ RunningHasSlot /\ WaitCovers
      /\ RowOutlivesRequest
  BY DEF LimiterIInv
<1>1. TypeOK'
  BY <1>0 DEF TypeOK, ReqState, Crash, limiterVars, clockVars
<1>2. OneAfterTheOther'
  BY <1>0 DEF OneAfterTheOther, TypeOK, Sent, Active, Crash, limiterVars, clockVars
<1>3. RunningHasSlot'
  BY <1>0 DEF RunningHasSlot, OneAfterTheOther, TypeOK, Sent, Active, Crash, limiterVars, clockVars
<1>4. WaitCovers'
  BY <1>0 DEF WaitCovers, TypeOK, Crash, limiterVars, clockVars
<1>5. RowOutlivesRequest'
  BY <1>0 DEF RowOutlivesRequest, TypeOK, Active, Crash, limiterVars, clockVars
<1>6. Holders' \subseteq Holders /\ Sending' \subseteq Sending
  BY <1>0 DEF Holders, Sending, TypeOK, Crash, limiterVars, clockVars
<1> QED
  BY <1>1, <1>2, <1>3, <1>4, <1>5, <1>6, FewerRows DEF LimiterIInv

LEMMA CancelUnsentKeeps ==
    ASSUME LimiterIInv, NEW g \in Job \X Gen, CancelUnsent(g)
    PROVE  LimiterIInv'
<1> USE LimiterAssumption
<1>0. /\ TypeOK /\ OneAfterTheOther /\ RunningHasSlot /\ WaitCovers
      /\ RowOutlivesRequest
  BY DEF LimiterIInv
<1>a. /\ g[1] \in Job /\ g[2] \in Gen /\ g = <<g[1], g[2]>>
      /\ newest[g[1]] = g[2] /\ req[g] = "granted"
      /\ left' = [left EXCEPT ![g] = 0] /\ held' = [held EXCEPT ![g[1]] = 0]
      /\ UNCHANGED <<wait, sendHold, over, sinceGrant, guidance>>
      /\ \/ /\ req' = [req EXCEPT ![g] = "none"]
            /\ newest' = [newest EXCEPT ![g[1]] = g[2] - 1]
            /\ inFlight' = [inFlight EXCEPT ![g[1]] = 0]
         \/ /\ req' = [req EXCEPT ![g] = "lost"]
            /\ newest' = newest /\ inFlight' = inFlight
  BY <1>0 DEF CancelUnsent, clockVars, TypeOK
<1>b. g[2] - 1 \in 0..MaxGen
  BY <1>a DEF Gen
<1>1. TypeOK'
  BY <1>0, <1>a, <1>b DEF TypeOK, ReqState
<1>2. OneAfterTheOther'
  <2>1. \A h \in over : Sent(h)'
    BY <1>0, <1>a DEF OneAfterTheOther, TypeOK, Sent
  <2>2. \A k \in Job, n \in Gen :
          req[<<k, n>>] = "granted" => <<k, n>> \notin over
    BY <1>0 DEF OneAfterTheOther, Sent
  <2>3. CASE req' = [req EXCEPT ![g] = "none"]
             /\ newest' = [newest EXCEPT ![g[1]] = g[2] - 1]
             /\ inFlight' = [inFlight EXCEPT ![g[1]] = 0]
    <3>1. \A k \in Job, n \in Gen :
            /\ req'[<<k, n>>] = IF k = g[1] /\ n = g[2] THEN "none"
                                ELSE req[<<k, n>>]
            /\ newest'[k] = IF k = g[1] THEN g[2] - 1 ELSE newest[k]
            /\ inFlight'[k] = IF k = g[1] THEN 0 ELSE inFlight[k]
      BY <1>0, <1>a, <2>3 DEF TypeOK
    <3>2. ASSUME NEW k \in Job, NEW n \in Gen, req'[<<k, n>>] # "none"
          PROVE  n <= newest'[k]
      BY <1>0, <1>a, <3>1, <3>2 DEF OneAfterTheOther, Gen
    <3>3. ASSUME NEW k \in Job, NEW n \in Gen, n < newest'[k]
          PROVE  <<k, n>> \in over'
      BY <1>0, <1>a, <3>1, <3>3 DEF OneAfterTheOther, Gen
    <3>4. ASSUME NEW k \in Job PROVE inFlight'[k] <= newest'[k]
      BY <1>0, <1>a, <1>b, <3>1 DEF OneAfterTheOther, TypeOK
    <3>5. ASSUME NEW k \in Job, NEW n \in Gen, req'[<<k, n>>] = "granted"
          PROVE  inFlight'[k] = n
      <4>1. req[<<k, n>>] = "granted" /\ ~(k = g[1] /\ n = g[2])
        BY <3>1, <3>5
      <4>2. k # g[1]
        BY <1>0, <1>a, <2>2, <4>1 DEF OneAfterTheOther, Gen
      <4> QED
        BY <1>0, <3>1, <4>1, <4>2 DEF OneAfterTheOther
    <3> QED
      BY <1>a, <2>1, <3>2, <3>3, <3>4, <3>5 DEF OneAfterTheOther
  <2>4. CASE req' = [req EXCEPT ![g] = "lost"]
             /\ newest' = newest /\ inFlight' = inFlight
    <3>1. \A k \in Job, n \in Gen :
            \/ req'[<<k, n>>] = req[<<k, n>>]
            \/ req'[<<k, n>>] = "lost" /\ req[<<k, n>>] = "granted"
      BY <1>0, <1>a, <2>4 DEF TypeOK
    <3>2. \A k \in Job, n \in Gen :
            /\ req'[<<k, n>>] # "none" => req[<<k, n>>] # "none"
            /\ req'[<<k, n>>] = "granted" => req[<<k, n>>] = "granted"
      BY <3>1
    <3> QED
      BY <1>0, <1>a, <2>1, <2>4, <3>2 DEF OneAfterTheOther
  <2> QED
    BY <1>a, <2>3, <2>4
<1>3. RunningHasSlot'
  BY <1>0 DEF RunningHasSlot, OneAfterTheOther, TypeOK, Sent, Active, CancelUnsent, clockVars
<1>4. WaitCovers'
  BY <1>0 DEF WaitCovers, TypeOK, CancelUnsent, clockVars
<1>5. RowOutlivesRequest'
  <2> SUFFICES ASSUME LeaseOutlastsRequest, NEW k \in Job, NEW m \in Gen
               PROVE  /\ Active(<<k, m>>)' => m = newest'[k]
                      /\ req'[<<k, m>>] = "granted" =>
                           held'[k] > left'[<<k, m>>] + HttpTimeout
                      /\ req'[<<k, m>>] = "open" => held'[k] > left'[<<k, m>>]
    BY DEF RowOutlivesRequest
  <2>1. CASE k = g[1]
    <3>1. Active(g) /\ g = <<g[1], g[2]>>
      BY DEF Active, CancelUnsent
    <3>2. g[2] = newest[k]
      BY <2>1 DEF CancelUnsent
    <3>3. ~Active(<<k, m>>)'
      <4>1. CASE m = g[2]
        BY <1>0, <2>1, <3>1, <4>1 DEF Active, CancelUnsent, TypeOK
      <4>2. CASE m # g[2]
        <5>1. ~Active(<<k, m>>)
          BY <1>0, <3>2, <4>2 DEF RowOutlivesRequest
        <5>2. <<k, m>> # g
          BY <3>1, <4>2
        <5> QED
          BY <1>0, <5>1, <5>2 DEF Active, CancelUnsent, TypeOK
      <4> QED
        BY <4>1, <4>2
    <3> QED
      BY <3>3 DEF Active
  <2>2. CASE k # g[1]
    <3>1. /\ req'[<<k, m>>] = req[<<k, m>>] /\ left'[<<k, m>>] = left[<<k, m>>]
          /\ held'[k] = held[k] /\ newest'[k] = newest[k]
      BY <1>0, <2>2 DEF CancelUnsent, TypeOK
    <3> QED
      BY <1>0, <3>1 DEF RowOutlivesRequest, Active
  <2> QED
    BY <2>1, <2>2
<1>6. Holders' \subseteq Holders /\ Sending' \subseteq Sending
  BY <1>0 DEF Holders, Sending, TypeOK, CancelUnsent, clockVars
<1> QED
  BY <1>1, <1>2, <1>3, <1>4, <1>5, <1>6, FewerRows DEF LimiterIInv

-----------------------------------------------------------------------------
(* What Runware reports, the clock and the operator. *)

LEMMA RecordNotAcceptedKeeps ==
    ASSUME LimiterIInv, NEW g \in Job \X Gen, RecordNotAccepted(g)
    PROVE  LimiterIInv'
<1> USE LimiterAssumption
<1>0. /\ TypeOK /\ OneAfterTheOther /\ RunningHasSlot /\ WaitCovers
      /\ RowOutlivesRequest
  BY DEF LimiterIInv
<1>1. TypeOK'
  BY <1>0 DEF TypeOK, ReqState, RecordNotAccepted, SlotAfter, clockVars
<1>2. OneAfterTheOther'
  BY <1>0 DEF OneAfterTheOther, TypeOK, Sent, Active, RecordNotAccepted, SlotAfter, clockVars
<1>3. RunningHasSlot'
  BY <1>0 DEF RunningHasSlot, OneAfterTheOther, TypeOK, Sent, Active, RecordNotAccepted, SlotAfter, clockVars
<1>4. WaitCovers'
  BY <1>0 DEF WaitCovers, TypeOK, RecordNotAccepted, SlotAfter, clockVars
<1>5. RowOutlivesRequest'
  BY <1>0 DEF RowOutlivesRequest, TypeOK, Active, RecordNotAccepted, SlotAfter, clockVars
<1>6. Holders' \subseteq Holders /\ Sending' \subseteq Sending
  BY <1>0 DEF Holders, Sending, TypeOK, RecordNotAccepted, SlotAfter, clockVars
<1> QED
  BY <1>1, <1>2, <1>3, <1>4, <1>5, <1>6, FewerRows DEF LimiterIInv

LEMMA EndReportedKeeps ==
    ASSUME LimiterIInv, NEW g \in Job \X Gen, EndReported(g)
    PROVE  LimiterIInv'
<1> USE LimiterAssumption
<1>0. /\ TypeOK /\ OneAfterTheOther /\ RunningHasSlot /\ WaitCovers
      /\ RowOutlivesRequest
  BY DEF LimiterIInv
<1>1. TypeOK'
  BY <1>0 DEF TypeOK, ReqState, EndReported, limiterVars, clockVars
<1>2. OneAfterTheOther'
  BY <1>0 DEF OneAfterTheOther, TypeOK, Sent, Active, EndReported, limiterVars, clockVars
<1>3. RunningHasSlot'
  BY <1>0 DEF RunningHasSlot, OneAfterTheOther, TypeOK, Sent, Active, EndReported, limiterVars, clockVars
<1>4. WaitCovers'
  BY <1>0 DEF WaitCovers, TypeOK, EndReported, limiterVars, clockVars
<1>5. RowOutlivesRequest'
  BY <1>0 DEF RowOutlivesRequest, TypeOK, Active, EndReported, limiterVars, clockVars
<1>6. Holders' \subseteq Holders /\ Sending' \subseteq Sending
  BY <1>0 DEF Holders, Sending, TypeOK, EndReported, limiterVars, clockVars
<1> QED
  BY <1>1, <1>2, <1>3, <1>4, <1>5, <1>6, FewerRows DEF LimiterIInv

LEMMA ReleaseInFlightKeeps ==
    ASSUME LimiterIInv, NEW g \in Job \X Gen, ReleaseInFlight(g)
    PROVE  LimiterIInv'
<1> USE LimiterAssumption
<1>0. /\ TypeOK /\ OneAfterTheOther /\ RunningHasSlot /\ WaitCovers
      /\ RowOutlivesRequest
  BY DEF LimiterIInv
<1>1. TypeOK'
  BY <1>0 DEF TypeOK, ReqState, ReleaseInFlight, SlotAfter, clockVars
<1>2. OneAfterTheOther'
  BY <1>0 DEF OneAfterTheOther, TypeOK, Sent, Active, ReleaseInFlight, SlotAfter, clockVars
<1>3. RunningHasSlot'
  BY <1>0 DEF RunningHasSlot, OneAfterTheOther, TypeOK, Sent, Active, ReleaseInFlight, SlotAfter, clockVars
<1>4. WaitCovers'
  BY <1>0 DEF WaitCovers, TypeOK, ReleaseInFlight, SlotAfter, clockVars
<1>5. RowOutlivesRequest'
  BY <1>0 DEF RowOutlivesRequest, TypeOK, Active, ReleaseInFlight, SlotAfter, clockVars
<1>6. Holders' \subseteq Holders /\ Sending' \subseteq Sending
  BY <1>0 DEF Holders, Sending, TypeOK, ReleaseInFlight, SlotAfter, clockVars
<1> QED
  BY <1>1, <1>2, <1>3, <1>4, <1>5, <1>6, FewerRows DEF LimiterIInv

LEMMA TickKeeps ==
    ASSUME LimiterIInv, Tick
    PROVE  LimiterIInv'
<1> USE LimiterAssumption
<1>0. /\ TypeOK /\ OneAfterTheOther /\ RunningHasSlot /\ WaitCovers
      /\ RowOutlivesRequest
  BY DEF LimiterIInv
<1>a. \A n \in Nat : Less(n) \in Nat /\ Less(n) <= n
  BY DEF Less
<1>1. TypeOK'
  <2>1. held' \in [Job -> 0..SendHold]
    <3>1. ASSUME NEW k \in Job PROVE Less(held[k]) \in 0..SendHold
      <4>1. held[k] \in 0..SendHold
        BY <1>0 DEF TypeOK
      <4> QED
        BY <4>1 DEF Less
    <3> QED
      BY <3>1 DEF Tick, ExpireSends
  <2>2. left' \in [Job \X Gen -> Nat] /\ wait' \in Nat /\ guidance' \in Nat
    BY <1>0, <1>a DEF TypeOK, Tick
  <2>3. sinceGrant' \in 0..MinInterval
    BY <1>0 DEF TypeOK, Tick
  <2> QED
    BY <1>0, <2>1, <2>2, <2>3 DEF TypeOK, Tick
<1>2. OneAfterTheOther'
  BY <1>0 DEF OneAfterTheOther, TypeOK, Sent, Active, Tick, ExpireSends, Less
<1>3. RunningHasSlot'
  BY <1>0 DEF RunningHasSlot, OneAfterTheOther, TypeOK, Sent, Active, Tick, ExpireSends, Less
<1>4. WaitCovers'
  BY <1>0 DEF WaitCovers, TypeOK, Tick, ExpireSends, Less
<1>5. RowOutlivesRequest'
  <2> SUFFICES ASSUME LeaseOutlastsRequest, NEW k \in Job, NEW m \in Gen
               PROVE  /\ Active(<<k, m>>)' => m = newest'[k]
                      /\ req'[<<k, m>>] = "granted" =>
                           held'[k] > left'[<<k, m>>] + HttpTimeout
                      /\ req'[<<k, m>>] = "open" => held'[k] > left'[<<k, m>>]
    BY DEF RowOutlivesRequest
  <2>1. /\ req' = req /\ newest' = newest
        /\ held'[k] = Less(held[k])
        /\ left'[<<k, m>>] = Less(left[<<k, m>>])
        /\ Active(<<k, m>>) => left[<<k, m>>] > 0
    BY DEF Tick, ExpireSends
  <2>2. held[k] \in Nat /\ left[<<k, m>>] \in Nat
    BY <1>0 DEF TypeOK
  <2>3. /\ Active(<<k, m>>) => m = newest[k]
        /\ req[<<k, m>>] = "granted" => held[k] > left[<<k, m>>] + HttpTimeout
        /\ req[<<k, m>>] = "open" => held[k] > left[<<k, m>>]
    BY <1>0 DEF RowOutlivesRequest
  <2>4. req[<<k, m>>] = "granted" =>
          held'[k] > left'[<<k, m>>] + HttpTimeout
    BY <2>1, <2>2, <2>3 DEF Less, Active
  <2>5. req[<<k, m>>] = "open" => held'[k] > left'[<<k, m>>]
    BY <2>1, <2>2, <2>3 DEF Less, Active
  <2> QED
    BY <2>1, <2>3, <2>4, <2>5 DEF Active
<1>6. Holders' \subseteq Holders /\ Sending' \subseteq Sending
  BY <1>0 DEF Holders, Sending, TypeOK, Tick, ExpireSends, Less
<1> QED
  BY <1>1, <1>2, <1>3, <1>4, <1>5, <1>6, FewerRows DEF LimiterIInv

LEMMA ClearHoldKeeps ==
    ASSUME LimiterIInv, ClearHold
    PROVE  LimiterIInv'
<1> USE LimiterAssumption
<1>0. /\ TypeOK /\ OneAfterTheOther /\ RunningHasSlot /\ WaitCovers
      /\ RowOutlivesRequest
  BY DEF LimiterIInv
<1>1. TypeOK'
  BY <1>0 DEF TypeOK, ReqState, ClearHold, clockVars
<1>2. OneAfterTheOther'
  BY <1>0 DEF OneAfterTheOther, TypeOK, Sent, Active, ClearHold, clockVars
<1>3. RunningHasSlot'
  BY <1>0 DEF RunningHasSlot, OneAfterTheOther, TypeOK, Sent, Active, ClearHold, clockVars
<1>4. WaitCovers'
  BY <1>0 DEF WaitCovers, TypeOK, ClearHold, clockVars
<1>5. RowOutlivesRequest'
  BY <1>0 DEF RowOutlivesRequest, TypeOK, Active, ClearHold, clockVars
<1>6. Holders' \subseteq Holders /\ Sending' \subseteq Sending
  BY <1>0 DEF Holders, Sending, TypeOK, ClearHold, clockVars
<1> QED
  BY <1>1, <1>2, <1>3, <1>4, <1>5, <1>6, FewerRows DEF LimiterIInv

LEMMA NextKeeps == LimiterIInv /\ [Next]_vars => LimiterIInv'
<1> SUFFICES ASSUME LimiterIInv, [Next]_vars PROVE LimiterIInv'
  OBVIOUS
<1>1. CASE Next
  BY <1>1, BeginSubmissionKeeps, BeginNextKeeps, SendRequestKeeps,
     FinishSendKeeps, DeferSendsKeeps, HoldSendsKeeps, NoGuidanceKeeps,
     CrashKeeps, CancelUnsentKeeps, RecordNotAcceptedKeeps, EndReportedKeeps,
     ReleaseInFlightKeeps, TickKeeps, ClearHoldKeeps
  DEF Next, Respond
<1>2. CASE UNCHANGED vars
  <2>1. /\ TypeOK' /\ OneAfterTheOther' /\ RunningHasSlot'
        /\ WaitCovers' /\ RowOutlivesRequest'
    BY <1>2 DEF vars, LimiterIInv, TypeOK, OneAfterTheOther, RunningHasSlot,
                WaitCovers, RowOutlivesRequest, Sent, Active
  <2>2. Holders' = Holders /\ Sending' = Sending
    BY <1>2 DEF vars, Holders, Sending
  <2> QED
    BY <2>1, <2>2 DEF LimiterIInv
<1> QED
  BY <1>1, <1>2

-----------------------------------------------------------------------------
(* The theorems. *)

\* The inductive invariant of the shared limits.
THEOREM LimiterInvariantHolds == Spec => []LimiterIInv
<1>1. Init => LimiterIInv
  BY InitLimiter
<1>2. LimiterIInv /\ [Next]_vars => LimiterIInv'
  BY NextKeeps
<1> QED
  BY <1>1, <1>2, PTL DEF Spec

\* A generation that may still run holds its job's slot.
THEOREM SlotsAreKept == Spec => []RunningHasSlot
<1>1. LimiterIInv => RunningHasSlot
  BY DEF LimiterIInv
<1> QED
  BY <1>1, LimiterInvariantHolds, PTL

\* For any number of jobs, servers, crashes and late reports, no more than
\* MaxInFlight slots are taken and no more generations run at Runware.
THEOREM InFlightBounded == Spec => []InFlightWithinLimit
<1> USE LimiterAssumption
<1>1. LimiterIInv => InFlightWithinLimit
  <2> SUFFICES ASSUME LimiterIInv PROVE InFlightWithinLimit
    OBVIOUS
  <2>1. \A g \in Running : inFlight[g[1]] = g[2] /\ g[2] # 0
    BY DEF LimiterIInv, RunningHasSlot, Running, Gen
  <2>2. \A g \in Running : g[1] \in Holders
    BY <2>1 DEF Holders, Running
  <2>3. \A g, h \in Running : g[1] = h[1] => g = h
    BY <2>1 DEF Running
  <2>4. Running \in SUBSET (Job \X Gen) /\ Holders \in SUBSET Job
    BY DEF Running, Holders
  <2>5. /\ Cardinality(Running) <= Cardinality(Holders)
        /\ Cardinality(Running) \in Nat /\ Cardinality(Holders) \in Nat
    BY <2>2, <2>3, <2>4, OnePerJob
  <2> QED
    BY <2>5 DEF LimiterIInv, InFlightWithinLimit
<1> QED
  BY <1>1, LimiterInvariantHolds, PTL

\* When a lease outlasts a request, never more than MaxSends HTTP requests
\* are open, although the rows counting them expire by the clock.
THEOREM HttpBounded ==
    ASSUME LeaseOutlastsRequest
    PROVE  Spec => []HttpWithinLimit
<1> USE LimiterAssumption
<1> DEFINE Open == {g \in Job \X Gen : req[g] = "open"}
<1>1. LimiterIInv => HttpWithinLimit
  <2> SUFFICES ASSUME LimiterIInv PROVE HttpWithinLimit
    OBVIOUS
  <2>0. TypeOK /\ RowOutlivesRequest
    BY DEF LimiterIInv
  <2>1. \A g \in Open : g[1] \in Sending /\ g[2] = newest[g[1]]
    <3> SUFFICES ASSUME NEW g \in Open
                 PROVE  g[1] \in Sending /\ g[2] = newest[g[1]]
      OBVIOUS
    <3>1. g[1] \in Job /\ g[2] \in Gen /\ g = <<g[1], g[2]>> /\ req[g] = "open"
      OBVIOUS
    <3>2. g[2] = newest[g[1]] /\ held[g[1]] > left[g]
      BY <2>0, <3>1 DEF RowOutlivesRequest, Active
    <3>3. held[g[1]] \in Nat /\ left[g] \in Nat
      BY <2>0, <3>1 DEF TypeOK
    <3> QED
      BY <3>1, <3>2, <3>3 DEF Sending
  <2>2. \A g, h \in Open : g[1] = h[1] => g = h
    BY <2>1
  <2>3. Open \in SUBSET (Job \X Gen) /\ Sending \in SUBSET Job
    BY DEF Sending
  <2>4. /\ Cardinality(Open) <= Cardinality(Sending)
        /\ Cardinality(Open) \in Nat /\ Cardinality(Sending) \in Nat
    BY <2>1, <2>2, <2>3, OnePerJob
  <2> QED
    BY <2>4 DEF LimiterIInv, HttpWithinLimit
<1> QED
  BY <1>1, LimiterInvariantHolds, PTL

\* Grants keep the interval and the guidance, whichever server gives them.
THEOREM GrantsAreSpaced == Spec => GrantsSpaced
<1> USE LimiterAssumption
<1>1. LimiterIInv /\ [Next]_vars =>
        [Grant => sinceGrant = MinInterval /\ guidance = 0 /\ ~sendHold]_vars
  <2> SUFFICES ASSUME LimiterIInv, Next, Grant
               PROVE  sinceGrant = MinInterval /\ guidance = 0 /\ ~sendHold
    OBVIOUS
  <2>1. CASE wait = 0 /\ ~sendHold
    BY <2>1 DEF LimiterIInv, TypeOK, WaitCovers
  <2>2. CASE ~(wait = 0 /\ ~sendHold)
    <3>1. ~\E j \in Job : BeginSubmission(j) \/ BeginNext(j)
      BY <2>2 DEF BeginSubmission, BeginNext, TakeSlot, MaySendNow
    <3>2. PICK h \in Job \X Gen : req[h] # "granted" /\ req'[h] = "granted"
      BY DEF Grant
    <3>3. req \in [Job \X Gen -> ReqState]
      BY DEF LimiterIInv, TypeOK
    <3> QED
      BY <3>1, <3>2, <3>3
      DEF Next, Respond, SendRequest, FinishSend, DeferSends, HoldSends,
          NoGuidance, Crash, CancelUnsent, RecordNotAccepted, EndReported,
          ReleaseInFlight, Tick, ClearHold
  <2> QED
    BY <2>1, <2>2
<1> QED
  BY <1>1, LimiterInvariantHolds, PTL DEF Spec, GrantsSpaced
=============================================================================
