------------------------ MODULE RemoteValidation_proofs ------------------------
(***************************************************************************)
(* Proofs about the remote body image validation, for any number of        *)
(* requests, every number of places and every deadline.  Almost every step *)
(* is one of a single request: what is known of that request (RequestOK)   *)
(* is kept by the step, what is known of the others by standing still, and *)
(* the places and the shared client are looked at separately.              *)
(***************************************************************************)
EXTENDS RemoteValidation, QueueLemmas

Mw == {"none", "guarding", "serving", "cleaning", "cancelled", "done"}
App == Early \cup Service \cup {"none", "respond", "sending", "cleanup", "ended"}
Run == {"none", "queued", "working", "uploading"} \cup Ended
Log == {{}, {"middleware"}, {"service"}}

Shapes ==
    /\ mw \in [Request -> Mw] /\ app \in [Request -> App]
    /\ answer \in [Request -> Answer] /\ age \in [Request -> 0..Total]
    /\ run \in [Request -> Run] /\ until \in [Request -> Nat]
    /\ sent \in [Request -> Seq(Answer)]
    /\ log \in [Request -> SUBSET {"middleware", "service"}]

Holding == {"queue", "send", "http"}

PlacesOK ==
    /\ running \subseteq Request /\ queue \in Seq(Request)
    /\ PlacesFit /\ PlacesHaveOwners

ClientOK == client \in {"open", "closing", "closed", "cut"} /\ ClientOutlivesCalls

RequestOK(r) ==
    /\ sent[r] = <<>> \/ \E a \in Answer : sent[r] = <<a>>
    /\ mw[r] = "done" => sent[r] # <<>>
    /\ log[r] \in Log
    /\ sent[r] = <<"success">> => run[r] = "uploaded"
    /\ sent[r] = <<"refused">> => run[r] = "none"
    /\ RequestFits(r) /\ AnswerFits(r)

Others(r) ==
    \A q \in Request \ {r} :
        /\ mw'[q] = mw[q] /\ app'[q] = app[q] /\ answer'[q] = answer[q]
        /\ age'[q] = age[q] /\ run'[q] = run[q] /\ until'[q] = until[q]
        /\ sent'[q] = sent[q] /\ log'[q] = log[q]

-----------------------------------------------------------------------------
(* The parts of the invariant.                                             *)

LEMMA Constants ==
    /\ MaxRunning \in Nat \ {0} /\ Total \in Nat \ {0} /\ Margin \in Nat \ {0}
    /\ Margin <= Total /\ MaxWaiting \in Nat
BY RemoteAssumption

LEMMA OneAnswer ==
    ASSUME NEW s \in Seq(Answer)
    PROVE  /\ s = <<>> <=> Len(s) = 0
           /\ Len(s) = 1 <=> \E a \in Answer : s = <<a>>
           /\ Len(s) <= 1 <=> (s = <<>> \/ \E a \in Answer : s = <<a>>)
<1>1. Len(s) \in Nat /\ (s = <<>> <=> Len(s) = 0)
  OBVIOUS
<1>2. ASSUME Len(s) = 1 PROVE \E a \in Answer : s = <<a>>
  <2>1. s[1] \in Answer
    BY <1>2
  <2>2. s = <<s[1]>>
    BY <1>2
  <2> QED
    BY <2>1, <2>2
<1>3. \A a \in Answer : Len(<<a>>) = 1
  OBVIOUS
<1>4. Len(s) = 1 <=> \E a \in Answer : s = <<a>>
  BY <1>2, <1>3
<1>5. Len(s) <= 1 <=> (Len(s) = 0 \/ Len(s) = 1)
  <2>1. \A n \in Nat : n <= 1 <=> (n = 0 \/ n = 1)
    OBVIOUS
  <2> QED
    BY <1>1, <2>1
<1> QED
  BY <1>1, <1>4, <1>5

LEMMA OneWriter ==
    ASSUME NEW l \in SUBSET {"middleware", "service"}
    PROVE  Cardinality(l) <= 1 <=> l \in Log
<1>1. l \in Log \cup {{"middleware", "service"}}
  BY DEF Log
<1>2. Cardinality({}) = 0 /\ Cardinality({"middleware"}) = 1
      /\ Cardinality({"service"}) = 1
  BY FS_EmptySet, FS_Singleton
<1>3. Cardinality({"middleware", "service"}) = 2
  <2>1. IsFiniteSet({"middleware"}) /\ "service" \notin {"middleware"}
    BY FS_Singleton
  <2>2. {"middleware", "service"} = {"middleware"} \cup {"service"}
    OBVIOUS
  <2> QED
    BY <1>2, <2>1, <2>2, OneMore
<1>4. {"middleware", "service"} \notin Log
  <2>1. "middleware" # "service"
    OBVIOUS
  <2> QED
    BY <2>1 DEF Log
<1>5. CASE l \in Log
  <2>1. Cardinality(l) = 0 \/ Cardinality(l) = 1
    BY <1>2, <1>5 DEF Log
  <2> QED
    BY <1>5, <2>1
<1>6. CASE l = {"middleware", "service"}
  <2>1. Cardinality(l) = 2 /\ l \notin Log
    BY <1>3, <1>4, <1>6
  <2> QED
    BY <2>1
<1> QED
  BY <1>1, <1>5, <1>6

LEMMA Parts ==
    ASSUME RemoteInvariant
    PROVE  Shapes /\ PlacesOK /\ ClientOK /\ \A r \in Request : RequestOK(r)
<1>1. Shapes /\ PlacesOK /\ ClientOK
  BY DEF RemoteInvariant, TypeOK, Shapes, PlacesOK, ClientOK, Mw, App, Run
<1>2. ASSUME NEW r \in Request PROVE RequestOK(r)
  <2>1. sent[r] \in Seq(Answer) /\ log[r] \in SUBSET {"middleware", "service"}
    BY <1>1 DEF Shapes
  <2>2. Len(sent[r]) <= 1 /\ (mw[r] = "done" => Len(sent[r]) = 1)
    BY DEF RemoteInvariant, AnsweredOnce
  <2>3. log[r] \in Log
    BY <2>1, OneWriter DEF RemoteInvariant, OneSummary
  <2>4. /\ sent[r] = <<>> \/ \E a \in Answer : sent[r] = <<a>>
        /\ mw[r] = "done" => sent[r] # <<>>
    <3>1. sent[r] = <<>> \/ \E a \in Answer : sent[r] = <<a>>
      BY <2>1, <2>2, OneAnswer
    <3>2. mw[r] = "done" => sent[r] # <<>>
      BY <2>2
    <3> QED
      BY <3>1, <3>2
  <2>5. /\ sent[r] = <<"success">> => run[r] = "uploaded"
        /\ sent[r] = <<"refused">> => run[r] = "none"
    BY DEF RemoteInvariant, AnswersAreTrue
  <2>6. RequestFits(r) /\ AnswerFits(r)
    BY DEF RemoteInvariant
  <2> QED
    BY <2>3, <2>4, <2>5, <2>6 DEF RequestOK
<1> QED
  BY <1>1, <1>2

LEMMA Whole ==
    ASSUME Shapes, PlacesOK, ClientOK, \A r \in Request : RequestOK(r)
    PROVE  RemoteInvariant
<1>1. TypeOK
  BY DEF TypeOK, Shapes, PlacesOK, ClientOK, Mw, App, Run
<1>2. ASSUME NEW r \in Request
      PROVE  /\ Len(sent[r]) <= 1 /\ (mw[r] = "done" => Len(sent[r]) = 1)
             /\ Cardinality(log[r]) <= 1
  <2>1. sent[r] \in Seq(Answer) /\ log[r] \in SUBSET {"middleware", "service"}
    BY DEF Shapes
  <2>2. /\ sent[r] = <<>> \/ \E a \in Answer : sent[r] = <<a>>
        /\ mw[r] = "done" => sent[r] # <<>>
        /\ log[r] \in Log
    BY DEF RequestOK
  <2> QED
    BY <2>1, <2>2, OneAnswer, OneWriter
<1>3. AnsweredOnce /\ OneSummary
  BY <1>2 DEF AnsweredOnce, OneSummary
<1>4. AnswersAreTrue /\ \A r \in Request : RequestFits(r) /\ AnswerFits(r)
  BY DEF RequestOK, AnswersAreTrue
<1> QED
  BY <1>1, <1>3, <1>4 DEF RemoteInvariant, PlacesOK, ClientOK

LEMMA WholeAfter ==
    Shapes' /\ PlacesOK' /\ ClientOK' /\ (\A r \in Request : RequestOK(r)')
      => RemoteInvariant'
<1>1. (Shapes /\ PlacesOK /\ ClientOK /\ \A r \in Request : RequestOK(r))'
      => RemoteInvariant'
  BY Whole, PTL
<1> QED
  BY <1>1

\* A step of one request.
LEMMA OneRequest ==
    ASSUME RemoteInvariant, NEW r \in Request, Shapes', Others(r), RequestOK(r)',
           PlacesOK', ClientOK'
    PROVE  RemoteInvariant'
<1>1. ASSUME NEW q \in Request, q # r PROVE RequestOK(q)'
  <2>1. /\ mw'[q] = mw[q] /\ app'[q] = app[q] /\ answer'[q] = answer[q]
        /\ age'[q] = age[q] /\ run'[q] = run[q] /\ until'[q] = until[q]
        /\ sent'[q] = sent[q] /\ log'[q] = log[q]
    BY <1>1 DEF Others
  <2>2. RequestOK(q)
    BY Parts
  <2> QED
    BY <2>1, <2>2 DEF RequestOK, RequestFits, AnswerFits, Expired
<1>2. \A q \in Request : RequestOK(q)'
  BY <1>1
<1> QED
  BY <1>2, WholeAfter

-----------------------------------------------------------------------------
(* Places and the client.                                                  *)

LEMMA PlacesKept ==
    ASSUME RemoteInvariant, NEW r \in Request, UNCHANGED slots, Others(r),
           app'[r] \in Holding <=> app[r] \in Holding,
           app'[r] \in {"send", "http"} => r \in running
    PROVE  PlacesOK'
<1>1. PlacesOK
  BY Parts
<1>2. running' = running /\ queue' = queue /\ Range(queue') = Range(queue)
  BY DEF slots
<1>3. \A q \in Request : /\ app'[q] \in Holding <=> app[q] \in Holding
                         /\ app'[q] \in {"send", "http"} => q \in running
  BY <1>1 DEF Others, PlacesOK, PlacesFit
<1>4. PlacesHaveOwners'
  BY <1>1, <1>2, <1>3 DEF PlacesOK, PlacesHaveOwners, Holding
<1>5. PlacesFit'
  BY <1>1, <1>2, <1>3 DEF PlacesOK, PlacesFit
<1> QED
  BY <1>1, <1>2, <1>4, <1>5 DEF PlacesOK

LEMMA ClientKept ==
    ASSUME RemoteInvariant, NEW r \in Request, client' = client, Others(r),
           app'[r] = "http" => app[r] = "http" \/ client = "open"
    PROVE  ClientOK'
<1>1. ClientOK
  BY Parts
<1>2. \A q \in Request : app'[q] = "http" => app[q] = "http" \/ client = "open"
  BY DEF Others
<1> QED
  BY <1>1, <1>2 DEF ClientOK, ClientOutlivesCalls, Calls

LEMMA SlotWords ==
    /\ \A f : Slots!IsInjective(f) <=> IsInjective(f)
    /\ \A f : Slots!Range(f) = Range(f)
BY DEF Slots!IsInjective, IsInjective, Slots!Range, Range

LEMMA SlotRemoves ==
    ASSUME NEW S, NEW s \in Seq(S), IsInjective(s), NEW e
    PROVE  LET t == Slots!RemoveFirst(s, e) IN
             t \in Seq(S) /\ IsInjective(t) /\ Range(t) = Range(s) \ {e}
<1> DEFINE t == Slots!RemoveFirst(s, e)
<1>0. DOMAIN s = 1..Len(s)
  OBVIOUS
<1>1. CASE \E i \in 1..Len(s) : s[i] = e
  <2>1. PICK i \in 1..Len(s) : s[i] = e
    BY <1>1
  <2>2. {j \in 1..Len(s) : s[j] = e} = {i}
    BY <2>1, OnePlace
  <2>3. Slots!Min({i}) = i
    BY DEF Slots!Min
  <2>4. Slots!SelectInSeq(s, LAMBDA v : v = e) = i
    BY <2>2, <2>3 DEF Slots!SelectInSeq
  <2>5. t = Without(s, i)
    BY <1>1, <2>4 DEF Slots!RemoveFirst, Slots!RemoveAt, Without
  <2> HIDE DEF t
  <2>6. t \in Seq(S) /\ Left(s, e, t)
    BY <2>1, <2>5, TakenOut
  <2> QED
    BY <2>6 DEF Left, t
<1>2. CASE ~ \E i \in 1..Len(s) : s[i] = e
  <2>1. t = s
    BY <1>2 DEF Slots!RemoveFirst
  <2>2. e \notin Range(s)
    BY <1>0, <1>2 DEF Range
  <2> HIDE DEF t
  <2>3. t \in Seq(S) /\ Left(s, e, t)
    BY <2>1, <2>2, TakenOut
  <2> QED
    BY <2>3 DEF Left, t
<1> QED
  BY <1>1, <1>2

\* Whoever leaves holds no place afterwards; the place may have gone to the
\* oldest of those who wait.
LEMMA PlaceLeft ==
    ASSUME RemoteInvariant, NEW r \in Request, LeavesPlace(r), Others(r),
           app'[r] \notin Holding
    PROVE  PlacesOK'
<1>1. /\ running \subseteq Request /\ queue \in Seq(Request) /\ IsInjective(queue)
      /\ running \cap Range(queue) = {}
      /\ \A q \in Request : app[q] \in {"send", "http"} => q \in running
      /\ \A q \in Request : q \in running \cup Range(queue) <=> app[q] \in Holding
  BY Parts DEF PlacesOK, PlacesFit, PlacesHaveOwners, Holding
<1>2. /\ running' \subseteq Request /\ queue' \in Seq(Request) /\ IsInjective(queue')
      /\ running' \cap Range(queue') = {} /\ running \ {r} \subseteq running'
      /\ running' \cup Range(queue') = (running \cup Range(queue)) \ {r}
  <2>1. CASE r \in running /\ queue # <<>>
    <3>1. running' = (running \ {r}) \cup {Head(queue)} /\ queue' = Tail(queue)
      BY <1>1, <2>1 DEF LeavesPlace, Slots!PassOn
    <3>2. /\ Head(queue) \in Range(queue) /\ Tail(queue) \in Seq(Request)
          /\ IsInjective(Tail(queue)) /\ Range(Tail(queue)) = Range(queue) \ {Head(queue)}
          /\ Head(queue) \in Request
      BY <1>1, <2>1, TailElements
    <3> DEFINE h == Head(queue)
               t == Tail(queue)
    <3>3. /\ h \in Range(queue) /\ t \in Seq(Request) /\ IsInjective(t) /\ h \in Request
          /\ Range(t) = Range(queue) \ {h} /\ running' = (running \ {r}) \cup {h}
          /\ queue' = t
      BY <3>1, <3>2
    <3> HIDE DEF h, t
    <3>4. Range(queue') = Range(queue) \ {h} /\ queue' \in Seq(Request) /\ IsInjective(queue')
      BY <3>3, Zenon
    <3> QED
      BY <1>1, <2>1, <3>3, <3>4
  <2>2. CASE r \in running /\ queue = <<>>
    <3>1. running' = running \ {r} /\ queue' = queue
      BY <1>1, <2>2 DEF LeavesPlace, Slots!Leave
    <3>2. Range(queue') = Range(queue) /\ queue' \in Seq(Request) /\ IsInjective(queue')
      BY <1>1, <3>1, Zenon
    <3> QED
      BY <1>1, <2>2, <3>1, <3>2
  <2>3. CASE r \notin running /\ r \in Range(queue)
    <3>1. running' = running /\ queue' = Slots!RemoveFirst(queue, r)
      BY <2>3 DEF LeavesPlace, Slots!GiveUp
    <3> DEFINE t == Slots!RemoveFirst(queue, r)
    <3>2. t \in Seq(Request) /\ IsInjective(t) /\ Range(t) = Range(queue) \ {r}
      BY <1>1, SlotRemoves
    <3>3. running' = running /\ queue' = t
      BY <3>1
    <3> HIDE DEF t
    <3>4. Range(queue') = Range(queue) \ {r} /\ queue' \in Seq(Request) /\ IsInjective(queue')
      BY <3>2, <3>3, Zenon
    <3> QED
      BY <1>1, <2>3, <3>3, <3>4
  <2>4. CASE r \notin running /\ r \notin Range(queue)
    <3>1. running' = running /\ queue' = queue
      BY <2>4 DEF LeavesPlace, slots
    <3>2. Range(queue') = Range(queue) /\ queue' \in Seq(Request) /\ IsInjective(queue')
      BY <1>1, <3>1, Zenon
    <3> QED
      BY <1>1, <2>4, <3>1, <3>2
  <2> QED
    BY <2>1, <2>2, <2>3, <2>4
<1>3. \A q \in Request : q \in running' \cup Range(queue') <=> app'[q] \in Holding
  BY <1>1, <1>2 DEF Others
<1>4. \A q \in Request : app'[q] \in {"send", "http"} => q \in running'
  <2> SUFFICES ASSUME NEW q \in Request, app'[q] \in {"send", "http"} PROVE q \in running'
    OBVIOUS
  <2>1. q # r
    BY DEF Holding
  <2> QED
    BY <1>1, <1>2, <2>1 DEF Others
<1> QED
  BY <1>2, <1>3, <1>4 DEF PlacesOK, PlacesFit, PlacesHaveOwners, Holding

-----------------------------------------------------------------------------
(* The service is done with a request.                                     *)

LEMMA EndsKeeps ==
    ASSUME RemoteInvariant, NEW r \in Request, NEW a \in Answer \ {"none"},
           app[r] \in Service \cup {"read"}, Ends(r, a),
           a = "success" => run[r] = "uploaded",
           a = "refused" => run[r] = "none",
           a = "deadline" => Expired(r) \/ run[r] = "stopped"
    PROVE  RemoteInvariant'
<1>0. Shapes /\ RequestOK(r)
  BY Parts
<1>1. /\ app' = [app EXCEPT ![r] = "respond"] /\ answer' = [answer EXCEPT ![r] = a]
      /\ log' = [log EXCEPT ![r] = @ \cup {"service"}] /\ LeavesPlace(r)
      /\ client' = client /\ mw' = mw /\ age' = age /\ run' = run /\ until' = until
      /\ sent' = sent
  BY DEF Ends, Answers, Summary, worker
<1>2. /\ app'[r] = "respond" /\ answer'[r] = a /\ log'[r] = log[r] \cup {"service"}
      /\ log[r] = {}
  BY <1>0, <1>1 DEF Shapes, RequestOK, RequestFits, Early, Service
<1>3. Shapes' /\ Others(r)
  BY <1>0, <1>1 DEF Shapes, Others, App
<1>4. RequestOK(r)'
  BY <1>0, <1>1, <1>2
     DEF RequestOK, RequestFits, AnswerFits, Expired, Log, Early, Service
<1>5. PlacesOK' /\ ClientOK'
  BY <1>1, <1>2, <1>3, PlaceLeft, ClientKept DEF Holding
<1> QED
  BY <1>3, <1>4, <1>5, OneRequest

\* A step of the route that is only one to another place.
LEMMA RouteGoesKeeps ==
    ASSUME RemoteInvariant, NEW r \in Request, NEW pc, RouteGoes(r, pc),
           \/ app[r] = "lookup" /\ pc = "read"
           \/ app[r] = "read" /\ pc = "check"
           \/ app[r] = "queue" /\ pc = "send" /\ r \in running
           \/ app[r] = "cleanup" /\ pc = "ended"
    PROVE  RemoteInvariant'
<1>0. Shapes /\ RequestOK(r)
  BY Parts
<1>1. /\ app' = [app EXCEPT ![r] = pc] /\ answer' = answer /\ log' = log
      /\ UNCHANGED slots /\ client' = client /\ mw' = mw /\ age' = age
      /\ run' = run /\ until' = until /\ sent' = sent
  BY DEF RouteGoes, Go, worker
<1>2. app'[r] = pc /\ pc \in App
  BY <1>0, <1>1 DEF Shapes, App, Early, Service
<1>3. Shapes' /\ Others(r)
  BY <1>0, <1>1, <1>2 DEF Shapes, Others
<1>4. RequestOK(r)'
  BY <1>0, <1>1, <1>2
     DEF RequestOK, RequestFits, AnswerFits, Expired, Early, Service
<1>5. PlacesOK' /\ ClientOK'
  BY <1>1, <1>2, <1>3, PlacesKept, ClientKept DEF Holding
<1> QED
  BY <1>3, <1>4, <1>5, OneRequest

-----------------------------------------------------------------------------
(* The middleware.                                                         *)

LEMMA ArriveKeeps ==
    ASSUME RemoteInvariant, NEW r \in Request, Arrive(r)
    PROVE  RemoteInvariant'
<1>0. Shapes /\ RequestOK(r)
  BY Parts
<1>1. /\ mw[r] = "none" /\ mw' = [mw EXCEPT ![r] = "guarding"]
      /\ app' = [app EXCEPT ![r] = "lookup"] /\ answer' = answer /\ log' = log
      /\ UNCHANGED slots /\ client' = client /\ age' = age
      /\ run' = run /\ until' = until /\ sent' = sent
  BY DEF Arrive, MwGoes, Go, worker
<1>2. app'[r] = "lookup" /\ mw'[r] = "guarding" /\ app[r] = "none"
  BY <1>0, <1>1 DEF Shapes, RequestOK, RequestFits
<1>3. Shapes' /\ Others(r)
  BY <1>0, <1>1, <1>2 DEF Shapes, Others, Mw, App, Early
<1>4. RequestOK(r)'
  BY <1>0, <1>1, <1>2
     DEF RequestOK, RequestFits, AnswerFits, Expired, Early, Service
<1>5. PlacesOK' /\ ClientOK'
  BY <1>1, <1>2, <1>3, PlacesKept, ClientKept DEF Holding
<1> QED
  BY <1>3, <1>4, <1>5, OneRequest

\* The middleware waits no longer, or returns.
LEMMA MwGoesKeeps ==
    ASSUME RemoteInvariant, NEW r \in Request, Serve(r) \/ Returns(r)
    PROVE  RemoteInvariant'
<1>0. Shapes /\ RequestOK(r)
  BY Parts
<1>1. PICK to \in {"serving", "done"} :
        /\ mw' = [mw EXCEPT ![r] = to]
        /\ to = "serving" => mw[r] = "guarding" /\ (app[r] = "ended" \/ HandedOver(r))
        /\ to = "done" => mw[r] \in {"serving", "cleaning"} /\ app[r] = "ended"
        /\ app' = app /\ answer' = answer /\ log' = log
        /\ UNCHANGED slots /\ client' = client /\ age' = age
        /\ run' = run /\ until' = until /\ sent' = sent
  <2>1. CASE Serve(r)
    BY <2>1 DEF Serve, MwGoes, worker, route
  <2>2. CASE Returns(r)
    BY <2>2 DEF Returns, MwGoes, worker, route
  <2> QED
    BY <2>1, <2>2
<1>2. mw'[r] = to
  BY <1>0, <1>1 DEF Shapes
<1>3. Shapes' /\ Others(r)
  BY <1>0, <1>1, <1>2 DEF Shapes, Others, Mw
<1>4. RequestOK(r)'
  <2>1. app[r] \notin Early
    BY <1>0, <1>1
       DEF HandedOver, RequestOK, RequestFits, Early, Service
  <2> QED
    BY <1>0, <1>1, <1>2, <2>1
       DEF RequestOK, RequestFits, AnswerFits, Expired, Early, Service
<1>5. PlacesOK' /\ ClientOK'
  <2>1. app'[r] \in {"send", "http"} => r \in running
    BY <1>1, Parts DEF PlacesOK, PlacesFit
  <2> QED
    BY <1>1, <1>2, <1>3, <2>1, PlacesKept, ClientKept
<1> QED
  BY <1>3, <1>4, <1>5, OneRequest

LEMMA TimesOutKeeps ==
    ASSUME RemoteInvariant, NEW r \in Request, TimesOut(r)
    PROVE  RemoteInvariant'
<1>0. Shapes /\ RequestOK(r)
  BY Parts
<1>1. /\ mw[r] = "guarding" /\ Expired(r) /\ app[r] # "ended" /\ ~HandedOver(r)
      /\ mw' = [mw EXCEPT ![r] = "cleaning"] /\ app' = [app EXCEPT ![r] = "cleanup"]
      /\ answer' = [answer EXCEPT ![r] = "none"]
      /\ log' = [log EXCEPT ![r] = @ \cup {"middleware"}]
      /\ sent' = [sent EXCEPT ![r] = IF @ = <<>> THEN <<"deadline">> ELSE @]
      /\ UNCHANGED slots /\ client' = client /\ age' = age
      /\ run' = run /\ until' = until
  BY DEF TimesOut, MayTimeOut, MwGoes, Summary, worker
<1>2. /\ app'[r] = "cleanup" /\ mw'[r] = "cleaning" /\ answer'[r] = "none"
      /\ log'[r] = log[r] \cup {"middleware"}
      /\ sent'[r] = IF sent[r] = <<>> THEN <<"deadline">> ELSE sent[r]
      /\ app[r] \notin Service
  BY <1>0, <1>1 DEF Shapes, HandedOver
<1>3. log[r] = {} /\ log'[r] = {"middleware"}
  BY <1>0, <1>1, <1>2 DEF HandedOver, RequestOK, RequestFits, Log
<1>4. Shapes' /\ Others(r)
  <2>1. <<"deadline">> \in Seq(Answer)
    BY DEF Answer
  <2>2. sent' \in [Request -> Seq(Answer)]
    BY <1>0, <1>1, <2>1 DEF Shapes
  <2> QED
    BY <1>0, <1>1, <2>2 DEF Shapes, Others, Mw, App, Answer
<1>5. \E a \in Answer : sent'[r] = <<a>>
  BY <1>0, <1>2 DEF RequestOK, Answer
<1>6. RequestOK(r)'
  <2>1. Len(sent'[r]) = 1 /\ sent'[r] # <<>>
    BY <1>5
  <2>2. sent'[r] \in {<<"success">>, <<"refused">>} => sent'[r] = sent[r]
    BY <1>2
  <2> QED
    BY <1>0, <1>1, <1>2, <1>3, <1>5, <2>1, <2>2
       DEF RequestOK, RequestFits, AnswerFits, Expired, Early, Service, Log
<1>7. PlacesOK' /\ ClientOK'
  BY <1>1, <1>2, <1>4, PlacesKept, ClientKept DEF Holding, Service
<1> QED
  BY <1>4, <1>6, <1>7, OneRequest

LEMMA IsCancelledKeeps ==
    ASSUME RemoteInvariant, NEW r \in Request, IsCancelled(r)
    PROVE  RemoteInvariant'
<1>0. Shapes /\ RequestOK(r)
  BY Parts
<1>1. /\ mw[r] \in {"guarding", "serving"} /\ mw' = [mw EXCEPT ![r] = "cancelled"]
      /\ app' = [app EXCEPT ![r] = "ended"] /\ answer' = [answer EXCEPT ![r] = "none"]
      /\ LeavesPlace(r) /\ client' = client /\ age' = age
      /\ run' = run /\ until' = until /\ sent' = sent
  BY DEF IsCancelled, MwGoes, worker
<1>2. /\ app'[r] = "ended" /\ mw'[r] = "cancelled" /\ answer'[r] = "none"
  BY <1>0, <1>1 DEF Shapes
<1>3. \/ log' = log
      \/ log[r] = {} /\ \E who \in {"middleware", "service"} :
                          log' = [log EXCEPT ![r] = @ \cup {who}]
  <2>1. CASE app[r] \in Service
    <3>1. log' = [log EXCEPT ![r] = @ \cup {"service"}]
      BY <2>1 DEF IsCancelled, Summary
    <3> QED
      BY <1>0, <2>1, <3>1 DEF RequestOK, RequestFits
  <2>2. CASE app[r] \notin Service /\ mw[r] = "guarding" /\ ~HandedOver(r)
    <3>1. log' = [log EXCEPT ![r] = @ \cup {"middleware"}]
      BY <2>2 DEF IsCancelled, Summary
    <3>2. log[r] = {}
      BY <1>0, <2>2 DEF RequestOK, RequestFits, HandedOver, Log
    <3> QED
      BY <3>1, <3>2
  <2>3. CASE app[r] \notin Service /\ ~(mw[r] = "guarding" /\ ~HandedOver(r))
    BY <2>3 DEF IsCancelled
  <2> QED
    BY <2>1, <2>2, <2>3
<1>4. Shapes' /\ Others(r)
  <2>1. /\ log' \in [Request -> SUBSET {"middleware", "service"}]
        /\ \A q \in Request \ {r} : log'[q] = log[q]
    <3>1. log \in [Request -> SUBSET {"middleware", "service"}]
      BY <1>0 DEF Shapes
    <3>2. CASE log' = log
      BY <3>1, <3>2
    <3>3. ASSUME NEW who \in {"middleware", "service"},
                 log' = [log EXCEPT ![r] = @ \cup {who}]
          PROVE  /\ log' \in [Request -> SUBSET {"middleware", "service"}]
                 /\ \A q \in Request \ {r} : log'[q] = log[q]
      BY <3>1, <3>3
    <3> QED
      BY <1>3, <3>2, <3>3
  <2>2. Shapes'
    BY <1>0, <1>1, <2>1 DEF Shapes, Mw, App, Answer
  <2>3. Others(r)
    BY <1>0, <1>1, <2>1 DEF Shapes, Others
  <2> QED
    BY <2>2, <2>3
<1>5. log'[r] \in Log
  BY <1>0, <1>3 DEF Shapes, RequestOK, Log
<1>6. RequestOK(r)'
  BY <1>0, <1>1, <1>2, <1>5
     DEF RequestOK, RequestFits, AnswerFits, Expired, Early, Service
<1>7. PlacesOK' /\ ClientOK'
  BY <1>1, <1>2, <1>4, PlaceLeft, ClientKept DEF Holding
<1> QED
  BY <1>4, <1>6, <1>7, OneRequest

-----------------------------------------------------------------------------
(* The route and the service.                                              *)

LEMMA LookupKeeps ==
    ASSUME RemoteInvariant, NEW r \in Request, Lookup(r)
    PROVE  RemoteInvariant'
<1>1. CASE RouteGoes(r, "read")
  BY <1>1, RouteGoesKeeps DEF Lookup
<1>2. CASE Answers(r, "refused") /\ UNCHANGED <<slots, client, mw, age, worker, sent, log>>
  <2>0. Shapes /\ RequestOK(r) /\ app[r] = "lookup"
    BY Parts DEF Lookup
  <2>1. /\ app' = [app EXCEPT ![r] = "respond"]
        /\ answer' = [answer EXCEPT ![r] = "refused"]
        /\ UNCHANGED slots /\ client' = client /\ mw' = mw /\ age' = age
        /\ run' = run /\ until' = until /\ sent' = sent /\ log' = log
    BY <1>2 DEF Answers, worker
  <2>2. app'[r] = "respond" /\ answer'[r] = "refused"
    BY <2>0, <2>1 DEF Shapes
  <2>3. Shapes' /\ Others(r)
    BY <2>0, <2>1 DEF Shapes, Others, App, Answer
  <2>4. RequestOK(r)'
    BY <2>0, <2>1, <2>2
       DEF RequestOK, RequestFits, AnswerFits, Expired, Early, Service
  <2>5. PlacesOK' /\ ClientOK'
    BY <2>0, <2>1, <2>2, <2>3, PlacesKept, ClientKept DEF Holding
  <2> QED
    BY <2>3, <2>4, <2>5, OneRequest
<1> QED
  BY <1>1, <1>2 DEF Lookup

LEMMA HandOverKeeps ==
    ASSUME RemoteInvariant, NEW r \in Request, HandOver(r)
    PROVE  RemoteInvariant'
<1>1. CASE Expired(r)
  <2>1. Ends(r, "deadline") /\ app[r] = "read"
    BY <1>1 DEF HandOver
  <2>2. "deadline" \in Answer \ {"none"}
    BY DEF Answer
  <2> QED
    BY <1>1, <2>1, <2>2, EndsKeeps
<1>2. CASE ~Expired(r)
  BY <1>2, RouteGoesKeeps DEF HandOver
<1> QED
  BY <1>1, <1>2

LEMMA RespondKeeps ==
    ASSUME RemoteInvariant, NEW r \in Request, Respond(r)
    PROVE  RemoteInvariant'
<1>0. Shapes /\ RequestOK(r) /\ app[r] = "respond"
  BY Parts DEF Respond
<1>1. /\ app' = [app EXCEPT ![r] = "sending"] /\ answer' = answer /\ log' = log
      /\ sent' = [sent EXCEPT ![r] = Append(@, answer[r])]
      /\ UNCHANGED slots /\ client' = client /\ mw' = mw /\ age' = age
      /\ run' = run /\ until' = until
  BY DEF Respond, Go, worker
<1>2. sent[r] = <<>> /\ answer[r] \in Answer
  BY <1>0 DEF Shapes, RequestOK, RequestFits
<1>3. app'[r] = "sending" /\ sent'[r] = <<answer[r]>>
  BY <1>0, <1>1, <1>2 DEF Shapes
<1>4. Shapes' /\ Others(r)
  <2>1. sent' \in [Request -> Seq(Answer)]
    BY <1>0, <1>1, <1>2 DEF Shapes
  <2> QED
    BY <1>0, <1>1, <2>1 DEF Shapes, Others, App
<1>5. RequestOK(r)'
  <2>1. \A a : sent'[r] = <<a>> => answer[r] = a
    BY <1>3
  <2>2. sent'[r] # <<>>
    BY <1>3
  <2>3. sent'[r] = <<answer'[r]>>
    BY <1>1, <1>3
  <2> QED
    BY <1>0, <1>1, <1>2, <1>3, <2>1, <2>2, <2>3
       DEF RequestOK, RequestFits, AnswerFits, Expired, Early, Service
<1>6. PlacesOK' /\ ClientOK'
  BY <1>0, <1>1, <1>3, <1>4, PlacesKept, ClientKept DEF Holding
<1> QED
  BY <1>4, <1>5, <1>6, OneRequest

LEMMA RespondedKeeps ==
    ASSUME RemoteInvariant, NEW r \in Request, Responded(r)
    PROVE  RemoteInvariant'
<1>0. Shapes /\ RequestOK(r) /\ app[r] = "sending"
  BY Parts DEF Responded
<1>1. /\ app' = [app EXCEPT ![r] = "ended"] /\ answer' = [answer EXCEPT ![r] = "none"]
      /\ UNCHANGED slots /\ client' = client /\ mw' = mw /\ age' = age
      /\ run' = run /\ until' = until /\ sent' = sent /\ log' = log
  BY DEF Responded, worker
<1>2. app'[r] = "ended" /\ answer'[r] = "none"
  BY <1>0, <1>1 DEF Shapes
<1>3. Shapes' /\ Others(r)
  BY <1>0, <1>1 DEF Shapes, Others, App, Answer
<1>4. RequestOK(r)'
  <2>0. sent'[r] = <<answer[r]>>
    BY <1>0, <1>1 DEF RequestOK, RequestFits
  <2>1. Len(sent'[r]) = 1 /\ sent'[r] # <<>>
    BY <2>0
  <2> QED
    BY <1>0, <1>1, <1>2, <2>1
       DEF RequestOK, RequestFits, AnswerFits, Expired, Early, Service
<1>5. PlacesOK' /\ ClientOK'
  BY <1>0, <1>1, <1>2, <1>3, PlacesKept, ClientKept DEF Holding
<1> QED
  BY <1>3, <1>4, <1>5, OneRequest

\* A request that was not served before gets a place, or one in the queue.
LEMMA CheckKeeps ==
    ASSUME RemoteInvariant, NEW r \in Request, Check(r)
    PROVE  RemoteInvariant'
<1>0. Shapes /\ RequestOK(r) /\ PlacesOK /\ app[r] = "check" /\ run[r] = "none"
  BY Parts DEF Check, RequestOK, RequestFits
<1>1. CASE \E a \in {"deadline", "refused"} : Ends(r, a) /\ (a = "deadline" => Expired(r))
  <2>1. PICK a \in {"deadline", "refused"} : Ends(r, a) /\ (a = "deadline" => Expired(r))
    BY <1>1
  <2>2. a \in Answer \ {"none"} /\ app[r] \in Service \cup {"read"}
    BY <1>0 DEF Answer, Service
  <2> QED
    BY <1>0, <2>1, <2>2, EndsKeeps
<1>2. CASE /\ UNCHANGED <<client, mw, age, worker, sent>>
           /\ \/ Slots!Enter(r) /\ Go(r, "send")
              \/ Slots!Wait(r) /\ Go(r, "queue")
  <2>1. PICK pc \in {"send", "queue"} :
          /\ app' = [app EXCEPT ![r] = pc] /\ answer' = answer /\ log' = log
          /\ pc = "send" => Slots!Enter(r)
          /\ pc = "queue" => Slots!Wait(r)
    BY <1>2 DEF Go
  <2>2. /\ client' = client /\ mw' = mw /\ age' = age /\ run' = run /\ until' = until
        /\ sent' = sent
    BY <1>2 DEF worker
  <2>3. app'[r] = pc
    BY <1>0, <2>1 DEF Shapes
  <2>4. Shapes' /\ Others(r)
    BY <1>0, <2>1, <2>2 DEF Shapes, Others, App, Service
  <2>5. RequestOK(r)'
    BY <1>0, <2>1, <2>2, <2>3
       DEF RequestOK, RequestFits, AnswerFits, Expired, Early, Service
  <2>6. r \notin running \cup Range(queue)
    BY <1>0 DEF PlacesOK, PlacesHaveOwners
  <2>7. /\ running' \subseteq Request /\ queue' \in Seq(Request) /\ IsInjective(queue')
        /\ running' \cap Range(queue') = {} /\ running \subseteq running'
        /\ running' \cup Range(queue') = running \cup Range(queue) \cup {r}
        /\ pc = "send" => r \in running'
    <3>1. CASE pc = "send"
      <4>1. running' = running \cup {r} /\ queue' = queue
        BY <2>1, <3>1 DEF Slots!Enter
      <4> QED
        BY <1>0, <2>6, <4>1 DEF PlacesOK, PlacesFit
    <3>2. CASE pc = "queue"
      <4>1. running' = running /\ queue' = Append(queue, r)
        BY <2>1, <3>2 DEF Slots!Wait
      <4> DEFINE t == Append(queue, r)
      <4>2. t \in Seq(Request) /\ IsInjective(t) /\ Range(t) = Range(queue) \cup {r}
        BY <1>0, <2>6, AppendElement DEF PlacesOK, PlacesFit
      <4>3. queue' = t
        BY <4>1
      <4> HIDE DEF t
      <4>4. Range(queue') = Range(queue) \cup {r} /\ queue' \in Seq(Request)
            /\ IsInjective(queue')
        BY <4>2, <4>3, Zenon
      <4> QED
        BY <1>0, <2>6, <3>2, <4>1, <4>4 DEF PlacesOK, PlacesFit
    <3> QED
      BY <3>1, <3>2
  <2>8. PlacesOK'
    BY <1>0, <2>1, <2>3, <2>4, <2>7
       DEF PlacesOK, PlacesFit, PlacesHaveOwners, Others
  <2>9. ClientOK'
    BY <2>1, <2>2, <2>3, <2>4, ClientKept
  <2> QED
    BY <2>4, <2>5, <2>8, <2>9, OneRequest
<1> QED
  BY <1>1, <1>2 DEF Check

LEMMA AdmittedKeeps ==
    ASSUME RemoteInvariant, NEW r \in Request, Admitted(r)
    PROVE  RemoteInvariant'
<1>1. CASE Expired(r)
  <2>1. Ends(r, "deadline") /\ app[r] \in Service
    BY <1>1 DEF Admitted, Service
  <2>2. "deadline" \in Answer \ {"none"}
    BY DEF Answer
  <2> QED
    BY <1>1, <2>1, <2>2, EndsKeeps
<1>2. CASE ~Expired(r)
  BY <1>2, RouteGoesKeeps DEF Admitted
<1> QED
  BY <1>1, <1>2

LEMMA WaitEndsKeeps ==
    ASSUME RemoteInvariant, NEW r \in Request, WaitEnds(r)
    PROVE  RemoteInvariant'
<1>1. PICK a \in {"deadline", "refused"} : Ends(r, a) /\ (a = "deadline" => Expired(r))
  BY DEF WaitEnds
<1>2. a \in Answer \ {"none"} /\ app[r] \in Service /\ run[r] = "none"
  BY Parts DEF Answer, Service, WaitEnds, RequestOK, RequestFits
<1> QED
  BY <1>1, <1>2, EndsKeeps

LEMMA PostKeeps ==
    ASSUME RemoteInvariant, NEW r \in Request, Post(r)
    PROVE  RemoteInvariant'
<1>0. Shapes /\ RequestOK(r) /\ app[r] = "send" /\ run[r] = "none"
  BY Parts DEF Post, RequestOK, RequestFits
<1>1. CASE Expired(r) \/ client # "open"
  <2>1. PICK a \in {"deadline", "refused"} : Ends(r, a) /\ (a = "deadline" => Expired(r))
    BY <1>1 DEF Post
  <2>2. a \in Answer \ {"none"} /\ app[r] \in Service
    BY <1>0 DEF Answer, Service
  <2> QED
    BY <1>0, <2>1, <2>2, EndsKeeps
<1>2. CASE ~Expired(r) /\ client = "open"
  <2>1. /\ app' = [app EXCEPT ![r] = "http"] /\ answer' = answer /\ log' = log
        /\ run' \in {run, [run EXCEPT ![r] = "queued"]}
        /\ until' = [until EXCEPT ![r] = Total]
        /\ UNCHANGED slots /\ client' = client /\ mw' = mw /\ age' = age /\ sent' = sent
    BY <1>2 DEF Post, Go, HeaderDeadline
  <2>2. /\ app'[r] = "http" /\ run'[r] \in {"none", "queued"} /\ until'[r] = Total
    BY <1>0, <2>1 DEF Shapes
  <2>3. Shapes' /\ Others(r)
    BY <1>0, <2>1, Constants DEF Shapes, Others, App, Service, Run
  <2>4. RequestOK(r)'
    BY <1>0, <2>1, <2>2
       DEF RequestOK, RequestFits, AnswerFits, Expired, Early, Service
  <2>5. r \in running
    BY <1>0, Parts DEF PlacesOK, PlacesFit
  <2>6. PlacesOK' /\ ClientOK'
    BY <1>0, <1>2, <2>1, <2>2, <2>3, <2>5, PlacesKept, ClientKept DEF Holding
  <2> QED
    BY <2>3, <2>4, <2>6, OneRequest
<1> QED
  BY <1>1, <1>2

LEMMA HttpKeeps ==
    ASSUME RemoteInvariant, NEW r \in Request, Http(r)
    PROVE  RemoteInvariant'
<1>1. PICK a \in {"success", "error", "deadline"} :
        /\ Ends(r, a) /\ app[r] = "http"
        /\ a = "success" => run[r] = "uploaded"
        /\ a = "deadline" => Expired(r) \/ run[r] = "stopped"
  <2>1. CASE Answered(r)
    <3>1. PICK a \in Relayed(r) \cup {"error"} : Ends(r, a) /\ app[r] = "http"
      BY <2>1 DEF Answered
    <3>2. a \in Relayed(r) => \/ a = "success" /\ run[r] = "uploaded"
                              \/ a = "error"
                              \/ a = "deadline" /\ run[r] = "stopped"
      BY DEF Relayed
    <3> QED
      BY <3>1, <3>2
  <2>2. CASE HttpFails(r)
    BY <2>2 DEF HttpFails
  <2> QED
    BY <2>1, <2>2 DEF Http
<1>2. a \in Answer \ {"none"} /\ app[r] \in Service
  BY <1>1 DEF Answer, Service
<1> QED
  BY <1>1, <1>2, EndsKeeps

-----------------------------------------------------------------------------
(* The worker, the client and the clock.                                   *)

LEMMA RunGoesKeeps ==
    ASSUME RemoteInvariant, NEW r \in Request, NEW to \in Run \ {"none"}, RunGoes(r, to),
           run[r] \in {"queued", "working", "uploading"}
    PROVE  RemoteInvariant'
<1>0. Shapes /\ RequestOK(r)
  BY Parts
<1>1. /\ run' = [run EXCEPT ![r] = to] /\ until' = until
      /\ UNCHANGED slots /\ client' = client /\ mw' = mw /\ age' = age
      /\ app' = app /\ answer' = answer /\ log' = log /\ sent' = sent
  BY DEF RunGoes, route
<1>2. run'[r] = to
  BY <1>0, <1>1 DEF Shapes
<1>3. Shapes' /\ Others(r)
  BY <1>0, <1>1 DEF Shapes, Others
<1>4. RequestOK(r)'
  BY <1>0, <1>1, <1>2 DEF RequestOK, RequestFits, AnswerFits, Expired
<1>5. PlacesOK' /\ ClientOK'
  <2>1. app'[r] \in {"send", "http"} => r \in running
    BY <1>1, Parts DEF PlacesOK, PlacesFit
  <2> QED
    BY <1>1, <1>3, <2>1, PlacesKept, ClientKept
<1> QED
  BY <1>3, <1>4, <1>5, OneRequest

LEMMA WorkerKeeps ==
    ASSUME RemoteInvariant, NEW r \in Request, Worker(r)
    PROVE  RemoteInvariant'
<1>1. PICK to \in Run \ {"none"} :
        RunGoes(r, to) /\ run[r] \in {"queued", "working", "uploading"}
  BY DEF Worker, Starts, Stops, Fails, Upload, Uploaded, Run, Ended
<1> QED
  BY <1>1, RunGoesKeeps

\* A step of no request: the closing of the client and the clock.
LEMMA ClosingKeeps ==
    ASSUME RemoteInvariant, Closing \/ CloseCancelled
    PROVE  RemoteInvariant'
<1>0. Shapes /\ PlacesOK /\ ClientOK /\ \A r \in Request : RequestOK(r)
  BY Parts
<1>1. /\ UNCHANGED slots /\ mw' = mw /\ app' = app /\ answer' = answer /\ log' = log
      /\ age' = age /\ run' = run /\ until' = until /\ sent' = sent
      /\ client' \in {"closing", "closed", "cut"} /\ (client' = "closed" => Calls = {})
  BY DEF Closing, CloseCancelled, ClientGoes, route, worker
<1>2. Shapes' /\ \A r \in Request : RequestOK(r)'
  BY <1>0, <1>1 DEF Shapes, RequestOK, RequestFits, AnswerFits, Expired
<1>3. PlacesOK' /\ ClientOK'
  BY <1>0, <1>1
     DEF slots, PlacesOK, PlacesFit, PlacesHaveOwners, ClientOK, ClientOutlivesCalls, Calls
<1> QED
  BY <1>2, <1>3, WholeAfter

LEMMA TickKeeps ==
    ASSUME RemoteInvariant, Tick
    PROVE  RemoteInvariant'
<1>0. Shapes /\ PlacesOK /\ ClientOK /\ \A r \in Request : RequestOK(r)
  BY Parts
<1>1. /\ UNCHANGED slots /\ mw' = mw /\ app' = app /\ answer' = answer /\ log' = log
      /\ run' = run /\ until' = until /\ sent' = sent /\ client' = client
      /\ age' = [r \in Request |-> IF Ages(r) THEN age[r] + 1 ELSE age[r]]
  BY DEF Tick, route, worker
<1>2. \A r \in Request : age[r] \in 0..Total /\ age'[r] \in 0..Total /\ age[r] <= age'[r]
  BY <1>0, <1>1, Constants DEF Shapes, Ages
<1>3. Shapes'
  BY <1>0, <1>1, <1>2 DEF Shapes
<1>4. ASSUME NEW r \in Request PROVE RequestOK(r)'
  <2>1. Expired(r) => Expired(r)'
    BY <1>2, Constants DEF Expired
  <2> QED
    BY <1>0, <1>1, <2>1 DEF RequestOK, RequestFits, AnswerFits
<1>5. PlacesOK' /\ ClientOK'
  BY <1>0, <1>1
     DEF slots, PlacesOK, PlacesFit, PlacesHaveOwners, ClientOK, ClientOutlivesCalls, Calls
<1> QED
  BY <1>3, <1>4, <1>5, WholeAfter

-----------------------------------------------------------------------------
(* All steps.                                                              *)

LEMMA RemoteNextKeeps == RemoteInvariant /\ [Next]_vars => RemoteInvariant'
<1> SUFFICES ASSUME RemoteInvariant, [Next]_vars PROVE RemoteInvariant'
  OBVIOUS
<1>1. CASE UNCHANGED vars
  <2>1. /\ UNCHANGED slots /\ mw' = mw /\ app' = app /\ answer' = answer /\ log' = log
        /\ run' = run /\ until' = until /\ sent' = sent /\ client' = client
        /\ age' = age
    BY <1>1 DEF vars, route, worker
  <2>2. Shapes' /\ \A r \in Request : RequestOK(r)'
    BY <2>1, Parts DEF Shapes, RequestOK, RequestFits, AnswerFits, Expired
  <2>3. PlacesOK' /\ ClientOK'
    BY <2>1, Parts
       DEF slots, PlacesOK, PlacesFit, PlacesHaveOwners, ClientOK, ClientOutlivesCalls, Calls
  <2> QED
    BY <2>2, <2>3, WholeAfter
<1>2. CASE Closing \/ CloseCancelled \/ Tick
  BY <1>2, ClosingKeeps, TickKeeps
<1>3. ASSUME NEW r \in Request,
             \/ Arrive(r) \/ Middleware(r) \/ Route(r) \/ WaitEnds(r) \/ Http(r)
             \/ IsCancelled(r) \/ Worker(r)
      PROVE  RemoteInvariant'
  <2>1. CASE Middleware(r)
    <3>1. CASE CleansUp(r)
      BY <3>1, RouteGoesKeeps DEF CleansUp
    <3> QED
      BY <2>1, <3>1, MwGoesKeeps, TimesOutKeeps DEF Middleware
  <2>2. CASE Route(r)
    BY <2>2, LookupKeeps, HandOverKeeps, RespondKeeps, RespondedKeeps, CheckKeeps,
       AdmittedKeeps, PostKeeps DEF Route
  <2> QED
    BY <1>3, <2>1, <2>2, ArriveKeeps, WaitEndsKeeps, HttpKeeps, IsCancelledKeeps,
       WorkerKeeps
<1> QED
  BY <1>1, <1>2, <1>3 DEF Next

LEMMA RemoteInit == Init => RemoteInvariant
<1> SUFFICES ASSUME Init PROVE RemoteInvariant
  OBVIOUS
<1>1. /\ running = {} /\ queue = <<>> /\ client = "open"
      /\ mw = [r \in Request |-> "none"] /\ app = [r \in Request |-> "none"]
      /\ answer = [r \in Request |-> "none"] /\ age = [r \in Request |-> 0]
      /\ run = [r \in Request |-> "none"] /\ until = [r \in Request |-> 0]
      /\ sent = [r \in Request |-> <<>>] /\ log = [r \in Request |-> {}]
  BY DEF Init, Slots!Init
<1>2. Shapes
  BY <1>1, Constants DEF Shapes, Mw, App, Answer, Run
<1>3. \A r \in Request : RequestOK(r)
  BY <1>1 DEF RequestOK, RequestFits, AnswerFits, Early, Service, Log
<1>4. PlacesOK
  <2>1. Range(queue) = {} /\ IsInjective(queue) /\ queue \in Seq(Request)
    BY <1>1 DEF Range, IsInjective
  <2> QED
    BY <1>1, <2>1 DEF PlacesOK, PlacesFit, PlacesHaveOwners
<1>5. ClientOK
  BY <1>1 DEF ClientOK, ClientOutlivesCalls
<1> QED
  BY <1>2, <1>3, <1>4, <1>5, Whole

\* body_image_validation/remote.py and deadline_middleware.py, for any number of
\* requests, places and every deadline: one response and one summary for a
\* request, no place that outlives its request, no client closed under a call,
\* and no answer that is not true of the worker, whatever is lost, late or
\* cancelled.
THEOREM RemoteIsRight == Spec => []RemoteInvariant
BY RemoteInit, RemoteNextKeeps, PTL DEF Spec

\* service.py, check before the upload: the worker does not begin to store an image for
\* a caller who was told that its deadline passed, for every deadline and
\* every margin: the caller is told only at an age the header's deadline
\* forbids an upload at, or by the worker that stopped.
THEOREM NothingUploadedForNobody == Spec => NoUploadForNobody
<1>1. ASSUME RemoteInvariant, [Next]_vars, NEW r \in Request,
             run[r] # "uploading", run'[r] = "uploading"
      PROVE  sent[r] # <<"deadline">>
  <2>0. Shapes /\ RequestOK(r)
    BY <1>1, Parts
  <2>1. run[r] = "working" /\ TimeLeft(r, Margin)
    <3>1. ASSUME NEW q \in Request, NEW to, RunGoes(q, to)
          PROVE  run'[r] = IF q = r THEN to ELSE run[r]
      BY <2>0, <3>1 DEF RunGoes, Shapes
    <3>2. ASSUME NEW q \in Request, Post(q)
          PROVE  run'[r] = run[r] \/ run'[r] = "queued"
      BY <2>0, <3>2 DEF Post, Ends, worker, Shapes
    <3>3. PICK q \in Request : Worker(q)
      <4>1. CASE \E q \in Request : Post(q)
        BY <1>1, <3>2, <4>1
      <4>2. CASE run' = run
        BY <1>1, <4>2
      <4>3. CASE \E q \in Request : Route(q) /\ ~Post(q)
        <5>1. run' = run
          BY <4>3 DEF Route, Lookup, HandOver, Respond, Responded, Check, Admitted,
             RouteGoes, Ends, worker
        <5> QED
          BY <4>2, <5>1
      <4>4. CASE \E q \in Request : Arrive(q) \/ Middleware(q) \/ IsCancelled(q)
        <5>1. run' = run
          BY <4>4 DEF Arrive, Middleware, Serve, TimesOut, CleansUp, Returns, IsCancelled,
             MwGoes, RouteGoes, worker
        <5> QED
          BY <4>2, <5>1
      <4>5. CASE \E q \in Request : WaitEnds(q) \/ Http(q)
        <5>1. run' = run
          BY <4>5 DEF WaitEnds, Http, Answered, HttpFails, Ends, worker
        <5> QED
          BY <4>2, <5>1
      <4>6. CASE Closing \/ CloseCancelled \/ Tick \/ UNCHANGED vars
        <5>1. run' = run
          BY <4>6 DEF Closing, CloseCancelled, ClientGoes, Tick, vars, worker
        <5> QED
          BY <4>2, <5>1
      <4> QED
        BY <1>1, <4>1, <4>3, <4>4, <4>5, <4>6 DEF Next
    <3>4. CASE Upload(q)
      BY <1>1, <3>1, <3>4 DEF Upload
    <3>5. CASE Starts(q) \/ Stops(q) \/ Fails(q) \/ Uploaded(q)
      BY <1>1, <3>1, <3>5 DEF Starts, Stops, Fails, Uploaded
    <3> QED
      BY <3>3, <3>4, <3>5 DEF Worker
  <2>2. until[r] = Total /\ age[r] \in 0..Total
    BY <2>0, <2>1 DEF Shapes, RequestOK, RequestFits
  <2>3. ~Expired(r)
    BY <2>1, <2>2, Constants DEF TimeLeft, Expired
  <2> QED
    BY <2>0, <2>1, <2>3 DEF RequestOK, AnswerFits
<1>2. RemoteInvariant /\ [Next]_vars =>
        [\A r \in Request :
           run[r] # "uploading" /\ run'[r] = "uploading" => sent[r] # <<"deadline">>]_vars
  BY <1>1
<1> QED
  BY <1>2, RemoteIsRight, PTL DEF NoUploadForNobody, Spec
=============================================================================
