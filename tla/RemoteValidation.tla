-------------------------- MODULE RemoteValidation --------------------------
(***************************************************************************)
(* Remote body image validation: the AI Server (deadline middleware, route *)
(* and RemoteBodyImageValidationService on one event loop), Modal, and the *)
(* worker that runs BodyImageValidationService under the deadline sent in  *)
(* a header; with the closing of the shared HTTP client at shutdown.       *)
(*                                                                         *)
(* Time is the age of each request; the clocks of both sides agree.  The   *)
(* places are those of FifoSlots, which the limiter implements.            *)
(***************************************************************************)
EXTENDS Naturals, FiniteSets, Sequences, SequencesExt

CONSTANTS
    Request,
    MaxRunning, MaxWaiting,  \* of the limiter
    Total,                   \* REMOTE_TOTAL_DEADLINE_SECONDS
    Margin                   \* UPLOAD_MARGIN_SECONDS

ASSUME RemoteAssumption ==
    /\ {MaxRunning, Total, Margin} \subseteq Nat \ {0}
    /\ MaxWaiting \in Nat /\ Margin <= Total

VARIABLES
    running, queue,  \* the limiter
    client,          \* the shared client; cut if its closing was cancelled
    mw,              \* where the middleware is with each request
    app,             \* where the route and the service are
    answer,          \* the response the route will send
    age,             \* of each request
    run,             \* the worker's run of each request
    until,           \* the deadline in the header, as an age
    sent,            \* the responses that were started
    log              \* who wrote the summary of each request

slots == <<running, queue>>
route == <<app, answer, log>>
worker == <<run, until>>

vars == <<slots, client, mw, route, age, worker, sent>>

Slots == INSTANCE FifoSlots

Early == {"lookup", "read"}
Service == {"check", "queue", "send", "http"}

\* refused: before the image was posted.  error: of the worker, of Modal or of
\* the connection (400, 413, 422, 429, 500, 502, 503, 504).
Answer == {"none", "refused", "deadline", "error", "success"}

Ended == {"stopped", "failed", "uploaded"}

TypeOK ==
    /\ running \subseteq Request /\ queue \in Seq(Request)
    /\ client \in {"open", "closing", "closed", "cut"}
    /\ mw \in [Request -> {"none", "guarding", "serving", "cleaning", "cancelled", "done"}]
    /\ app \in [Request -> Early \cup Service \cup
                           {"none", "respond", "sending", "cleanup", "ended"}]
    /\ answer \in [Request -> Answer]
    /\ age \in [Request -> 0..Total]
    /\ run \in [Request -> {"none", "queued", "working", "uploading"} \cup Ended]
    /\ until \in [Request -> Nat]
    /\ sent \in [Request -> Seq(Answer)]
    /\ log \in [Request -> SUBSET {"middleware", "service"}]

\* The lifespan has started the runtime and opened the client.
Init ==
    /\ Slots!Init
    /\ client = "open"
    /\ mw = [r \in Request |-> "none"] /\ app = [r \in Request |-> "none"]
    /\ answer = [r \in Request |-> "none"]
    /\ age = [r \in Request |-> 0]
    /\ run = [r \in Request |-> "none"] /\ until = [r \in Request |-> 0]
    /\ sent = [r \in Request |-> <<>>] /\ log = [r \in Request |-> {}]

-----------------------------------------------------------------------------
(* Helpers. *)

Expired(r) == age[r] >= Total

\* Mutant: a call that is cancelled does not give the client back.
Calls_KeptWhenCancelled ==
    {r \in Request : app[r] = "http" \/ (mw[r] = "cancelled" /\ until[r] > 0)}

\* The calls that have borrowed the client: _shared_calls.
Calls == {r \in Request : app[r] = "http"}

\* The guard of the middleware is done.
HandedOver(r) == app[r] \in Service \/ "service" \in log[r]

Go(r, pc) ==
    /\ app' = [app EXCEPT ![r] = pc]
    /\ UNCHANGED <<answer, log>>

RouteGoes(r, pc) == Go(r, pc) /\ UNCHANGED <<slots, client, mw, age, worker, sent>>

MwGoes(r, pc) == mw' = [mw EXCEPT ![r] = pc] /\ UNCHANGED <<client, age, worker>>

\* The route has its response.
Answers(r, a) ==
    /\ app' = [app EXCEPT ![r] = "respond"]
    /\ answer' = [answer EXCEPT ![r] = a]

\* The place of r, or its place in the queue, goes to those who wait.
LeavesPlace(r) ==
    CASE r \in running /\ queue # <<>> -> Slots!PassOn(r)
      [] r \in running /\ queue = <<>> -> Slots!Leave(r)
      [] r \in Range(queue) -> Slots!GiveUp(r)
      [] OTHER -> UNCHANGED slots

\* The service is done with r; it writes the summary.
Summary(r, owner) == log' = [log EXCEPT ![r] = @ \cup {owner}]

Ends(r, a) ==
    /\ Answers(r, a) /\ Summary(r, "service") /\ LeavesPlace(r)
    /\ UNCHANGED <<client, mw, age, worker, sent>>

-----------------------------------------------------------------------------
(* BodyImageDeadlineMiddleware. *)

Arrive(r) ==
    /\ mw[r] = "none"
    /\ MwGoes(r, "guarding") /\ Go(r, "lookup")
    /\ UNCHANGED <<slots, sent>>

\* The wait ends: the route is done, or the service minds the deadline now.
Serve(r) ==
    /\ mw[r] = "guarding" /\ (app[r] = "ended" \/ HandedOver(r))
    /\ MwGoes(r, "serving")
    /\ UNCHANGED <<slots, route, sent>>

\* Or the deadline passed first: what the route sends from now on is dropped,
\* and 504 is sent unless a response was started.
\* Mutant: the route has been handed over, and its guard is still pending.
MayTimeOut_HandedOver(r) == mw[r] = "guarding" /\ Expired(r) /\ app[r] # "ended"

MayTimeOut(r) ==
    mw[r] = "guarding" /\ Expired(r) /\ app[r] # "ended" /\ ~HandedOver(r)

TimesOut(r) ==
    /\ MayTimeOut(r)
    /\ MwGoes(r, "cleaning")
    /\ app' = [app EXCEPT ![r] = "cleanup"]
    /\ answer' = [answer EXCEPT ![r] = "none"]
    /\ Summary(r, "middleware")
    /\ sent' = [sent EXCEPT ![r] = IF @ = <<>> THEN <<"deadline">> ELSE @]
    /\ UNCHANGED slots

CleansUp(r) == app[r] = "cleanup" /\ RouteGoes(r, "ended")

Returns(r) ==
    /\ mw[r] \in {"serving", "cleaning"} /\ app[r] = "ended"
    /\ MwGoes(r, "done")
    /\ UNCHANGED <<slots, route, sent>>

\* The server cancels the request and with it the task of the route; whoever
\* guards the deadline writes the summary.
IsCancelled(r) ==
    /\ mw[r] \in {"guarding", "serving"}
    /\ MwGoes(r, "cancelled")
    /\ app' = [app EXCEPT ![r] = "ended"]
    /\ CASE app[r] \in Service -> Summary(r, "service")
         [] app[r] \notin Service /\ mw[r] = "guarding" /\ ~HandedOver(r) ->
              Summary(r, "middleware")
         [] OTHER -> UNCHANGED log
    /\ answer' = [answer EXCEPT ![r] = "none"]
    /\ LeavesPlace(r)
    /\ UNCHANGED sent

-----------------------------------------------------------------------------
(* The route. *)

\* Parsing, authentication and get_service: the manager has no runtime once it
\* is closed.
Lookup(r) ==
    /\ app[r] = "lookup"
    /\ \/ client \in {"open", "closing"} /\ RouteGoes(r, "read")
       \/ Answers(r, "refused") /\ UNCHANGED <<slots, client, mw, age, worker, sent, log>>

\* hand_over: from here the service minds the deadline.
HandOver(r) ==
    /\ app[r] = "read"
    /\ IF Expired(r) THEN Ends(r, "deadline") ELSE RouteGoes(r, "check")

\* guarded_send: the response starts, and then ends.
Respond(r) ==
    /\ app[r] = "respond"
    /\ Go(r, "sending")
    /\ sent' = [sent EXCEPT ![r] = Append(@, answer[r])]
    /\ UNCHANGED <<slots, client, mw, age, worker>>

Responded(r) ==
    /\ app[r] = "sending"
    /\ app' = [app EXCEPT ![r] = "ended"] /\ answer' = [answer EXCEPT ![r] = "none"]
    /\ UNCHANGED <<slots, client, mw, age, worker, sent, log>>

-----------------------------------------------------------------------------
(* RemoteBodyImageValidationService. *)

\* The header of the image is read in a thread, then a place is asked for.
Check(r) ==
    /\ app[r] = "check"
    /\ \/ Ends(r, IF Expired(r) THEN "deadline" ELSE "refused")
       \/ /\ ~Expired(r)
          /\ IF queue = <<>> /\ Slots!Free THEN Slots!Enter(r) /\ Go(r, "send")
             ELSE Slots!Wait(r) /\ Go(r, "queue")
          /\ UNCHANGED <<client, mw, age, worker, sent>>
       \/ /\ ~Expired(r) /\ ~(queue = <<>> /\ Slots!Free) /\ Len(queue) = MaxWaiting
          /\ Ends(r, "refused")

Admitted(r) ==
    /\ app[r] = "queue" /\ r \in running
    /\ IF Expired(r) THEN Ends(r, "deadline") ELSE RouteGoes(r, "send")

\* max_wait_seconds are over, or the deadline is.
WaitEnds(r) ==
    /\ app[r] = "queue" /\ r \in Range(queue)
    /\ Ends(r, IF Expired(r) THEN "deadline" ELSE "refused")

HeaderDeadline(r) == Total

\* The client is borrowed and the image posted, once; it may not arrive.
Post(r) ==
    /\ app[r] = "send"
    /\ CASE Expired(r) -> Ends(r, "deadline")
         [] ~Expired(r) /\ client # "open" -> Ends(r, "refused")
         [] OTHER ->
              /\ Go(r, "http")
              /\ run' \in {run, [run EXCEPT ![r] = "queued"]}
              /\ until' = [until EXCEPT ![r] = HeaderDeadline(r)]
              /\ UNCHANGED <<slots, client, mw, age, sent>>

\* What the worker, or Modal in its place, answers (_result); redirects to the
\* result of the run are followed, or end the call.
Relayed(r) ==
    CASE run[r] = "uploaded" -> {"success"}
      [] run[r] = "failed" -> {"error"}
      [] run[r] = "stopped" -> {"deadline"}
      [] OTHER -> {}

Answered(r) ==
    /\ app[r] = "http" /\ client # "cut"
    /\ \E a \in Relayed(r) \cup {"error"} : Ends(r, a)

\* The connection fails, a network timeout ends or asyncio.timeout does.
HttpFails(r) ==
    /\ app[r] = "http"
    /\ \/ Ends(r, "error")
       \/ Expired(r) /\ Ends(r, "deadline")

-----------------------------------------------------------------------------
(* BodyImageValidationService on the worker, from its deadline checks. *)

RunGoes(r, to) ==
    /\ run' = [run EXCEPT ![r] = to]
    /\ UNCHANGED <<slots, client, mw, route, age, until, sent>>

\* Mutant: the header is not read, and every check goes by.
TimeLeft_NoHeader(r, margin) == TRUE

\* deadline.check
TimeLeft(r, margin) == age[r] + margin < until[r]

\* before_processing
Starts(r) == run[r] = "queued" /\ TimeLeft(r, 0) /\ RunGoes(r, "working")

\* before_processing, before_background_removal
Stops(r) == run[r] \in {"queued", "working"} /\ ~TimeLeft(r, 0) /\ RunGoes(r, "stopped")

Fails(r) == run[r] \in {"queued", "working"} /\ RunGoes(r, "failed")

\* before_upload
Upload(r) ==
    /\ run[r] = "working"
    /\ RunGoes(r, IF TimeLeft(r, Margin) THEN "uploading" ELSE "stopped")

Uploaded(r) == run[r] = "uploading" /\ \E to \in {"uploaded", "failed"} : RunGoes(r, to)

-----------------------------------------------------------------------------
(* The shutdown and the clock. *)

ClientGoes(to) ==
    /\ client' = to
    /\ UNCHANGED <<slots, mw, route, age, worker, sent>>

\* aclose refuses new calls and waits for those that run, unless it is
\* cancelled.
Closing ==
    \/ client = "open" /\ ClientGoes("closing")
    \/ client = "closing" /\ Calls = {} /\ ClientGoes("closed")

CloseCancelled == client = "closing" /\ Calls # {} /\ ClientGoes("cut")

\* The ages somebody still looks at; Total is as good as any later one.
Ages(r) ==
    /\ age[r] < Total
    /\ mw[r] \notin {"none", "done", "cancelled"} \/ run[r] \notin Ended \cup {"none"}

Tick ==
    /\ \E r \in Request : Ages(r)
    /\ age' = [r \in Request |-> IF Ages(r) THEN age[r] + 1 ELSE age[r]]
    /\ UNCHANGED <<slots, client, mw, route, worker, sent>>

Middleware(r) == Serve(r) \/ TimesOut(r) \/ CleansUp(r) \/ Returns(r)

Route(r) ==
    \/ Lookup(r) \/ HandOver(r) \/ Respond(r) \/ Responded(r)
    \/ Check(r) \/ Admitted(r) \/ Post(r)

Http(r) == Answered(r) \/ HttpFails(r)

Worker(r) == Starts(r) \/ Stops(r) \/ Fails(r) \/ Upload(r) \/ Uploaded(r)

Next ==
    \/ \E r \in Request :
         \/ Arrive(r) \/ Middleware(r) \/ Route(r) \/ WaitEnds(r) \/ Http(r)
         \/ IsCancelled(r) \/ Worker(r)
    \/ Closing \/ CloseCancelled \/ Tick

Spec == Init /\ [][Next]_vars

\* The event loop runs what is ready, timeouts fire, time passes; neither
\* Modal nor the worker has to answer.
Fairness ==
    /\ \A r \in Request :
         /\ WF_vars(Middleware(r)) /\ WF_vars(Route(r))
         /\ WF_vars(Expired(r) /\ (WaitEnds(r) \/ HttpFails(r)))
    /\ WF_vars(client = "closing" /\ Closing)
    /\ WF_vars(Tick)

FairSpec == Spec /\ Fairness

-----------------------------------------------------------------------------
(* Properties. *)

\* A request gets at most one response, whoever sends it, and has one when the
\* middleware returns.
AnsweredOnce ==
    \A r \in Request :
        /\ Len(sent[r]) <= 1
        /\ mw[r] = "done" => Len(sent[r]) = 1

\* One owner of the deadline writes the summary: the middleware until the
\* service takes over, the service from then on.
OneSummary == \A r \in Request : Cardinality(log[r]) <= 1

\* A place, or one in the queue, is held by a request that is in the service:
\* none outlives its request.
PlacesHaveOwners ==
    \A r \in Request : r \in running \cup Range(queue) <=> app[r] \in {"queue", "send", "http"}

\* The client is not closed under a call that uses it, unless the shutdown
\* itself was cut short.
ClientOutlivesCalls == client = "closed" => Calls = {}

\* A success is only told of a stored image; nothing was posted for an image
\* that was refused before.
AnswersAreTrue ==
    \A r \in Request :
        /\ sent[r] = <<"success">> => run[r] = "uploaded"
        /\ sent[r] = <<"refused">> => run[r] = "none"

\* How far the middleware, the route and the worker can be with one request at
\* the same time, and with what is known, sent and logged of it.
RequestFits(r) ==
    /\ mw[r] = "none" <=> app[r] = "none"
    /\ app[r] \in Early => mw[r] = "guarding"
    /\ app[r] \in Service \cup {"respond", "sending"} => mw[r] \in {"guarding", "serving"}
    /\ app[r] = "cleanup" => mw[r] = "cleaning"
    /\ app[r] \in {"none"} \cup Early \cup Service => answer[r] = "none" /\ log[r] = {}
    /\ app[r] \in {"none", "respond"} \cup Early \cup Service => sent[r] = <<>>
    /\ app[r] = "respond" => answer[r] # "none"
    /\ app[r] = "sending" => sent[r] = <<answer[r]>>
    /\ app[r] = "cleanup" \/ (app[r] = "ended" /\ mw[r] # "cancelled") => Len(sent[r]) = 1
    /\ "middleware" \in log[r] => mw[r] \in {"cleaning", "cancelled", "done"}
    /\ app[r] \in {"none", "check", "queue", "send"} \cup Early => run[r] = "none"
    /\ run[r] # "none" => until[r] = Total

\* What is about to be sent is as true as what was sent; who is told that its
\* deadline passed has no time left, or a worker that stopped for it.
AnswerFits(r) ==
    /\ answer[r] = "success" => run[r] = "uploaded"
    /\ answer[r] = "refused" => run[r] = "none"
    /\ answer[r] = "deadline" \/ sent[r] = <<"deadline">> => Expired(r) \/ run[r] = "stopped"

\* Nobody stands twice in the queue or has a place beside it, and who uses the
\* client has one.
PlacesFit ==
    /\ IsInjective(queue) /\ running \cap Range(queue) = {}
    /\ \A r \in Request : app[r] \in {"send", "http"} => r \in running

\* All of this at once, in every state.
RemoteInvariant ==
    /\ TypeOK /\ AnsweredOnce /\ OneSummary /\ PlacesHaveOwners
    /\ ClientOutlivesCalls /\ AnswersAreTrue
    /\ PlacesFit /\ \A r \in Request : RequestFits(r) /\ AnswerFits(r)

\* Once the caller was told that its deadline passed, the worker stores no
\* image for it: it does not begin to, although it does not hear of the end.
NoUploadForNobody ==
    [][\A r \in Request :
         run[r] # "uploading" /\ run'[r] = "uploading" => sent[r] # <<"deadline">>]_vars

\* Every request that arrived comes to its end and so does the closing, whatever
\* Modal does: there is no request, no place and no call that stays.
RemoteEnds ==
    <>[](/\ \A r \in Request : mw[r] \in {"none", "done", "cancelled"}
         /\ client # "closing")
=============================================================================
