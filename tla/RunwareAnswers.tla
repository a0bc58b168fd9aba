----------------------------- MODULE RunwareAnswers -----------------------------
(***************************************************************************)
(* What the server takes an answer of Runware for.  Three readers look at  *)
(* answers about one generation: the response to the submission            *)
(* (runware_async.py), the status query (runware_status.py) and the        *)
(* Webhook (runware_webhook.py).  A reading that says the task was not     *)
(* accepted, or that its generation ended, lets a paid generation start    *)
(* again, so it has to be proven by everything the answer says of the task.*)
(*                                                                         *)
(* An answer is an HTTP status and a body: a list of results and a list of *)
(* errors, each about this task or about another one.  A behaviour is one  *)
(* answer and its reading; what the readings change in the row of the job  *)
(* is in AsyncJobState and RequestFlow.                                    *)
(***************************************************************************)
EXTENDS Naturals, FiniteSets, SequencesExt

CONSTANTS
    Ref,         \* results that may be stored (image_url, image_uuid)
    Http,        \* HTTP statuses; 0: no response was read
    Seconds,     \* seconds of guidance
    TooLarge,    \* guidance a float does not hold
    MaxEntries   \* results, and errors, in a body

NoRef == "none"

AnswersAssumption ==
    /\ NoRef \notin Ref /\ Http \subseteq Nat /\ Seconds \subseteq Nat
    /\ TooLarge \in Seconds /\ \A w \in Seconds : w <= TooLarge
    /\ MaxEntries \in Nat

VARIABLES
    answer,   \* what Runware sent
    reading   \* what each reader takes it for

vars == <<answer, reading>>

Codes == {"serviceOverloaded", "inferenceRateLimitExceeded", "timeoutProvider",
          "invalidApiKey", "none"}

\* A result; only the status query knows a result that is an error.
Results ==
    [own : {TRUE}, status : {"success"}, ref : Ref \cup {NoRef}, code : {"none"}]
    \cup [own : {TRUE}, status : {"processing"}, ref : {NoRef}, code : {"none"}]
    \cup [own : {TRUE}, status : {"error"}, ref : {NoRef},
          code : {"timeoutProvider", "none"}]
    \cup [own : {FALSE}, status : {"success"}, ref : Ref, code : {"none"}]

\* An error; wait is empty where the entry has no retryAfter.
Errors ==
    [own : {TRUE}, code : Codes, wait : {{}}]
    \cup [own : BOOLEAN, code : {"serviceOverloaded"}, wait : {{w} : w \in Seconds}]

Body == [json : {TRUE}, results : BoundedSeq(Results, MaxEntries),
         errors : BoundedSeq(Errors, MaxEntries)]
        \cup [json : {FALSE}, results : {<<>>}, errors : {<<>>}]

Own(entries) == {entries[i] : i \in {k \in DOMAIN entries : entries[k].own}}

-----------------------------------------------------------------------------
(* providers/runware_errors.py *)

Kind(code) ==
    CASE code \in {"serviceOverloaded", "inferenceRateLimitExceeded"} -> "notAccepted"
      [] code = "timeoutProvider" -> "fallback"
      [] code = "invalidApiKey" -> "auth"
      [] OTHER -> "unclear"

(* providers/runware_async.py *)

\* parse_retry_after: the longest of what is told, and a hold where one of it
\* cannot be represented.
Guidance(told) ==
    [hold |-> TooLarge \in told,
     seconds |-> IF TooLarge \in told THEN {}
                 ELSE {w \in told : \A v \in told : v <= w}]

Told(errors) == UNION {e.wait : e \in errors}

\* _task_error_kind: one kind, or none.
TaskErrorKind(errors) ==
    LET kinds == {Kind(e.code) : e \in errors}
    IN  IF Cardinality(kinds) = 1 THEN CHOOSE k \in kinds : TRUE
        ELSE IF "auth" \in kinds THEN "auth"
        ELSE IF kinds = {} THEN "no" ELSE "unclear"

\* Mutant: an error decides, whatever results the answer also holds.
Contradicts_Never(body) == FALSE

\* The same task has an error and is on its way.
Contradicts(body) ==
    /\ Own(body.errors) # {}
    /\ \E r \in Own(body.results) : r.status \in {"processing", "success"}

\* classify_response for a 2xx without a decisive error.
Accepted2xx(body) ==
    IF body.json /\ body.errors = <<>> /\ Own(body.results) # {} THEN "accepted"
    ELSE "unknown"

\* classify_response by the status alone.
ByHttp(http) ==
    CASE http = 402 -> "balance"
      [] http \in (400..499) \ {402, 408, 409, 429} -> "clientError"
      [] OTHER -> "unknown"

\* _send and classify_response.
ReadSubmission(http, body) ==
    LET kind == TaskErrorKind(Own(body.errors))
    IN  IF http = 0 \/ Contradicts(body) THEN "unknown"
        ELSE IF kind \in {"notAccepted", "fallback"} THEN kind
        ELSE IF http \in {401, 403} \/ (kind = "auth" /\ http < 500) THEN "auth"
        ELSE IF http \in 200..299 THEN Accepted2xx(body)
        ELSE ByHttp(http)

(* providers/runware_status.py *)

\* The errors of the task: the list, and the results that are errors.
FailuresOf(body) ==
    {e.code : e \in Own(body.errors)}
    \cup {r.code : r \in {x \in Own(body.results) : x.status = "error"}}

Successes(body) == {r \in Own(body.results) : r.status = "success"}

\* Several results of one task that differ: none is chosen.
OneRef(refs) == IF Cardinality(refs) = 1 THEN CHOOSE r \in refs : TRUE ELSE NoRef

\* parse_status: the first result that decides, then the errors.
FirstDecides(body) ==
    LET Decides(r) == r.own /\ r.status \in {"processing", "success"}
        i == SelectInSeq(body.results, Decides)
    IN  IF i = 0 THEN "no" ELSE body.results[i].status

SingleCode(codes) == IF Cardinality(codes) = 1 THEN CHOOSE c \in codes : TRUE ELSE "none"

ParseStatus(body) ==
    IF ~body.json \/ (FailuresOf(body) # {} /\ Successes(body) # {}) THEN "unknown"
    ELSE CASE FirstDecides(body) = "processing" -> "processing"
           [] FirstDecides(body) = "success" -> "succeeded"
           [] OTHER -> IF FailuresOf(body) = {} THEN "notFound"
                       ELSE Kind(SingleCode(FailuresOf(body)))

\* query and _http_error.
ReadStatus(http, body) ==
    CASE http \in 200..399 -> ParseStatus(body)
      [] http \in {401, 403} -> "authOfQuery"
      [] http = 429 -> "rateLimited"
      [] OTHER -> "unknown"

(* runware_webhook.py *)

\* One entry that is not supported refuses the whole body.
Supported(body) ==
    /\ body.json /\ body.results \o body.errors # <<>>
    /\ \A r \in ToSet(body.results) :
           r.status = "processing" \/ (r.status = "success" /\ r.ref # NoRef)
    /\ \A e \in ToSet(body.errors) : e.code # "none"

\* _without_conflicting_results for this task.
Conflicting(body) ==
    LET codes == {e.code : e \in Own(body.errors)}
    IN  \/ Cardinality(codes) > 1
        \/ codes # {} /\ Own(body.results) # {}

ReadWebhook(body) ==
    IF ~Supported(body) THEN "refused"
    ELSE IF Own(body.results) = {} /\ Own(body.errors) = {} THEN "notFound"
    ELSE IF Conflicting(body) THEN "processing"
    ELSE IF Own(body.errors) # {}
         THEN Kind(SingleCode({e.code : e \in Own(body.errors)}))
    ELSE IF Successes(body) # {} THEN "succeeded" ELSE "processing"

-----------------------------------------------------------------------------

SubmissionVerdict ==
    {"unknown", "notAccepted", "fallback", "auth", "accepted", "balance", "clientError"}

StatusVerdict ==
    {"unknown", "notAccepted", "fallback", "auth", "unclear", "processing", "succeeded",
     "notFound", "authOfQuery", "rateLimited"}

WebhookVerdict ==
    {"refused", "notFound", "processing", "succeeded", "notAccepted", "fallback", "auth",
     "unclear"}

Readings ==
    [submission : SubmissionVerdict \cup {""}, status : StatusVerdict \cup {""},
     webhook : WebhookVerdict \cup {""},
     ref : Ref \cup {NoRef}, guidance : [hold : BOOLEAN, seconds : SUBSET Seconds]]

Unread == [submission |-> "", status |-> "", webhook |-> "", ref |-> NoRef,
           guidance |-> [hold |-> FALSE, seconds |-> {}]]

NoAnswer == [http |-> 0, body |-> [json |-> FALSE, results |-> <<>>, errors |-> <<>>]]

Init == answer = NoAnswer /\ reading = Unread

\* An error status comes with errors, or with a body that is no answer; so
\* does a response that is cut.
Answers ==
    /\ answer = NoAnswer /\ reading = Unread
    /\ \E http \in Http \ {0}, body \in Body :
         /\ http >= 300 /\ body.json => body.errors # <<>>
         /\ answer' = [http |-> http, body |-> body]
    /\ UNCHANGED reading

ReadBy(http, body) ==
    [submission |-> ReadSubmission(http, body),
     status |-> ReadStatus(http, body),
     webhook |-> ReadWebhook(body),
     ref |-> OneRef({r.ref : r \in Successes(body)}),
     guidance |-> Guidance(Told(ToSet(body.errors)))]

Read ==
    /\ reading = Unread
    /\ reading' = ReadBy(answer.http, answer.body)
    /\ UNCHANGED answer

Next == Answers \/ Read

Spec == Init /\ [][Next]_vars

-----------------------------------------------------------------------------
(* Properties. *)

IsRead == reading # Unread

Verdicts == {reading.submission, reading.status, reading.webhook}

\* Codes a reader has to weigh: results that are errors are a form of the
\* status query, which the others do not look at.
Evidence(reader) ==
    IF reader = "status" THEN FailuresOf(answer.body)
    ELSE {e.code : e \in Own(answer.body.errors)}

\* runware_async.py:286: another generation is paid for only where everything
\* the answer says of the task is of that kind.
SpendsWhenProven ==
    \A reader \in {"submission", "status", "webhook"} :
        reading[reader] \in {"notAccepted", "fallback"} =>
            /\ Evidence(reader) # {}
            /\ \A code \in Evidence(reader) : Kind(code) = reading[reader]
            /\ \A r \in Own(answer.body.results) : r.status = "error"

\* The readers of one answer do not contradict each other: what one takes for
\* accepted, no other takes for never accepted, and what one takes for running
\* or done, no other takes for failed.  A processing Webhook decides nothing.
ReadersAgree ==
    LET onItsWay == (Verdicts \cap {"succeeded"})
                    \cup ({reading.status} \cap {"processing"})
    IN  /\ onItsWay \cup (Verdicts \cap {"accepted"}) # {} => "notAccepted" \notin Verdicts
        /\ onItsWay # {} => "fallback" \notin Verdicts

\* A success is one only without any error of the task, and its result is
\* stored only when the answer names one.
SuccessIsProven ==
    "succeeded" \in Verdicts =>
        /\ FailuresOf(answer.body) = {}
        /\ \A r \in Successes(answer.body) : reading.ref \in {r.ref, NoRef}

\* No send comes earlier than any part of the answer asks for.
GuidanceIsKept ==
    \A w \in Told(ToSet(answer.body.errors)) :
        reading.guidance.hold \/ \E s \in reading.guidance.seconds : s >= w

\* What is read is proven, by every reader.
ReadInvariant ==
    /\ reading \in Readings
    /\ answer = NoAnswer \/ answer \in [http : Http, body : Body]
    /\ IsRead => reading = ReadBy(answer.http, answer.body)
    /\ IsRead => SpendsWhenProven /\ ReadersAgree /\ SuccessIsProven /\ GuidanceIsKept
=============================================================================
