------------------------------- MODULE CloudCalls -------------------------------
(***************************************************************************)
(* One call of the clients of SQS (clients/sqs.py) and S3 (clients/s3.py), *)
(* what the service did, and what the client tells its caller.  Whether a  *)
(* message was sent or an object stored is often unknown: the service may  *)
(* act and its answer be lost.  The SQS clients send one request; the S3   *)
(* client has the SDK's retries, so an answer may be about an object that  *)
(* an earlier request of the same call stored.                             *)
(***************************************************************************)
EXTENDS Naturals

CONSTANT MaxTries     \* requests the SDK sends for one call of the S3 client

CloudAssumption == MaxTries \in Nat \ {0}

VARIABLES
    op,        \* the operation
    queue,     \* its queue (SQS)
    phase,     \* "new", "asking", "answered", "done"
    tries,     \* requests sent
    acted,     \* the service carried out a request of this call (SQS)
    object,    \* the object at the key: "absent", "mine", "other" (S3)
    seen,      \* the object when the service answered
    answer,    \* what the SDK gives the client
    outcome    \* what the client tells its caller

vars == <<op, queue, phase, tries, acted, object, seen, answer, outcome>>

SqsOperation == {"send", "receive", "delete", "change_visibility"}

S3Operation == {"put_if_absent", "head", "get"}

FittingQueue == {"BE_FITTING_REQUEST", "AI_FITTING_RESPONSE", "BE_FITTING_RESPONSE"}

Consume == {"receive", "delete", "change_visibility"}

AllowedOperations ==
    [BE_FITTING_REQUEST |-> Consume, AI_FITTING_RESPONSE |-> Consume \cup {"send"},
     BE_FITTING_RESPONSE |-> {"send"}]

\* The request was refused, or not sent at all; the service did nothing.
Refused == {"4xx", "throttled", "notConnected", "credentials", "invalidRequest"}

\* The service may or may not have acted.
Lost == {"5xx", "readTimeout", "connectionClosed"}

\* What the SDK asks again for, as long as it may.
Retryable == Lost \cup {"throttled", "notConnected"}

Answers ==
    {"ok", "okWithoutId", "403", "404", "409", "412", "brokenBody"} \cup Refused \cup Lost

Outcomes ==
    {"none", "rejected", "succeeded", "failed", "unknown", "created", "exists",
     "conflict", "not_found", "access_denied", "transient_error", "error"}

TypeOK ==
    /\ phase # "new" => op \in SqsOperation \cup S3Operation /\ queue \in FittingQueue
    /\ phase \in {"new", "asking", "answered", "done"}
    /\ tries \in 0..MaxTries /\ acted \in BOOLEAN
    /\ {object, seen} \subseteq {"absent", "mine", "other"}
    /\ answer \in Answers \cup {"none"}
    /\ outcome \in Outcomes

Init ==
    /\ op = "none" /\ queue = "none"
    /\ phase = "new" /\ tries = 0 /\ acted = FALSE
    /\ object = "absent" /\ seen = "absent"
    /\ answer = "none" /\ outcome = "none"

IsSqs == op \in SqsOperation

-----------------------------------------------------------------------------
(* The call. *)

MayAsk(o, q) == o \in SqsOperation => o \in AllowedOperations[q]

\* _url, _check_int, encode_json_body, validate_s3_key: what the client refuses
\* before it asks, with an exception.
Begin ==
    /\ phase = "new"
    /\ op' \in SqsOperation \cup S3Operation /\ queue' \in FittingQueue
    /\ object' \in {"absent", "other"} /\ seen' = object'
    /\ \/ MayAsk(op', queue') /\ phase' = "asking" /\ UNCHANGED outcome
       \/ phase' = "done" /\ outcome' = "rejected"
    /\ UNCHANGED <<tries, acted, answer>>

\* A request that the service does not carry out.
NotDone ==
    /\ \/ answer' \in Refused \cup Lost
       \/ ~IsSqs /\ answer' = "403"
       \/ op = "put_if_absent" /\ answer' = "409"
       \/ op = "put_if_absent" /\ object # "absent" /\ answer' = "412"
       \/ op \in {"head", "get"} /\ object = "absent" /\ answer' = "404"
    /\ UNCHANGED <<acted, object>>

\* One that it does; then the answer may be lost.
Done ==
    /\ op = "put_if_absent" => object = "absent"
    /\ op \in {"head", "get"} => object # "absent"
    /\ \/ answer' \in {"ok"} \cup Lost
       \/ op = "send" /\ answer' = "okWithoutId"
       \/ op = "get" /\ answer' = "brokenBody"
    /\ acted' = TRUE
    /\ object' = IF op = "put_if_absent" THEN "mine" ELSE object

Limit == IF IsSqs THEN 1 ELSE MaxTries

Ask ==
    /\ phase = "asking" /\ tries < Limit
    /\ tries' = tries + 1
    /\ NotDone \/ Done
    /\ seen' = object'
    /\ phase' = IF answer' \in Retryable /\ tries' < Limit THEN "asking" ELSE "answered"
    /\ UNCHANGED <<op, queue, outcome>>

\* The same key, written by another call.
OtherStores ==
    /\ ~IsSqs /\ phase \in {"asking", "answered"} /\ object = "absent"
    /\ object' = "other"
    /\ UNCHANGED <<op, queue, phase, tries, acted, seen, answer, outcome>>

-----------------------------------------------------------------------------
(* What the clients make of an answer. *)

\* sqs.py _classify_error and send_json.
SqsOutcome ==
    CASE answer = "ok" -> "succeeded"
      [] answer \in Refused -> "failed"
      [] OTHER -> "unknown"

\* s3.py put_object_if_absent: a connection error may come after the request.
PutOutcome ==
    CASE answer = "ok" -> "created"
      [] answer = "412" -> "exists"
      [] answer = "409" -> "conflict"
      [] answer \in Retryable -> "unknown"
      [] OTHER -> "failed"

\* s3.py head_object, get_object_limited and _classify_client_error.
ReadOutcome ==
    CASE answer = "ok" -> "exists"
      [] answer = "404" -> "not_found"
      [] answer = "403" -> "access_denied"
      [] answer \in Retryable -> "transient_error"
      [] OTHER -> "error"

Tell ==
    /\ phase = "answered" /\ phase' = "done"
    /\ outcome' = IF IsSqs THEN SqsOutcome
                  ELSE IF op = "put_if_absent" THEN PutOutcome ELSE ReadOutcome
    /\ UNCHANGED <<op, queue, tries, acted, object, seen, answer>>

Next == Begin \/ Ask \/ OtherStores \/ Tell

Spec == Init /\ [][Next]_vars

-----------------------------------------------------------------------------
(* Properties. *)

\* sqs.py:83: a failure was not carried out, a success was, and no call sends
\* more than one request, none of them outside the role of this server.
SqsTellsTheTruth ==
    IsSqs =>
        /\ outcome = "failed" => ~acted
        /\ outcome = "succeeded" => acted
        /\ tries <= 1 /\ (tries > 0 => op \in AllowedOperations[queue])

\* s3.py:139: an object is reported as created or there only when it is, and a
\* failure after one request stored nothing.  After retries it may have.
PutTellsTheTruth ==
    op = "put_if_absent" =>
        /\ outcome = "created" => object = "mine"
        /\ outcome = "exists" => object # "absent"
        /\ outcome = "failed" /\ tries = 1 => object # "mine"

\* s3.py:88: there and not there are said only of what the service looked at.
ReadTellsTheTruth ==
    op \in {"head", "get"} =>
        /\ outcome = "exists" => seen # "absent"
        /\ outcome = "not_found" => seen = "absent"

\* What the last answer says of the service, before the caller is told.
AnswerFits ==
    /\ phase # "done" => outcome = "none"
    /\ phase = "new" => op = "none" /\ tries = 0 /\ ~acted
    /\ phase \in {"asking", "answered"} => MayAsk(op, queue)
    /\ IsSqs /\ phase = "asking" => tries = 0 /\ ~acted
    /\ IsSqs /\ phase = "answered" =>
         /\ tries = 1
         /\ answer \in Refused => ~acted
         /\ answer = "ok" => acted
    /\ op = "put_if_absent" /\ phase = "asking" /\ tries = 0 => object # "mine"
    /\ op = "put_if_absent" /\ phase = "answered" =>
         /\ answer = "ok" => object = "mine"
         /\ answer = "412" => object # "absent"
         /\ tries = 1 /\ answer \notin {"ok"} \cup Lost => object # "mine"
    /\ op \in {"head", "get"} /\ phase = "answered" =>
         /\ answer = "ok" => seen # "absent"
         /\ answer = "404" => seen = "absent"

\* A caller who is told something definite may act on it.
CloudInvariant ==
    TypeOK /\ AnswerFits /\ SqsTellsTheTruth /\ PutTellsTheTruth /\ ReadTellsTheTruth
=============================================================================
