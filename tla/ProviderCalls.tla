----------------------------- MODULE ProviderCalls -----------------------------
(* One request of a turn to its model: the runner's timeout around the retries, the retries    *)
(* around FallbackProvider, its primary model, tried first over the Responses API, and the     *)
(* fallback models. Requests of several turns share the provider and its circuit breakers.     *)
EXTENDS Naturals, FiniteSets

CONSTANTS
    Reqs,           \* requests
    Models,         \* number of fallback models
    Images,         \* requests whose messages hold images
    Persistent,     \* requests with retry_mode "persistent"
    Responses,      \* requests the Responses API is wanted for
    Retries,        \* number of _CHAT_RETRY_DELAYS
    SameLimit,      \* _PERSISTENT_IDENTICAL_ERROR_LIMIT
    Threshold,      \* _PRIMARY_FAILURE_THRESHOLD
    ApiThreshold,   \* _RESPONSES_FAILURE_THRESHOLD
    MaxErrors       \* errors of all models together

ASSUME ProviderAssumption ==
    /\ Models \in Nat /\ Retries \in Nat /\ SameLimit \in Nat \ {0} /\ Threshold \in Nat \ {0}
    /\ ApiThreshold \in Nat \ {0} /\ MaxErrors \in Nat
    /\ Images \subseteq Reqs /\ Persistent \subseteq Reqs /\ Responses \subseteq Reqs

\* Errors: a rate limit, a spent quota, a refusal for good; "none": no fallback model could be built.
Errors == {"rate", "quota", "fatal"}
\* _is_transient_response.
Transient(e) == e = "rate"
\* _should_fallback.
Fallbackable(e) == e \in {"rate", "quota"}

VARIABLES
    at,          \* per request: "idle", "responses", "chat", "fallback", "waiting", "done", "failed", "timedout"
    try,         \* attempt
    model,       \* the fallback model that is asked
    streamed,    \* has_streamed of this call
    stripping,   \* the call without images is under way
    lastErr, same,      \* last_error_key, identical_error_count
    hasImages,   \* requests whose messages still hold images
    failures,    \* _primary_failures
    tripped,     \* _primary_tripped_at: "no", "recent", "old"
    apiFailures, \* the Responses breaker: its failures ...
    apiRecent,   \* ... and whether the last of them is younger than the probe interval
    errors,
    queries,       \* history: calls of FallbackProvider made so far, by request
    voices,      \* history: <<call, model>> that streamed text, by request (model 0 is the primary)
    sinceOk      \* history: fallbackable failures of the primary since its last success

providerVars == <<at, try, model, streamed, stripping, lastErr, same, hasImages, failures, tripped, apiFailures,
                  apiRecent, errors, queries, voices, sinceOk>>

ProviderInit ==
    /\ at = [r \in Reqs |-> "idle"] /\ try = [r \in Reqs |-> 0] /\ model = [r \in Reqs |-> 0]
    /\ streamed = [r \in Reqs |-> FALSE] /\ stripping = [r \in Reqs |-> FALSE]
    /\ lastErr = [r \in Reqs |-> "none"] /\ same = [r \in Reqs |-> 0] /\ hasImages = Images
    /\ failures = 0 /\ tripped = "no" /\ apiFailures = 0 /\ apiRecent = FALSE /\ errors = 0
    /\ queries = [r \in Reqs |-> 0] /\ voices = [r \in Reqs |-> {}] /\ sinceOk = 0

\* _primary_available: not tripped, or long enough ago.
PrimaryAvailable == tripped # "recent"
\* circuit_allows_request: the breaker of the model and its effort is closed, or its probe is due.
CircuitAllows == apiFailures < ApiThreshold \/ ~apiRecent
\* _should_use_responses_api.
UseResponses(r) == r \in Responses /\ CircuitAllows

\* chat_stream of FallbackProvider begins, also when there is nothing to fall back to.
BeginCall(r) ==
    /\ streamed' = [streamed EXCEPT ![r] = FALSE] /\ queries' = [queries EXCEPT ![r] = @ + 1]
    /\ IF Models = 0 \/ PrimaryAvailable
       THEN at' = [at EXCEPT ![r] = IF UseResponses(r) THEN "responses" ELSE "chat"] /\ model' = [model EXCEPT ![r] = 0]
       ELSE at' = [at EXCEPT ![r] = "fallback"] /\ model' = [model EXCEPT ![r] = 1]

breakers == <<failures, tripped, apiFailures, apiRecent>>

\* chat_stream_with_retry, chat_with_retry: the first attempt.
WithRetry(r) == BeginCall(r) /\ try' = [try EXCEPT ![r] = 1]

\* _request_model.
Ask(r) ==
    /\ at[r] = "idle" /\ WithRetry(r)
    /\ UNCHANGED <<stripping, lastErr, same, hasImages, breakers, errors, voices, sinceOk>>

Active(r) == at[r] \in {"responses", "chat", "fallback"}

\* A piece of text arrives and is shown.
Delta(r) ==
    /\ Active(r) /\ streamed' = [streamed EXCEPT ![r] = TRUE]
    /\ voices' = [voices EXCEPT ![r] = @ \cup {<<queries[r], model[r]>>}]
    /\ UNCHANGED <<at, try, model, stripping, lastErr, same, hasImages, breakers, errors, queries,
                   sinceOk>>

\* _strip_image_content_inplace: text stands for the images of the request from now on.
WithoutImages(r) == hasImages \ {r}

\* A whole answer: a primary closes its breakers.
Succeed(r) ==
    /\ Active(r) /\ at' = [at EXCEPT ![r] = "done"]
    /\ IF at[r] # "fallback" /\ Models > 0 THEN failures' = 0 /\ tripped' = "no" /\ sinceOk' = 0
       ELSE UNCHANGED <<failures, tripped, sinceOk>>
    /\ IF at[r] = "responses" THEN apiFailures' = 0 /\ apiRecent' = FALSE ELSE UNCHANGED <<apiFailures, apiRecent>>
    /\ hasImages' = IF stripping[r] THEN WithoutImages(r) ELSE hasImages
    /\ UNCHANGED <<try, model, streamed, stripping, lastErr, same, errors, queries, voices>>

\* The Responses API does not fit: noted, and the same call goes on as a chat completion.
ApiMisfit(r) ==
    /\ at[r] = "responses" /\ ~streamed[r] /\ errors < MaxErrors /\ errors' = errors + 1
    /\ at' = [at EXCEPT ![r] = "chat"]
    /\ apiFailures' = IF apiFailures < ApiThreshold THEN apiFailures + 1 ELSE apiFailures
    /\ apiRecent' = (apiFailures' >= ApiThreshold \/ apiRecent)
    /\ UNCHANGED <<try, model, streamed, stripping, lastErr, same, hasImages, failures, tripped,
                   queries, voices, sinceOk>>

\* _run_with_retry gives up.
GivesUp(r, times) ==
    IF r \in Persistent THEN times >= SameLimit ELSE try[r] > Retries

\* _run_with_retry has the error e of a call: it waits, asks again without images, or is done.
Answer(r, e) ==
    LET times == IF e = lastErr[r] THEN same[r] + 1 ELSE 1 IN
    IF stripping[r]
    THEN at' = [at EXCEPT ![r] = "failed"] /\ UNCHANGED <<lastErr, same, stripping, streamed, model, queries>>
    ELSE /\ lastErr' = [lastErr EXCEPT ![r] = e] /\ same' = [same EXCEPT ![r] = times]
         /\ IF Transient(e)
            THEN /\ at' = [at EXCEPT ![r] = IF GivesUp(r, times) THEN "failed" ELSE "waiting"]
                 /\ UNCHANGED <<stripping, streamed, model, queries>>
            ELSE IF r \in hasImages THEN stripping' = [stripping EXCEPT ![r] = TRUE] /\ BeginCall(r)
            ELSE at' = [at EXCEPT ![r] = "failed"] /\ UNCHANGED <<stripping, streamed, model, queries>>

\* The next fallback model, or the last response.
NextModel(r, e) ==
    IF model[r] < Models /\ ~streamed[r]
    THEN /\ at' = [at EXCEPT ![r] = "fallback"] /\ model' = [model EXCEPT ![r] = @ + 1]
         /\ UNCHANGED <<lastErr, same, stripping, streamed, queries>>
    ELSE Answer(r, e)

\* Mutant: a model that has streamed is followed by the next one.
PrimaryGoesOn(r, e) ==
    /\ failures' = IF failures < Threshold THEN failures + 1 ELSE failures
    /\ tripped' = IF failures' >= Threshold THEN "recent" ELSE tripped
    /\ sinceOk' = sinceOk + 1
    /\ at' = [at EXCEPT ![r] = "fallback"] /\ model' = [model EXCEPT ![r] = 1]
    /\ UNCHANGED <<lastErr, same, stripping, streamed, queries>>

\* _try_with_fallback has the primary's error: nothing follows what was streamed, or an error
\* that another model would give as well; else it counts, and may open the breaker.
PrimaryError(r, e) ==
    IF streamed[r] \/ ~Fallbackable(e) THEN Answer(r, e) /\ UNCHANGED <<failures, tripped, sinceOk>>
    ELSE /\ failures' = IF failures < Threshold THEN failures + 1 ELSE failures
         /\ tripped' = IF failures' >= Threshold THEN "recent" ELSE tripped
         /\ sinceOk' = sinceOk + 1
         /\ NextModel(r, e)

\* An error, a stalled stream or an exception, made an error response by the client.
Fail(r, e) ==
    /\ Active(r) /\ errors < MaxErrors /\ errors' = errors + 1
    /\ IF at[r] = "fallback" THEN NextModel(r, e) /\ UNCHANGED <<failures, tripped, sinceOk>>
       ELSE IF Models = 0 THEN Answer(r, e) /\ UNCHANGED <<failures, tripped, sinceOk>>
       ELSE PrimaryError(r, e)
    /\ UNCHANGED <<try, hasImages, apiFailures, apiRecent, voices>>

\* _provider_factory raises: the model is passed over, and without any response all failed.
NotBuilt(r) ==
    /\ at[r] = "fallback" /\ ~streamed[r] /\ errors < MaxErrors /\ errors' = errors + 1
    /\ \E e \in {"none"} \cup IF model[r] = 1 THEN {} ELSE Errors : NextModel(r, e)
    /\ UNCHANGED <<try, hasImages, breakers, voices, sinceOk>>

\* _sleep_with_heartbeat is over.
TryAgain(r) ==
    /\ at[r] = "waiting" /\ BeginCall(r) /\ try' = [try EXCEPT ![r] = IF @ <= Retries THEN @ + 1 ELSE @]
    /\ UNCHANGED <<stripping, lastErr, same, hasImages, breakers, errors, voices, sinceOk>>

\* wait_for of _request_model ends all of it, wherever it is.
TimeOut(r) ==
    /\ Active(r) \/ at[r] = "waiting"
    /\ at' = [at EXCEPT ![r] = "timedout"]
    /\ UNCHANGED <<try, model, streamed, stripping, lastErr, same, hasImages, breakers, errors,
                   queries, voices, sinceOk>>

\* _PRIMARY_COOLDOWN_S, or the probe interval of the Responses API, passes.
CoolDown ==
    /\ \/ tripped = "recent" /\ tripped' = "old" /\ UNCHANGED apiRecent
       \/ apiRecent /\ apiRecent' = FALSE /\ UNCHANGED tripped
    /\ UNCHANGED <<at, try, model, streamed, stripping, lastErr, same, hasImages, failures, apiFailures, errors, queries,
                   voices, sinceOk>>

ProviderNext ==
    \/ \E r \in Reqs : Ask(r) \/ Delta(r) \/ Succeed(r) \/ ApiMisfit(r) \/ NotBuilt(r) \/ TryAgain(r) \/ TimeOut(r)
    \/ \E r \in Reqs, e \in Errors : Fail(r, e)
    \/ CoolDown

ProviderSpec == ProviderInit /\ [][ProviderNext]_providerVars

----------------------------------------------------------------------------
(* Properties. *)

\* Of the models one call goes through at most one shows text: failing over never repeats what
\* was shown. And a request is bounded: so many calls, and one more without its images; the
\* breaker is open only after enough failures in a row, whichever requests they were of.
OneVoice ==
    /\ \A r \in Reqs : \A v, w \in voices[r] : v[1] = w[1] => v[2] = w[2]
    /\ \A r \in Reqs \ Persistent : queries[r] <= Retries + 2
    /\ tripped # "no" => sinceOk >= Threshold

\* What the class says of itself (fallback_provider.py:83): failover is skipped once text was
\* streamed, "to avoid duplicate output": the text of one request comes from one model, once.
NoDuplicateOutput == \A r \in Reqs : Cardinality(voices[r]) <= 1
================================================================================
