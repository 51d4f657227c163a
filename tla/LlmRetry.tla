------------------------------ MODULE LlmRetry ------------------------------
(***************************************************************************)
(* One model call under the provider drivers' retry policy: the driver     *)
(* classifies each failure, withRetry turns the class and the number of    *)
(* failures so far into another attempt after a delay or into an error,    *)
(* and the answer that finally arrives is turned into a ReviewOutput with  *)
(* the tokens and tool calls it reports.                                   *)
(*                                                                         *)
(* Time is counted in units of 200 ms, the grain of the jitter on the      *)
(* shortest delay.  An error is what the drivers look at: HTTP status,     *)
(* error code, wording, and the delay a 429 asks for.                      *)
(***************************************************************************)
EXTENDS Integers, Sequences, FiniteSets, Functions, FiniteSetsExt

CONSTANTS RetryAfters,  \* delays a 429 may ask for
          StepLists     \* tool calls of the agent steps of an answer

VARIABLES driver,  \* which driver makes the call
          pc,      \* "calling", "sleeping", or how it ended
          errors,  \* the failures so far, as the driver classified them
          last,    \* the cause of a ContextLengthError
          slept,   \* time slept between attempts
          used,    \* history: tokens and tool calls of the answer
          output   \* what the ReviewOutput reports of them

vars == <<driver, pc, errors, last, slept, used, output>>
-----------------------------------------------------------------------------
NoHeader == -1
Missing  == -1
NoError  == [status |-> 0, code |-> "none", message |-> "none", retryAfter |-> NoHeader]
Wordings == {"other", "context length", "prompt is too long", "tokens exceeds"}

\* 503 is treated like 500 and 403 like 401; a header that is not a number
\* counts as none.
Errors ==
    [status : {0, 401, 500, 529}, code : {"none", "ECONNRESET", "context_length_exceeded"},
     message : Wordings, retryAfter : {NoHeader}]
    \cup [status : {429}, code : {"none"}, message : {"other", "context length"},
          retryAfter : {NoHeader} \cup RetryAfters]

Kind(k) == [kind |-> k, retryAfterMs |-> NoHeader]

\* Status before wording; 529 is Anthropic's overload, 500 is final.
classifyAnthropicError(err) ==
    CASE err.status = 429 -> [kind |-> "rate_limit", retryAfterMs |-> err.retryAfter]
      [] err.status = 529 -> Kind("overloaded")
      [] err.status = 401 -> Kind("auth")
      [] err.message \in {"context length", "prompt is too long"} -> Kind("context_length")
      [] err.code = "ECONNRESET" -> Kind("transient")
      [] OTHER -> Kind("fatal")

\* Wording and code before status; 500 is an overload, 529 is final.
classifyByWordsFirst(err, words) ==
    CASE err.code = "context_length_exceeded" \/ err.message \in words -> Kind("context_length")
      [] err.status = 429 -> [kind |-> "rate_limit", retryAfterMs |-> err.retryAfter]
      [] err.status = 500 -> Kind("overloaded")
      [] err.status = 401 -> Kind("auth")
      [] err.code = "ECONNRESET" -> Kind("transient")
      [] OTHER -> Kind("fatal")

classifyOpenAIError(err) == classifyByWordsFirst(err, {"context length"})

\* The drivers of Azure, Bedrock, Google, Vertex and compatible servers.
classifyHttpStyleError(err) == classifyByWordsFirst(err, {"context length", "tokens exceeds"})

Drivers == {"anthropic", "openai", "generic"}
classifyError(err) ==
    CASE driver = "anthropic" -> classifyAnthropicError(err)
      [] driver = "openai"    -> classifyOpenAIError(err)
      [] driver = "generic"   -> classifyHttpStyleError(err)

RETRY_LIMITS == [rate_limit |-> 5, overloaded |-> 3, transient |-> 3]
BACKOFF_MS   == <<5, 10, 20, 40, 80>>
MAX_ATTEMPTS == Max(Range(RETRY_LIMITS)) + 1

Retriable(kind, attempt) == kind \in DOMAIN RETRY_LIMITS /\ attempt < RETRY_LIMITS[kind]

\* A provider's own delay before the schedule; the jitter reaches a
\* fifth either way.
DelayFor(class, attempt) ==
    LET base == IF class.retryAfterMs # NoHeader THEN class.retryAfterMs
                ELSE BACKOFF_MS[Min({attempt, Len(BACKOFF_MS) - 1}) + 1]
    IN  {base - base \div 5, base + base \div 5}
-----------------------------------------------------------------------------
Init ==
    /\ driver \in Drivers
    /\ pc = "calling"
    /\ errors = <<>> /\ last = NoError
    /\ slept = 0
    /\ used = [answer |-> 0, calls |-> 0, total |-> TRUE]
    /\ output = [tokensUsed |-> 0, toolCalls |-> 0]

Fails_PerKind(err) ==
    LET class   == classifyError(err)
        attempt == Cardinality({i \in DOMAIN errors : errors[i].kind = class.kind})
    IN  /\ errors' = Append(errors, class)
        /\ IF Retriable(class.kind, attempt) /\ Len(errors) + 1 < MAX_ATTEMPTS
           THEN pc' = "sleeping"
           ELSE pc' = IF class.kind = "context_length" THEN "ContextLengthError" ELSE "thrown"

\* The number of failures so far, of whatever kind, is the attempt; the last
\* attempt the loop allows is thrown without another sleep.
Fails(err) ==
    LET class   == classifyError(err)
        attempt == Len(errors)
    IN  /\ errors' = Append(errors, class)
        /\ IF Retriable(class.kind, attempt) /\ attempt + 1 < MAX_ATTEMPTS
           THEN pc' = "sleeping"
           ELSE pc' = IF class.kind = "context_length" THEN "ContextLengthError" ELSE "thrown"

\* What a failed attempt used is not part of any output.
withRetry ==
    /\ pc = "calling"
    /\ \E err \in Errors :
         /\ Fails(err)
         /\ last' = IF pc' = "ContextLengthError" THEN err ELSE NoError
    /\ UNCHANGED <<driver, slept, used, output>>

sleep ==
    /\ pc = "sleeping"
    /\ pc' = "calling"
    /\ \E d \in DelayFor(errors[Len(errors)], Len(errors) - 1) : slept' = slept + d
    /\ UNCHANGED <<driver, errors, last, used, output>>

\* Tool calls of each agent step; a step without any may have no list at all.
countToolCalls(steps) == SumFunctionOnSet(steps, {i \in DOMAIN steps : steps[i] # Missing})

\* The SDK's total where it has one, else the last step's usage, else nothing.
UsageOf(result) ==
    CASE result.totalUsage -> Len(result.steps)
      [] ~result.totalUsage /\ result.usage -> 1
      [] OTHER -> 0

\* The answer: every step uses one token.
generateReview ==
    /\ pc = "calling"
    /\ \E result \in [steps : StepLists, totalUsage : BOOLEAN, usage : BOOLEAN] :
         /\ output' = [tokensUsed |-> UsageOf(result), toolCalls |-> countToolCalls(result.steps)]
         /\ used' = [answer |-> Len(result.steps), total |-> result.totalUsage,
                    calls |-> SumFunction([i \in DOMAIN result.steps |-> Max({0, result.steps[i]})])]
    /\ pc' = "answered"
    /\ UNCHANGED <<driver, errors, last, slept>>

Next == withRetry \/ sleep \/ generateReview

Spec == Init /\ [][Next]_vars
-----------------------------------------------------------------------------
\* The delay failure i stands for before jitter, from the provider or the
\* schedule.
Asked(i) == IF errors[i].retryAfterMs # NoHeader THEN errors[i].retryAfterMs
            ELSE IF i <= Len(BACKOFF_MS) THEN BACKOFF_MS[i] ELSE 0
Slept == IF pc \in {"calling", "answered"} THEN DOMAIN errors ELSE 1..(Len(errors) - 1)

\* A call under the retry policy is made at most six times; a failure of a kind
\* with a budget of n is retried only as one of the first n failures of any
\* kind, and one that is thrown had no such budget left; the time slept is
\* within a fifth of what the providers and the schedule asked for in sum;
\* ContextLengthError stands for an error that says so; and the output's
\* figures are those of the answer alone, whole when the SDK gives a total
\* (llm withRetry, core withRetry, the drivers' classifyError and
\* generateReview).
RetriesExplained ==
    /\ Len(errors) <= 6 /\ (pc = "answered" => Len(errors) <= 5)
    /\ \A i \in Slept : errors[i].kind \in DOMAIN RETRY_LIMITS /\ i <= RETRY_LIMITS[errors[i].kind]
    /\ LET asked == SumFunction([i \in Slept |-> Asked(i)])
       IN  4 * asked <= 5 * slept /\ 5 * slept <= 6 * asked
    /\ pc = "thrown" =>
         LET kind == errors[Len(errors)].kind
         IN  kind \in DOMAIN RETRY_LIMITS => Len(errors) > RETRY_LIMITS[kind]
    /\ pc = "ContextLengthError" =>
         last.message # "other" \/ last.code = "context_length_exceeded"
    /\ pc = "answered" =>
         /\ output.toolCalls = used.calls
         /\ output.tokensUsed <= used.answer
         /\ used.total => output.tokensUsed = used.answer
=============================================================================
