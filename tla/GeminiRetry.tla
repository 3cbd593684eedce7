---------------------------- MODULE GeminiRetry ----------------------------
(***************************************************************************)
(* gemini-retry.helper.ts: which errors of a call to Gemini are worth      *)
(* another attempt, and what the user is told of an error.                 *)
(***************************************************************************)
EXTENDS Naturals

CONSTANT
    MaxAttempts     \* GEMINI_RETRY_ATTEMPTS

ASSUME AttemptsAssumption == MaxAttempts \in Nat \ {0}

\* What the message of an error says, as far as the patterns look for it.
\* busy: 503 or high demand; rate_limit: 429 or RESOURCE_EXHAUSTED;
\* unavailable: 500, 502, 504, UNAVAILABLE, a deadline, fetch failed.
Retryable == {"busy", "rate_limit", "unavailable"}
GeminiErrors == Retryable \cup {"rejected"}

\* The three texts the user may read.
UserTexts == {"try_in_a_minute", "rate_limited", "failed"}

ToUserFacing(message) ==
    CASE message = "busy"       -> "try_in_a_minute"
      [] message = "rate_limit" -> "rate_limited"
      [] OTHER                  -> "failed"

\* Mutant: the attempts are not counted.
NextAttempt_Stuck(attempt) == attempt

NextAttempt(attempt) == attempt + 1

\* Whether withGeminiRetry sleeps and tries again after this attempt.
Retries(attempt, message) == message \in Retryable /\ attempt # MaxAttempts

=============================================================================
