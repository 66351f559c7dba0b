----------------------------- MODULE SendPolicy -----------------------------
(***************************************************************************)
(* The pure rules of packages/shared that the outbound queue consults: the *)
(* taxonomy of send errors, the classification of a raw failure, and the   *)
(* decision taken after a failed attempt.  There is no state: every        *)
(* operator is a function of its arguments.                                *)
(***************************************************************************)
EXTENDS Naturals, Sequences

CONSTANT MaxAttempts   \* FALLBACK_LIMITS.MAX_ATTEMPTS

ASSUME MaxAttemptsAssumption == MaxAttempts \in Nat \ {0}

-----------------------------------------------------------------------------
\* SendErrorCode, by the recovery action that SEND_ERROR_RECOVERY gives it.

FAIL_PERMANENT == {"NUMBER_NOT_ON_WHATSAPP", "INVALID_NUMBER_FORMAT",
                   "BLOCKED_BY_RECIPIENT", "RECIPIENT_PRIVACY_RESTRICTED",
                   "RECIPIENT_OPTED_OUT", "EXPIRED_IN_QUEUE"}

FALLBACK_OTHER_ACCOUNT == {"ACCOUNT_DISCONNECTED", "ACCOUNT_BANNED",
                           "ACCOUNT_RATE_LIMITED", "SEND_TIMEOUT",
                           "SESSION_ERROR"}

RETRY_SAME_ACCOUNT == {"NETWORK_ERROR", "WHATSAPP_SERVER_ERROR",
                       "INTERNAL_ERROR", "NO_ACCOUNTS_AVAILABLE"}

SendErrorCode ==
    FAIL_PERMANENT \cup FALLBACK_OTHER_ACCOUNT \cup RETRY_SAME_ACCOUNT

-----------------------------------------------------------------------------
\* A raw failure is the set of things the worker observed about it: its own
\* verdicts, the Boom status (at most one), and the families of words that
\* occur in the text of the error.

Verdict == {"numberNotOnWhatsApp", "timedOut", "socketClosed"}
Boom    == {"401", "403", "408", "428", "429", "440", "500", "503"}
Words   == {"rate limit", "timeout", "connection", "banned", "session",
            "network", "blocked", "server error"}

SendErrorContext ==
    {v \cup b \cup w : v \in SUBSET Verdict,
                       b \in {{}} \cup {{s} : s \in Boom},
                       w \in SUBSET Words}

\* The tests of classifySendError in the order the code makes them.
Rules == <<
    [when |-> {"numberNotOnWhatsApp"}, code |-> "NUMBER_NOT_ON_WHATSAPP"],
    [when |-> {"timedOut"},            code |-> "SEND_TIMEOUT"],
    [when |-> {"socketClosed"},        code |-> "ACCOUNT_DISCONNECTED"],
    [when |-> {"401", "403"},          code |-> "ACCOUNT_BANNED"],
    [when |-> {"408"},                 code |-> "SEND_TIMEOUT"],
    [when |-> {"428", "440"},          code |-> "ACCOUNT_DISCONNECTED"],
    [when |-> {"500"},                 code |-> "SESSION_ERROR"],
    [when |-> {"503"},                 code |-> "WHATSAPP_SERVER_ERROR"],
    [when |-> {"429"},                 code |-> "ACCOUNT_RATE_LIMITED"],
    [when |-> {"rate limit"},          code |-> "ACCOUNT_RATE_LIMITED"],
    [when |-> {"timeout"},             code |-> "SEND_TIMEOUT"],
    [when |-> {"connection"},          code |-> "ACCOUNT_DISCONNECTED"],
    [when |-> {"banned"},              code |-> "ACCOUNT_BANNED"],
    [when |-> {"session"},             code |-> "SESSION_ERROR"],
    [when |-> {"network"},             code |-> "NETWORK_ERROR"],
    [when |-> {"blocked"},             code |-> "BLOCKED_BY_RECIPIENT"],
    [when |-> {"server error"},        code |-> "WHATSAPP_SERVER_ERROR"] >>

\* The first rule that fires, or INTERNAL_ERROR when none does.
ClassifySendError(ctx) ==
    LET fires == {i \in DOMAIN Rules : Rules[i].when \cap ctx # {}}
    IN  IF fires = {}
        THEN "INTERNAL_ERROR"
        ELSE Rules[CHOOSE i \in fires : \A k \in fires : i =< k].code

-----------------------------------------------------------------------------
\* decideAfterAttempt for a failed attempt; attemptNumber counts from 1.
DecideAfterAttempt(code, attemptNumber) ==
    CASE code \in FAIL_PERMANENT \/ attemptNumber >= MaxAttempts -> "fail"
      [] code \in RETRY_SAME_ACCOUNT /\ attemptNumber < MaxAttempts
            -> "retry_same_account"
      [] code \in FALLBACK_OTHER_ACCOUNT /\ attemptNumber < MaxAttempts
            -> "fallback_other_account"

=============================================================================
