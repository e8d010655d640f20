------------------------------- MODULE Fetcher --------------------------------
(***************************************************************************)
(* One GET of the launcher (launch/outbound/resolve/fetcher.rs): up to     *)
(* MaxAttempts attempts, each of which follows up to MaxRedirects          *)
(* redirects to allowed hosts.  What the server and the network do to each *)
(* attempt is open.  The rustls, hyper and reqwest crates are seen through *)
(* the results that try_get tells apart.                                   *)
(***************************************************************************)
EXTENDS Naturals

CONSTANTS
    MaxAttempts,   \* MAX_ATTEMPTS
    MaxRedirects   \* MAX_REDIRECTS

ASSUME FetcherAssumption ==
    /\ MaxAttempts \in Nat \ {0}
    /\ MaxRedirects \in Nat

VARIABLES
    call,      \* where the GET is, or what it has returned
    attempt,   \* attempts that have failed
    hops,      \* redirects followed in this attempt
    secure,    \* the URL starts with https://
    faults     \* history: attempts the server or the network has spoilt

fetchVars == <<call, attempt, hops, secure, faults>>

Busy    == {"Sending", "Reading", "Pausing"}
Answers == {"Body", "NotFound", "Unreachable"}

FetchInit ==
    /\ call = "Idle"
    /\ attempt = 0
    /\ hops = 0
    /\ secure = TRUE
    /\ faults = 0

(* require_https: a URL with another scheme is refused before any attempt. *)
Get(https) ==
    /\ call' = IF https THEN "Sending" ELSE "Unreachable"
    /\ attempt' = 0
    /\ hops' = 0
    /\ secure' = https
    /\ faults' = 0

(* Mutant of Retryable: one attempt too few.                                *)
RetryableOnce ==
    /\ attempt' = attempt + 1
    /\ call' = IF attempt + 2 < MaxAttempts THEN "Pausing" ELSE "Unreachable"
    /\ hops' = 0
    /\ UNCHANGED secure

(* Terminal::Retryable: pause before the next attempt, or give up. *)
Retryable ==
    /\ attempt' = attempt + 1
    /\ call' = IF attempt + 1 < MaxAttempts THEN "Pausing" ELSE "Unreachable"
    /\ hops' = 0
    /\ UNCHANGED secure

(* Mutant of Spoilt: the attempt does not count.                            *)
SpoiltUncounted ==
    /\ call' = "Pausing"
    /\ hops' = 0
    /\ UNCHANGED <<attempt, secure, faults>>

Spoilt == Retryable /\ faults' = faults + 1

(* Mutant of Redirect: there is no limit.                                   *)
RedirectUnlimited ==
    /\ call = "Sending"
    /\ \/ Spoilt
       \/ hops' = hops + 1 /\ UNCHANGED <<call, attempt, secure, faults>>

(* redirect_policy: one to a host that is not allowed is not followed and   *)
(* shows as a 3xx status; one above the limit is an error.  Either spoils   *)
(* the attempt.                                                             *)
Redirect ==
    /\ call = "Sending"
    /\ \/ Spoilt
       \/ /\ hops < MaxRedirects
          /\ hops' = hops + 1
          /\ UNCHANGED <<call, attempt, secure, faults>>

(* The request fails or times out, or ends in a status that is neither a    *)
(* success nor 404.                                                         *)
SendFails == call = "Sending" /\ Spoilt

NotPublished ==
    /\ call = "Sending"
    /\ call' = "NotFound"
    /\ UNCHANGED <<attempt, hops, secure, faults>>

Success ==
    /\ call = "Sending"
    /\ call' = "Reading"
    /\ UNCHANGED <<attempt, hops, secure, faults>>

ReadBody ==
    /\ call = "Reading"
    /\ \/ Spoilt
       \/ call' = "Body" /\ UNCHANGED <<attempt, hops, secure, faults>>

(* The pause is over. *)
Retry ==
    /\ call = "Pausing"
    /\ call' = "Sending"
    /\ UNCHANGED <<attempt, hops, secure, faults>>

Transfer == Redirect \/ SendFails \/ NotPublished \/ Success \/ ReadBody \/ Retry

-----------------------------------------------------------------------------
FetchTypeOK ==
    /\ call \in {"Idle"} \cup Busy \cup Answers
    /\ attempt \in 0..MaxAttempts
    /\ hops \in 0..MaxRedirects
    /\ secure \in BOOLEAN
    /\ faults \in 0..MaxAttempts

(* "Retry-with-backoff is safe": fewer than MaxAttempts spoilt attempts, and *)
(* redirects within the limit, are never seen by the caller.                 *)
FaultsMasked == call = "Unreachable" /\ secure => faults = MaxAttempts
=============================================================================
