----------------------------- MODULE FaultRetry -----------------------------
(***************************************************************************)
(* The fixed retry schedule of pkg/fault: what a failure with a given      *)
(* disposition means for the next attempt.  Delays are in seconds.         *)
(***************************************************************************)
EXTENDS Integers

CONSTANTS
    TransientBase, TransientCap, TransientAttempts,
    RefreshBase, RefreshCap, RefreshAttempts

ASSUME RetryAssumption ==
    /\ TransientBase \in Nat \ {0} /\ TransientCap \in Nat
    /\ RefreshBase \in Nat \ {0} /\ RefreshCap \in Nat
    /\ TransientAttempts \in Nat /\ RefreshAttempts \in Nat

Dispositions == {"permanent", "transient", "refresh", "approval"}

\* Faulty variant: the delay is doubled past the cap before it is compared.
BackoffUncapped(base, cap, attempt) ==
    LET delay[n \in Nat] == IF n <= 1 THEN base
                            ELSE IF delay[n - 1] > cap THEN cap
                            ELSE 2 * delay[n - 1]
    IN  delay[attempt]

\* backoff: delay[n] is the loop variable when its n-th attempt is reached; once
\* past cap/2 it is cap and stays there.
Backoff(base, cap, attempt) ==
    LET delay[n \in Nat] == IF n <= 1 THEN base
                            ELSE IF delay[n - 1] > cap \div 2 THEN cap
                            ELSE 2 * delay[n - 1]
    IN  IF delay[attempt] \in 0..cap THEN delay[attempt] ELSE cap

NotRetried == [allowed |-> FALSE, after |-> 0]

\* Faulty variant: the attempt budget is never spent.
NextCodeUnlimited(disposition, attempt) ==
    CASE disposition = "transient" ->
            [allowed |-> TRUE,
             after |-> Backoff(TransientBase, TransientCap, attempt)]
      [] disposition = "refresh" ->
            [allowed |-> TRUE,
             after |-> Backoff(RefreshBase, RefreshCap, attempt)]
      [] OTHER -> NotRetried

\* Faulty variant: the budget of transient failures is compared off by one.
NextCodeOneMore(disposition, attempt) ==
    CASE disposition = "transient" /\ attempt - 1 <= TransientAttempts ->
            [allowed |-> TRUE,
             after |-> Backoff(TransientBase, TransientCap, attempt)]
      [] disposition = "refresh" /\ attempt <= RefreshAttempts ->
            [allowed |-> TRUE,
             after |-> Backoff(RefreshBase, RefreshCap, attempt)]
      [] OTHER -> NotRetried

\* NextCode, for attempts counted from 1.
NextCode(disposition, attempt) ==
    CASE disposition = "transient" /\ attempt <= TransientAttempts ->
            [allowed |-> TRUE,
             after |-> Backoff(TransientBase, TransientCap, attempt)]
      [] disposition = "refresh" /\ attempt <= RefreshAttempts ->
            [allowed |-> TRUE,
             after |-> Backoff(RefreshBase, RefreshCap, attempt)]
      [] OTHER -> NotRetried

\* Final reports that no further attempt can succeed; an approval hold is
\* neither allowed nor final.
Final(disposition, attempt) ==
    disposition # "approval" /\ ~NextCode(disposition, attempt).allowed
=============================================================================
