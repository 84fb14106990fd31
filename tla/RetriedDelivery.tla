--------------------------- MODULE RetriedDelivery ---------------------------
(***************************************************************************)
(* One delivery that fails over and over under the schedule of pkg/fault,  *)
(* with any mix of dispositions.                                           *)
(***************************************************************************)
EXTENDS FaultRetry

CONSTANTS MaxBase, MaxCap, MaxHolds

VARIABLES
    base, cap,      \* any schedule, for the comparison with the closed form
    attempt,        \* failures so far
    elapsed,        \* the sum of the delays waited
    holds,          \* how often the owner had to be asked
    waiting         \* is another attempt scheduled or possible?

retryVars == <<base, cap, attempt, elapsed, holds, waiting>>

RetryInit ==
    /\ base \in 1..MaxBase /\ cap \in 0..MaxCap
    /\ attempt = 0 /\ elapsed = 0 /\ holds = 0 /\ waiting = TRUE

\* Journal.Failed, as far as the schedule decides it.
FailDelivery(disposition) ==
    LET retry == NextCode(disposition, attempt + 1)
    IN  /\ waiting
        /\ disposition = "approval" => holds < MaxHolds
        /\ attempt' = attempt + 1
        /\ elapsed' = elapsed + retry.after
        /\ holds' = IF disposition = "approval" THEN holds + 1 ELSE holds
        /\ waiting' = ~Final(disposition, attempt + 1)
        /\ UNCHANGED <<base, cap>>

RetryNext == \E disposition \in Dispositions : FailDelivery(disposition)

-----------------------------------------------------------------------------
Pow2[n \in Nat] == IF n = 0 THEN 1 ELSE 2 * Pow2[n - 1]

\* The loop of backoff computes base * 2^(attempt-1) cut off at cap, for every
\* base and cap and at the boundary where doubling meets the cap.
CappedDoubling ==
    LET plain == base * Pow2[attempt]
    IN  Backoff(base, cap, attempt + 1) = IF plain > cap THEN cap ELSE plain

\* A failing delivery is given up: the attempt budget is shared by every code,
\* so a mix of transient, refresh and approval failures is never retried more
\* often than transient failures alone, plus the holds the owner lifted.
BudgetSpent == attempt > TransientAttempts + holds => ~waiting

\* However the failures mix, the waits the schedule imposes sum to less than
\* six minutes: a message to a peer that stays unreachable longer is given up,
\* whatever its expiry.
GivenUpInSixMinutes == elapsed < 360

\* The schedule is capped doubling, spends one attempt budget whatever the codes of
\* the failures, and gives up within six minutes of waiting.
RetriesAreBounded == CappedDoubling /\ BudgetSpent /\ GivenUpInSixMinutes
=============================================================================
