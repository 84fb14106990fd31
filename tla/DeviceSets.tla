----------------------------- MODULE DeviceSets -----------------------------
(***************************************************************************)
(* The rules of a published prekey device set (pkg/e2ee/devices.go,        *)
(* pkg/e2ee/bundle.go).  A bundle is [device, issued, expires, key]: the   *)
(* key stands for the public material, so two bundles of one device and    *)
(* one generation are equal exactly when their digests are.  A set of      *)
(* bundles stands for its own digest.                                      *)
(***************************************************************************)
EXTENDS FiniteSetsExt, Naturals

\* Summarize: the members and the freshness watermark of a set.
DevicesOf(set) == {b.device : b \in set}

NewestIssued(set) == Max({b.issued : b \in set})

\* BindBundleSet at a time: every signed window covers it.
BindBundleSet(set, now) ==
    /\ set # {}
    /\ \A b \in set : b.issued <= now /\ now < b.expires

\* missingFrom: who a successor drops.  A first set, or the same one, drops nobody.
Removed(current, next) ==
    IF current = {} \/ next = current THEN {} ELSE DevicesOf(current) \ DevicesOf(next)

\* Faulty variant: equal freshness is judged fresh enough.
SucceedsAtEqual(current, tombstones, next) ==
    /\ DevicesOf(next) \cap tombstones = {}
    /\ current # {} /\ next # current => NewestIssued(next) >= NewestIssued(current)

\* Faulty variant: a device on the tombstone list may return.
SucceedsReturning(current, tombstones, next) ==
    current # {} /\ next # current =>
        \/ NewestIssued(next) > NewestIssued(current)
        \/ /\ NewestIssued(next) = NewestIssued(current)
           /\ next \subseteq current

\* Succeed: a revoked device never returns; the watermark never falls; at an
\* equal watermark only devices may leave.
Succeeds(current, tombstones, next) ==
    /\ DevicesOf(next) \cap tombstones = {}
    /\ current # {} /\ next # current =>
        \/ NewestIssued(next) > NewestIssued(current)
        \/ /\ NewestIssued(next) = NewestIssued(current)
           /\ next \subseteq current
           /\ Removed(current, next) # {}

=============================================================================
