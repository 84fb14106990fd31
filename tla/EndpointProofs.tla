--------------------------- MODULE EndpointProofs ---------------------------
(***************************************************************************)
(* An Endpoint of several devices, for any devices, generations, callers,  *)
(* failures and clocks: what its devices publish, and who looks it up.     *)
(***************************************************************************)
EXTENDS PrekeyGenerations, PeerDirectory, WellFoundedInduction, TLAPS

(***************************************************************************)
(* Prekeys. For any devices, rosters, finalizers, failures and clocks:     *)
(* what the devices of an Endpoint publish together can be answered, and   *)
(* their publication record implements DeviceSuccession.                   *)
(*                                                                         *)
(* PublishedIsAnswered is not inductive: any number of finalizers work on  *)
(* collections they read long ago, while the planner begins another. The   *)
(* strengthening PrekeyInv says that a device has one bundle of a moment   *)
(* (OwnBundles), and that two sets of one moment are the same complete     *)
(* collection wherever they are held: on disk, by a finalizer, or in the   *)
(* publication record (SameMoment in Collections).                         *)
(***************************************************************************)

(***************************************************************************)
(* The inductive invariant of the prekey ledgers.                          *)
(***************************************************************************)

Keyrings ==
    [last : Nat, revoked : BOOLEAN, current : SUBSET Bundles, retired : SUBSET Bundles]
Plans == [roster : Rosters, issued : Nat, expires : Nat]
Finalizations == [read : CollectionRecords, prepared : BOOLEAN]

PrekeyKinds ==
    /\ roster \in Rosters
    /\ collection \in CollectionRecords \cup {NoCollection}
    /\ publication \subseteq exposed /\ exposed \subseteq Bundles
    /\ keyring \in [PrekeyDevices -> Keyrings]
    /\ asked \in [PrekeyDevices -> Plans \cup {NoCollection}]
    /\ finalizing \in [Finalizers -> Finalizations \cup {NoCollection}]
    /\ made \in [PrekeyDevices -> Nat]
    /\ prekeyClock \in Nat \ {0}

\* Nothing was issued before the clock's first second.
Dated ==
    /\ collection # NoCollection => collection.issued > 0
    /\ \A d \in PrekeyDevices : asked[d] # NoCollection => asked[d].issued > 0
    /\ \A b \in exposed : b.issued > 0
    /\ \A d \in PrekeyDevices : \A b \in keyring[d].current : b.issued > 0

KeysOf(d) ==
    keyring[d].current \cup keyring[d].retired \cup {b \in exposed : b.device = d}

\* A device has one bundle of a moment, none later than its last.
OwnBundles ==
    \A d \in PrekeyDevices :
       \A b \in KeysOf(d) :
          /\ b.device = d /\ b.issued <= keyring[d].last
          /\ \A c \in KeysOf(d) : c.issued = b.issued => c = b

\* What is collected fits its plan.
Fits(c) ==
    /\ c.got \subseteq exposed
    /\ \A b \in c.got : b.issued = c.issued /\ b.expires = c.expires /\ b.device \in c.roster

\* A set of the collection's moment is the collection, which is complete.
SameMoment(set, c) == \A b \in set : b.issued = c.issued => set = c.got /\ Complete(c)

OneWindow(set) == \A b, c \in set : b.issued = c.issued /\ b.expires = c.expires

Later(set, c) == \A b \in set : b.issued > c.issued

Held(f) == finalizing[f].read

\* A finalizer holds a complete collection, no later than the one on disk.
HeldBy(f) ==
    /\ collection # NoCollection /\ Held(f).issued <= collection.issued
    /\ Fits(Held(f)) /\ Complete(Held(f))
    /\ SameMoment(Held(f).got, collection)
    /\ SameMoment(publication, Held(f))
    /\ finalizing[f].prepared =>
          publication # {} /\ (publication = Held(f).got \/ Later(publication, Held(f)))

Collections ==
    /\ collection # NoCollection => Fits(collection)
    /\ \A f \in Finalizers : finalizing[f] # NoCollection =>
          /\ HeldBy(f)
          /\ \A g \in Finalizers : finalizing[g] # NoCollection => SameMoment(Held(g).got, Held(f))
    /\ publication # {} =>
          /\ collection # NoCollection /\ \A b \in publication : b.issued <= collection.issued
          /\ SameMoment(publication, collection)
          /\ OneWindow(publication) /\ DevicesOf(publication) \in Rosters
    /\ collection # NoCollection /\ collection.finalized =>
          publication # {} /\ (collection.got = publication \/ Later(publication, collection))

PrekeyInv == PrekeyKinds /\ Dated /\ OwnBundles /\ Collections /\ GivenOutIsAnswered

(***************************************************************************)
(* Sets of devices: two times, one moment, and what succession is.         *)
(***************************************************************************)

LEMMA OfTwo ==
    ASSUME NEW a \in Nat, NEW b \in Nat
    PROVE  /\ Max({a, b}) \in Nat
           /\ Min({a, b}) \in Nat /\ Min({a, b}) <= a /\ Min({a, b}) <= b
<1>1. \E x \in {a, b} : \A y \in {a, b} : x <= y
  OBVIOUS
<1>2. \E x \in {a, b} : \A y \in {a, b} : x >= y
  OBVIOUS
<1>3. Min({a, b}) \in {a, b} /\ \A y \in {a, b} : Min({a, b}) <= y
  BY Zenon, <1>1 DEF Min
<1>4. Max({a, b}) \in {a, b}
  BY Zenon, <1>2 DEF Max
<1> QED
  BY Zenon, <1>3, <1>4

LEMMA OneMomentNewest ==
    ASSUME NEW s, s # {}, NEW i \in Nat, \A b \in s : b.issued = i
    PROVE  NewestIssued(s) = i
<1>1. {b.issued : b \in s} = {i}
  BY Zenon
<1>2. Max({i}) = i
  BY DEF Max
<1> QED
  BY Zenon, <1>1, <1>2 DEF NewestIssued

\* One step of a keeper, the first one included: what Succession asks of it.
LEMMA KeeperStep ==
    ASSUME NEW s, NEW gone, NEW t, t # {}, Succeeds(s, gone, t),
           s # {} => NewestIssued(s) \in Nat, NewestIssued(t) \in Nat \ {0}
    PROVE  LET g == IF s = {} THEN 0 ELSE NewestIssued(s)
               h == IF t = {} THEN 0 ELSE NewestIssued(t)
               later == gone \cup Removed(s, t)
           IN  /\ h >= g
               /\ h = g => DevicesOf(t) \subseteq DevicesOf(s)
               /\ later = gone \cup (DevicesOf(s) \ DevicesOf(t))
               /\ DevicesOf(t) \cap later = {}
<1>1. gone \cup Removed(s, t) = gone \cup (DevicesOf(s) \ DevicesOf(t))
  BY Zenon DEF Removed, DevicesOf
<1>2. DevicesOf(t) \cap gone = {}
  BY Zenon DEF Succeeds
<1>3. CASE s = {}
  BY <1>1, <1>2, <1>3
<1>4. CASE s # {}
  <2>1. t = s \/ NewestIssued(t) > NewestIssued(s)
          \/ (NewestIssued(t) = NewestIssued(s) /\ t \subseteq s)
    BY Zenon, <1>4 DEF Succeeds
  <2>2. t \subseteq s => DevicesOf(t) \subseteq DevicesOf(s)
    BY Zenon DEF DevicesOf
  <2> QED
    BY <1>1, <1>2, <1>4, <2>1, <2>2
<1> QED
  BY Zenon, <1>3, <1>4

(***************************************************************************)
(* The ledgers of the devices.                                             *)
(***************************************************************************)

\* A device's record changes to k and the bundles X leave it; N is what it generated.
LEMMA KeysStep ==
    ASSUME PrekeyKinds, Dated, OwnBundles, GivenOutIsAnswered, NEW d \in PrekeyDevices,
           NEW k \in Keyrings, NEW X, X \subseteq k.current, NEW N,
           keyring' = [keyring EXCEPT ![d] = k],
           exposed' = exposed \cup X,
           prekeyClock' = prekeyClock,
           \A b \in N : /\ b.device = d
                        /\ keyring[d].last < b.issued /\ b.issued <= k.last
                        /\ \A c \in N : c = b,
           keyring[d].last <= k.last,
           \A b \in k.current : b.issued > 0,
           k.current \cup k.retired \subseteq keyring[d].current \cup keyring[d].retired \cup N,
           k.revoked => k.current \cup k.retired = {},
           ~k.revoked => /\ ~keyring[d].revoked
                         /\ LiveOf(keyring[d].current \cup keyring[d].retired)
                               \subseteq k.current \cup k.retired
    PROVE  /\ keyring' \in [PrekeyDevices -> Keyrings] /\ exposed' \subseteq Bundles
           /\ \A b \in exposed' : b.issued > 0
           /\ \A e \in PrekeyDevices : \A b \in keyring'[e].current : b.issued > 0
           /\ OwnBundles'
           /\ GivenOutIsAnswered'
<1>1. keyring \in [PrekeyDevices -> Keyrings] /\ exposed \subseteq Bundles
  BY Zenon DEF PrekeyKinds
<1>2. /\ keyring' \in [PrekeyDevices -> Keyrings]
      /\ keyring'[d] = k
      /\ \A e \in PrekeyDevices : e # d => keyring'[e] = keyring[e]
  BY Zenon, <1>1
<1>3. k.current \subseteq Bundles /\ k.retired \subseteq Bundles /\ k.last \in Nat
  BY Zenon DEF Keyrings
<1>4. exposed' \subseteq Bundles
  BY Zenon, <1>1, <1>3
<1>5. \A b \in exposed' : b.issued > 0
  BY Zenon DEF Dated
<1>6. \A e \in PrekeyDevices : \A b \in keyring'[e].current : b.issued > 0
  BY Zenon, <1>2 DEF Dated
<1>7. \A b \in X : b \in k.current \cup k.retired
  BY Zenon
<1>8. \A b \in KeysOf(d) : b.device = d /\ b.issued \in Nat /\ b.issued <= keyring[d].last
  <2>1. \A b \in KeysOf(d) : b \in Bundles
    BY Zenon, <1>1 DEF KeysOf, Keyrings
  <2>2. \A b \in KeysOf(d) : b.issued \in Nat
    BY Zenon, <2>1 DEF Bundles
  <2> QED
    BY Zenon, <2>2 DEF OwnBundles
<1>9. keyring[d].last \in Nat
  BY Zenon, <1>1 DEF Keyrings
<1>10. \A b \in KeysOf(d)' : b \in KeysOf(d) \cup N /\ b.issued \in Nat
  <2>1. \A b \in KeysOf(d)' : b \in KeysOf(d) \cup N
    BY Zenon, <1>2, <1>7 DEF KeysOf
  <2>2. \A b \in KeysOf(d)' : b \in Bundles
    BY Zenon, <1>2, <1>3, <1>4 DEF KeysOf
  <2> QED
    BY Zenon, <2>1, <2>2 DEF Bundles
<1>11. \A b \in X : b.device = d
  BY Zenon, <1>7, <1>8 DEF KeysOf
<1>12. OwnBundles'
  <2> SUFFICES ASSUME NEW e \in PrekeyDevices, NEW b \in KeysOf(e)'
               PROVE  /\ b.device = e /\ b.issued <= keyring'[e].last
                      /\ \A c \in KeysOf(e)' : c.issued = b.issued => c = b
    BY Zenon DEF OwnBundles
  <2>1. CASE e = d
    <3>1. b.device = d /\ b.issued <= k.last
      BY <1>3, <1>8, <1>9, <1>10, <2>1
    <3>2. ASSUME NEW c \in KeysOf(d)', c.issued = b.issued
          PROVE  c = b
      <4>1. CASE b \in KeysOf(d) /\ c \in KeysOf(d)
        BY Zenon, <3>2, <4>1 DEF OwnBundles
      <4>2. CASE b \in N /\ c \in N
        BY Zenon, <4>2
      <4>3. CASE b \in KeysOf(d) /\ c \in N
        BY <1>8, <1>9, <1>10, <3>2, <4>3
      <4>4. CASE b \in N /\ c \in KeysOf(d)
        BY <1>8, <1>9, <1>10, <2>1, <3>2, <4>4
      <4> QED
        BY Zenon, <1>10, <2>1, <4>1, <4>2, <4>3, <4>4
    <3> QED
      BY Zenon, <1>2, <2>1, <3>1, <3>2
  <2>2. CASE e # d
    <3>1. KeysOf(e)' = KeysOf(e)
      BY <1>2, <1>11, <2>2 DEF KeysOf
    <3> QED
      BY <1>2, <2>2, <3>1 DEF OwnBundles
  <2> QED
    BY Zenon, <2>1, <2>2
<1>13. GivenOutIsAnswered'
  <2> SUFFICES ASSUME NEW b \in exposed'
               PROVE  IF keyring'[b.device].revoked
                      THEN keyring'[b.device].current \cup keyring'[b.device].retired = {}
                      ELSE prekeyClock < b.expires =>
                              b \in keyring'[b.device].current \cup keyring'[b.device].retired
    BY Zenon DEF GivenOutIsAnswered, Answerable
  <2>1. CASE b.device = d
    <3>1. CASE b \in X
      BY Zenon, <1>2, <1>7, <2>1, <3>1
    <3>2. CASE b \in exposed /\ k.revoked
      BY Zenon, <1>2, <2>1, <3>2
    <3>3. CASE b \in exposed /\ ~k.revoked
      <4>1. prekeyClock < b.expires => b \in keyring[d].current \cup keyring[d].retired
        BY Zenon, <2>1, <3>3 DEF GivenOutIsAnswered, Answerable
      <4>2. prekeyClock < b.expires => b \in k.current \cup k.retired
        BY Zenon, <3>3, <4>1 DEF LiveOf
      <4> QED
        BY Zenon, <1>2, <2>1, <3>3, <4>2
    <3> QED
      BY Zenon, <3>1, <3>2, <3>3
  <2>2. CASE b.device # d
    <3>1. b \in exposed /\ b.device \in PrekeyDevices
      BY Zenon, <1>1, <1>11, <2>2 DEF Bundles
    <3> QED
      BY Zenon, <1>2, <2>2, <3>1 DEF GivenOutIsAnswered, Answerable
  <2> QED
    BY Zenon, <2>1, <2>2
<1> QED
  BY Zenon, <1>2, <1>4, <1>5, <1>6, <1>12, <1>13

\* Collections only grow stale: what more is given out does not concern them.
LEMMA CollectionsKept ==
    ASSUME Collections, exposed \subseteq exposed',
           UNCHANGED <<collection, finalizing, publication>>
    PROVE  Collections'
<1>1. \A c : Fits(c) => Fits(c)'
  BY Zenon DEF Fits
<1>2. \A f : Held(f)' = Held(f)
  BY Zenon DEF Held
<1>3. \A f \in Finalizers : HeldBy(f) => HeldBy(f)'
  BY Zenon, <1>1, <1>2 DEF HeldBy
<1> QED
  BY Zenon, <1>1, <1>2, <1>3 DEF Collections

\* What a step of one device leaves to show: the rest of the state is untouched.
LEMMA DeviceStep ==
    ASSUME PrekeyInv, UNCHANGED <<roster, collection, finalizing, publication, asked, prekeyClock>>,
           made' \in [PrekeyDevices -> Nat],
           exposed \subseteq exposed', exposed' \subseteq Bundles,
           keyring' \in [PrekeyDevices -> Keyrings],
           \A b \in exposed' : b.issued > 0,
           \A e \in PrekeyDevices : \A b \in keyring'[e].current : b.issued > 0,
           OwnBundles', GivenOutIsAnswered'
    PROVE  PrekeyInv'
<1>1. Collections'
  BY Zenon, CollectionsKept DEF PrekeyInv
<1>2. PrekeyKinds'
  BY Zenon DEF PrekeyInv, PrekeyKinds
<1>3. Dated'
  BY Zenon DEF PrekeyInv, Dated
<1> QED
  BY Zenon, <1>1, <1>2, <1>3 DEF PrekeyInv

LEMMA EnsureStep ==
    ASSUME PrekeyInv, NEW d \in PrekeyDevices, NEW failed \in BOOLEAN, NEW written \in BOOLEAN,
           EnsureDevicePrekey(d, failed, written)
    PROVE  PrekeyInv'
<1> DEFINE n == NewBundle(d)
           k == Rotated(d)
<1>1. /\ PrekeyKinds /\ Dated /\ OwnBundles /\ Collections /\ GivenOutIsAnswered
      /\ keyring \in [PrekeyDevices -> Keyrings] /\ made \in [PrekeyDevices -> Nat]
      /\ asked \in [PrekeyDevices -> Plans \cup {NoCollection}]
      /\ exposed \subseteq Bundles
  BY Zenon DEF PrekeyInv, PrekeyKinds
<1>2. /\ asked[d] # NoCollection
      /\ ~keyring[d].revoked /\ asked[d].issued > keyring[d].last
      /\ ~failed => written
      /\ made' = [made EXCEPT ![d] = made[d] + 1]
      /\ keyring' = IF written THEN [keyring EXCEPT ![d] = k] ELSE keyring
      /\ exposed' = IF failed THEN exposed ELSE exposed \cup {n}
      /\ UNCHANGED <<roster, collectionVars, publicationVars, asked, prekeyClock>>
  BY Zenon DEF EnsureDevicePrekey, Usable, NeedsNew, Stored
<1>3. UNCHANGED <<roster, collection, finalizing, publication, asked, prekeyClock>>
  BY Zenon, <1>2 DEF collectionVars, publicationVars
<1>4. made' \in [PrekeyDevices -> Nat]
  BY <1>1, <1>2
<1>5. asked[d] \in Plans /\ asked[d].issued \in Nat /\ asked[d].expires \in Nat /\ asked[d].issued > 0
  BY Zenon, <1>1, <1>2 DEF Plans, Dated
<1>6. /\ n \in Bundles /\ n.device = d /\ n.issued = asked[d].issued
  BY <1>1, <1>5 DEF NewBundle, Bundles
<1>7. /\ keyring[d] \in Keyrings /\ keyring[d].last \in Nat
      /\ keyring[d].current \subseteq Bundles /\ keyring[d].retired \subseteq Bundles
  BY Zenon, <1>1 DEF Keyrings
<1>8. LiveOf(keyring[d].retired \cup keyring[d].current) \subseteq keyring[d].retired \cup keyring[d].current
  BY Zenon DEF LiveOf
<1>9. /\ k.last = asked[d].issued /\ k.revoked = FALSE /\ k.current = {n}
      /\ k.retired = LiveOf(keyring[d].retired \cup keyring[d].current)
      /\ k \in Keyrings
  BY Zenon, <1>5, <1>6, <1>7, <1>8 DEF Rotated, Keyrings
<1> HIDE DEF n, k
<1>10. CASE written
  <2> DEFINE X == IF failed THEN {} ELSE {n}
  <2>1. X \subseteq k.current /\ exposed' = exposed \cup X
    BY Zenon, <1>2, <1>9
  <2>2. keyring' = [keyring EXCEPT ![d] = k]
    BY Zenon, <1>2, <1>10
  <2> HIDE DEF X
  <2>3. \A b \in {n} : /\ b.device = d
                       /\ keyring[d].last < b.issued /\ b.issued <= k.last
                       /\ \A c \in {n} : c = b
    BY <1>2, <1>5, <1>6, <1>7, <1>9
  <2>4. /\ keyring[d].last <= k.last
        /\ \A b \in k.current : b.issued > 0
        /\ k.current \cup k.retired \subseteq keyring[d].current \cup keyring[d].retired \cup {n}
    <3>1. keyring[d].last <= k.last
      BY <1>2, <1>5, <1>7, <1>9
    <3>2. \A b \in k.current : b.issued > 0
      BY Zenon, <1>5, <1>6, <1>9
    <3>3. k.current \cup k.retired \subseteq keyring[d].current \cup keyring[d].retired \cup {n}
      BY Zenon, <1>8, <1>9
    <3> QED
      BY Zenon, <3>1, <3>2, <3>3
  <2>5. ~k.revoked /\ ~keyring[d].revoked
    BY Zenon, <1>2, <1>9
  <2>6. LiveOf(keyring[d].current \cup keyring[d].retired) \subseteq k.current \cup k.retired
    BY Zenon, <1>9 DEF LiveOf
  <2>7. /\ keyring' \in [PrekeyDevices -> Keyrings] /\ exposed' \subseteq Bundles
        /\ \A b \in exposed' : b.issued > 0
        /\ \A e \in PrekeyDevices : \A b \in keyring'[e].current : b.issued > 0
        /\ OwnBundles'
        /\ GivenOutIsAnswered'
    <3> DEFINE N == {n}
    <3>1. /\ \A b \in N : /\ b.device = d
                          /\ keyring[d].last < b.issued /\ b.issued <= k.last
                          /\ \A c \in N : c = b
          /\ k.current \cup k.retired \subseteq keyring[d].current \cup keyring[d].retired \cup N
      BY Zenon, <2>3, <2>4
    <3> HIDE DEF N
    <3> QED
      BY Zenon, <1>1, <1>3, <1>9, <2>1, <2>2, <2>4, <2>5, <2>6, <3>1, KeysStep
  <2> QED
    BY Zenon, <1>3, <1>4, <2>1, <2>7, DeviceStep
<1>11. CASE ~written
  <2>1. keyring' = keyring /\ exposed' = exposed
    BY Zenon, <1>2, <1>11
  <2>2. OwnBundles' /\ GivenOutIsAnswered'
    BY <1>1, <1>3, <2>1 DEF OwnBundles, KeysOf, GivenOutIsAnswered, Answerable
  <2> QED
    BY Zenon, <1>1, <1>3, <1>4, <2>1, <2>2, DeviceStep DEF Dated
<1> QED
  BY Zenon, <1>10, <1>11

LEMMA ReuseStep ==
    ASSUME PrekeyInv, NEW d \in PrekeyDevices, ReuseDevicePrekey(d)
    PROVE  PrekeyInv'
<1> DEFINE k == keyring[d]
           X == Reusable(d)
<1>1. /\ PrekeyKinds /\ Dated /\ OwnBundles /\ Collections /\ GivenOutIsAnswered
      /\ keyring \in [PrekeyDevices -> Keyrings] /\ made \in [PrekeyDevices -> Nat]
  BY Zenon DEF PrekeyInv, PrekeyKinds
<1>2. /\ ~k.revoked
      /\ exposed' = exposed \cup X
      /\ UNCHANGED <<roster, collection, finalizing, publication, asked, prekeyClock, made, keyring>>
  BY Zenon DEF ReuseDevicePrekey, collectionVars, publicationVars, countVars
<1>3. X \subseteq k.current
  BY Zenon DEF Reusable
<1>4. k \in Keyrings /\ k.last \in Nat /\ k.last <= k.last /\ keyring' = [keyring EXCEPT ![d] = k]
  BY <1>1, <1>2 DEF Keyrings
<1>5. LiveOf(k.current \cup k.retired) \subseteq k.current \cup k.retired
  BY Zenon DEF LiveOf
<1>6. \A b \in k.current : b.issued > 0
  BY Zenon, <1>1 DEF Dated
<1>7. /\ keyring' \in [PrekeyDevices -> Keyrings] /\ exposed' \subseteq Bundles
      /\ \A b \in exposed' : b.issued > 0
      /\ \A e \in PrekeyDevices : \A b \in keyring'[e].current : b.issued > 0
      /\ OwnBundles'
      /\ GivenOutIsAnswered'
  <2> DEFINE N == {}
  <2>1. (\A b \in N : FALSE) /\ k.current \cup k.retired \subseteq k.current \cup k.retired \cup N
    BY Zenon
  <2> HIDE DEF N, X
  <2> QED
    BY Zenon, <1>1, <1>2, <1>3, <1>4, <1>5, <1>6, <2>1, KeysStep
<1> QED
  BY Zenon, <1>1, <1>2, <1>7, DeviceStep

LEMMA RevokeStep ==
    ASSUME PrekeyInv, NEW d \in PrekeyDevices, NEW failed \in BOOLEAN, NEW written \in BOOLEAN,
           RevokeDevicePrekeys(d, failed, written)
    PROVE  PrekeyInv'
<1> DEFINE k == RevokedRecord(d)
<1>1. /\ PrekeyKinds /\ Dated /\ OwnBundles /\ Collections /\ GivenOutIsAnswered
      /\ keyring \in [PrekeyDevices -> Keyrings] /\ made \in [PrekeyDevices -> Nat]
      /\ exposed \subseteq Bundles
  BY Zenon DEF PrekeyInv, PrekeyKinds
<1>2. /\ keyring' = IF written THEN [keyring EXCEPT ![d] = k] ELSE keyring
      /\ UNCHANGED <<roster, collection, finalizing, publication, asked, prekeyClock, made, exposed>>
  BY Zenon DEF RevokeDevicePrekeys, collectionVars, publicationVars
<1>3. keyring[d] \in Keyrings
  BY Zenon, <1>1
<1>4. /\ k \in Keyrings /\ k.last = keyring[d].last /\ k.revoked
      /\ k.current = {} /\ k.retired = {}
  BY Zenon, <1>3 DEF RevokedRecord, Keyrings
<1> HIDE DEF k
<1>5. CASE written
  <2>1. keyring' = [keyring EXCEPT ![d] = k]
    BY Zenon, <1>2, <1>5
  <2>2. keyring[d].last <= k.last
    BY <1>3, <1>4 DEF Keyrings
  <2>3. /\ keyring' \in [PrekeyDevices -> Keyrings] /\ exposed' \subseteq Bundles
        /\ \A b \in exposed' : b.issued > 0
        /\ \A e \in PrekeyDevices : \A b \in keyring'[e].current : b.issued > 0
        /\ OwnBundles'
        /\ GivenOutIsAnswered'
    <3> DEFINE N == {}
               X == {}
    <3>1. /\ \A b \in N : FALSE
          /\ k.current \cup k.retired \subseteq keyring[d].current \cup keyring[d].retired \cup N
          /\ X \subseteq k.current /\ exposed' = exposed \cup X
          /\ k.current \cup k.retired = {} /\ \A b \in k.current : b.issued > 0
      BY Zenon, <1>2, <1>4
    <3> HIDE DEF N, X
    <3> QED
      BY Zenon, <1>1, <1>2, <1>4, <2>1, <2>2, <3>1, KeysStep
  <2> QED
    BY Zenon, <1>1, <1>2, <2>3, DeviceStep
<1>6. CASE ~written
  <2>1. keyring' = keyring
    BY Zenon, <1>2, <1>6
  <2>2. OwnBundles' /\ GivenOutIsAnswered'
    BY <1>1, <1>2, <2>1 DEF OwnBundles, KeysOf, GivenOutIsAnswered, Answerable
  <2> QED
    BY Zenon, <1>1, <1>2, <2>1, <2>2, DeviceStep DEF Dated
<1> QED
  BY Zenon, <1>5, <1>6

LEMMA PruneStep ==
    ASSUME PrekeyInv, NEW d \in PrekeyDevices, PruneDevicePrekeys(d)
    PROVE  PrekeyInv'
<1> DEFINE k == [keyring[d] EXCEPT !.current = LiveOf(keyring[d].current),
                                   !.retired = LiveOf(keyring[d].retired)]
<1>1. /\ PrekeyKinds /\ Dated /\ OwnBundles /\ Collections /\ GivenOutIsAnswered
      /\ keyring \in [PrekeyDevices -> Keyrings] /\ made \in [PrekeyDevices -> Nat]
  BY Zenon DEF PrekeyInv, PrekeyKinds
<1>2. /\ ~keyring[d].revoked
      /\ keyring' = [keyring EXCEPT ![d] = k]
      /\ UNCHANGED <<roster, collection, finalizing, publication, asked, prekeyClock, made, exposed>>
  BY Zenon DEF PruneDevicePrekeys, collectionVars, publicationVars, countVars
<1>3. keyring[d] \in Keyrings
  BY Zenon, <1>1
<1>4. /\ LiveOf(keyring[d].current) \subseteq keyring[d].current
      /\ LiveOf(keyring[d].retired) \subseteq keyring[d].retired
      /\ LiveOf(keyring[d].current \cup keyring[d].retired)
            = LiveOf(keyring[d].current) \cup LiveOf(keyring[d].retired)
  BY Zenon DEF LiveOf
<1>5. /\ k \in Keyrings /\ k.last = keyring[d].last /\ k.revoked = keyring[d].revoked
      /\ k.current = LiveOf(keyring[d].current) /\ k.retired = LiveOf(keyring[d].retired)
  BY Zenon, <1>3, <1>4 DEF Keyrings
<1> HIDE DEF k
<1>6. keyring[d].last <= k.last
  BY <1>3, <1>5 DEF Keyrings
<1>7. \A b \in k.current : b.issued > 0
  BY Zenon, <1>1, <1>4, <1>5 DEF Dated
<1>8. /\ keyring' \in [PrekeyDevices -> Keyrings] /\ exposed' \subseteq Bundles
      /\ \A b \in exposed' : b.issued > 0
      /\ \A e \in PrekeyDevices : \A b \in keyring'[e].current : b.issued > 0
      /\ OwnBundles'
      /\ GivenOutIsAnswered'
  <2> DEFINE N == {}
             X == {}
  <2>1. /\ \A b \in N : FALSE
        /\ k.current \cup k.retired \subseteq keyring[d].current \cup keyring[d].retired \cup N
        /\ X \subseteq k.current /\ exposed' = exposed \cup X
        /\ LiveOf(keyring[d].current \cup keyring[d].retired) \subseteq k.current \cup k.retired
        /\ ~k.revoked
    BY Zenon, <1>2, <1>4, <1>5
  <2> HIDE DEF N, X
  <2> QED
    BY Zenon, <1>1, <1>2, <1>5, <1>6, <1>7, <2>1, KeysStep
<1> QED
  BY Zenon, <1>1, <1>2, <1>8, DeviceStep

LEMMA AskStep ==
    ASSUME PrekeyInv, NEW d \in PrekeyDevices, AskGeneration(d)
    PROVE  PrekeyInv'
<1> DEFINE q == PlanOf(collection)
<1>1. /\ PrekeyKinds /\ Dated /\ OwnBundles /\ Collections /\ GivenOutIsAnswered
      /\ asked \in [PrekeyDevices -> Plans \cup {NoCollection}]
  BY Zenon DEF PrekeyInv, PrekeyKinds
<1>2. /\ collection # NoCollection
      /\ asked' = [asked EXCEPT ![d] = q]
      /\ UNCHANGED <<roster, collection, finalizing, publication, keyring, made, exposed, prekeyClock>>
  BY Zenon DEF AskGeneration, Current, collectionVars, publicationVars, countVars
<1>3. collection \in CollectionRecords /\ collection.issued > 0
  BY Zenon, <1>1, <1>2 DEF PrekeyKinds, Dated
<1>4. q \in Plans /\ q.issued > 0
  BY Zenon, <1>3 DEF PlanOf, Plans, CollectionRecords
<1> HIDE DEF q
<1>5. /\ asked' \in [PrekeyDevices -> Plans \cup {NoCollection}]
      /\ asked'[d] = q /\ \A e \in PrekeyDevices : e # d => asked'[e] = asked[e]
  BY Zenon, <1>1, <1>2, <1>4
<1>6. PrekeyKinds'
  BY Zenon, <1>1, <1>2, <1>5 DEF PrekeyKinds
<1>7. Dated'
  BY Zenon, <1>1, <1>2, <1>4, <1>5 DEF Dated
<1>8. Collections'
  BY Zenon, <1>1, <1>2, CollectionsKept
<1>9. OwnBundles' /\ GivenOutIsAnswered'
  BY <1>1, <1>2 DEF OwnBundles, KeysOf, GivenOutIsAnswered, Answerable
<1> QED
  BY Zenon, <1>6, <1>7, <1>8, <1>9 DEF PrekeyInv

(***************************************************************************)
(* The collection and its finalizers.                                      *)
(***************************************************************************)

\* What a step of the collection leaves to show: the devices are untouched.
LEMMA LedgerStep ==
    ASSUME PrekeyInv, UNCHANGED <<keyring, asked, made, exposed, prekeyClock>>,
           roster' \in Rosters,
           collection' \in CollectionRecords \cup {NoCollection},
           collection' # NoCollection => collection'.issued > 0,
           finalizing' \in [Finalizers -> Finalizations \cup {NoCollection}],
           publication' \subseteq exposed,
           Collections'
    PROVE  PrekeyInv'
<1>1. PrekeyKinds'
  BY Zenon DEF PrekeyInv, PrekeyKinds
<1>2. Dated'
  BY Zenon DEF PrekeyInv, Dated
<1>3. OwnBundles' /\ GivenOutIsAnswered'
  BY DEF PrekeyInv, OwnBundles, KeysOf, GivenOutIsAnswered, Answerable
<1> QED
  BY Zenon, <1>1, <1>2, <1>3 DEF PrekeyInv

LEMMA RecordOK ==
    ASSUME NEW c \in CollectionRecords
    PROVE  /\ c.roster \in Rosters /\ c.roster # {} /\ c.issued \in Nat /\ c.expires \in Nat
           /\ c # NoCollection
           /\ Complete(c) => c.got # {}
<1>1. c.roster \in Rosters /\ c.issued \in Nat /\ c.expires \in Nat
  BY Zenon DEF CollectionRecords
<1>2. c.roster # {}
  BY Zenon, <1>1, PrekeyAssumption
<1>3. Complete(c) => c.got # {}
  BY Zenon, <1>2 DEF Complete, DevicesOf
<1> QED
  BY Zenon, <1>1, <1>2, <1>3, NoCollectionAssumption

\* What a finalizer holds, with the facts the steps need.
LEMMA HeldOK ==
    ASSUME PrekeyInv, NEW f \in Finalizers, finalizing[f] # NoCollection
    PROVE  /\ finalizing[f] \in Finalizations
           /\ Held(f) \in CollectionRecords /\ Held(f).issued \in Nat /\ Held(f).got # {}
           /\ Held(f).roster \in Rosters
           /\ HeldBy(f)
           /\ \A b \in Held(f).got : b.issued = Held(f).issued /\ b.expires = Held(f).expires
           /\ collection \in CollectionRecords /\ collection.issued \in Nat
<1>1. finalizing[f] \in Finalizations
  BY Zenon DEF PrekeyInv, PrekeyKinds
<1>2. Held(f) \in CollectionRecords
  BY Zenon, <1>1 DEF Finalizations, Held
<1>3. HeldBy(f)
  BY Zenon DEF PrekeyInv, Collections
<1>4. collection \in CollectionRecords
  BY Zenon, <1>3 DEF PrekeyInv, PrekeyKinds, HeldBy
<1>5. \A b \in Held(f).got : b.issued = Held(f).issued /\ b.expires = Held(f).expires
  BY Zenon, <1>3 DEF HeldBy, Fits
<1> QED
  BY Zenon, <1>1, <1>2, <1>3, <1>4, <1>5, RecordOK DEF HeldBy

\* A new collection is later than everything collected before.
LEMMA BeginStep ==
    ASSUME PrekeyInv, NEW failed \in BOOLEAN, NEW written \in BOOLEAN, Begin(failed, written)
    PROVE  PrekeyInv'
<1> DEFINE c == [roster |-> BeginPlan.roster, issued |-> BeginPlan.issued,
                 expires |-> BeginPlan.expires, got |-> {}, finalized |-> FALSE]
<1>1. /\ PrekeyKinds /\ Dated /\ Collections
      /\ prekeyClock \in Nat \ {0} /\ roster \in Rosters
      /\ collection \in CollectionRecords \cup {NoCollection}
      /\ finalizing \in [Finalizers -> Finalizations \cup {NoCollection}]
  BY Zenon DEF PrekeyInv, PrekeyKinds
<1>2. /\ collection' = IF written THEN c ELSE collection
      /\ UNCHANGED <<roster, finalizing, publication, keyring, asked, made, exposed, prekeyClock>>
  BY Zenon DEF Begin, publicationVars, deviceVars
<1>3. /\ BeginPlan.roster = roster /\ BeginPlan.issued = prekeyClock /\ BeginPlan.expires \in Nat
      /\ BeginPlan.expires > prekeyClock + ReplenishBefore
  <2>1. prekeyClock + GenerationLifetime \in Nat /\ DelegationExpires \in Nat
    BY <1>1, PrekeyAssumption
  <2>2. Min({prekeyClock + GenerationLifetime, DelegationExpires}) \in Nat
    BY Zenon, <2>1, OfTwo
  <2> QED
    BY Zenon, <2>2 DEF BeginPlan, Begin
<1>4. /\ c \in CollectionRecords /\ c.issued = prekeyClock /\ c.got = {} /\ c.finalized = FALSE
  BY Zenon, <1>1, <1>3 DEF CollectionRecords
<1> HIDE DEF c
<1>5. collection # NoCollection => prekeyClock > collection.issued
  <2> SUFFICES ASSUME collection # NoCollection
               PROVE  prekeyClock > collection.issued
    BY Zenon
  <2>1. collection \in CollectionRecords /\ collection.expires \in Nat
    BY Zenon, <1>1, RecordOK
  <2>2. collection.expires <= prekeyClock + ReplenishBefore
    BY <1>1, <2>1, PrekeyAssumption DEF Begin
  <2>3. BeginPlan.expires # collection.expires
    BY <1>1, <1>3, <2>1, <2>2, PrekeyAssumption
  <2> QED
    BY Zenon, <1>3, <2>3 DEF Begin, MayBegin
<1>6. CASE written
  <2>1. collection' = c /\ c # NoCollection
    BY Zenon, <1>2, <1>4, <1>6, RecordOK
  <2>2. Fits(c)
    BY Zenon, <1>4 DEF Fits
  <2>3. ASSUME NEW f \in Finalizers, finalizing[f] # NoCollection
        PROVE  /\ Held(f).issued <= c.issued
               /\ SameMoment(Held(f).got, c)
    <3>1. Held(f).issued \in Nat /\ collection.issued \in Nat /\ HeldBy(f)
          /\ \A b \in Held(f).got : b.issued = Held(f).issued
      BY Zenon, <2>3, HeldOK
    <3>2. Held(f).issued < c.issued
      BY <1>1, <1>4, <1>5, <3>1 DEF HeldBy
    <3> QED
      BY <1>1, <1>4, <3>1, <3>2 DEF SameMoment
  <2>4. ASSUME publication # {}
        PROVE  (\A b \in publication : b.issued <= c.issued) /\ SameMoment(publication, c)
    <3>1. collection # NoCollection /\ \A b \in publication : b.issued <= collection.issued
      BY Zenon, <1>1, <2>4 DEF Collections
    <3>2. collection.issued \in Nat
      BY Zenon, <1>1, <3>1, RecordOK
    <3>3. \A b \in publication : b.issued \in Nat
      BY Zenon, <1>1 DEF PrekeyKinds, Bundles
    <3>4. \A b \in publication : b.issued < c.issued
      BY SMTT(40), <1>1, <1>4, <1>5, <3>1, <3>2, <3>3
    <3> QED
      BY <1>1, <1>4, <3>3, <3>4 DEF SameMoment
  <2>5. Collections'
    <3>1. \A f : Held(f)' = Held(f)
      BY Zenon, <1>2 DEF Held
    <3>2. \A x : Fits(x)' <=> Fits(x)
      BY Zenon, <1>2 DEF Fits
    <3>3. \A f \in Finalizers : finalizing[f] # NoCollection => HeldBy(f)'
      BY Zenon, <1>1, <1>2, <2>1, <2>3, <3>1, <3>2 DEF HeldBy, Collections
    <3>4. Fits(collection)'
      BY Zenon, <1>2, <2>1, <2>2 DEF Fits
    <3> QED
      BY Zenon, <1>1, <1>2, <1>4, <2>1, <2>4, <3>1, <3>3, <3>4 DEF Collections
  <2> QED
    BY <1>1, <1>2, <1>4, <2>1, <2>5, LedgerStep DEF PrekeyKinds
<1>7. CASE ~written
  <2>1. collection' = collection
    BY Zenon, <1>2, <1>7
  <2>2. Collections'
    BY Zenon, <1>1, <1>2, <2>1, CollectionsKept
  <2> QED
    BY Zenon, <1>1, <1>2, <2>1, <2>2, LedgerStep DEF PrekeyKinds, Dated
<1> QED
  BY Zenon, <1>6, <1>7

\* A contribution goes into a collection that nobody has finalized or published.
LEMMA ContributionStep ==
    ASSUME PrekeyInv, NEW b \in exposed, NEW failed \in BOOLEAN, NEW written \in BOOLEAN,
           AddPrekeyContribution(b, failed, written)
    PROVE  PrekeyInv'
<1> DEFINE c == [collection EXCEPT !.got = collection.got \cup {b}]
<1>1. /\ PrekeyKinds /\ Dated /\ Collections
      /\ collection \in CollectionRecords \cup {NoCollection}
      /\ finalizing \in [Finalizers -> Finalizations \cup {NoCollection}]
      /\ exposed \subseteq Bundles
  BY Zenon DEF PrekeyInv, PrekeyKinds
<1>2. /\ collection # NoCollection
      /\ b.issued = collection.issued /\ b.expires = collection.expires
      /\ b.device \in collection.roster /\ b.device \notin DevicesOf(collection.got)
      /\ collection' = IF written THEN c ELSE collection
      /\ UNCHANGED <<roster, finalizing, publication, keyring, asked, made, exposed, prekeyClock>>
  BY Zenon DEF AddPrekeyContribution, publicationVars, deviceVars
<1>3. /\ collection \in CollectionRecords /\ collection.got \subseteq Bundles /\ collection.issued > 0
      /\ collection.issued \in Nat
  BY Zenon, <1>1, <1>2 DEF CollectionRecords, Dated
<1>4. /\ c \in CollectionRecords /\ c.issued = collection.issued /\ c.expires = collection.expires
      /\ c.roster = collection.roster /\ c.got = collection.got \cup {b}
      /\ c.finalized = collection.finalized
  BY Zenon, <1>1, <1>3 DEF CollectionRecords
<1> HIDE DEF c
<1>5. ~Complete(collection)
  BY Zenon, <1>2 DEF Complete
<1>6. Fits(collection) /\ \A x \in collection.got : x.issued = collection.issued
  BY Zenon, <1>1, <1>2 DEF Collections, Fits
<1>7. CASE written
  <2>1. collection' = c /\ c # NoCollection
    BY Zenon, <1>2, <1>4, <1>7, RecordOK
  <2>2. Fits(c)
    BY Zenon, <1>2, <1>4, <1>6 DEF Fits
  <2>3. ASSUME NEW f \in Finalizers, finalizing[f] # NoCollection
        PROVE  /\ Held(f).issued <= c.issued
               /\ SameMoment(Held(f).got, c)
    BY Zenon, <1>4, <1>5, <2>3, HeldOK DEF HeldBy, SameMoment
  <2>4. ASSUME publication # {}
        PROVE  /\ \A x \in publication : x.issued <= c.issued
               /\ \A x \in publication : x.issued # c.issued
               /\ SameMoment(publication, c)
    BY Zenon, <1>1, <1>4, <1>5, <2>4 DEF Collections, SameMoment
  <2>5. c.finalized => publication # {} /\ Later(publication, c)
    <3> SUFFICES ASSUME collection.finalized
                 PROVE  publication # {} /\ Later(publication, c)
      BY Zenon, <1>4
    <3>1. publication # {} /\ (collection.got = publication \/ Later(publication, collection))
      BY Zenon, <1>1, <1>2 DEF Collections
    <3>2. collection.got # publication
      BY ZenonT(30), <1>4, <1>6, <2>4, <3>1
    <3> QED
      BY Zenon, <1>4, <3>1, <3>2 DEF Later
  <2>6. Collections'
    <3>1. \A f : Held(f)' = Held(f)
      BY Zenon, <1>2 DEF Held
    <3>2. \A x : Fits(x)' <=> Fits(x)
      BY ZenonT(30), <1>2 DEF Fits
    <3>3. \A f \in Finalizers : finalizing[f] # NoCollection => HeldBy(f)'
      BY Zenon, <1>1, <1>2, <2>1, <2>3, <3>1, <3>2 DEF HeldBy, Collections
    <3>4. Fits(collection)'
      BY Zenon, <1>2, <2>1, <2>2 DEF Fits
    <3> QED
      BY Zenon, <1>1, <1>2, <2>1, <2>4, <2>5, <3>1, <3>3, <3>4 DEF Collections
  <2> QED
    BY Zenon, <1>1, <1>2, <1>3, <1>4, <2>1, <2>6, LedgerStep DEF PrekeyKinds
<1>8. CASE ~written
  <2>1. collection' = collection
    BY Zenon, <1>2, <1>8
  <2>2. Collections'
    BY ZenonT(30), <1>1, <1>2, <2>1, CollectionsKept
  <2> QED
    BY Zenon, <1>1, <1>2, <2>1, <2>2, LedgerStep DEF PrekeyKinds, Dated
<1> QED
  BY Zenon, <1>7, <1>8

\* A finalizer gives up, or has done: nobody else is concerned.
LEMMA DropFinalizer ==
    ASSUME PrekeyInv, NEW f \in Finalizers, finalizing' = [finalizing EXCEPT ![f] = NoCollection],
           UNCHANGED <<collection, publication, exposed>>
    PROVE  /\ finalizing' \in [Finalizers -> Finalizations \cup {NoCollection}]
           /\ Collections'
<1>1. Collections /\ finalizing \in [Finalizers -> Finalizations \cup {NoCollection}]
  BY Zenon DEF PrekeyInv, PrekeyKinds
<1>2. /\ finalizing' \in [Finalizers -> Finalizations \cup {NoCollection}]
      /\ finalizing'[f] = NoCollection
      /\ \A g \in Finalizers : g # f => finalizing'[g] = finalizing[g]
  BY Zenon, <1>1
<1>3. \A g \in Finalizers : finalizing'[g] # NoCollection =>
         finalizing[g] # NoCollection /\ Held(g)' = Held(g) /\ finalizing'[g] = finalizing[g]
  BY Zenon, <1>2 DEF Held
<1>4. \A x : Fits(x)' <=> Fits(x)
  BY Zenon DEF Fits
<1>5. \A g \in Finalizers : finalizing'[g] # NoCollection => HeldBy(g)'
  BY Zenon, <1>1, <1>3, <1>4 DEF Collections, HeldBy
<1>6. \A g, h \in Finalizers : finalizing'[g] # NoCollection /\ finalizing'[h] # NoCollection =>
         SameMoment(Held(h)'.got, Held(g)')
  BY Zenon, <1>1, <1>3 DEF Collections
<1> QED
  BY Zenon, <1>1, <1>2, <1>4, <1>5, <1>6 DEF Collections

LEMMA FinalizeReadStep ==
    ASSUME PrekeyInv, NEW f \in Finalizers, FinalizeRead(f)
    PROVE  PrekeyInv'
<1> DEFINE q == [read |-> collection, prepared |-> FALSE]
<1>1. /\ PrekeyKinds /\ Dated /\ Collections
      /\ collection \in CollectionRecords \cup {NoCollection}
      /\ finalizing \in [Finalizers -> Finalizations \cup {NoCollection}]
  BY ZenonT(30) DEF PrekeyInv, PrekeyKinds
<1>2. /\ collection # NoCollection /\ Complete(collection)
      /\ finalizing' = [finalizing EXCEPT ![f] = q]
      /\ UNCHANGED <<roster, collection, publication, keyring, asked, made, exposed, prekeyClock>>
  BY Zenon DEF FinalizeRead, Current, publicationVars, deviceVars, countVars
<1>3. /\ collection \in CollectionRecords /\ collection.issued \in Nat
      /\ Fits(collection) /\ \A b \in collection.got : b.issued = collection.issued
  BY Zenon, <1>1, <1>2, RecordOK DEF Collections, Fits
<1>4. q \in Finalizations /\ q.read = collection /\ q.prepared = FALSE
  BY Zenon, <1>3 DEF Finalizations
<1> HIDE DEF q
<1>5. /\ finalizing' \in [Finalizers -> Finalizations \cup {NoCollection}]
      /\ finalizing'[f] = q
      /\ \A g \in Finalizers : g # f => finalizing'[g] = finalizing[g]
  BY Zenon, <1>1, <1>2, <1>4
<1>6. Held(f)' = collection /\ \A g \in Finalizers : g # f => Held(g)' = Held(g)
  BY Zenon, <1>4, <1>5 DEF Held
<1>7. \A x : Fits(x)' <=> Fits(x)
  BY Zenon, <1>2 DEF Fits
<1>8. SameMoment(collection.got, collection)
  BY Zenon, <1>2 DEF SameMoment
<1>9. SameMoment(publication, collection)
  BY Zenon, <1>1 DEF Collections, SameMoment
<1>10. HeldBy(f)'
  BY SMTT(40), <1>2, <1>3, <1>4, <1>5, <1>6, <1>7, <1>8, <1>9 DEF HeldBy
<1>11. \A g \in Finalizers : g # f /\ finalizing'[g] # NoCollection =>
          /\ finalizing[g] # NoCollection /\ HeldBy(g)'
          /\ SameMoment(Held(g).got, collection)
  BY Zenon, <1>1, <1>2, <1>5, <1>6, <1>7 DEF Collections, HeldBy
<1>12. \A g \in Finalizers : g # f /\ finalizing'[g] # NoCollection =>
          SameMoment(collection.got, Held(g))
  <2> SUFFICES ASSUME NEW g \in Finalizers, finalizing[g] # NoCollection,
                      SameMoment(Held(g).got, collection),
                      NEW b \in collection.got, b.issued = Held(g).issued
               PROVE  collection.got = Held(g).got /\ Complete(Held(g))
    BY Zenon, <1>11 DEF SameMoment
  <2>1. /\ Held(g).got # {} /\ \A x \in Held(g).got : x.issued = Held(g).issued
        /\ Complete(Held(g))
    BY Zenon, HeldOK DEF HeldBy
  <2>2. PICK x \in Held(g).got : x.issued = collection.issued
    BY Zenon, <1>3, <2>1
  <2> QED
    BY Zenon, <2>1, <2>2 DEF SameMoment
<1>13. \A g, h \in Finalizers : finalizing'[g] # NoCollection /\ finalizing'[h] # NoCollection =>
          SameMoment(Held(h)'.got, Held(g)')
  <2> SUFFICES ASSUME NEW g \in Finalizers, NEW h \in Finalizers,
                      finalizing'[g] # NoCollection, finalizing'[h] # NoCollection
               PROVE  SameMoment(Held(h)'.got, Held(g)')
    BY Zenon
  <2>1. CASE g = f /\ h = f
    BY Zenon, <1>6, <1>8, <2>1
  <2>2. CASE g = f /\ h # f
    BY Zenon, <1>6, <1>11, <2>2
  <2>3. CASE g # f /\ h = f
    BY Zenon, <1>6, <1>12, <2>3
  <2>4. CASE g # f /\ h # f
    BY Zenon, <1>1, <1>6, <1>11, <2>4 DEF Collections
  <2> QED
    BY Zenon, <2>1, <2>2, <2>3, <2>4
<1>14. Collections'
  BY Zenon, <1>1, <1>2, <1>7, <1>10, <1>11, <1>13 DEF Collections
<1> QED
  BY Zenon, <1>1, <1>2, <1>3, <1>5, <1>14, LedgerStep DEF PrekeyKinds, Dated

\* What a finalizer publishes is later than what was published before it.
LEMMA PublishesLater ==
    ASSUME PrekeyInv, NEW f \in Finalizers, finalizing[f] # NoCollection,
           Held(f).got # publication, Succeeds(publication, tombstones, Held(f).got)
    PROVE  \A b \in publication : b.issued < Held(f).issued
<1> SUFFICES ASSUME NEW b \in publication
             PROVE  b.issued < Held(f).issued
  BY Zenon
<1>1. /\ Held(f).issued \in Nat /\ Held(f).got # {}
      /\ \A x \in Held(f).got : x.issued = Held(f).issued
      /\ SameMoment(publication, Held(f))
  BY Zenon, HeldOK DEF HeldBy
<1>2. publication # {} /\ b.issued \in Nat /\ \A x \in publication : x.issued = b.issued
  BY Zenon DEF PrekeyInv, PrekeyKinds, Collections, OneWindow, Bundles
<1>3. NewestIssued(Held(f).got) = Held(f).issued
  BY Zenon, <1>1, OneMomentNewest
<1>4. NewestIssued(publication) = b.issued
  BY Zenon, <1>2, OneMomentNewest
<1>5. Held(f).issued > b.issued \/ Held(f).issued = b.issued
  BY Zenon, <1>2, <1>3, <1>4 DEF Succeeds
<1>6. Held(f).issued # b.issued
  BY Zenon, <1>1 DEF SameMoment
<1> QED
  BY Zenon, <1>1, <1>2, <1>5, <1>6

LEMMA PrepareStep ==
    ASSUME PrekeyInv, NEW f \in Finalizers, NEW failed \in BOOLEAN, NEW written \in BOOLEAN,
           PreparePrekeyPublication(f, failed, written)
    PROVE  PrekeyInv'
<1> DEFINE set == Held(f).got
           q == [finalizing[f] EXCEPT !.prepared = TRUE]
<1>1. /\ PrekeyKinds /\ Dated /\ Collections
      /\ collection \in CollectionRecords \cup {NoCollection}
      /\ finalizing \in [Finalizers -> Finalizations \cup {NoCollection}]
      /\ publication \subseteq exposed
  BY Zenon DEF PrekeyInv, PrekeyKinds
<1>2. /\ finalizing[f] # NoCollection
      /\ UNCHANGED <<roster, collection, keyring, asked, made, exposed, prekeyClock>>
  BY Zenon DEF PreparePrekeyPublication, deviceVars
<1>3. /\ finalizing[f] \in Finalizations
      /\ Held(f) \in CollectionRecords /\ Held(f).issued \in Nat /\ set # {}
      /\ Held(f).roster \in Rosters
      /\ HeldBy(f)
      /\ \A b \in set : b.issued = Held(f).issued /\ b.expires = Held(f).expires
      /\ collection \in CollectionRecords /\ collection.issued \in Nat
  BY Zenon, <1>2, HeldOK
<1>4. q \in Finalizations /\ q.read = Held(f) /\ q.prepared = TRUE
  BY Zenon, <1>3 DEF Finalizations, Held
<1>5. \A x : Fits(x)' <=> Fits(x)
  BY Zenon, <1>2 DEF Fits
<1>6. \/ finalizing' = [finalizing EXCEPT ![f] = NoCollection] /\ publication' = publication
      \/ finalizing' = [finalizing EXCEPT ![f] = q] /\ publication' = publication /\ set = publication
      \/ /\ finalizing' = [finalizing EXCEPT ![f] = NoCollection]
            \/ finalizing' = [finalizing EXCEPT ![f] = q]
         /\ publication' = set /\ set # publication /\ Succeeds(publication, tombstones, set)
  BY Zenon DEF PreparePrekeyPublication, Stored, publicationVars, Held
<1>7. collection' # NoCollection => collection'.issued > 0
  BY Zenon, <1>1, <1>2 DEF Dated
<1> HIDE DEF q, set
<1>8. CASE finalizing' = [finalizing EXCEPT ![f] = NoCollection] /\ publication' = publication
  BY ZenonT(40), <1>1, <1>2, <1>7, <1>8, DropFinalizer, LedgerStep DEF PrekeyKinds
<1>9. CASE finalizing' = [finalizing EXCEPT ![f] = q] /\ publication' = publication /\ set = publication
  <2>1. /\ finalizing' \in [Finalizers -> Finalizations \cup {NoCollection}]
        /\ finalizing'[f] = q
        /\ \A g \in Finalizers : g # f => finalizing'[g] = finalizing[g]
    BY Zenon, <1>1, <1>4, <1>9
  <2>2. \A g \in Finalizers : Held(g)' = Held(g)
    BY Zenon, <1>4, <2>1 DEF Held
  <2>3. \A g \in Finalizers : finalizing'[g] # NoCollection =>
           finalizing[g] # NoCollection /\ (g # f => finalizing'[g].prepared = finalizing[g].prepared)
    BY Zenon, <1>2, <2>1
  <2>4. HeldBy(f)'
    BY SMTT(40), <1>2, <1>3, <1>5, <1>9, <2>2 DEF HeldBy, set
  <2>5. \A g \in Finalizers : finalizing'[g] # NoCollection => HeldBy(g)'
    BY ZenonT(40), <1>1, <1>2, <1>5, <1>9, <2>2, <2>3, <2>4 DEF Collections, HeldBy
  <2>6. Collections'
    BY Zenon, <1>1, <1>2, <1>5, <1>9, <2>2, <2>3, <2>5 DEF Collections
  <2> QED
    BY Zenon, <1>1, <1>2, <1>7, <1>9, <2>1, <2>6, LedgerStep DEF PrekeyKinds
<1>10. CASE /\ finalizing' = [finalizing EXCEPT ![f] = NoCollection]
               \/ finalizing' = [finalizing EXCEPT ![f] = q]
            /\ publication' = set /\ set # publication /\ Succeeds(publication, tombstones, set)
  <2>1. /\ finalizing' \in [Finalizers -> Finalizations \cup {NoCollection}]
        /\ finalizing'[f] \in {NoCollection, q}
        /\ \A g \in Finalizers : g # f => finalizing'[g] = finalizing[g]
    BY Zenon, <1>1, <1>4, <1>10
  <2>2. \A g \in Finalizers : finalizing'[g] # NoCollection =>
           /\ finalizing[g] # NoCollection /\ Held(g)' = Held(g)
           /\ g # f => finalizing'[g].prepared = finalizing[g].prepared
    BY Zenon, <1>2, <1>4, <2>1 DEF Held
  <2>3. \A b \in publication : b.issued \in Nat /\ b.issued < Held(f).issued
    <3>1. \A b \in publication : b.issued < Held(f).issued
      BY Zenon, <1>2, <1>10, PublishesLater DEF set
    <3>2. \A b \in publication : b.issued \in Nat
      BY Zenon, <1>1 DEF PrekeyKinds, Bundles
    <3> QED
      BY Zenon, <3>1, <3>2
  <2>4. \A g \in Finalizers : finalizing[g] # NoCollection => SameMoment(set, Held(g))
    BY Zenon, <1>1, <1>2 DEF Collections, set
  <2>5. ASSUME NEW g \in Finalizers, g # f, finalizing'[g] # NoCollection
        PROVE  HeldBy(g)'
    <3>1. /\ finalizing[g] # NoCollection /\ HeldBy(g) /\ Held(g)' = Held(g)
          /\ finalizing'[g].prepared = finalizing[g].prepared
          /\ Held(g).issued \in Nat /\ \A b \in Held(g).got : b.issued = Held(g).issued
      BY ZenonT(30), <2>2, <2>5, HeldOK
    <3>2. ASSUME finalizing[g].prepared
          PROVE  Later(set, Held(g))
      <4>1. publication # {} /\ (publication = Held(g).got \/ Later(publication, Held(g)))
        BY Zenon, <3>1, <3>2 DEF HeldBy
      <4>2. PICK b \in publication : b.issued >= Held(g).issued
        BY <2>3, <3>1, <4>1 DEF Later
      <4>3. Held(f).issued > Held(g).issued
        BY SMTT(40), <1>3, <2>3, <3>1, <4>2
      <4> QED
        BY Zenon, <1>3, <4>3 DEF Later
    <3> QED
      BY ZenonT(40), <1>2, <1>3, <1>5, <1>10, <2>4, <3>1, <3>2 DEF HeldBy
  <2>6. finalizing'[f] # NoCollection => HeldBy(f)'
    BY Zenon, <1>2, <1>3, <1>5, <1>10, <2>2, <2>4 DEF HeldBy, set
  <2>7. /\ publication' # {} /\ publication' \subseteq exposed
        /\ \A b \in publication' : b.issued <= collection.issued
        /\ SameMoment(publication', collection)
        /\ OneWindow(publication') /\ DevicesOf(publication') \in Rosters
    <3>1. publication' # {} /\ publication' \subseteq exposed
      BY Zenon, <1>3, <1>10 DEF HeldBy, Fits, set
    <3>2. \A b \in publication' : b.issued <= collection.issued
      BY Zenon, <1>3, <1>10 DEF HeldBy
    <3>3. SameMoment(publication', collection)
      BY Zenon, <1>3, <1>10 DEF HeldBy, set
    <3>4. OneWindow(publication')
      BY Zenon, <1>3, <1>10 DEF OneWindow
    <3>5. DevicesOf(publication') \in Rosters
      BY Zenon, <1>3, <1>10 DEF HeldBy, Complete, set
    <3> QED
      BY Zenon, <3>1, <3>2, <3>3, <3>4, <3>5
  <2>8. ASSUME collection # NoCollection, collection.finalized
        PROVE  Later(publication', collection)
    <3>1. publication # {} /\ (collection.got = publication \/ Later(publication, collection))
      BY Zenon, <1>1, <2>8 DEF Collections
    <3>2. \A b \in collection.got : b.issued = collection.issued
      BY Zenon, <1>1, <2>8 DEF Collections, Fits
    <3>3. PICK b \in publication : b.issued >= collection.issued
      BY <1>3, <2>3, <3>1, <3>2 DEF Later
    <3>4. Held(f).issued > collection.issued
      BY SMTT(40), <1>3, <2>3, <3>3
    <3> QED
      BY Zenon, <1>3, <1>10, <3>4 DEF Later
  <2>9. \A g, h \in Finalizers : finalizing'[g] # NoCollection /\ finalizing'[h] # NoCollection =>
           SameMoment(Held(h)'.got, Held(g)')
    BY Zenon, <1>1, <2>2 DEF Collections
  <2>10. \A g \in Finalizers : finalizing'[g] # NoCollection => HeldBy(g)'
    BY Zenon, <2>5, <2>6
  <2>11. (collection # NoCollection => Fits(collection))'
    BY SMTT(40), <1>1, <1>2, <1>5 DEF Collections
  <2>12. Collections'
    <3>1. collection # NoCollection
      BY Zenon, <1>3, RecordOK
    <3>2. collection' # NoCollection /\ collection'.finalized =>
             publication' # {} /\ (collection'.got = publication' \/ Later(publication', collection'))
      BY Zenon, <1>2, <2>7, <2>8
    <3>3. /\ \A b \in publication' : b.issued <= collection'.issued
          /\ SameMoment(publication', collection')
          /\ OneWindow(publication') /\ DevicesOf(publication') \in Rosters
      BY Zenon, <1>2, <2>7
    <3> QED
      BY Zenon, <1>2, <2>9, <2>10, <2>11, <3>1, <3>2, <3>3 DEF Collections
  <2> QED
    BY Zenon, <1>1, <1>2, <1>7, <2>1, <2>7, <2>12, LedgerStep DEF PrekeyKinds
<1> QED
  BY Zenon, <1>6, <1>8, <1>9, <1>10

\* The collection that is marked is the one that was published.
LEMMA MarkStep ==
    ASSUME PrekeyInv, NEW f \in Finalizers, NEW failed \in BOOLEAN, NEW written \in BOOLEAN,
           FinalizeMark(f, failed, written)
    PROVE  PrekeyInv'
<1> DEFINE c == [collection EXCEPT !.finalized = TRUE]
<1>1. /\ PrekeyKinds /\ Dated /\ Collections
      /\ finalizing \in [Finalizers -> Finalizations \cup {NoCollection}]
      /\ publication \subseteq exposed
  BY Zenon DEF PrekeyInv, PrekeyKinds
<1>2. /\ finalizing[f] # NoCollection /\ finalizing[f].prepared
      /\ finalizing' = [finalizing EXCEPT ![f] = NoCollection]
      /\ UNCHANGED <<roster, publication, keyring, asked, made, exposed, prekeyClock>>
      /\ collection' = collection \/ (SamePlan(Held(f)) /\ collection' = c)
  BY Zenon DEF FinalizeMark, deviceVars, publicationVars, Held
<1>3. /\ Held(f).issued \in Nat /\ Held(f).got # {}
      /\ HeldBy(f)
      /\ \A b \in Held(f).got : b.issued = Held(f).issued
      /\ collection \in CollectionRecords /\ collection # NoCollection
  BY Zenon, <1>2, HeldOK, RecordOK
<1>4. collection.issued > 0
  BY Zenon, <1>1, <1>3 DEF Dated
<1>5. /\ c \in CollectionRecords /\ c.issued = collection.issued /\ c.expires = collection.expires
      /\ c.roster = collection.roster /\ c.got = collection.got /\ c.finalized
  BY Zenon, <1>3 DEF CollectionRecords
<1> HIDE DEF c
<1>6. CASE collection' = collection
  BY ZenonT(40), <1>1, <1>2, <1>3, <1>4, <1>6, DropFinalizer, LedgerStep DEF PrekeyKinds
<1>7. CASE SamePlan(Held(f)) /\ collection' = c
  <2>1. collection.issued = Held(f).issued
    BY Zenon, <1>7 DEF SamePlan, PlanOf
  <2>2. Held(f).got = collection.got
    BY ZenonT(30), <1>3, <2>1 DEF HeldBy, SameMoment
  <2>3. publication # {} /\ (c.got = publication \/ Later(publication, c))
    BY Zenon, <1>2, <1>3, <1>5, <2>1, <2>2 DEF HeldBy, Later
  <2>4. /\ finalizing' \in [Finalizers -> Finalizations \cup {NoCollection}]
        /\ finalizing'[f] = NoCollection
        /\ \A g \in Finalizers : g # f => finalizing'[g] = finalizing[g]
    BY Zenon, <1>1, <1>2
  <2>5. \A g \in Finalizers : finalizing'[g] # NoCollection =>
           finalizing[g] # NoCollection /\ Held(g)' = Held(g) /\ finalizing'[g] = finalizing[g]
    BY Zenon, <2>4 DEF Held
  <2>6. \A x : Fits(x)' <=> Fits(x)
    BY Zenon, <1>2 DEF Fits
  <2>7. c # NoCollection
    BY Zenon, <1>5, RecordOK
  <2>8. \A s : SameMoment(s, collection) => SameMoment(s, c)
    BY Zenon, <1>5 DEF SameMoment, Complete
  <2>9. \A g \in Finalizers : finalizing'[g] # NoCollection => HeldBy(g)'
    BY ZenonT(40), <1>1, <1>2, <1>5, <1>7, <2>5, <2>6, <2>7, <2>8 DEF Collections, HeldBy
  <2>10. \A g, h \in Finalizers : finalizing'[g] # NoCollection /\ finalizing'[h] # NoCollection =>
            SameMoment(Held(h)'.got, Held(g)')
    BY Zenon, <1>1, <2>5 DEF Collections
  <2>11. Fits(collection)'
    BY Zenon, <1>1, <1>2, <1>3, <1>5, <1>7 DEF Collections, Fits
  <2>12. publication # {} => /\ \A b \in publication : b.issued <= c.issued
                             /\ SameMoment(publication, c)
                             /\ OneWindow(publication) /\ DevicesOf(publication) \in Rosters
    BY SMTT(40), <1>1, <1>5, <2>8 DEF Collections
  <2>13. Collections'
    BY Zenon, <1>2, <1>7, <2>3, <2>7, <2>9, <2>10, <2>11, <2>12 DEF Collections
  <2> QED
    BY Zenon, <1>1, <1>2, <1>4, <1>5, <1>7, <2>4, <2>13, LedgerStep DEF PrekeyKinds
<1> QED
  BY Zenon, <1>2, <1>6, <1>7

LEMMA PrekeyTimeStep ==
    ASSUME PrekeyInv, SendDirect \/ PrekeyTick \/ (\E r \in Rosters : DaemonRestart(r))
    PROVE  PrekeyInv'
<1>1. /\ PrekeyKinds /\ Dated /\ OwnBundles /\ Collections /\ GivenOutIsAnswered
      /\ finalizing \in [Finalizers -> Finalizations \cup {NoCollection}]
      /\ prekeyClock \in Nat \ {0} /\ exposed \subseteq Bundles
  BY Zenon DEF PrekeyInv, PrekeyKinds
<1>2. /\ UNCHANGED <<collection, publication, keyring, asked, made, exposed>>
      /\ roster' \in Rosters
      /\ prekeyClock' \in Nat \ {0} /\ prekeyClock <= prekeyClock'
      /\ finalizing' = finalizing \/ finalizing' = [f \in Finalizers |-> NoCollection]
  BY <1>1 DEF SendDirect, PrekeyTick, DaemonRestart, collectionVars, publicationVars, deviceVars,
              countVars, PrekeyKinds
<1>3. finalizing' \in [Finalizers -> Finalizations \cup {NoCollection}]
  BY Zenon, <1>1, <1>2
<1>4. PrekeyKinds'
  BY Zenon, <1>1, <1>2, <1>3 DEF PrekeyKinds
<1>5. Dated' /\ OwnBundles'
  BY Zenon, <1>1, <1>2 DEF Dated, OwnBundles, KeysOf
<1>6. GivenOutIsAnswered'
  <2> SUFFICES ASSUME NEW b \in exposed
               PROVE  IF keyring[b.device].revoked
                      THEN keyring[b.device].current \cup keyring[b.device].retired = {}
                      ELSE prekeyClock' < b.expires =>
                              b \in keyring[b.device].current \cup keyring[b.device].retired
    BY Zenon, <1>2 DEF GivenOutIsAnswered, Answerable
  <2>1. b.expires \in Nat
    BY Zenon, <1>1 DEF Bundles
  <2>2. prekeyClock' < b.expires => prekeyClock < b.expires
    BY <1>1, <1>2, <2>1
  <2> QED
    BY Zenon, <1>1, <2>2 DEF GivenOutIsAnswered, Answerable
<1>7. Collections'
  <2>1. CASE finalizing' = finalizing
    BY ZenonT(30), <1>1, <1>2, <2>1, CollectionsKept
  <2>2. CASE finalizing' = [f \in Finalizers |-> NoCollection]
    <3>1. \A f \in Finalizers : finalizing'[f] = NoCollection
      BY Zenon, <2>2
    <3>2. \A x : Fits(x)' <=> Fits(x)
      BY Zenon, <1>2 DEF Fits
    <3> QED
      BY Zenon, <1>1, <1>2, <3>1, <3>2 DEF Collections
  <2> QED
    BY Zenon, <1>2, <2>1, <2>2
<1> QED
  BY Zenon, <1>4, <1>5, <1>6, <1>7 DEF PrekeyInv

LEMMA InitPrekeyInv == PrekeyInit => PrekeyInv
<1> SUFFICES ASSUME PrekeyInit
             PROVE  PrekeyInv
  BY Zenon
<1>1. NoKeys \in Keyrings
  BY Zenon DEF NoKeys, Keyrings
<1>2. PrekeyKinds
  BY <1>1 DEF PrekeyInit, PrekeyKinds
<1>3. Dated
  BY Zenon DEF PrekeyInit, Dated, NoKeys
<1>4. OwnBundles /\ GivenOutIsAnswered
  BY ZenonT(30) DEF PrekeyInit, OwnBundles, KeysOf, GivenOutIsAnswered, NoKeys
<1>5. Collections
  BY Zenon DEF PrekeyInit, Collections
<1> QED
  BY Zenon, <1>2, <1>3, <1>4, <1>5 DEF PrekeyInv

LEMMA NextPrekeyInv == PrekeyInv /\ [PrekeyNext]_prekeyVars => PrekeyInv'
<1> SUFFICES ASSUME PrekeyInv, [PrekeyNext]_prekeyVars
             PROVE  PrekeyInv'
  BY Zenon
<1>1. CASE UNCHANGED prekeyVars
  <2>1. /\ UNCHANGED <<roster, collection, finalizing, publication, keyring, asked, made, exposed>>
        /\ UNCHANGED prekeyClock
    BY SMTT(40), <1>1 DEF prekeyVars, collectionVars, publicationVars, deviceVars, countVars
  <2>2. PrekeyKinds' /\ Dated'
    BY Zenon, <2>1 DEF PrekeyInv, PrekeyKinds, Dated
  <2>3. OwnBundles' /\ GivenOutIsAnswered'
    BY <2>1 DEF PrekeyInv, OwnBundles, KeysOf, GivenOutIsAnswered, Answerable
  <2>4. Collections'
    BY Zenon, <2>1, CollectionsKept DEF PrekeyInv
  <2> QED
    BY Zenon, <2>2, <2>3, <2>4 DEF PrekeyInv
<1>2. ASSUME NEW failed \in BOOLEAN, NEW written \in BOOLEAN, Begin(failed, written)
      PROVE  PrekeyInv'
  BY Zenon, <1>2, BeginStep
<1>3. ASSUME NEW d \in PrekeyDevices, NEW failed \in BOOLEAN, NEW written \in BOOLEAN,
             EnsureDevicePrekey(d, failed, written)
      PROVE  PrekeyInv'
  BY Zenon, <1>3, EnsureStep
<1>4. ASSUME NEW d \in PrekeyDevices, NEW failed \in BOOLEAN, NEW written \in BOOLEAN,
             RevokeDevicePrekeys(d, failed, written)
      PROVE  PrekeyInv'
  BY Zenon, <1>4, RevokeStep
<1>5. ASSUME NEW b \in exposed, NEW failed \in BOOLEAN, NEW written \in BOOLEAN,
             AddPrekeyContribution(b, failed, written)
      PROVE  PrekeyInv'
  BY Zenon, <1>5, ContributionStep
<1>6. ASSUME NEW f \in Finalizers, NEW failed \in BOOLEAN, NEW written \in BOOLEAN,
             PreparePrekeyPublication(f, failed, written)
      PROVE  PrekeyInv'
  BY Zenon, <1>6, PrepareStep
<1>7. ASSUME NEW f \in Finalizers, NEW failed \in BOOLEAN, NEW written \in BOOLEAN,
             FinalizeMark(f, failed, written)
      PROVE  PrekeyInv'
  BY Zenon, <1>7, MarkStep
<1>8. ASSUME NEW d \in PrekeyDevices, AskGeneration(d)
      PROVE  PrekeyInv'
  BY Zenon, <1>8, AskStep
<1>9. ASSUME NEW d \in PrekeyDevices, ReuseDevicePrekey(d)
      PROVE  PrekeyInv'
  BY Zenon, <1>9, ReuseStep
<1>10. ASSUME NEW d \in PrekeyDevices, PruneDevicePrekeys(d)
       PROVE  PrekeyInv'
  BY Zenon, <1>10, PruneStep
<1>11. ASSUME NEW f \in Finalizers, FinalizeRead(f)
       PROVE  PrekeyInv'
  BY Zenon, <1>11, FinalizeReadStep
<1>12. CASE SendDirect \/ PrekeyTick \/ (\E r \in Rosters : DaemonRestart(r))
  BY Zenon, <1>12, PrekeyTimeStep
<1> QED
  BY Zenon, <1>1, <1>2, <1>3, <1>4, <1>5, <1>6, <1>7, <1>8, <1>9, <1>10, <1>11, <1>12 DEF PrekeyNext

\* The ledgers of the devices, the planner's collection and the publication record
\* keep the inductive invariant, whatever writes fail and whoever finalizes
\* (messengerd device and endpoint prekey stores).
THEOREM PrekeyInvariant == PrekeySpec => []PrekeyInv
<1>1. PrekeyInit => PrekeyInv
  BY Zenon, InitPrekeyInv
<1>2. PrekeyInv /\ [PrekeyNext]_prekeyVars => PrekeyInv'
  BY Zenon, NextPrekeyInv
<1> QED
  BY <1>1, <1>2, PTL DEF PrekeySpec

\* A published bundle is answered for as long as it is valid: a device keeps the
\* private half of every bundle it gave out, gives out one bundle in a generation,
\* and only whole generations are published (PreparePrekeyPublication,
\* FinalizePrekeyCollection), for any number of devices, rosters and finalizers.
THEOREM PublishedAnswered == PrekeySpec => []PublishedIsAnswered
<1>1. ASSUME PrekeyInv
      PROVE  PublishedIsAnswered
  <2>1. /\ Collections /\ OwnBundles /\ GivenOutIsAnswered
        /\ publication \subseteq exposed /\ exposed \subseteq Bundles
    BY Zenon, <1>1 DEF PrekeyInv, PrekeyKinds
  <2>2. OneBundlePerGeneration
    <3> SUFFICES ASSUME NEW b \in exposed, NEW c \in exposed,
                        b.device = c.device, b.issued = c.issued
                 PROVE  b = c
      BY Zenon DEF OneBundlePerGeneration
    <3>1. b.device \in PrekeyDevices /\ b \in KeysOf(b.device) /\ c \in KeysOf(b.device)
      BY Zenon, <2>1 DEF Bundles, KeysOf
    <3> QED
      BY Zenon, <2>1, <3>1 DEF OwnBundles
  <2>3. ASSUME publication # {}
        PROVE  /\ DevicesOf(publication) \in Rosters
               /\ \A b, c \in publication : b.issued = c.issued /\ b.expires = c.expires
    BY Zenon, <2>1, <2>3 DEF Collections, OneWindow
  <2>4. ASSUME collection # NoCollection, collection.finalized, collection.got # publication
        PROVE  NewestIssued(publication) > collection.issued
    <3>1. publication # {} /\ Later(publication, collection)
      BY ZenonT(30), <2>1, <2>4 DEF Collections
    <3>2. OneWindow(publication)
      BY Zenon, <2>1, <3>1 DEF Collections
    <3>3. PICK p \in publication : p.issued \in Nat
      BY Zenon, <2>1, <3>1 DEF Bundles
    <3>4. NewestIssued(publication) = p.issued
      BY Zenon, <3>2, <3>3, OneMomentNewest DEF OneWindow
    <3> QED
      BY Zenon, <3>1, <3>3, <3>4 DEF Later
  <2> QED
    BY Zenon, <2>1, <2>2, <2>3, <2>4 DEF PublishedIsAnswered, WholeGenerationPublished
<1> QED
  BY <1>1, PrekeyInvariant, PTL

\* The publication record keeps a device set the way DeviceSuccession promises: its
\* generation only grows, within one devices only leave, and a device that left has
\* left for good (PreparePrekeyPublication, the only writer of that record).
THEOREM PublicationRecordSucceeds == PrekeySpec => PublicationSucceeds
<1>1. PrekeyInit => Publisher!SuccessionInit
  BY ZenonT(30) DEF PrekeyInit, Publisher!SuccessionInit, DevicesOf
<1>2. ASSUME PrekeyInv, [PrekeyNext]_prekeyVars
      PROVE  [Publisher!Succession]_(Publisher!successionVars)
  <2>1. CASE UNCHANGED publicationVars
    BY Zenon, <2>1 DEF publicationVars, Publisher!successionVars
  <2>2. ASSUME NEW f \in Finalizers, NEW failed \in BOOLEAN, NEW written \in BOOLEAN,
               PreparePrekeyPublication(f, failed, written), ~ UNCHANGED publicationVars
        PROVE  Publisher!Succession
    <3> DEFINE set == Held(f).got
    <3>1. /\ Succeeds(publication, tombstones, set) /\ finalizing[f] # NoCollection
          /\ publication' = set /\ tombstones' = tombstones \cup Removed(publication, set)
      BY Zenon, <2>2 DEF PreparePrekeyPublication, publicationVars, Held
    <3>2. /\ set # {} /\ set \subseteq exposed
          /\ Held(f).issued \in Nat /\ \A b \in set : b.issued = Held(f).issued
      BY SMTT(40), <1>2, <3>1, HeldOK DEF HeldBy, Fits
    <3>3. /\ publication \subseteq exposed /\ \A b \in exposed : b.issued \in Nat \ {0}
          /\ publication # {} => OneWindow(publication)
      <4>1. exposed \subseteq Bundles /\ publication \subseteq exposed /\ Dated /\ Collections
        BY Zenon, <1>2 DEF PrekeyInv, PrekeyKinds
      <4>2. \A b \in exposed : b.issued \in Nat /\ b.issued > 0
        BY Zenon, <4>1 DEF Dated, Bundles
      <4> QED
        BY <4>1, <4>2 DEF Collections
    <3> HIDE DEF set
    <3>4. NewestIssued(set) \in Nat \ {0}
      <4>1. NewestIssued(set) = Held(f).issued
        BY Zenon, <3>2, OneMomentNewest
      <4> QED
        BY Zenon, <3>2, <3>3, <4>1
    <3>5. ASSUME publication # {}
          PROVE  NewestIssued(publication) \in Nat
      <4>1. PICK p \in publication : p.issued \in Nat
        BY Zenon, <3>3, <3>5
      <4>2. NewestIssued(publication) = p.issued
        BY Zenon, <3>3, <3>5, <4>1, OneMomentNewest DEF OneWindow
      <4> QED
        BY Zenon, <4>1, <4>2
    <3> QED
      BY <3>1, <3>2, <3>4, <3>5, KeeperStep DEF Publisher!Succession
  <2> QED
    BY ZenonT(40), <1>2, <2>1, <2>2 DEF PrekeyNext, prekeyVars, Begin, EnsureDevicePrekey,
       RevokeDevicePrekeys, AddPrekeyContribution, FinalizeMark, AskGeneration,
       ReuseDevicePrekey, PruneDevicePrekeys, FinalizeRead, SendDirect, DaemonRestart, PrekeyTick
<1> QED
  BY <1>1, <1>2, PrekeyInvariant, PTL DEF PrekeySpec, PublicationSucceeds, Publisher!SuccessionSpec

-----------------------------------------------------------------------------
(***************************************************************************)
(* The directory. For any generations, callers, failures and clocks:       *)
(* whoever looks the Endpoint up stays able to, and a peer's record of its *)
(* devices implements DeviceSuccession.                                    *)
(*                                                                         *)
(* EndpointStaysReachable is not inductive: a peer refuses what does not   *)
(* succeed what it holds, so it matters how everything that was ever       *)
(* published is ordered, and what is still on its way to the directory.    *)
(* The strengthening DirectoryInv says that the known sets form one line   *)
(* (OneLine), that what a locator leads to was there before it             *)
(* (Resolvable), and that a peer stands somewhere on that line (Follower). *)
(***************************************************************************)

(***************************************************************************)
(* The inductive invariant of the directory.                               *)
(***************************************************************************)

\* t is s, or may replace it: later, or of the same moment with fewer devices.
Precedes(s, t) ==
    \/ s = t
    \/ NewestIssued(s) < NewestIssued(t)
    \/ /\ NewestIssued(s) = NewestIssued(t)
       /\ t \subseteq s
       /\ DevicesOf(s) \ DevicesOf(t) # {}

\* Every set that is published, on its way to be, or in the Endpoint's ledger.
Known ==
    objects \cup (IF publishing = NoEntry THEN {} ELSE {publishing.descriptor.set})
            \cup (IF endpointSet = {} THEN {} ELSE {endpointSet})

PublicSet(s) == s # {} /\ s \in Generations /\ \A b \in s : b.issued <= directoryClock

\* The known sets form one line that ends in the Endpoint's present set, and whoever
\* left on the way is gone.
OneLine ==
    /\ Known # {} => endpointSet # {}
    /\ \A s \in Known : PublicSet(s) /\ Precedes(s, endpointSet)
    /\ \A s, t \in Known :
          /\ Precedes(s, t) \/ Precedes(t, s)
          /\ Precedes(s, t) => DevicesOf(s) \ DevicesOf(t) \subseteq endpointGone
    /\ DevicesOf(endpointSet) \cap endpointGone = {}

\* A descriptor lives within its bundles.
Within(d) ==
    d.issued \in Nat /\ d.expires \in Nat /\ \A b \in d.set : d.expires <= b.expires

\* What a locator leads to is there before it.
Resolvable ==
    /\ \A d \in descriptors : d.set \in objects /\ Within(d)
    /\ \A l \in locators : l.descriptor \in descriptors /\ l.expires \in Nat
    /\ publishing # NoEntry =>
          /\ publishing = [descriptor |-> publishing.descriptor, stage |-> publishing.stage]
          /\ publishing.stage \in {"prekeys", "descriptor", "locator"}
          /\ Within(publishing.descriptor)
          /\ publishing.stage # "prekeys" => publishing.descriptor.set \in objects
          /\ publishing.stage = "locator" => publishing.descriptor \in descriptors

\* A peer holds something that was published, and buried nobody who is not gone.
Follower ==
    /\ peerSet \in objects \cup {{}}
    /\ peerTombstones \subseteq endpointGone
    /\ lookups \in [DirectoryCallers ->
                      [now : Nat, began : Nat, found : locators \cup {NoEntry}] \cup {NoEntry}]
    /\ \A c \in DirectoryCallers : lookups[c] # NoEntry => lookups[c].now <= directoryClock
    /\ entry # NoEntry =>
          /\ entry.set \in objects /\ entry.until \in Int
          /\ entry.until <= directoryClock \/ \A b \in entry.set : entry.until <= b.expires
    /\ invalidations \in Nat

DirectoryInv ==
    directoryClock \in Nat /\ OneLine /\ Resolvable /\ Follower

(***************************************************************************)
(* Sets of devices: least and greatest times, and their order.             *)
(***************************************************************************)

LEMMA MinOK ==
    ASSUME NEW T, T \subseteq Nat, T # {}
    PROVE  Min(T) \in T /\ \A y \in T : Min(T) <= y
<1> DEFINE R == {p \in Nat \X Nat : p[1] < p[2]}
<1>1. IsWellFoundedOn(R, Nat)
  BY Zenon, NatLessThanWellFounded DEF OpToRel
<1>2. \A x, y \in Nat : y < x => <<y, x>> \in R
  BY Zenon
<1> HIDE DEF R
<1>3. \E x \in T : \A y \in T : ~(<<y, x>> \in R)
  BY <1>1, WFMin, ZenonT(30)
<1>4. PICK x \in T : \A y \in T : ~(<<y, x>> \in R)
  BY Zenon, <1>3
<1>5. \A y \in T : ~(y < x)
  BY Zenon, <1>2, <1>4
<1>6. \A y \in T : x <= y
  BY <1>5
<1> QED
  BY Zenon, <1>6 DEF Min

LEMMA MaxOK ==
    ASSUME NEW T, T \subseteq Nat, T # {}, NEW n \in Nat, \A y \in T : y <= n
    PROVE  Max(T) \in T /\ \A y \in T : y <= Max(T)
<1> DEFINE U == {n - y : y \in T}
<1>1. U \subseteq Nat /\ U # {}
  <2>1. \A y \in T : n - y \in Nat
    OBVIOUS
  <2> QED
    BY Zenon, <2>1
<1>2. PICK u \in U : \A v \in U : u <= v
  BY Zenon, <1>1, MinOK
<1>3. PICK x \in T : u = n - x
  BY Zenon
<1>4. \A y \in T : x >= y
  <2> SUFFICES ASSUME NEW y \in T
               PROVE  x >= y
    BY Zenon
  <2>1. n - x <= n - y
    BY Zenon, <1>2, <1>3
  <2> QED
    BY <2>1
<1>5. Max(T) \in T /\ \A y \in T : Max(T) >= y
  BY Zenon, <1>4 DEF Max
<1> QED
  BY Zenon, <1>5

\* The bundles of a published set, whose issuance the clock bounds, have a newest.
LEMMA NewestOK ==
    ASSUME NEW s, s # {}, \A b \in s : b.issued \in Nat, NEW n \in Nat,
           \A b \in s : b.issued <= n
    PROVE  /\ NewestIssued(s) \in Nat
           /\ \E b \in s : NewestIssued(s) = b.issued
           /\ \A b \in s : b.issued <= NewestIssued(s)
<1> DEFINE T == {b.issued : b \in s}
<1>1. T \subseteq Nat /\ T # {} /\ \A y \in T : y <= n
  BY Zenon
<1>2. Max(T) \in T /\ \A y \in T : y <= Max(T)
  BY Zenon, <1>1, MaxOK
<1> QED
  BY Zenon, <1>1, <1>2 DEF NewestIssued

LEMMA PrecedesTransitive ==
    ASSUME NEW s, NEW t, NEW u, Precedes(s, t), Precedes(t, u),
           NewestIssued(s) \in Nat, NewestIssued(t) \in Nat, NewestIssued(u) \in Nat
    PROVE  Precedes(s, u)
<1>1. CASE s = t \/ t = u
  BY Zenon, <1>1
<1>2. CASE s # t /\ t # u
  <2>1. CASE NewestIssued(s) < NewestIssued(t) \/ NewestIssued(t) < NewestIssued(u)
    BY <1>2, <2>1 DEF Precedes
  <2>2. CASE /\ NewestIssued(s) = NewestIssued(t) /\ NewestIssued(t) = NewestIssued(u)
    <3>1. /\ t \subseteq s /\ u \subseteq t /\ DevicesOf(s) \ DevicesOf(t) # {}
      BY <1>2, <2>2 DEF Precedes
    <3>2. DevicesOf(u) \subseteq DevicesOf(t)
      BY Zenon, <3>1 DEF DevicesOf
    <3>3. u \subseteq s /\ DevicesOf(s) \ DevicesOf(u) # {}
      BY Zenon, <3>1, <3>2
    <3> QED
      BY Zenon, <2>2, <3>3 DEF Precedes
  <2> QED
    BY Zenon, <1>2, <2>1, <2>2 DEF Precedes
<1> QED
  BY Zenon, <1>1, <1>2

LEMMA PrecedesAntisymmetric ==
    ASSUME NEW s, NEW t, Precedes(s, t), Precedes(t, s),
           NewestIssued(s) \in Nat, NewestIssued(t) \in Nat
    PROVE  s = t
<1>1. ~(NewestIssued(s) < NewestIssued(t) /\ NewestIssued(t) <= NewestIssued(s))
  OBVIOUS
<1>2. ~(NewestIssued(t) < NewestIssued(s) /\ NewestIssued(s) <= NewestIssued(t))
  OBVIOUS
<1>3. s = t \/ NewestIssued(s) = NewestIssued(t)
  BY <1>1, <1>2 DEF Precedes
<1> QED
  BY <1>3 DEF Precedes

\* What Succeeds accepts after a set is what may replace it.
LEMMA SucceedsPrecedes ==
    ASSUME NEW s, s # {}, NEW gone, NEW t,
           NewestIssued(s) \in Nat, NewestIssued(t) \in Nat
    PROVE  Succeeds(s, gone, t) <=> Precedes(s, t) /\ DevicesOf(t) \cap gone = {}
<1>1. t # s => Removed(s, t) = DevicesOf(s) \ DevicesOf(t)
  BY Zenon DEF Removed
<1> QED
  BY Zenon, <1>1 DEF Succeeds, Precedes

(***************************************************************************)
(* The directory.                                                          *)
(***************************************************************************)

LEMMA PublicNewest ==
    ASSUME NEW s, PublicSet(s), directoryClock \in Nat
    PROVE  NewestIssued(s) \in Nat \ {0}
<1>1. s # {} /\ \A b \in s : b.issued \in Nat \ {0} /\ b.issued <= directoryClock
  BY Zenon, DirectoryAssumption DEF PublicSet
<1>2. NewestIssued(s) \in Nat /\ \E b \in s : NewestIssued(s) = b.issued
  BY Zenon, <1>1, NewestOK
<1> QED
  BY Zenon, <1>1, <1>2

\* The windows the publisher signs are within those of the bundles.
LEMMA DescriptorWithin ==
    ASSUME NEW s, PublicSet(s), directoryClock \in Nat
    PROVE  /\ DescriptorFor(s, directoryClock).set = s
           /\ Within(DescriptorFor(s, directoryClock))
<1> DEFINE now == directoryClock
           step == DescriptorLifetime \div 2
           issued == Max({(now \div step) * step, NewestIssued(s)})
           d == DescriptorFor(s, now)
           T == {b.expires : b \in s}
<1>1. d = [set |-> s, issued |-> issued, expires |-> Min({Expiry(s), issued + DescriptorLifetime})]
  BY Zenon DEF DescriptorFor
<1>2. step \in Nat \ {0}
  BY DirectoryAssumption
<1>3. now \div step \in Nat
  <2> HIDE DEF step
  <2> QED
    BY <1>2
<1>4. (now \div step) * step \in Nat
  <2> DEFINE q == now \div step
  <2> HIDE DEF step, q
  <2>1. q \in Nat
    BY Zenon, <1>3 DEF q
  <2>2. q * step \in Nat
    BY <1>2, <2>1
  <2> QED
    BY Zenon, <2>2 DEF q
<1>5. issued \in Nat
  <2>1. NewestIssued(s) \in Nat
    BY Zenon, PublicNewest
  <2> HIDE DEF step
  <2> QED
    BY Zenon, <1>4, <2>1, OfTwo
<1>6. T \subseteq Nat /\ T # {}
  BY Zenon, DirectoryAssumption DEF PublicSet
<1>7. Expiry(s) \in Nat /\ \A b \in s : b.expires \in Nat /\ Expiry(s) <= b.expires
  <2>1. Min(T) \in T /\ \A y \in T : Min(T) <= y
    BY Zenon, <1>6, MinOK
  <2>2. Expiry(s) = Min(T)
    BY Zenon DEF Expiry
  <2>3. \A b \in s : b.expires \in T
    BY Zenon
  <2> HIDE DEF T
  <2> QED
    BY Zenon, <1>6, <2>1, <2>2, <2>3
<1> HIDE DEF d, issued, T
<1>8. issued + DescriptorLifetime \in Nat
  BY <1>5, DirectoryAssumption
<1>9. d.expires \in Nat /\ d.expires <= Expiry(s)
  <2>1. d.expires = Min({Expiry(s), issued + DescriptorLifetime})
    BY Zenon, <1>1
  <2> QED
    BY Zenon, <1>7, <1>8, <2>1, OfTwo
<1>10. d.set = s /\ d.issued = issued
  BY Zenon, <1>1
<1>11. \A b \in s : d.expires <= b.expires
  BY <1>7, <1>9
<1>12. d.set = s /\ Within(d)
  BY Zenon, <1>5, <1>9, <1>10, <1>11 DEF Within
<1> QED
  BY Zenon, <1>12 DEF d

LEMMA LocatorOK ==
    ASSUME NEW d, Within(d)
    PROVE  LocatorFor(d).descriptor = d /\ LocatorFor(d).expires \in Nat
<1>1. d.expires \in Nat /\ d.issued + LocatorLifetime \in Nat
  BY DirectoryAssumption DEF Within
<1>2. Min({d.expires, d.issued + LocatorLifetime}) \in Nat
  BY Zenon, <1>1, OfTwo
<1> QED
  BY Zenon, <1>2 DEF LocatorFor

\* No new set is known, and the Endpoint's ledger has not moved.
LEMMA SameLine ==
    ASSUME OneLine, Known' \subseteq Known, UNCHANGED endpointVars,
           directoryClock \in Nat, directoryClock' \in Nat, directoryClock <= directoryClock'
    PROVE  OneLine'
<1>1. endpointSet' = endpointSet /\ endpointGone' = endpointGone
  BY Zenon DEF endpointVars
<1>2. ASSUME NEW s \in Known'
      PROVE  PublicSet(s)'
  <2>1. PublicSet(s)
    BY Zenon, <1>2 DEF OneLine
  <2>2. \A b \in s : b.issued \in Nat
    BY Zenon, <2>1, DirectoryAssumption DEF PublicSet
  <2> QED
    BY <2>1, <2>2 DEF PublicSet
<1>3. \A s \in Known' : PublicSet(s)' /\ Precedes(s, endpointSet')
  BY Zenon, <1>1, <1>2 DEF OneLine
<1>4. Known' # {} => endpointSet' # {}
  BY Zenon, <1>1 DEF OneLine
<1>5. \A s, t \in Known' :
         /\ Precedes(s, t) \/ Precedes(t, s)
         /\ Precedes(s, t) => DevicesOf(s) \ DevicesOf(t) \subseteq endpointGone'
  BY Zenon, <1>1 DEF OneLine
<1>6. DevicesOf(endpointSet') \cap endpointGone' = {}
  BY Zenon, <1>1 DEF OneLine
<1> QED
  BY Zenon, <1>3, <1>4, <1>5, <1>6 DEF OneLine

\* The peer's own state is untouched while the directory grows and time passes.
LEMMA SameFollower ==
    ASSUME Follower, UNCHANGED <<peerVars, managerVars>>,
           objects \subseteq objects', locators \subseteq locators',
           endpointGone \subseteq endpointGone',
           directoryClock \in Nat, directoryClock' \in Nat, directoryClock <= directoryClock'
    PROVE  Follower'
<1> DEFINE L(locs) == [now : Nat, began : Nat, found : locs \cup {NoEntry}]
<1>1. /\ UNCHANGED <<peerSet, peerTombstones, entry, lookups, invalidations>>
  BY Zenon DEF peerVars, managerVars
<1>2. L(locators) \subseteq L(locators')
  BY Zenon
<1>3. lookups \in [DirectoryCallers -> L(locators) \cup {NoEntry}]
  BY Zenon DEF Follower
<1>4. lookups' \in [DirectoryCallers -> L(locators') \cup {NoEntry}]
  <2> HIDE DEF L
  <2> QED
    BY Zenon, <1>1, <1>2, <1>3
<1>5. ASSUME NEW c \in DirectoryCallers, lookups'[c] # NoEntry
      PROVE  lookups'[c].now <= directoryClock'
  <2>1. lookups[c] \in L(locators) /\ lookups[c].now <= directoryClock
    BY Zenon, <1>1, <1>3, <1>5 DEF Follower
  <2>2. lookups[c].now \in Nat
    BY Zenon, <2>1
  <2> QED
    BY <1>1, <2>1, <2>2
<1>6. ASSUME entry' # NoEntry
      PROVE  /\ entry'.set \in objects' /\ entry'.until \in Int
             /\ entry'.until <= directoryClock' \/ \A b \in entry'.set : entry'.until <= b.expires
  <2>1. /\ entry.set \in objects /\ entry.until \in Int
        /\ entry.until <= directoryClock \/ \A b \in entry.set : entry.until <= b.expires
    BY Zenon, <1>1, <1>6 DEF Follower
  <2> QED
    BY <1>1, <2>1
<1>7. /\ peerSet' \in objects' \cup {{}}
      /\ peerTombstones' \subseteq endpointGone'
      /\ invalidations' \in Nat
  BY Zenon, <1>1 DEF Follower
<1> QED
  BY Zenon, <1>4, <1>5, <1>6, <1>7 DEF Follower

\* The Endpoint's ledger moves on: the new set comes after every known one, and what
\* was between it and each of them is gone.
LEMMA AdvanceStep ==
    ASSUME DirectoryInv, NEW next \in Generations, AdvanceEndpoint(next)
    PROVE  DirectoryInv'
<1>1. directoryClock \in Nat /\ OneLine /\ Resolvable /\ Follower
  BY Zenon DEF DirectoryInv
<1>2. /\ BindBundleSet(next, directoryClock)
      /\ Succeeds(endpointSet, endpointGone, next)
      /\ endpointSet' = next
      /\ endpointGone' = endpointGone \cup Removed(endpointSet, next)
      /\ UNCHANGED <<originVars, peerVars, managerVars, directoryClock>>
  BY Zenon DEF AdvanceEndpoint
<1>3. UNCHANGED <<publishing, objects, descriptors, locators>>
  BY Zenon, <1>2 DEF originVars
<1>4. PublicSet(next) /\ next # {}
  BY Zenon, <1>2 DEF PublicSet, BindBundleSet
<1>5. NewestIssued(next) \in Nat \ {0}
  BY Zenon, <1>1, <1>4, PublicNewest
<1>6. \A s \in Known : PublicSet(s) /\ NewestIssued(s) \in Nat \ {0}
  BY Zenon, <1>1, PublicNewest DEF OneLine
<1>7. endpointSet # {} => endpointSet \in Known
  BY Zenon DEF Known
<1>8. \A s \in Known' : s \in Known \/ s = next
  BY Zenon, <1>2, <1>3 DEF Known
<1>9. next \in Known'
  BY Zenon, <1>2, <1>4 DEF Known
<1>10. \A s \in Known : Precedes(s, next)
  <2> SUFFICES ASSUME NEW s \in Known
               PROVE  Precedes(s, next)
    BY Zenon
  <2>1. endpointSet # {} /\ Precedes(s, endpointSet)
    BY Zenon, <1>1 DEF OneLine
  <2>2. Precedes(endpointSet, next)
    BY Zenon, <1>2, <1>5, <1>6, <1>7, <2>1, SucceedsPrecedes
  <2> QED
    BY Zenon, <1>5, <1>6, <1>7, <2>1, <2>2, PrecedesTransitive
<1>11. Precedes(next, next)
  BY Zenon DEF Precedes
<1>12. \A s \in Known : DevicesOf(s) \ DevicesOf(next) \subseteq endpointGone'
  <2> SUFFICES ASSUME NEW s \in Known
               PROVE  DevicesOf(s) \ DevicesOf(next) \subseteq endpointGone'
    BY Zenon
  <2>1. endpointSet # {} /\ Precedes(s, endpointSet)
    BY Zenon, <1>1 DEF OneLine
  <2>2. DevicesOf(s) \ DevicesOf(endpointSet) \subseteq endpointGone
    BY Zenon, <1>1, <1>7, <2>1 DEF OneLine
  <2>3. DevicesOf(endpointSet) \ DevicesOf(next) \subseteq Removed(endpointSet, next)
    BY Zenon, <2>1 DEF Removed
  <2> QED
    BY Zenon, <1>2, <2>2, <2>3
<1>13. OneLine'
  <2>1. \A s \in Known' : PublicSet(s)' /\ Precedes(s, endpointSet')
    <3>1. \A s : PublicSet(s)' <=> PublicSet(s)
      BY Zenon, <1>2 DEF PublicSet
    <3> QED
      BY Zenon, <1>2, <1>4, <1>6, <1>8, <1>10, <1>11, <3>1
  <2>2. ASSUME NEW s \in Known', NEW t \in Known'
        PROVE  /\ Precedes(s, t) \/ Precedes(t, s)
               /\ Precedes(s, t) => DevicesOf(s) \ DevicesOf(t) \subseteq endpointGone'
    <3>1. CASE s \in Known /\ t \in Known
      BY Zenon, <1>1, <1>2, <3>1 DEF OneLine
    <3>2. CASE s \in Known /\ t = next
      BY Zenon, <1>10, <1>12, <3>2
    <3>3. CASE s = next /\ t \in Known
      <4>1. Precedes(t, s)
        BY Zenon, <1>10, <3>3
      <4>2. Precedes(s, t) => s = t
        BY Zenon, <1>5, <1>6, <3>3, <4>1, PrecedesAntisymmetric
      <4> QED
        BY Zenon, <4>1, <4>2
    <3>4. CASE s = next /\ t = next
      BY Zenon, <1>11, <3>4
    <3> QED
      BY Zenon, <1>8, <3>1, <3>2, <3>3, <3>4
  <2>3. DevicesOf(next) \cap endpointGone' = {}
    <3>1. DevicesOf(next) \cap endpointGone = {}
      BY Zenon, <1>2 DEF Succeeds
    <3>2. DevicesOf(next) \cap Removed(endpointSet, next) = {}
      BY Zenon DEF Removed
    <3> QED
      BY Zenon, <1>2, <3>1, <3>2
  <2> QED
    BY Zenon, <1>2, <1>4, <2>1, <2>2, <2>3 DEF OneLine
<1>14. Resolvable'
  BY Zenon, <1>1, <1>3 DEF Resolvable, Within
<1>15. Follower'
  BY <1>1, <1>2, <1>3, SameFollower
<1> QED
  BY Zenon, <1>1, <1>2, <1>13, <1>14, <1>15 DEF DirectoryInv

LEMMA PublishCurrentStep ==
    ASSUME DirectoryInv, PublishCurrent
    PROVE  DirectoryInv'
<1> DEFINE d == DescriptorFor(endpointSet, directoryClock)
<1>1. directoryClock \in Nat /\ OneLine /\ Resolvable /\ Follower
  BY Zenon DEF DirectoryInv
<1>2. /\ publishing = NoEntry /\ endpointSet # {}
      /\ publishing' = [descriptor |-> d, stage |-> "prekeys"]
      /\ UNCHANGED <<endpointVars, objects, descriptors, locators, peerVars, managerVars,
                     directoryClock>>
  BY Zenon DEF PublishCurrent
<1>3. PublicSet(endpointSet)
  BY Zenon, <1>1, <1>2 DEF OneLine, Known
<1>4. d.set = endpointSet /\ Within(d)
  BY Zenon, <1>1, <1>3, DescriptorWithin
<1> HIDE DEF d
<1>5. /\ publishing'.descriptor = d /\ publishing'.stage = "prekeys"
  BY Zenon, <1>2
<1>6. endpointSet' = endpointSet /\ endpointGone' = endpointGone
  BY Zenon, <1>2 DEF endpointVars
<1>7. Known' \subseteq Known
  BY Zenon, <1>2, <1>4, <1>5, <1>6 DEF Known
<1>8. OneLine'
  BY <1>1, <1>2, <1>7, SameLine
<1>9. Resolvable'
  BY Zenon, <1>1, <1>2, <1>4, <1>5 DEF Resolvable, Within
<1>10. Follower'
  BY <1>1, <1>2, <1>6, SameFollower
<1> QED
  BY Zenon, <1>1, <1>2, <1>8, <1>9, <1>10 DEF DirectoryInv

LEMMA PutObjectStep ==
    ASSUME DirectoryInv, PutObject
    PROVE  DirectoryInv'
<1> DEFINE d == publishing.descriptor
<1>1. directoryClock \in Nat /\ OneLine /\ Resolvable /\ Follower
  BY Zenon DEF DirectoryInv
<1>2. /\ publishing # NoEntry
      /\ publishing' = [publishing EXCEPT !.stage = StageAfter(publishing.stage)]
      /\ UNCHANGED <<endpointVars, locators, peerVars, managerVars, directoryClock>>
  BY Zenon DEF PutObject
<1>3. /\ publishing = [descriptor |-> d, stage |-> publishing.stage]
      /\ Within(d)
      /\ publishing.stage # "prekeys" => d.set \in objects
  BY Zenon, <1>1, <1>2 DEF Resolvable
<1>4. publishing'.descriptor = d /\ publishing'.stage = StageAfter(publishing.stage)
      /\ publishing' = [descriptor |-> publishing'.descriptor, stage |-> publishing'.stage]
  BY Zenon, <1>2, <1>3
<1>5. endpointSet' = endpointSet /\ endpointGone' = endpointGone
  BY Zenon, <1>2 DEF endpointVars
<1> HIDE DEF d
<1>6. CASE publishing.stage = "prekeys"
  <2>1. objects' = objects \cup {d.set} /\ descriptors' = descriptors
    BY Zenon, <1>6 DEF PutObject, d
  <2>2. publishing'.stage = "descriptor"
    BY Zenon, <1>4, <1>6 DEF StageAfter
  <2>3. Known' \subseteq Known
    BY Zenon, <1>2, <1>4, <1>5, <2>1 DEF Known, d
  <2>4. OneLine'
    BY <1>1, <1>2, <2>3, SameLine
  <2>5. Resolvable'
    BY Zenon, <1>1, <1>2, <1>3, <1>4, <2>1, <2>2 DEF Resolvable, Within
  <2>6. Follower'
    BY <1>1, <1>2, <1>5, <2>1, SameFollower
  <2> QED
    BY Zenon, <1>1, <1>2, <2>4, <2>5, <2>6 DEF DirectoryInv
<1>7. CASE publishing.stage # "prekeys"
  <2>1. publishing.stage = "descriptor" /\ publishing'.stage = "locator"
    BY Zenon, <1>4, <1>7 DEF PutObject, StageAfter
  <2>2. objects' = objects /\ descriptors' = descriptors \cup {d}
    BY Zenon, <2>1 DEF PutObject, d
  <2>3. Known' \subseteq Known
    BY Zenon, <1>2, <1>4, <1>5, <2>2 DEF Known, d
  <2>4. OneLine'
    BY <1>1, <1>2, <2>3, SameLine
  <2>5. Resolvable'
    BY Zenon, <1>1, <1>2, <1>3, <1>4, <1>7, <2>1, <2>2 DEF Resolvable, Within
  <2>6. Follower'
    BY <1>1, <1>2, <1>5, <2>2, SameFollower
  <2> QED
    BY Zenon, <1>1, <1>2, <2>4, <2>5, <2>6 DEF DirectoryInv
<1> QED
  BY Zenon, <1>6, <1>7

LEMMA PublishLocatorStep ==
    ASSUME DirectoryInv, PublishLocator \/ PublishFails
    PROVE  DirectoryInv'
<1> DEFINE d == publishing.descriptor
<1>1. directoryClock \in Nat /\ OneLine /\ Resolvable /\ Follower
  BY Zenon DEF DirectoryInv
<1>2. /\ publishing # NoEntry /\ publishing' = NoEntry
      /\ UNCHANGED <<endpointVars, objects, descriptors, peerVars, managerVars, directoryClock>>
  BY Zenon DEF PublishLocator, PublishFails
<1>3. \/ locators' = locators
      \/ publishing.stage = "locator" /\ locators' = locators \cup {LocatorFor(d)}
  BY Zenon DEF PublishLocator, PublishFails
<1>4. Within(d) /\ (publishing.stage = "locator" => d \in descriptors)
  BY Zenon, <1>1, <1>2 DEF Resolvable
<1>5. LocatorFor(d).descriptor = d /\ LocatorFor(d).expires \in Nat
  BY Zenon, <1>4, LocatorOK
<1>6. endpointSet' = endpointSet /\ endpointGone' = endpointGone
  BY Zenon, <1>2 DEF endpointVars
<1> HIDE DEF d
<1>7. Known' \subseteq Known
  BY Zenon, <1>2, <1>6 DEF Known
<1>8. OneLine'
  BY <1>1, <1>2, <1>7, SameLine
<1>9. Resolvable'
  BY Zenon, <1>1, <1>2, <1>3, <1>4, <1>5 DEF Resolvable, Within
<1>10. Follower'
  BY <1>1, <1>2, <1>3, <1>6, SameFollower
<1> QED
  BY Zenon, <1>1, <1>2, <1>8, <1>9, <1>10 DEF DirectoryInv

LEMMA DirectoryTimeStep ==
    ASSUME DirectoryInv, AuthorityEnds \/ DirectoryTick
    PROVE  DirectoryInv'
<1>1. directoryClock \in Nat /\ OneLine /\ Resolvable /\ Follower
  BY Zenon DEF DirectoryInv
<1>2. /\ directoryClock' \in Nat /\ directoryClock <= directoryClock'
      /\ UNCHANGED <<endpointVars, originVars, peerVars, managerVars>>
  BY <1>1 DEF AuthorityEnds, DirectoryTick
<1>3. UNCHANGED <<endpointSet, endpointGone, publishing, objects, descriptors, locators>>
  BY Zenon, <1>2 DEF endpointVars, originVars
<1>4. Known' = Known
  BY Zenon, <1>3 DEF Known
<1>5. OneLine'
  BY Zenon, <1>1, <1>2, <1>4, SameLine
<1>6. Resolvable'
  BY Zenon, <1>1, <1>3 DEF Resolvable, Within
<1>7. Follower'
  BY Zenon, <1>1, <1>2, <1>3, SameFollower
<1> QED
  BY Zenon, <1>2, <1>5, <1>6, <1>7 DEF DirectoryInv

\* The steps of a peer leave the Endpoint and its publications alone.
LEMMA PeerSide ==
    ASSUME DirectoryInv, UNCHANGED <<endpointVars, originVars, directoryClock>>, Follower'
    PROVE  DirectoryInv'
<1>1. directoryClock \in Nat /\ OneLine /\ Resolvable
  BY Zenon DEF DirectoryInv
<1>2. UNCHANGED <<endpointSet, endpointGone, publishing, objects, descriptors, locators>>
  BY Zenon DEF endpointVars, originVars
<1>3. Known' = Known
  BY Zenon, <1>2 DEF Known
<1>4. OneLine'
  BY <1>1, <1>3, SameLine
<1>5. Resolvable'
  BY Zenon, <1>1, <1>2 DEF Resolvable, Within
<1> QED
  BY Zenon, <1>1, <1>4, <1>5 DEF DirectoryInv

Lookups == [now : Nat, began : Nat, found : locators \cup {NoEntry}]

\* One caller's refresh moves, or ends.
LEMMA LookupMoves ==
    ASSUME DirectoryInv, NEW c \in DirectoryCallers, NEW q \in Lookups \cup {NoEntry},
           lookups' = [lookups EXCEPT ![c] = q],
           q # NoEntry => q.now <= directoryClock
    PROVE  /\ lookups' \in [DirectoryCallers -> Lookups \cup {NoEntry}]
           /\ \A k \in DirectoryCallers : lookups'[k] # NoEntry => lookups'[k].now <= directoryClock
<1>1. lookups \in [DirectoryCallers -> Lookups \cup {NoEntry}]
  BY Zenon DEF DirectoryInv, Follower, Lookups
<1>2. lookups'[c] = q /\ \A k \in DirectoryCallers : k # c => lookups'[k] = lookups[k]
  BY Zenon, <1>1
<1> QED
  BY Zenon, <1>1, <1>2 DEF DirectoryInv, Follower

LEMMA PeerOnlyOK ==
    ASSUME UNCHANGED <<endpointVars, originVars, directoryClock>>
    PROVE  /\ UNCHANGED <<endpointSet, endpointGone, publishing, objects, descriptors, locators,
                          directoryClock>>
           /\ Lookups' = Lookups
  BY Zenon DEF endpointVars, originVars, Lookups

LEMMA StartRefreshStep ==
    ASSUME DirectoryInv, NEW c \in DirectoryCallers, StartRefresh(c)
    PROVE  DirectoryInv'
<1> DEFINE q == [now |-> directoryClock, began |-> invalidations, found |-> NoEntry]
<1>1. directoryClock \in Nat /\ invalidations \in Nat
  BY Zenon DEF DirectoryInv, Follower
<1>2. q \in Lookups /\ q.now <= directoryClock
  BY <1>1 DEF Lookups
<1>3. /\ lookups' = [lookups EXCEPT ![c] = q]
      /\ UNCHANGED <<endpointVars, originVars, directoryClock>>
      /\ UNCHANGED <<peerVars, entry, invalidations>>
  BY Zenon DEF StartRefresh
<1> HIDE DEF q
<1>4. /\ lookups' \in [DirectoryCallers -> Lookups \cup {NoEntry}]
      /\ \A k \in DirectoryCallers : lookups'[k] # NoEntry => lookups'[k].now <= directoryClock
  BY Zenon, <1>2, <1>3, LookupMoves
<1>5. Follower'
  BY Zenon, <1>3, <1>4, PeerOnlyOK DEF DirectoryInv, Follower, Lookups, peerVars
<1> QED
  BY Zenon, <1>3, <1>5, PeerSide

LEMMA RefreshFailsStep ==
    ASSUME DirectoryInv, NEW c \in DirectoryCallers, RefreshFails(c)
    PROVE  DirectoryInv'
<1>1. /\ lookups' = [lookups EXCEPT ![c] = NoEntry]
      /\ UNCHANGED <<endpointVars, originVars, directoryClock>>
      /\ UNCHANGED <<peerVars, entry, invalidations>>
  BY Zenon DEF RefreshFails
<1>2. /\ lookups' \in [DirectoryCallers -> Lookups \cup {NoEntry}]
      /\ \A k \in DirectoryCallers : lookups'[k] # NoEntry => lookups'[k].now <= directoryClock
  BY Zenon, <1>1, LookupMoves
<1>3. Follower'
  BY Zenon, <1>1, <1>2, PeerOnlyOK DEF DirectoryInv, Follower, Lookups, peerVars
<1> QED
  BY Zenon, <1>1, <1>3, PeerSide

\* A peer records a set: it was published, and whoever it drops is gone.
LEMMA AdmitStep ==
    ASSUME DirectoryInv, NEW c \in DirectoryCallers, NEW l \in locators, NEW failed \in BOOLEAN,
           AdmitPublishedSet(c, l, failed)
    PROVE  DirectoryInv'
<1> DEFINE set == l.descriptor.set
           q == [lookups[c] EXCEPT !.found = l]
<1>1. directoryClock \in Nat /\ OneLine /\ Resolvable /\ Follower
  BY Zenon DEF DirectoryInv
<1>2. /\ lookups[c] # NoEntry
      /\ Succeeds(peerSet, peerTombstones, set)
      /\ peerSet' = set /\ peerTombstones' = peerTombstones \cup Removed(peerSet, set)
      /\ UNCHANGED <<endpointVars, originVars, directoryClock>>
      /\ UNCHANGED <<entry, invalidations>>
  BY Zenon DEF AdmitPublishedSet, AcceptSet
<1>3. \/ lookups' = [lookups EXCEPT ![c] = NoEntry]
      \/ lookups' = [lookups EXCEPT ![c] = q]
  BY Zenon DEF AdmitPublishedSet
<1>4. lookups[c] \in Lookups /\ lookups[c].now <= directoryClock
  BY Zenon, <1>1, <1>2 DEF Follower, Lookups
<1>5. q \in Lookups /\ q.now <= directoryClock
  BY Zenon, <1>4 DEF Lookups
<1> HIDE DEF q
<1>6. /\ lookups' \in [DirectoryCallers -> Lookups \cup {NoEntry}]
      /\ \A k \in DirectoryCallers : lookups'[k] # NoEntry => lookups'[k].now <= directoryClock
  BY Zenon, <1>3, <1>5, LookupMoves
<1>7. set \in objects
  BY Zenon, <1>1 DEF Resolvable
<1> HIDE DEF set
<1>8. Removed(peerSet, set) \subseteq endpointGone
  <2>1. CASE peerSet = {} \/ set = peerSet
    BY Zenon, <2>1 DEF Removed
  <2>2. CASE peerSet # {} /\ set # peerSet
    <3>1. peerSet \in Known /\ set \in Known
      BY Zenon, <1>1, <1>7, <2>2 DEF Follower, Known
    <3>2. NewestIssued(peerSet) \in Nat /\ NewestIssued(set) \in Nat
      BY Zenon, <1>1, <3>1, PublicNewest DEF OneLine
    <3>3. Precedes(peerSet, set)
      BY Zenon, <1>2, <2>2, <3>2, SucceedsPrecedes
    <3> QED
      BY Zenon, <1>1, <3>1, <3>3 DEF OneLine, Removed
  <2> QED
    BY Zenon, <2>1, <2>2
<1>9. peerSet' \in objects \cup {{}} /\ peerTombstones' \subseteq endpointGone
  BY Zenon, <1>1, <1>2, <1>7, <1>8 DEF Follower
<1>10. Follower'
  BY ZenonT(40), <1>1, <1>2, <1>6, <1>9, PeerOnlyOK DEF Follower, Lookups
<1> QED
  BY Zenon, <1>2, <1>10, PeerSide

\* The deadline of a cache entry is before every expiry, or has passed.
LEMMA InstallStep ==
    ASSUME DirectoryInv, NEW c \in DirectoryCallers, InstallEntry(c)
    PROVE  DirectoryInv'
<1> DEFINE l == lookups[c].found
           d == l.descriptor
           now == lookups[c].now
           e == [set |-> d.set, until |-> RefreshAt(l, now), began |-> lookups[c].began]
<1>1. directoryClock \in Nat /\ OneLine /\ Resolvable /\ Follower
  BY Zenon DEF DirectoryInv
<1>2. /\ lookups[c] # NoEntry /\ l # NoEntry
      /\ entry' = e
      /\ lookups' = [lookups EXCEPT ![c] = NoEntry]
      /\ UNCHANGED <<endpointVars, originVars, directoryClock>>
      /\ UNCHANGED <<peerVars, invalidations>>
  BY SMTT(40) DEF InstallEntry
<1>3. l \in locators /\ now \in Nat /\ now <= directoryClock
  BY Zenon, <1>1, <1>2 DEF Follower
<1>4. d.set \in objects /\ Within(d) /\ l.expires \in Nat
  BY Zenon, <1>1, <1>3 DEF Resolvable
<1>5. /\ lookups' \in [DirectoryCallers -> Lookups \cup {NoEntry}]
      /\ \A k \in DirectoryCallers : lookups'[k] # NoEntry => lookups'[k].now <= directoryClock
  BY Zenon, <1>2, LookupMoves
<1>6. e.set = d.set /\ e.until = RefreshAt(l, now)
  BY Zenon
<1> HIDE DEF e
<1>7. \A b \in d.set : b.expires \in Nat /\ d.expires <= b.expires
  <2>1. d.set \in Known
    BY Zenon, <1>4 DEF Known
  <2> QED
    BY Zenon, <1>1, <1>4, <2>1, DirectoryAssumption DEF OneLine, PublicSet, Within
<1>8. /\ RefreshAt(l, now) \in Int
      /\ RefreshAt(l, now) <= directoryClock \/ \A b \in d.set : RefreshAt(l, now) <= b.expires
  <2> DEFINE x == Min({l.expires, d.expires})
  <2>1. d.expires \in Nat
    BY Zenon, <1>4 DEF Within
  <2>2. x \in Nat /\ x <= d.expires
    BY Zenon, <1>4, <2>1, OfTwo
  <2>3. RefreshAt(l, now) = IF x >= now + RefreshLead THEN x - RefreshLead ELSE now
    BY Zenon DEF RefreshAt
  <2> HIDE DEF x
  <2>4. CASE x >= now + RefreshLead
    <3>1. RefreshAt(l, now) = x - RefreshLead
      BY Zenon, <2>3, <2>4
    <3>2. x - RefreshLead \in Int /\ x - RefreshLead <= d.expires
      BY <2>1, <2>2, DirectoryAssumption
    <3>3. \A b \in d.set : x - RefreshLead <= b.expires
      BY <1>7, <2>1, <3>2
    <3> QED
      BY Zenon, <3>1, <3>2, <3>3
  <2>5. CASE ~(x >= now + RefreshLead)
    BY SMTT(40), <1>3, <2>3, <2>5
  <2> QED
    BY Zenon, <2>4, <2>5
<1>9. /\ entry'.set \in objects /\ entry'.until \in Int
      /\ entry'.until <= directoryClock \/ \A b \in entry'.set : entry'.until <= b.expires
  BY SMTT(40), <1>2, <1>4, <1>6, <1>8
<1>10. Follower'
  BY Zenon, <1>1, <1>2, <1>5, <1>9, PeerOnlyOK DEF Follower, Lookups, peerVars
<1> QED
  BY <1>2, <1>10, PeerSide

LEMMA ForgetStep ==
    ASSUME DirectoryInv, Invalidate \/ PeerRestart
    PROVE  DirectoryInv'
<1>1. directoryClock \in Nat /\ Follower
  BY Zenon DEF DirectoryInv
<1>2. /\ entry' = NoEntry
      /\ UNCHANGED <<endpointVars, originVars, directoryClock>>
      /\ UNCHANGED peerVars
      /\ invalidations' \in Nat
  BY <1>1 DEF Invalidate, PeerRestart, Follower
<1>3. lookups' = lookups \/ lookups' = [c \in DirectoryCallers |-> NoEntry]
  BY Zenon DEF Invalidate, PeerRestart
<1>4. lookups \in [DirectoryCallers -> Lookups \cup {NoEntry}]
  BY Zenon, <1>1 DEF Follower, Lookups
<1>5. /\ lookups' \in [DirectoryCallers -> Lookups \cup {NoEntry}]
      /\ \A k \in DirectoryCallers : lookups'[k] # NoEntry => lookups'[k].now <= directoryClock
  BY Zenon, <1>1, <1>3, <1>4 DEF Follower
<1>6. Follower'
  BY Zenon, <1>1, <1>2, <1>5, PeerOnlyOK DEF Follower, Lookups, peerVars
<1> QED
  BY Zenon, <1>2, <1>6, PeerSide

LEMMA InitDirectoryInv ==
    ASSUME DirectoryInit
    PROVE  DirectoryInv
<1>1. Known = {}
  BY Zenon DEF DirectoryInit, Known
<1>2. OneLine
  BY Zenon, <1>1 DEF DirectoryInit, OneLine, DevicesOf
<1>3. Resolvable /\ Follower
  BY Zenon DEF DirectoryInit, Resolvable, Follower
<1> QED
  BY Zenon, <1>2, <1>3 DEF DirectoryInit, DirectoryInv

LEMMA NextDirectoryInv ==
    ASSUME DirectoryInv, [DirectoryNext]_directoryVars
    PROVE  DirectoryInv'
<1>1. CASE UNCHANGED directoryVars
  <2>1. UNCHANGED <<endpointVars, originVars, directoryClock>> /\ UNCHANGED <<peerVars, managerVars>>
    BY Zenon, <1>1 DEF directoryVars
  <2>2. UNCHANGED <<peerSet, peerTombstones, entry, lookups, invalidations>>
    BY Zenon, <2>1 DEF peerVars, managerVars
  <2>3. Follower'
    BY Zenon, <2>1, <2>2, PeerOnlyOK DEF DirectoryInv, Follower
  <2> QED
    BY Zenon, <2>1, <2>3, PeerSide
<1> QED
  BY Zenon, <1>1, AdvanceStep, PublishCurrentStep, PutObjectStep, PublishLocatorStep,
     StartRefreshStep,
     RefreshFailsStep, InstallStep, AdmitStep, ForgetStep, DirectoryTimeStep DEF DirectoryNext

\* The inductive invariant holds of an Endpoint that follows its own ledger and a peer
\* that is served any of its publications at any time (generation_publication.go,
\* refresh.go, manager.go).
THEOREM DirectoryInvariant == DirectorySpec => []DirectoryInv
  BY InitDirectoryInv, NextDirectoryInv, PTL DEF DirectorySpec

\* Every locator the DHT may return resolves, a peer however far behind can accept the
\* present set, an answer from the cache names live prekeys only, and no two descriptors
\* of the Endpoint are evidence of a fork.
THEOREM StaysReachable == DirectorySpec => []EndpointStaysReachable
<1>1. ASSUME DirectoryInv
      PROVE  EndpointStaysReachable
  <2>1. directoryClock \in Nat /\ OneLine /\ Resolvable /\ Follower
    BY Zenon, <1>1 DEF DirectoryInv
  <2>2. LocatorResolves
    BY Zenon, <2>1 DEF Resolvable, LocatorResolves
  <2>3. PeerCanCatchUp
    <3> SUFFICES ASSUME endpointSet # {}
                 PROVE  Succeeds(peerSet, peerTombstones, endpointSet)
      BY Zenon DEF PeerCanCatchUp
    <3>1. DevicesOf(endpointSet) \cap peerTombstones = {}
      BY Zenon, <2>1 DEF OneLine, Follower
    <3>2. CASE peerSet = {}
      BY Zenon, <3>1, <3>2 DEF Succeeds
    <3>3. CASE peerSet # {}
      <4>1. peerSet \in Known /\ endpointSet \in Known
        BY Zenon, <2>1, <3>3 DEF Follower, Known
      <4>2. Precedes(peerSet, endpointSet)
        BY Zenon, <2>1, <4>1 DEF OneLine
      <4>3. NewestIssued(peerSet) \in Nat /\ NewestIssued(endpointSet) \in Nat
        BY Zenon, <2>1, <4>1, PublicNewest DEF OneLine
      <4> QED
        BY Zenon, <3>1, <3>3, <4>2, <4>3, SucceedsPrecedes
    <3> QED
      BY Zenon, <3>2, <3>3
  <2>4. AnswerIsLive
    <3> SUFFICES ASSUME entry # NoEntry, directoryClock < entry.until, NEW b \in entry.set
                 PROVE  directoryClock < b.expires
      BY Zenon DEF AnswerIsLive, EntryFresh
    <3>1. entry.set \in objects /\ entry.until \in Int
      BY Zenon, <2>1 DEF Follower
    <3>2. entry.until <= b.expires
      BY SMTT(40), <2>1, <3>1 DEF Follower
    <3>3. b.expires \in Nat
      BY Zenon, <2>1, <3>1, DirectoryAssumption DEF OneLine, PublicSet, Known
    <3> QED
      BY <2>1, <3>1, <3>2, <3>3
  <2>5. HonestNeverForks
    <3> SUFFICES ASSUME NEW d \in descriptors, NEW e \in descriptors, ForkPair(d, e)
                 PROVE  FALSE
      BY Zenon DEF HonestNeverForks
    <3>1. d.set \in Known /\ e.set \in Known
      BY Zenon, <2>1 DEF Resolvable, Known
    <3>2. NewestIssued(d.set) \in Nat /\ NewestIssued(e.set) \in Nat
      BY Zenon, <2>1, <3>1, PublicNewest DEF OneLine
    <3>3. Precedes(d.set, e.set) \/ Precedes(e.set, d.set)
      BY Zenon, <2>1, <3>1 DEF OneLine
    <3> QED
      BY <3>2, <3>3 DEF ForkPair, Precedes
  <2> QED
    BY Zenon, <2>2, <2>3, <2>4, <2>5 DEF EndpointStaysReachable
<1> QED
  BY <1>1, DirectoryInvariant, PTL

\* A peer's device record implements the succession every keeper promises, whatever
\* order and however late it is served the publications (devices.go, AcceptSet).
THEOREM PeerRecordSucceeds == DirectorySpec => PeerSucceeds
<1>1. DirectoryInit => PeerKeeper!SuccessionInit
  BY Zenon DEF DirectoryInit, PeerKeeper!SuccessionInit, DevicesOf
<1>2. ASSUME DirectoryInv, [DirectoryNext]_directoryVars
      PROVE  [PeerKeeper!Succession]_(PeerKeeper!successionVars)
  <2>1. CASE UNCHANGED peerVars
    BY Zenon, <2>1 DEF peerVars, PeerKeeper!successionVars
  <2>2. ASSUME NEW c \in DirectoryCallers, NEW l \in locators, NEW failed \in BOOLEAN,
               AdmitPublishedSet(c, l, failed)
        PROVE  PeerKeeper!Succession
    <3> DEFINE set == l.descriptor.set
    <3>1. /\ Succeeds(peerSet, peerTombstones, set)
          /\ peerSet' = set /\ peerTombstones' = peerTombstones \cup Removed(peerSet, set)
      BY Zenon, <2>2 DEF AdmitPublishedSet, AcceptSet
    <3>2. /\ directoryClock \in Nat
          /\ \A s \in Known : PublicSet(s)
          /\ set \in objects /\ peerSet \in objects \cup {{}}
      BY Zenon, <1>2 DEF DirectoryInv, OneLine, Resolvable, Follower
    <3> HIDE DEF set
    <3>3. set # {} /\ NewestIssued(set) \in Nat \ {0}
      BY Zenon, <3>2, PublicNewest DEF PublicSet, Known
    <3>4. peerSet # {} => NewestIssued(peerSet) \in Nat
      BY Zenon, <3>2, PublicNewest DEF Known
    <3> QED
      BY <3>1, <3>3, <3>4, KeeperStep DEF PeerKeeper!Succession
  <2> QED
    BY Zenon, <1>2, <2>1, <2>2 DEF DirectoryNext, directoryVars, AdvanceEndpoint, PublishCurrent,
       PutObject, PublishLocator, PublishFails, StartRefresh, RefreshFails,
       InstallEntry, Invalidate, PeerRestart, AuthorityEnds, DirectoryTick
<1> QED
  BY <1>1, <1>2, DirectoryInvariant, PTL DEF DirectorySpec, PeerSucceeds, PeerKeeper!SuccessionSpec
=============================================================================
