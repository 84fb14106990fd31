-------------------------- MODULE AttachmentUpload --------------------------
(***************************************************************************)
(* Sending an encrypted attachment: the emitter's transactions             *)
(* (pkg/attachmentops/emitter.go), the storage operator they are uploaded  *)
(* to (pkg/attachments/store.go and remote_auth.go, cmd/tos-attachmentd)   *)
(* and the composition and delivery records of the dispatcher.             *)
(*                                                                         *)
(* A transaction belongs to an idempotency key.  Each time it is begun it  *)
(* draws fresh keys, so that its manifest is <<key, round>>.  Commit holds *)
(* the emitter's lock from end to end: it is the sequence of steps that    *)
(* `commit' stands at, and a crash or a failed call may end it anywhere.   *)
(***************************************************************************)
EXTENDS FiniteSets, Naturals

CONSTANTS
    UploadKeys, Rounds,       \* idempotency keys; how often one may be begun
    ChunkCount,               \* chunks of an attachment
    Retention, StagingGrace,  \* in ticks
    MaxObjects, MaxLeases,
    MaxUploadClock, MaxUploadFaults, \* bounds of the model
    NoManifest

VARIABLES
    rounds,     \* key -> how often it was begun: each time draws fresh keys
    tx,         \* key -> [round, sealed, chunks, prepared, uploaded, expires] or NoManifest
    residue,    \* keys whose directory holds what a crash left half written
    commit,     \* [key, step]: the Commit that holds the lock
    emitterUp,
    composed, queuedManifests,  \* key -> manifest of the composition, of the delivery
    objects,    \* <<manifest, chunk>> -> the time it was last sent
    leases,     \* manifest -> when it expires
    attached,   \* manifest a StoredAck was signed for -> until when, 0 when deleted
    completed,  \* keys reported complete
    uploadClock, uploadFaults

emitterVars == <<rounds, tx, residue, commit, emitterUp, composed, queuedManifests, completed>>
storageVars == <<objects, leases, attached>>
uploadVars == <<emitterVars, storageVars, uploadClock, uploadFaults>>

Manifests == UploadKeys \X Rounds
Transactions == [round : Rounds, sealed : Nat, chunks : Nat, prepared : BOOLEAN,
                 uploaded : Nat, expires : Nat]

ASSUME UploadAssumption ==
    /\ ChunkCount \in Nat /\ Retention \in Nat
    /\ NoManifest \notin Manifests /\ NoManifest \notin Transactions

NoCommit == [key |-> NoManifest, step |-> "none"]
Begun(k) == tx[k] # NoManifest
ManifestOf(k) == <<k, tx[k].round>>
UploadLive(k) == uploadClock < tx[k].expires

UploadInit ==
    /\ rounds = [k \in UploadKeys |-> 0]
    /\ tx = [k \in UploadKeys |-> NoManifest] /\ residue = {} /\ commit = NoCommit
    /\ emitterUp = TRUE
    /\ composed = [k \in UploadKeys |-> NoManifest] /\ queuedManifests = composed
    /\ objects = <<>> /\ leases = <<>> /\ attached = <<>> /\ completed = {}
    /\ uploadClock = 1 /\ uploadFaults = 0

UploadFault == uploadFaults < MaxUploadFaults /\ uploadFaults' = uploadFaults + 1
EmitterFree == emitterUp /\ commit = NoCommit
Removed(f, gone) == [x \in DOMAIN f \ gone |-> f[x]]
Assign(f, x, v) == [y \in DOMAIN f \cup {x} |-> IF y = x THEN v ELSE f[y]]

newTransaction(r) ==
    [round |-> r, sealed |-> 0, chunks |-> 0, prepared |-> FALSE, uploaded |-> 0,
     expires |-> uploadClock + Retention]

\* Faulty variant: a composition is taken for a delivery.
LookupQueuedCompositionAlone(k) == composed[k]
\* LookupQueuedComposition: a composition that was not queued is an error.
LookupQueuedComposition(k) == IF queuedManifests[k] = composed[k] THEN queuedManifests[k] ELSE NoManifest

\* Begin: a live transaction is resumed, an expired one destroyed; what is
\* already queued is reported complete, anything else gets a new transaction.
BeginUpload(k) ==
    /\ EmitterFree /\ k \notin residue
    /\ Begun(k) => ~UploadLive(k)
    /\ LET r == rounds[k] + 1
       IN  \/ /\ LookupQueuedComposition(k) # NoManifest
              /\ completed' = completed \cup {k}
              /\ tx' = [tx EXCEPT ![k] = NoManifest] /\ UNCHANGED rounds
           \/ /\ composed[k] = NoManifest /\ r \in Rounds
              /\ tx' = [tx EXCEPT ![k] = newTransaction(r)]
              /\ rounds' = [rounds EXCEPT ![k] = r] /\ UNCHANGED completed
           \/ \* prepared and not queued: an error, after the old one is destroyed
              /\ composed[k] # NoManifest /\ LookupQueuedComposition(k) = NoManifest
              /\ Begun(k)
              /\ tx' = [tx EXCEPT ![k] = NoManifest] /\ UNCHANGED <<rounds, completed>>
    /\ UNCHANGED <<residue, commit, emitterUp, composed, queuedManifests, storageVars, uploadClock, uploadFaults>>

\* readTransaction takes up the one chunk that was written before the state was.
OrphanReconciled(t) == [t EXCEPT !.sealed = t.chunks]

\* Append: the chunk file, then the state; the second write may fail.
AppendChunk(k) ==
    /\ EmitterFree /\ Begun(k) /\ k \notin residue
    /\ ~tx[k].prepared /\ OrphanReconciled(tx[k]).sealed < ChunkCount
    /\ LET n == OrphanReconciled(tx[k]).sealed + 1
       IN  \/ /\ tx' = [tx EXCEPT ![k].chunks = n, ![k].sealed = n]
              /\ UNCHANGED uploadFaults
           \/ /\ UploadFault
              /\ tx' = [tx EXCEPT ![k].chunks = n, ![k].sealed = n - 1]
    /\ UNCHANGED <<rounds, residue, commit, emitterUp, composed, queuedManifests, completed, storageVars, uploadClock>>

CommitAt(step) == emitterUp /\ commit.step = step
CommitTo(step) == commit' = [commit EXCEPT !.step = step]
CommitEnds == commit' = NoCommit

\* Commit takes the lock and prepares the grants; or the plaintext was not the
\* declared one, and the transaction is destroyed.
CommitPrepare(k) ==
    /\ EmitterFree /\ Begun(k) /\ k \notin residue
    /\ OrphanReconciled(tx[k]).sealed = ChunkCount
    /\ \/ /\ tx' = [tx EXCEPT ![k].prepared = TRUE, ![k].sealed = ChunkCount]
          /\ commit' = [key |-> k, step |-> "compose"]
       \/ ~tx[k].prepared /\ tx' = [tx EXCEPT ![k] = NoManifest] /\ CommitEnds
    /\ UNCHANGED <<rounds, residue, emitterUp, composed, queuedManifests, completed, storageVars,
                   uploadClock, uploadFaults>>

\* PrepareEncryptedAttachment: the first composition of the key stands.
CommitCompose ==
    /\ CommitAt("compose")
    /\ LET k == commit.key
       IN  IF ~UploadLive(k) THEN CommitEnds /\ UNCHANGED <<tx, composed, completed>>
           ELSE IF composed[k] = NoManifest
           THEN composed' = [composed EXCEPT ![k] = ManifestOf(k)] /\ CommitTo("send")
                /\ UNCHANGED <<tx, completed>>
           ELSE IF composed[k] = ManifestOf(k)
           THEN CommitTo("send") /\ UNCHANGED <<tx, composed, completed>>
           ELSE \* another manifest was composed under the key
                /\ tx' = [tx EXCEPT ![k] = NoManifest]
                /\ completed' = completed \cup {k} /\ CommitEnds /\ UNCHANGED composed
    /\ UNCHANGED <<rounds, residue, emitterUp, queuedManifests, storageVars, uploadClock, uploadFaults>>

\* The storage operator stages the next chunk, or refreshes its age.
PutObjects ==
    /\ CommitAt("send")
    /\ LET k == commit.key
           object == <<ManifestOf(k), tx[k].uploaded + 1>>
       IN  IF ~UploadLive(k) \/ (object \notin DOMAIN objects /\ Cardinality(DOMAIN objects) >= MaxObjects)
           THEN CommitEnds /\ UNCHANGED objects
           ELSE objects' = Assign(objects, object, uploadClock) /\ CommitTo("lease")
    /\ UNCHANGED <<rounds, tx, residue, emitterUp, composed, queuedManifests, completed, leases, attached,
                   uploadClock, uploadFaults>>

ObjectsOf(m) == {m} \X (1..ChunkCount)

\* Faulty variant: the lease is published for the chunks at hand.
CommitOpaqueEarly ==
    /\ CommitAt("lease")
    /\ LET k == commit.key
           m == ManifestOf(k)
       IN  /\ leases' = Assign(leases, m, tx[k].expires)
           /\ attached' = Assign(attached, m, tx[k].expires) /\ CommitTo("stored")
    /\ UNCHANGED <<rounds, tx, residue, emitterUp, composed, queuedManifests, completed, objects,
                   uploadClock, uploadFaults>>
\* CommitOpaque, in the same request and under a lock of its own: the lease is
\* published when every chunk is there, and its acknowledgement is signed.
CommitOpaque ==
    /\ CommitAt("lease")
    /\ LET k == commit.key
           m == ManifestOf(k)
       IN  IF ~UploadLive(k) \/ (m \notin DOMAIN leases /\ Cardinality(DOMAIN leases) >= MaxLeases)
           THEN CommitEnds /\ UNCHANGED <<leases, attached>>
           ELSE IF ~(ObjectsOf(m) \subseteq DOMAIN objects)
           THEN CommitTo("partial") /\ UNCHANGED <<leases, attached>>
           ELSE /\ leases' = Assign(leases, m, tx[k].expires)
                /\ attached' = Assign(attached, m, tx[k].expires) /\ CommitTo("stored")
    /\ UNCHANGED <<rounds, tx, residue, emitterUp, composed, queuedManifests, completed, objects,
                   uploadClock, uploadFaults>>

\* The answer of a request does not arrive, or a local write fails.
CommitFails ==
    /\ emitterUp /\ commit.step \in {"send", "lease", "partial", "stored", "queued"}
    /\ UploadFault /\ CommitEnds
    /\ UNCHANGED <<rounds, tx, residue, emitterUp, composed, queuedManifests, completed, storageVars, uploadClock>>

\* Faulty variant: the answer to a partial upload is taken for the last one.
CommitPartialAsStored ==
    /\ CommitAt("partial") /\ CommitTo("stored")
    /\ UNCHANGED <<rounds, tx, residue, emitterUp, composed, queuedManifests, completed, storageVars,
                   uploadClock, uploadFaults>>
\* A partial upload advances the transaction, unless it was the last chunk.
CommitPartial ==
    /\ CommitAt("partial") /\ CommitEnds
    /\ LET k == commit.key
       IN  tx' = IF tx[k].uploaded + 1 >= ChunkCount THEN tx
                 ELSE [tx EXCEPT ![k].uploaded = @ + 1]
    /\ UNCHANGED <<rounds, residue, emitterUp, composed, queuedManifests, completed, storageVars,
                   uploadClock, uploadFaults>>

\* QueuePreparedAttachment, after the acknowledgement was verified.
CommitQueue ==
    /\ CommitAt("stored") /\ CommitTo("queued")
    /\ queuedManifests' = [queuedManifests EXCEPT ![commit.key] = composed[commit.key]]
    /\ UNCHANGED <<rounds, tx, residue, emitterUp, composed, completed, storageVars, uploadClock, uploadFaults>>

CommitDestroy ==
    /\ CommitAt("queued") /\ CommitEnds
    /\ tx' = [tx EXCEPT ![commit.key] = NoManifest]
    /\ completed' = completed \cup {commit.key}
    /\ UNCHANGED <<rounds, residue, emitterUp, composed, queuedManifests, storageVars, uploadClock, uploadFaults>>

\* Faulty variant: what is old is collected whatever lease names it.
CollectableUnleased == {o \in DOMAIN objects : uploadClock >= objects[o] + StagingGrace}
\* What no live lease names and was not sent within the grace.
Collectable ==
    LET live == {m \in DOMAIN leases : leases[m] > uploadClock}
    IN  {o \in DOMAIN objects : o[1] \notin live /\ uploadClock >= objects[o] + StagingGrace}

\* GCWithStagingGrace: expired leases first, then the objects.
CollectGarbage ==
    LET expired == {m \in DOMAIN leases : leases[m] <= uploadClock}
    IN  /\ expired # {} \/ Collectable # {}
        /\ leases' = Removed(leases, expired)
        /\ objects' = Removed(objects, Collectable)
        /\ UNCHANGED <<emitterVars, attached, uploadClock, uploadFaults>>

\* A request under a grant for deletion; the objects are left to the collection.
DeleteLease(m) ==
    /\ m \in DOMAIN leases /\ UploadFault
    /\ leases' = Removed(leases, {m}) /\ attached' = Assign(attached, m, 0)
    /\ UNCHANGED <<emitterVars, objects, uploadClock>>

\* What a crash finds half written: a directory without its state, a torn chunk,
\* the temporary file of a state that was being replaced.
HalfWritten ==
    IF commit = NoCommit THEN {k \in UploadKeys : Begun(k) => ~tx[k].prepared}
    ELSE {commit.key : s \in {commit.step} \cap {"compose", "partial"}}

\* The daemon ends and is started again: loadTransactions opens the emitter only
\* when every transaction can be read.
EmitterCrash ==
    /\ emitterUp /\ UploadFault
    /\ \E half \in {{}} \cup {{k} : k \in HalfWritten} : residue' = residue \cup half
    /\ emitterUp' = (residue' = {})
    /\ tx' = [k \in UploadKeys |-> IF Begun(k) /\ residue' = {} THEN OrphanReconciled(tx[k]) ELSE tx[k]]
    /\ CommitEnds
    /\ UNCHANGED <<rounds, composed, queuedManifests, completed, storageVars, uploadClock>>

UploadTick ==
    /\ uploadClock < MaxUploadClock /\ uploadClock' = uploadClock + 1
    /\ UNCHANGED <<emitterVars, storageVars, uploadFaults>>

UploadNext ==
    \/ \E k \in UploadKeys : BeginUpload(k) \/ AppendChunk(k) \/ CommitPrepare(k)
    \/ CommitCompose \/ PutObjects \/ CommitOpaque \/ CommitFails \/ CommitPartial
    \/ CommitQueue \/ CommitDestroy
    \/ CollectGarbage \/ (\E m \in Manifests : DeleteLease(m)) \/ EmitterCrash \/ UploadTick

UploadSpec == UploadInit /\ [][UploadNext]_uploadVars

-----------------------------------------------------------------------------
\* The shape of the records.
UploadTypeOK ==
    /\ \A k \in UploadKeys : Begun(k) =>
          /\ tx[k].round \in Rounds /\ tx[k].uploaded < ChunkCount
          /\ tx[k].chunks \in {tx[k].sealed, tx[k].sealed + 1} /\ tx[k].chunks <= ChunkCount
    /\ composed \in [UploadKeys -> Manifests \cup {NoManifest}]
    /\ DOMAIN objects \subseteq Manifests \X (1..ChunkCount)
    /\ DOMAIN leases \subseteq Manifests

\* Every chunk a lease names is held, whatever was collected, deleted or left
\* by a crash: collection and the publication of a lease exclude each other.
LeaseIsWhole == \A m \in DOMAIN leases : ObjectsOf(m) \subseteq DOMAIN objects

\* An acknowledged attachment can be fetched until it expires or its owner
\* deletes it: its lease is there and every chunk the lease names is held,
\* whatever was collected in between.
StoredUntilExpiry ==
    \A m \in DOMAIN attached : attached[m] > uploadClock =>
        m \in DOMAIN leases /\ ObjectsOf(m) \subseteq DOMAIN objects

\* A recipient is sent the event that was composed under the key, and only
\* after the storage operator acknowledged its whole ciphertext.
QueuedWasStored ==
    \A k \in UploadKeys : queuedManifests[k] # NoManifest =>
        queuedManifests[k] = composed[k] /\ queuedManifests[k] \in DOMAIN attached

\* What was reported complete was queued: a composition that a crash left behind
\* is never reported as a success.
CompleteIsQueued == \A k \in completed : queuedManifests[k] # NoManifest

\* store.go: a client that pauses longer than the grace can safely resume.  A
\* partial answer always leaves the client a chunk to send.
UploadCanResume ==
    commit.step = "partial" => tx[commit.key].uploaded + 1 < ChunkCount

\* emitter.go: every ordering edge is retry-safe.  After a crash the emitter
\* opens again.
EmitterReopens == emitterUp

\* What a recipient is told of can be fetched: it was stored whole before it was
\* queued, it was queued before it was reported complete, and no collection takes a
\* chunk of it away before it expires.
AttachmentsAreFetchable ==
    LeaseIsWhole /\ StoredUntilExpiry /\ QueuedWasStored /\ CompleteIsQueued
=============================================================================
