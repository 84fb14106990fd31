---------------------------- MODULE EconomicSend ----------------------------
(***************************************************************************)
(* Sending a message that is an economic action: economicSendDirect        *)
(* (pkg/localapi/server.go) admits the action, marks it submitted, queues  *)
(* the message under an idempotency key made from the action, and marks    *)
(* the action accepted.  Each connection has a goroutine of its own; the   *)
(* store's lock is held for one operation at a time.  Persisting can fail  *)
(* before the rename, or after it: memory is rolled back in both cases.    *)
(***************************************************************************)
EXTENDS EconomicStore, Naturals

CONSTANTS
    Senders,                     \* connections being served
    MaxSends, MaxStoreFaults,    \* bounds of the model
    NoAction

VARIABLES
    doc,        \* the document in memory
    docFile,    \* the document on disk
    sender,     \* [step, action] of each connection
    queued,     \* actions whose message is in the outbound queue
    sends, storeFaults

economicVars == <<doc, docFile, sender, queued, sends, storeFaults>>

Waiting == [step |-> "idle", action |-> NoAction]

EconomicInit ==
    /\ doc = EmptyDocument
    /\ docFile = EmptyDocument
    /\ sender = [s \in Senders |-> Waiting]
    /\ queued = {}
    /\ sends = 0
    /\ storeFaults = 0

\* Faulty variant: the error of a write is not looked at.
PersistingAnyway(s, new, then) ==
    /\ doc' = new
    /\ sender' = [sender EXCEPT ![s] = then]
    /\ \/ docFile' = new /\ UNCHANGED storeFaults
       \/ /\ storeFaults < MaxStoreFaults
          /\ storeFaults' = storeFaults + 1
          /\ UNCHANGED docFile
\* persistLocked: on an error the caller puts the old document back in memory,
\* whether or not the new one reached its place.  The request goes on at step
\* `then', or ends.
Persisting(s, new, then) ==
    \/ /\ doc' = new /\ docFile' = new
       /\ sender' = [sender EXCEPT ![s] = then]
       /\ UNCHANGED storeFaults
    \/ /\ storeFaults < MaxStoreFaults
       /\ storeFaults' = storeFaults + 1
       /\ docFile' \in {docFile, new}
       /\ sender' = [sender EXCEPT ![s] = Waiting]
       /\ UNCHANGED doc

Go(s, then) == sender' = [sender EXCEPT ![s] = then] /\ UNCHANGED <<doc, docFile, storeFaults>>

Sending(a, step) == [step |-> step, action |-> a]

\* Admit: refused, found as it was left, or recorded as prepared.
EconomicAdmit(s, a) ==
    /\ sender[s].step = "idle" /\ sends < MaxSends
    /\ Admissible(doc, a)
    /\ sends' = sends + 1
    /\ \/ doc.state[a] = "prepared" /\ Go(s, Sending(a, "submit"))
       \/ doc.state[a] = "submitted" /\ Go(s, Sending(a, "send"))
       \/ /\ doc.state[a] = "unknown" /\ RoomForAction(doc)
          /\ Persisting(s, Admitted(doc, a), Sending(a, "submit"))
    /\ UNCHANGED queued

EconomicSubmit(s) ==
    /\ sender[s].step = "submit"
    /\ LET a == sender[s].action
       IN  IF doc.state[a] = "prepared"
           THEN Persisting(s, Submitted(doc, a), Sending(a, "send"))
           \* Another connection got there first: go on only from submitted.
           ELSE Go(s, IF doc.state[a] = "submitted" THEN Sending(a, "send") ELSE Waiting)
    /\ UNCHANGED <<queued, sends>>

\* Faulty variant: the action is marked accepted before the message is queued.
SendDirectLate(s) ==
    /\ sender[s].step = "send"
    /\ Go(s, Sending(sender[s].action, "accept"))
    /\ UNCHANGED <<queued, sends>>
\* SendDirectMessage and SendDirectApplication: one idempotency key, one queued
\* message; an attempt can fail.
SendDirect(s) ==
    /\ sender[s].step = "send"
    /\ \/ /\ queued' = queued \cup {sender[s].action}
          /\ Go(s, Sending(sender[s].action, "accept"))
       \/ UNCHANGED queued /\ Go(s, Waiting)
    /\ UNCHANGED sends

EconomicAccept(s) ==
    /\ sender[s].step = "accept"
    /\ LET a == sender[s].action
       IN  IF doc.state[a] \in {"prepared", "submitted"}
           THEN Persisting(s, Accepted(doc, a), Waiting)
           ELSE Go(s, Waiting)
    /\ UNCHANGED <<queued, sends>>

\* The daemon ends and starts again: the document is read from its file.
EconomicRestart ==
    /\ doc' = docFile
    /\ sender' = [s \in Senders |-> Waiting]
    /\ UNCHANGED <<docFile, queued, sends, storeFaults>>

EconomicNext ==
    \/ \E s \in Senders :
          \/ \E a \in EconomicActions : EconomicAdmit(s, a)
          \/ EconomicSubmit(s) \/ SendDirect(s) \/ EconomicAccept(s)
    \/ EconomicRestart

EconomicSpec == EconomicInit /\ [][EconomicNext]_economicVars

-----------------------------------------------------------------------------
\* The document's shape, in memory and on disk.
EconomicTypeOK ==
    \A d \in {doc, docFile} :
        /\ d.highWater \in {0} \cup {Generation[a] : a \in EconomicActions}
        /\ d.state \in [EconomicActions -> {"unknown", "prepared", "submitted", "accepted"}]

\* A message that was queued is on record as submitted, on disk, and stays so
\* after any failed write and any restart: a retry finds it and reuses its key.
QueuedIsRecorded == \A a \in queued : docFile.state[a] \in {"submitted", "accepted"}

\* An action on record as accepted has its message in the queue.
AcceptedIsQueued ==
    \A a \in EconomicActions : docFile.state[a] = "accepted" => a \in queued

\* "the daemon persists generation high-water before transmitting anything"
\* (package comment): what was sent never lies above the recorded high-water.
QueuedUnderHighWater == \A a \in queued : Generation[a] <= docFile.highWater

\* One generation sends under one fence: no two messages went out that name the
\* same writer generation and different authority fences.
OneFencePerGeneration ==
    \A a, b \in queued : Generation[a] = Generation[b] => WriterFence[a] = WriterFence[b]

\* The queue and the action store agree across failed writes and restarts: what was
\* sent is on record under its generation's high-water and under one fence of the
\* generation, and what is on record as accepted was sent.
SentIsOnRecord ==
    QueuedIsRecorded /\ AcceptedIsQueued /\ QueuedUnderHighWater /\ OneFencePerGeneration
=============================================================================
