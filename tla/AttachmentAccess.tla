-------------------------- MODULE AttachmentAccess --------------------------
(***************************************************************************)
(* Single use of the signed requests of the attachment storage:            *)
(* authorize (pkg/attachments/remote_auth.go) and the claims and the clock *)
(* watermark of access_replay.go.  A handler reads the time when the call  *)
(* arrives and claims the request's nonce later, under the store's lock,   *)
(* when other handlers may have claimed, and purged, in between.  The wall *)
(* clock may be set back.                                                  *)
(***************************************************************************)
EXTENDS FiniteSets, Naturals

CONSTANTS
    AttachmentRequests,             \* signed requests, each with its nonce
    RequestExpires,             \* request -> ExpiresAtUnix
    Handlers, MaxClaims,
    MaxWallClock, MaxAccessCalls, MaxAccessFaults, \* bounds of the model
    NoAccess

ASSUME AccessAssumption ==
    /\ RequestExpires \in [AttachmentRequests -> Nat]
    /\ NoAccess \notin [request : AttachmentRequests, now : Nat]

VARIABLES
    handling,      \* handler -> [request, now] or NoAccess
    attachmentClaims,        \* requests whose claim file is held
    clockHigh,     \* HighestUnixTime of .attachment-access-clock
    performed,     \* request -> how often its operation was performed
    wallClock, accessCalls, accessFaults

accessVars == <<handling, attachmentClaims, clockHigh, performed, wallClock, accessCalls, accessFaults>>

AccessInit ==
    /\ handling = [h \in Handlers |-> NoAccess] /\ attachmentClaims = {} /\ clockHigh = 0
    /\ performed = [r \in AttachmentRequests |-> 0]
    /\ wallClock = 1 /\ accessCalls = 0 /\ accessFaults = 0

\* VerifyGrant, VerifyAccessRequest: the requests of the model are signed under a grant
\* of their attachment and operation that outlives them; what is left is their window.
AccessVerified(r, now) == now < RequestExpires[r]

\* A call, possibly with a request that was sent before.
AuthorizeAccess(h, r) ==
    /\ handling[h] = NoAccess /\ accessCalls < MaxAccessCalls
    /\ AccessVerified(r, wallClock)
    /\ handling' = [handling EXCEPT ![h] = [request |-> r, now |-> wallClock]]
    /\ accessCalls' = accessCalls + 1
    /\ UNCHANGED <<attachmentClaims, clockHigh, performed, wallClock, accessFaults>>

\* Faulty variant: any reading of the clock is taken.
advanceAccessClockAny(now) == TRUE
\* advanceAccessClock refuses a time before the highest it has recorded.
advanceAccessClock(now) == now >= clockHigh

LiveClaimsAt(now) == {r \in attachmentClaims : RequestExpires[r] > now}

\* claimAccess, and the operation when it succeeds.  A failure or a crash may
\* follow the purge, and another one may follow the claim.
ClaimAttachment(h) ==
    /\ handling[h] # NoAccess
    /\ handling' = [handling EXCEPT ![h] = NoAccess]
    /\ LET r == handling[h].request
           now == handling[h].now
           live == LiveClaimsAt(now)
       IN  \/ /\ ~advanceAccessClock(now)
              /\ UNCHANGED <<attachmentClaims, clockHigh, performed, accessFaults>>
           \/ /\ advanceAccessClock(now) /\ clockHigh' = now
              /\ IF Cardinality(live) >= MaxClaims
                 THEN UNCHANGED <<attachmentClaims, performed, accessFaults>>
                 ELSE IF r \in live
                 THEN attachmentClaims' = live /\ UNCHANGED <<performed, accessFaults>>
                 ELSE /\ attachmentClaims' = live \cup {r}
                      /\ performed' = [performed EXCEPT ![r] = @ + 1] /\ UNCHANGED accessFaults
           \/ /\ advanceAccessClock(now) /\ clockHigh' = now
              /\ accessFaults < MaxAccessFaults /\ accessFaults' = accessFaults + 1
              /\ Cardinality(live) < MaxClaims
              /\ attachmentClaims' \in {attachmentClaims, live, live \cup {r}}
              /\ UNCHANGED performed
    /\ UNCHANGED <<wallClock, accessCalls>>

WallClockMoves ==
    /\ \/ wallClock < MaxWallClock /\ wallClock' = wallClock + 1 /\ UNCHANGED accessFaults
       \/ /\ accessFaults < MaxAccessFaults /\ accessFaults' = accessFaults + 1
          /\ wallClock' \in 1..(wallClock - 1)
    /\ UNCHANGED <<handling, attachmentClaims, clockHigh, performed, accessCalls>>

AccessNext ==
    \/ \E h \in Handlers : ClaimAttachment(h) \/ \E r \in AttachmentRequests : AuthorizeAccess(h, r)
    \/ WallClockMoves

AccessSpec == AccessInit /\ [][AccessNext]_accessVars

-----------------------------------------------------------------------------
\* The shape of the records, and the bound on the claims that are held.
AccessTypeOK ==
    /\ attachmentClaims \subseteq AttachmentRequests /\ Cardinality(LiveClaimsAt(clockHigh)) <= MaxClaims
    /\ \A h \in Handlers : handling[h] # NoAccess => handling[h].request \in AttachmentRequests
    /\ wallClock \in 1..MaxWallClock /\ clockHigh \in 0..MaxWallClock

\* A signed request is performed at most once, although a handler may claim it
\* with a time that is past, after another handler purged the expired claims,
\* and although the clock may be set back.
AccessActsOnce == \A r \in AttachmentRequests : performed[r] <= 1
=============================================================================
