---------------------------- MODULE ChannelHistory ----------------------------
(***************************************************************************)
(* What a public channel signs and what makes a set of its Events a        *)
(* history: pkg/publicchannel/profile.go, event.go, history.go, wire.go    *)
(* and the walk of sync.go.  A content id is the number of the Event, in   *)
(* the order of the ids; a history's digest is its set of Events.          *)
(* Signatures, finalized delegations and windows hold for every signed     *)
(* object of the model; roles, links and causality are checked.            *)
(***************************************************************************)
EXTENDS FiniteSets, FiniteSetsExt, Naturals, Sequences, SequencesExt

CONSTANTS
    Profiles,        \* [name, epoch, previous, publishers, moderators]
    ChannelEvents,   \* id -> [profile, publisher, sequence, previous, parents, at, kind, target]
    NoProfile, NoEvent,
    MaxFetchEvents

EventIDs == DOMAIN ChannelEvents

\* validateEvent and VerifyEvent: bound to the profile, by one who may.
VerifyEvent(id, p) ==
    LET e == ChannelEvents[id]
    IN  /\ e.profile = p /\ e.publisher \in p.publishers
        /\ e.kind = "post" \/ e.publisher \in p.moderators
        /\ (e.sequence = 1) = (e.previous = NoEvent) /\ {e.previous} \ {NoEvent} \subseteq e.parents
        /\ (e.kind = "post") = (e.target = NoEvent) /\ {e.target} \ {NoEvent} \subseteq e.parents

\* MissingReferences: what a partial replica still has to fetch.
References(id) == ChannelEvents[id].parents \cup ({ChannelEvents[id].target} \ {NoEvent})
MissingReferences(set) == UNION {References(id) : id \in set} \ set

\* Every publisher's Events are 1..n, each naming the one before.
PublisherChain(set, who) ==
    LET mine == {id \in set : ChannelEvents[id].publisher = who}
    IN  \A id \in mine :
            /\ ChannelEvents[id].sequence \in 1..Cardinality(mine)
            /\ \A other \in mine : ChannelEvents[other].sequence = ChannelEvents[id].sequence => other = id
            /\ ChannelEvents[id].sequence > 1 =>
                  \E other \in mine : /\ ChannelEvents[id].previous = other
                                      /\ ChannelEvents[other].sequence = ChannelEvents[id].sequence - 1

VerifyHistory(set, p) ==
    /\ set # {} /\ \A id \in set : VerifyEvent(id, p)
    /\ MissingReferences(set) = {}
    /\ \A id \in set :
          /\ \A parent \in ChannelEvents[id].parents : ChannelEvents[parent].at <= ChannelEvents[id].at
          /\ ChannelEvents[id].target # NoEvent => ChannelEvents[ChannelEvents[id].target].kind = "post"
    /\ \A who \in {ChannelEvents[id].publisher : id \in set} : PublisherChain(set, who)

\* A claim of a history: its size, its tips, its digest.
HeadOf(set) == [count |-> Cardinality(set),
              tips |-> set \ UNION {ChannelEvents[id].parents : id \in set}, digest |-> set]

Before(x, y) ==
    \/ ChannelEvents[x].at < ChannelEvents[y].at
    \/ ChannelEvents[x].at = ChannelEvents[y].at /\ x < y
Ordered(set) == SetToSortSeq(set, Before)

\* Faulty variant: the first moderation of a post stands.
ModeratedFirst(states, id) ==
    LET e == ChannelEvents[id]
    IN  IF e.kind = "post" \/ e.target \in DOMAIN states THEN states
        ELSE [t \in DOMAIN states \cup {e.target} |-> IF t = e.target THEN e.kind ELSE states[t]]
\* What one Event does to what is hidden.
Moderated(states, id) ==
    LET e == ChannelEvents[id]
    IN  IF e.kind = "post" THEN states
        ELSE [t \in DOMAIN states \cup {e.target} |-> IF t = e.target THEN e.kind ELSE states[t]]
VisiblePosts(set) ==
    LET states == FoldLeft(Moderated, [t \in {} |-> "hide"], Ordered(set))
    IN  {id \in set : ChannelEvents[id].kind = "post"
                      /\ (id \in DOMAIN states => states[id] # "hide")}

-----------------------------------------------------------------------------
(* The walk of a claimed head: FetchCursor.                                *)
NewFetchCursor(head) == [known |-> {}, want |-> head.tips]

\* The next request: the first of the ids wanted.
NextFetch(cursor) ==
    LET sorted == SetToSortSeq(cursor.want \ cursor.known, LAMBDA x, y : x < y)
    IN  ToSet(SubSeq(sorted, 1, IF Len(sorted) < MaxFetchEvents THEN Len(sorted) ELSE MaxFetchEvents))

\* Faulty variant: only the predecessor of the publisher is followed.
MergedPredecessors(cursor, ids) ==
    LET known == cursor.known \cup ids
    IN  [known |-> known,
         want |-> (cursor.want \cup ({ChannelEvents[id].previous : id \in ids} \ {NoEvent})) \ known]
\* The cursor after an answer.
Merged(cursor, ids) ==
    LET known == cursor.known \cup ids
    IN  [known |-> known, want |-> (cursor.want \cup UNION {References(id) : id \in ids}) \ known]

\* One more epoch, signed over the one before.
VerifySuccessor(current, next) == next.epoch = current.epoch + 1 /\ next.previous = current.name
=============================================================================
