---------------------------- MODULE DeviceHistory ----------------------------
(***************************************************************************)
(* Copying a direct conversation to another device of the same endpoint:   *)
(* the pages the source builds (BuildHistorySegment of pkg/eventlog/       *)
(* history.go, composed once per key by pkg/dispatch), their delivery in   *)
(* any order, and their import by the target (the daemon's                 *)
(* sweepHistorySync, ApplyHistorySegment), which may end at any write.     *)
(*                                                                         *)
(* An event is its place in the (created_at, event_id) order; the digest   *)
(* of a segment is the segment.                                            *)
(***************************************************************************)
EXTENDS Naturals, Sequences, SequencesExt

CONSTANTS
    HistoryEvents,             \* 1..n, in the order of the pages
    PageKeys, PageLimit,       \* idempotency keys of exports; events of a page
    MaxSegments,
    MaxHistoryClock, MaxHistoryFaults, \* bounds of the model
    NoPage, TornFile

VARIABLES
    eligible,      \* events applied or delivered at the source
    pages,         \* key -> the segment composed under it
    chainMade,     \* the directory of the chain exists at the target
    objectFiles,   \* event -> "whole", TornFile or NoPage
    manifests,     \* sequence -> [segment, at], TornFile or NoPage
    checkpoint,    \* the segment the chain has reached, or NoPage
    historyClock, historyFaults

historyVars == <<eligible, pages, chainMade, objectFiles, manifests, checkpoint,
                 historyClock, historyFaults>>

HistoryInit ==
    /\ eligible = {} /\ pages = [k \in PageKeys |-> NoPage]
    /\ chainMade = FALSE /\ objectFiles = [e \in HistoryEvents |-> NoPage]
    /\ manifests = [n \in 1..MaxSegments |-> NoPage] /\ checkpoint = NoPage
    /\ historyClock = 0 /\ historyFaults = 0

LastOf(segment) == segment.events[Len(segment.events)]

\* An event is applied, or its delivery is confirmed, in any order.
BecomeEligible(e) ==
    /\ e \in HistoryEvents \ eligible /\ eligible' = eligible \cup {e}
    /\ UNCHANGED <<pages, chainMade, objectFiles, manifests, checkpoint, historyClock, historyFaults>>

\* Faulty variant: the page starts at the cursor.
AfterInclusive(after) == {e \in eligible : e >= after}
\* The events a page is taken from.
After(after) == {e \in eligible : e > after}

BuildHistorySegment(previous, after) ==
    LET sorted == SetToSortSeq(After(after), LAMBDA x, y : x < y)
    IN  [sequence |-> IF previous = NoPage THEN 1 ELSE previous.sequence + 1,
         previous |-> previous, after |-> after,
         events |-> SubSeq(sorted, 1, IF Len(sorted) < PageLimit THEN Len(sorted) ELSE PageLimit)]

\* ComposeHistoryAndQueue: the first page composed under a key stands.
Export(k, previous) ==
    /\ pages[k] = NoPage
    /\ previous = NoPage \/ \E j \in PageKeys : pages[j] = previous
    /\ LET after == IF previous = NoPage THEN 0 ELSE LastOf(previous)
           segment == BuildHistorySegment(previous, after)
       IN  /\ segment.events # <<>> /\ segment.sequence <= MaxSegments
           /\ pages' = [pages EXCEPT ![k] = segment]
    /\ UNCHANGED <<eligible, chainMade, objectFiles, manifests, checkpoint, historyClock, historyFaults>>

\* The segment extends the chain the checkpoint has reached.
ExtendsChain(segment) ==
    IF checkpoint = NoPage THEN segment.sequence = 1
    ELSE segment.sequence = checkpoint.sequence + 1 /\ segment.previous = checkpoint
         /\ segment.after = LastOf(checkpoint)

Manifest(segment) == [segment |-> segment, at |-> historyClock]
\* putHistoryImmutable: the same bytes may be there already, no others.
PutObjectOK(e) == objectFiles[e] \in {NoPage, "whole"}
PutManifestOK(segment) == manifests[segment.sequence] \in {NoPage, Manifest(segment)}

WithObjects(set) == [e \in HistoryEvents |-> IF e \in set THEN "whole" ELSE objectFiles[e]]

\* A crash in ApplyHistorySegment: in the objects, in the manifest, or before
\* the checkpoint.
ApplyCrash(segment) ==
    LET n == segment.sequence
        set == Range(segment.events)
        whole(i) == WithObjects({segment.events[j] : j \in 1..i})
    IN  \/ \E i \in 0..Len(segment.events) - 1 :
              /\ objectFiles' \in {whole(i), [whole(i) EXCEPT ![segment.events[i + 1]] =
                                                 IF @ = NoPage THEN TornFile ELSE @]}
              /\ UNCHANGED manifests
        \/ /\ objectFiles' = WithObjects(set)
           /\ IF manifests[n] = NoPage
              THEN manifests' \in {[manifests EXCEPT ![n] = x] : x \in {NoPage, TornFile, Manifest(segment)}}
              ELSE UNCHANGED manifests

\* Faulty variant: the checkpoint moves before what it reaches is written.
ApplyHistoryEarly(k) ==
    LET segment == pages[k]
    IN  /\ segment # NoPage /\ segment # checkpoint /\ chainMade' = TRUE /\ ExtendsChain(segment)
        /\ checkpoint' = segment
        /\ \/ /\ objectFiles' = WithObjects(Range(segment.events))
              /\ manifests' = [manifests EXCEPT ![segment.sequence] = Manifest(segment)]
              /\ UNCHANGED historyFaults
           \/ /\ historyFaults < MaxHistoryFaults /\ historyFaults' = historyFaults + 1
              /\ ApplyCrash(segment)
        /\ UNCHANGED <<eligible, pages, historyClock>>
\* ApplyHistorySegment, by the sweep: objects, then the manifest, then the
\* checkpoint, all under the journal's lock.
ApplyHistorySegment(k) ==
    LET segment == pages[k]
    IN  /\ segment # NoPage /\ segment # checkpoint
        /\ chainMade' = TRUE
        /\ IF ~ExtendsChain(segment)
           THEN UNCHANGED <<objectFiles, manifests, checkpoint, historyFaults>>
           ELSE IF \E e \in Range(segment.events) : ~PutObjectOK(e)
           THEN /\ objectFiles' = WithObjects({e \in Range(segment.events) :
                                  \A d \in Range(segment.events) : d <= e => PutObjectOK(d)})
                /\ UNCHANGED <<manifests, checkpoint, historyFaults>>
           ELSE \/ /\ historyFaults < MaxHistoryFaults /\ historyFaults' = historyFaults + 1
                   /\ ApplyCrash(segment) /\ UNCHANGED checkpoint
                \/ /\ UNCHANGED historyFaults
                   /\ objectFiles' = WithObjects(Range(segment.events))
                   /\ IF PutManifestOK(segment)
                      THEN /\ manifests' = [manifests EXCEPT ![segment.sequence] = Manifest(segment)]
                           /\ checkpoint' = segment
                      ELSE UNCHANGED <<manifests, checkpoint>>
        /\ UNCHANGED <<eligible, pages, historyClock>>

HistoryTick ==
    /\ historyClock < MaxHistoryClock /\ historyClock' = historyClock + 1
    /\ UNCHANGED <<eligible, pages, chainMade, objectFiles, manifests, checkpoint, historyFaults>>

HistoryNext ==
    \/ \E e \in HistoryEvents : BecomeEligible(e)
    \/ \E k \in PageKeys : ApplyHistorySegment(k) \/ \E p \in {NoPage} \cup Range(pages) : Export(k, p)
    \/ HistoryTick

-----------------------------------------------------------------------------
Reached == IF checkpoint = NoPage THEN {} ELSE 1..checkpoint.sequence

\* What History walks: every manifest up to the checkpoint, and what it names.
ManifestLinks(n) ==
    /\ manifests[n] \notin {NoPage, TornFile}
    /\ LET s == manifests[n].segment
       IN  /\ s.sequence = n
           /\ s.previous = IF n = 1 THEN NoPage ELSE manifests[n - 1].segment
           /\ \A e \in Range(s.events) : objectFiles[e] = "whole"

\* The shape of the files.
HistoryTypeOK ==
    /\ eligible \subseteq HistoryEvents
    /\ \A k \in PageKeys : pages[k] # NoPage =>
          pages[k].sequence \in 1..MaxSegments /\ Len(pages[k].events) \in 1..PageLimit
    /\ \A n \in 1..MaxSegments : manifests[n] \in {NoPage, TornFile} \/ manifests[n].segment.sequence = n

\* Whatever a crash left, the checkpoint reaches whole manifests and whole
\* objects only, linked to the first one: a listing never meets a damaged chain.
CheckpointReachesWhole ==
    /\ \A n \in Reached : ManifestLinks(n)
    /\ checkpoint # NoPage => manifests[checkpoint.sequence].segment = checkpoint

\* The imported events are events of the source's history, each one once and in
\* its order, though segments were exported twice and arrived in any order.
ImportedInOrder ==
    checkpoint # NoPage =>
        LET listed == FlattenSeq([n \in Reached |-> manifests[n].segment.events])
        IN  Range(listed) \subseteq eligible /\ \A i \in 1..Len(listed) - 1 : listed[i] < listed[i + 1]

\* history.go: what a crash or a refused segment leaves is invisible.  History
\* answers as long as no file was damaged.
HistoryAnswers == chainMade => checkpoint # NoPage

\* A page that extends the chain can be imported, now or at a later sweep.
HistoryResumes ==
    \A k \in PageKeys : pages[k] # NoPage /\ ExtendsChain(pages[k]) =>
        manifests[pages[k].sequence] \in {NoPage, Manifest(pages[k])}

\* What a device imported is a part of the source's history without damage,
\* repetition or disorder.
ImportedIsSound == CheckpointReachesWhole /\ ImportedInOrder
=============================================================================
