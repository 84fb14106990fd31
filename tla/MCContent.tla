------------------------------ MODULE MCContent -----------------------------
(***************************************************************************)
(* Small instances of the components that keep what is shared: attachments,*)
(* rooms, device history and public channels.  One run checks them side by *)
(* side.                                                                   *)
(* `focus' says which component a behaviour is about; the others stay in   *)
(* their initial states, so a state is told apart by the variables of its  *)
(* component alone (Seen).                                                 *)
(***************************************************************************)
EXTENDS AttachmentUpload, AttachmentAccess, GroupState, RoomMembership, DeviceHistory,
        ChannelNode, SitesBags, TLC

CONSTANTS
    k1, k2,              \* uploads
    q1, q2,              \* attachment requests
    h1, h2,              \* handlers, callers
    alice, bob, cp1, cp2,\* publishers and peers of a channel
    g1, g2, g3           \* Storage Bags

VARIABLE focus

MCRequestExpires == q1 :> 2 @@ q2 :> 4

Profile(name, epoch, previous) ==
    [name |-> name, epoch |-> epoch, previous |-> previous,
     publishers |-> {alice, bob}, moderators |-> {alice}]
First == Profile("p1", 1, "")
MCProfiles == {First, Profile("p2", 2, "p1"), Profile("p3", 2, "px")}
Event(who, number, previous, parents, at, kind, target) ==
    [profile |-> First, publisher |-> who, sequence |-> number, previous |-> previous,
     parents |-> parents, at |-> at, kind |-> kind, target |-> target]
MCEvents == <<Event(bob, 1, NoEvent, {}, 1, "post", NoEvent),
              Event(alice, 1, NoEvent, {1}, 1, "hide", 1),
              Event(alice, 2, 2, {1, 2}, 2, "restore", 1),
              Event(bob, 2, 1, {1}, 2, "post", NoEvent)>>
\* The second peer announces a head whose count is wrong.
MCAnnounces == cp1 :> {HeadOf({1}), HeadOf({1, 2, 3})}
               @@ cp2 :> {HeadOf({1, 2, 3}), [HeadOf({1, 4}) EXCEPT !.count = 3]}
MCPeerHas == [p \in {cp1, cp2} |-> {1, 2, 3, 4}]
MCHinted == {{1, 4}}

\* Two bags hold what they are named after, the third is damaged.
MCBagDir == g1 :> 1 @@ g2 :> 2 @@ g3 :> 2
MCBagHolds == g1 :> 1 @@ g2 :> 2 @@ g3 :> Damaged

Components == {"upload", "access", "group", "room", "history", "channel", "sites"}

Init ==
    /\ focus \in Components
    /\ UploadInit
    /\ AccessInit
    /\ GroupInit
    /\ RoomInit
    /\ HistoryInit
    /\ ChannelInit
    /\ SitesInit

Next ==
    \/ /\ focus = "upload" /\ UploadNext
       /\ UNCHANGED <<focus, accessVars, groupVars, roomVars, historyVars, channelVars, sitesVars>>
    \/ /\ focus = "access" /\ AccessNext
       /\ UNCHANGED <<focus, uploadVars, groupVars, roomVars, historyVars, channelVars, sitesVars>>
    \/ /\ focus = "group" /\ GroupNext
       /\ UNCHANGED <<focus, uploadVars, accessVars, roomVars, historyVars, channelVars, sitesVars>>
    \/ /\ focus = "room" /\ RoomNext
       /\ UNCHANGED <<focus, uploadVars, accessVars, groupVars, historyVars, channelVars, sitesVars>>
    \/ /\ focus = "history" /\ HistoryNext
       /\ UNCHANGED <<focus, uploadVars, accessVars, groupVars, roomVars, channelVars, sitesVars>>
    \/ /\ focus = "channel" /\ ChannelNext
       /\ UNCHANGED <<focus, uploadVars, accessVars, groupVars, roomVars, historyVars, sitesVars>>
    \/ /\ focus = "sites" /\ SitesNext
       /\ UNCHANGED <<focus, uploadVars, accessVars, groupVars, roomVars, historyVars, channelVars>>

Seen ==
    <<focus, CASE focus = "upload" -> uploadVars
                 [] focus = "access" -> accessVars
                 [] focus = "group" -> groupVars
                 [] focus = "room" -> roomVars
                 [] focus = "history" -> historyVars
                 [] focus = "channel" -> channelVars
                 [] focus = "sites" -> sitesVars>>

\* Uploads, and the handlers of every component, are alike.
Alike == Permutations({k1, k2}) \cup Permutations({h1, h2})

\* The records of every component keep their shape.
ContentTypeOK ==
    /\ UploadTypeOK
    /\ AccessTypeOK
    /\ GroupTypeOK
    /\ RoomTypeOK
    /\ HistoryTypeOK
    /\ ChannelTypeOK
    /\ SitesTypeOK
=============================================================================
