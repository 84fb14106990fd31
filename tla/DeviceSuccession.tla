-------------------------- MODULE DeviceSuccession --------------------------
(***************************************************************************)
(* What every keeper of a device set promises, whoever it is: the Endpoint *)
(* that publishes its own set and the peer that records what it fetched.   *)
(* The set only moves forward in generations; within a generation devices  *)
(* only leave; a device that left has left for good.                       *)
(***************************************************************************)
EXTENDS Naturals

VARIABLES
    generation,     \* the freshness watermark of the set that is held
    members,        \* its devices
    gone            \* every device a step removed

successionVars == <<generation, members, gone>>

SuccessionInit == generation = 0 /\ members = {} /\ gone = {}

Succession ==
    /\ generation' >= generation
    /\ generation' = generation => members' \subseteq members
    /\ gone' = gone \cup (members \ members')
    /\ members' \cap gone' = {}

SuccessionSpec == SuccessionInit /\ [][Succession]_successionVars

=============================================================================
