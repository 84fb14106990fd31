---------------------------- MODULE CommandOnce ----------------------------
(***************************************************************************)
(* What the owner-command service promises of one command: it takes effect *)
(* at most once, only after it was admitted, and what is finally recorded  *)
(* of it is what happened.  OwnerCommand is shown to implement it.         *)
(***************************************************************************)
EXTENDS Naturals

VARIABLES status, effects

commandVars == <<status, effects>>

Unsettled == {"prepared", "admitted", "ambiguous"}

CommandInit == status = "unknown" /\ effects = 0

Prepare == status = "unknown" /\ status' = "prepared" /\ UNCHANGED effects

Admit == status = "prepared" /\ status' = "admitted" /\ UNCHANGED effects

\* Nothing was asked of the sink.
Refuse == status = "prepared" /\ status' = "rejected" /\ UNCHANGED effects

TakeEffect ==
    /\ status = "admitted" /\ effects = 0
    /\ effects' = 1
    /\ UNCHANGED status

Doubt == status = "admitted" /\ status' = "ambiguous" /\ UNCHANGED effects

Resolve ==
    /\ status \in {"admitted", "ambiguous"}
    /\ status' \in IF effects = 1 THEN {"applied"} ELSE {"rejected", "conflict"}
    /\ UNCHANGED effects

CommandNext == Prepare \/ Admit \/ Refuse \/ TakeEffect \/ Doubt \/ Resolve

CommandSpec == CommandInit /\ [][CommandNext]_commandVars
=============================================================================
