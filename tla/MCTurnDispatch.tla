---------------------------- MODULE MCTurnDispatch ----------------------------
(***************************************************************************)
(* Instances of TurnDispatch for TLC.                                      *)
(***************************************************************************)
EXTENDS TurnDispatch

AllKinds == Kind
SlashKinds == {"slash", "agent"}
=============================================================================
