------------------------------ MODULE MCAgent ------------------------------
(* Small instances of Agent for TLC. *)
EXTENDS Agent, TLC

BothModes == {"all", "one-at-a-time"}
OneAtATime == {"one-at-a-time"}
MsgSymmetry == Permutations(Msgs)

=============================================================================
