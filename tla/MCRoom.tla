-------------------------------- MODULE MCRoom --------------------------------
(* Instances of LiveRoom for TLC. *)
EXTENDS RoomSafety, TLC

CONSTANTS alice, bob
MCParticipants == {alice, bob}
ParticipantSymmetry == Permutations(MCParticipants)
===============================================================================
