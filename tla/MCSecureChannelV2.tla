------------------------- MODULE MCSecureChannelV2 -------------------------
(* A small instance of SecureChannelV2 for TLC. *)
EXTENDS SecureChannelV2, TLC

CardSymmetry == Permutations(Cards)
=============================================================================
