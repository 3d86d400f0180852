------------------------------- MODULE MCRpx -------------------------------
(* Instances of Rpx for TLC. *)
EXTENDS Rpx

=============================================================================
