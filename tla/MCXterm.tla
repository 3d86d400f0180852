------------------------------ MODULE MCXterm ------------------------------
(* Instances of Xterm for TLC. *)
EXTENDS Xterm, TLC
=============================================================================
