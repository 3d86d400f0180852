---------------------------- MODULE MCClientConn ----------------------------
(* Instances of ClientConn for TLC.                                        *)
EXTENDS ClientConn

\* One configured route, with an id of the client's choice.
OneAutomatic == <<0>>
=============================================================================
