---------------------------- MODULE MCPeerTunnel ----------------------------
(* Instances of PeerTunnel for TLC.  Peers are interchangeable.            *)
EXTENDS PeerTunnel, TLC

CONSTANTS p1, p2, p3

AllEvents == {"reject", "accept_fail", "dial_fail", "user_close", "target_close",
              "break", "server_peer", "server_route", "client_peer", "client_route"}

\* Without a stop of the route by the server's operator.
NoServerStop == AllEvents \ {"server_route"}

PeerSymmetry == Permutations(Peers)
=============================================================================
