-------------------------- MODULE MCServerRegistry --------------------------
(* Instances of ServerRegistry for TLC.                                    *)
EXTENDS ServerRegistry, TLC

\* Every call has a transport of its own, named after it.
OwnTransport == [c \in Conns |-> c]

Symmetry == Permutations(Conns) \cup Permutations(Routes) \cup Permutations(Ports)
=============================================================================
