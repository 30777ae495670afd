----------------------------- MODULE MCTrustRoots -----------------------------
(* A root and an intermediate, together and apart, for TrustRoots.            *)
EXTENDS TrustRoots

Root == [subject |-> "root", issuer |-> "root"]
Intermediate == [subject |-> "intermediate", issuer |-> "root"]
Chain == {Root, Intermediate}
SomeFiles == {Chain, {Root}, {}}
==============================================================================
