--------------------------- MODULE MCLoginServer ---------------------------
(* LoginServer on a small instance: clients that log in as one user, or    *)
(* send nothing that is handled.                                           *)
EXTENDS LoginServer, TLC

CONSTANTS anna, p1, i1

Req(type) == [type |-> type, userName |-> anna, passWord |-> p1, newPassWord |-> p1]

OneAccount == i1 :> [name |-> anna, pass |-> p1]

LoginOrNothing == [k \in Conns |-> { Req(t) : t \in {"login", "ignored"} }]

PartialSends == {"partial"}

(* Nothing tells two threads, two clients or two connections apart.        *)
Symmetry == Permutations(Threads) \cup Permutations(Conns) \cup Permutations(Nodes \ Dead)
=============================================================================
