-------------------------- MODULE MCAccountHistory --------------------------
(* AccountHistory on a small instance: one account, registered on one of   *)
(* the days around the end of February, and two clients.                   *)
EXTENDS AccountHistory, TLC

CONSTANTS c1, c2, anna, p1, p2, p3, i1

Req(type, p, new) ==
  [type |-> type, userName |-> anna, passWord |-> p, newPassWord |-> new]

NoAccount == [i \in Ids |-> NULL]

(* One client registers, the other logs in and asks for the deadline; both *)
(* change the password, each to one of its own.                            *)
TwoClients ==
  [c \in Clients |->
     IF c = c1 THEN { Req("register", p1, p1), Req("reset", p1, p2) }
     ELSE { Req("login", p1, p1), Req("deadline", p1, p1), Req("reset", p1, p3) }]

Day(year, month, day) == [y |-> year, m |-> month, d |-> day]

(* The days on which an account is a year old, and those before and after. *)
EdgeDays ==
  { Day(2023, 3, 1), Day(2024, 2, 29), Day(2024, 3, 1), Day(2024, 3, 2),
    Day(2025, 2, 28), Day(2025, 3, 1) }

(* The nodes of the pool behave alike.                                     *)
NodeSymmetry == Permutations(Nodes)
=============================================================================
