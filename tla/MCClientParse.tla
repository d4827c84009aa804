--------------------------- MODULE MCClientParse ---------------------------
(* ClientParse on small instances: who may send what, and the accounts the *)
(* server finds in the database.                                           *)
EXTENDS ClientParse, TLC

CONSTANTS c1, c2, anna, bert, p1, i1, i2

Req(type, u, p, new) ==
  [type |-> type, userName |-> u, passWord |-> p, newPassWord |-> new]

Plain(types) == { Req(t, anna, p1, p1) : t \in types }
Logins(users) == { Req("login", u, p1, p1) : u \in users }

Account(u) == [name |-> u, pass |-> p1]

TwoAccounts == (i1 :> Account(anna)) @@ (i2 :> Account(bert))
OneAccount == (i1 :> Account(anna)) @@ (i2 :> NULL)

(* Both clients register the empty name and log in under it; each also     *)
(* logs in as the user whose account there is, and one registers a third.  *)
BusyClients ==
  [c \in Clients |->
     Logins({anna, Empty})
     \cup { Req("register", Empty, p1, p1) }
     \cup IF c = c1 THEN Logins({bert}) \cup { Req("register", bert, p1, p1) } ELSE {}]

(* Clients that all log in as one user, and poll; one sends everything     *)
(* else but registrations.                                                 *)
OneRoleClients ==
  [c \in Clients |->
     Logins({anna})
     \cup Plain({"relogin"})
     \cup IF c = c1
          THEN Plain({"reset", "deadline", "level", "permission", "heart", "invalid",
                      "ignored"})
          ELSE {}]

(* Nothing but logins.                                                     *)
LoginsOnly == [c \in Clients |-> Logins({anna, bert})]

(* The nodes that work behave alike.                                       *)
NodeSymmetry == Permutations(Nodes \ Dead)
=============================================================================
