--------------------------- MODULE ConnectionPool ---------------------------
(***************************************************************************)
(* What CObjectPool<SqlConNode> promises to the request handlers: a set of *)
(* database connections, each lent to at most one caller at a time, and a  *)
(* NULL answer only when none is free.  ObjectPool implements it with the  *)
(* linked list, the counter, the event and the lock of object_pool.h;      *)
(* ClientParse is composed with it.                                        *)
(***************************************************************************)
CONSTANTS Callers,   \* the threads that call GetFree and Recycle
          Nodes,     \* the SqlConNode objects made by Create
          Dead,      \* the nodes whose pSqlCon is NULL: the connection failed
          Nobody,    \* a caller that holds nothing
          Failed     \* a caller to which GetFree returned NULL

VARIABLES free,      \* the nodes the pool can lend
          held       \* what each caller holds: a node, Nobody or Failed

poolVars == <<free, held>>

PoolInit ==
  /\ free = Nodes
  /\ held = [t \in Callers |-> Nobody]

(* GetFree lends a free node. *)
Take(t) ==
  /\ held[t] = Nobody
  /\ \E n \in free : /\ held' = [held EXCEPT ![t] = n]
                     /\ free' = free \ {n}

(* GetFree returns NULL. *)
TakeNothing(t) ==
  /\ held[t] = Nobody
  /\ free = {}
  /\ held' = [held EXCEPT ![t] = Failed]
  /\ UNCHANGED free

(* The handler that got NULL returns. *)
GiveUp(t) ==
  /\ held[t] = Failed
  /\ held' = [held EXCEPT ![t] = Nobody]
  /\ UNCHANGED free

(* Recycle: a handler that used a connection always gives it back. *)
Return(t) ==
  /\ held[t] \in Nodes \ Dead
  /\ free' = free \cup {held[t]}
  /\ held' = [held EXCEPT ![t] = Nobody]

(* A handler whose node has no connection returns without Recycle. *)
Drop(t) ==
  /\ held[t] \in Dead
  /\ held' = [held EXCEPT ![t] = Nobody]
  /\ UNCHANGED free

PoolNext ==
  \E t \in Callers :
    Take(t) \/ TakeNothing(t) \/ GiveUp(t) \/ Return(t) \/ Drop(t)

PoolSpec == PoolInit /\ [][PoolNext]_poolVars

-----------------------------------------------------------------------------
PoolTypeOK ==
  /\ free \subseteq Nodes
  /\ held \in [Callers -> Nodes \cup {Nobody, Failed}]

(* A node is out of the pool's reach only if it never had a connection:    *)
(* whatever path the handlers take, no working connection leaks.           *)
NoLiveNodeLost ==
  \A n \in Nodes \ Dead : n \in free \/ \E t \in Callers : held[t] = n
=============================================================================
