----------------------------- MODULE ObjectPool -----------------------------
(***************************************************************************)
(* CObjectPool<SqlConNode> of object_pool.h as its callers use it: the     *)
(* free list is a chain of pNext pointers from m_pFreeHead to m_pFreeTail  *)
(* with a counter m_iFreeNum, guarded by m_szListLock.  GetFree looks at   *)
(* the head and at the counter before it takes the lock, so every write of *)
(* those two inside a critical section is a step of its own; the pointers  *)
(* that only the lock holder reads change with the nearest such step.      *)
(* iCount is 1, the value of every call.                                   *)
(***************************************************************************)
EXTENDS Integers, FiniteSets

CONSTANTS Threads, Nodes, Dead, NULL

ASSUME ObjectPoolAssumption ==
  /\ IsFiniteSet(Nodes)
  /\ Dead \subseteq Nodes
  /\ NULL \notin Nodes
  /\ NULL \notin Threads

VARIABLES next,        \* pNext of each node
          m_pFreeHead,
          m_pFreeTail,
          m_iFreeNum,
          m_hFreeEvent, \* manual-reset event, TRUE when signalled
          m_szListLock, \* the thread inside the critical section, or NULL
          pc,          \* where each thread is
          pNode        \* the node each thread is lent or about to be lent

vars == <<next, m_pFreeHead, m_pFreeTail, m_iFreeNum, m_hFreeEvent,
          m_szListLock, pc, pNode>>

list == <<next, m_pFreeHead, m_pFreeTail>>

-----------------------------------------------------------------------------
(* The constructor and its Create(4), before any thread runs: the nodes in *)
(* some order, chained.                                                    *)
Total == Cardinality(Nodes)

Orders == { s \in [1..Total -> Nodes] :
              \A i, j \in 1..Total : s[i] = s[j] => i = j }

Create(s) ==
  /\ m_pFreeHead = IF Total = 0 THEN NULL ELSE s[1]
  /\ m_pFreeTail = IF Total = 0 THEN NULL ELSE s[Total]
  /\ m_iFreeNum = Total
  /\ next \in [Nodes -> Nodes \cup {NULL}]
  /\ \A i \in 1..Total : next[s[i]] = IF i = Total THEN NULL ELSE s[i + 1]

Init ==
  /\ \E s \in Orders : Create(s)
  /\ m_hFreeEvent = FALSE
  /\ m_szListLock = NULL
  /\ pc = [t \in Threads |-> "idle"]
  /\ pNode = [t \in Threads |-> NULL]

goto(t, there) == pc' = [pc EXCEPT ![t] = there]

(* GetFree, before the lock: no head, return NULL at once. *)
GetFreeCheck(t) ==
  /\ pc[t] = "idle"
  /\ goto(t, IF m_pFreeHead = NULL THEN "failed" ELSE "count")
  /\ UNCHANGED <<list, m_iFreeNum, m_hFreeEvent, m_szListLock, pNode>>

(* GetFree, before the lock: no node left, wait for the event. *)
GetFreeCount(t) ==
  /\ pc[t] = "count"
  /\ goto(t, IF m_iFreeNum = 0 THEN "wait" ELSE "unlink")
  /\ UNCHANGED <<list, m_iFreeNum, m_hFreeEvent, m_szListLock, pNode>>

GetFreeSignalled(t) ==
  /\ pc[t] = "wait"
  /\ m_hFreeEvent
  /\ goto(t, "unlink")
  /\ UNCHANGED <<list, m_iFreeNum, m_hFreeEvent, m_szListLock, pNode>>

(* 1000 ms pass without the event. *)
GetFreeTimeout(t) ==
  /\ pc[t] = "wait"
  /\ ~m_hFreeEvent
  /\ goto(t, "failed")
  /\ UNCHANGED <<list, m_iFreeNum, m_hFreeEvent, m_szListLock, pNode>>

(* Mutant: the loop of GetFree without its test of m_pFreeHead. *)
GetFreeUnlinkUnchecked(t) ==
  /\ pc[t] = "unlink"
  /\ m_szListLock = NULL
  /\ m_szListLock' = t
  /\ pNode' = [pNode EXCEPT ![t] = m_pFreeHead]
  /\ m_pFreeHead' = IF m_pFreeHead = NULL THEN NULL ELSE next[m_pFreeHead]
  /\ goto(t, "uncount")
  /\ UNCHANGED <<next, m_pFreeTail, m_iFreeNum, m_hFreeEvent>>

(* GetFree enters the critical section and advances the head. *)
GetFreeUnlink(t) ==
  /\ pc[t] = "unlink"
  /\ m_szListLock = NULL
  /\ m_szListLock' = t
  /\ pNode' = [pNode EXCEPT ![t] = m_pFreeHead]
  /\ m_pFreeHead' = IF m_pFreeHead = NULL THEN NULL ELSE next[m_pFreeHead]
  /\ goto(t, IF m_pFreeHead = NULL THEN "detach" ELSE "uncount")
  /\ UNCHANGED <<next, m_pFreeTail, m_iFreeNum, m_hFreeEvent>>

GetFreeUncount(t) ==
  /\ pc[t] = "uncount"
  /\ m_iFreeNum' = m_iFreeNum - 1
  /\ goto(t, "detach")
  /\ UNCHANGED <<list, m_hFreeEvent, m_szListLock, pNode>>

(* Mutants: the tail of an emptied list, or the pNext of a lent node, keeps *)
(* its old value; the lock is not released when there is no node to lend.  *)
GetFreeDetachKeepsTail(t) ==
  /\ pc[t] = "detach"
  /\ next' = IF m_pFreeHead = NULL THEN next ELSE [next EXCEPT ![pNode[t]] = NULL]
  /\ m_szListLock' = NULL
  /\ goto(t, IF pNode[t] = NULL THEN "failed" ELSE "using")
  /\ UNCHANGED <<m_pFreeHead, m_pFreeTail, m_iFreeNum, m_hFreeEvent, pNode>>

GetFreeDetachKeepsNext(t) ==
  /\ pc[t] = "detach"
  /\ m_pFreeTail' = IF m_pFreeHead = NULL THEN NULL ELSE m_pFreeTail
  /\ m_szListLock' = NULL
  /\ goto(t, IF pNode[t] = NULL THEN "failed" ELSE "using")
  /\ UNCHANGED <<next, m_pFreeHead, m_iFreeNum, m_hFreeEvent, pNode>>

GetFreeDetachKeepsLock(t) ==
  /\ pc[t] = "detach"
  /\ IF m_pFreeHead = NULL
     THEN m_pFreeTail' = NULL /\ UNCHANGED next
     ELSE next' = [next EXCEPT ![pNode[t]] = NULL] /\ UNCHANGED m_pFreeTail
  /\ m_szListLock' = IF pNode[t] = NULL THEN t ELSE NULL
  /\ goto(t, IF pNode[t] = NULL THEN "failed" ELSE "using")
  /\ UNCHANGED <<m_pFreeHead, m_iFreeNum, m_hFreeEvent, pNode>>

(* GetFree resets the tail of an empty list or cuts the node off it, and   *)
(* leaves the critical section.                                            *)
GetFreeDetach(t) ==
  /\ pc[t] = "detach"
  /\ IF m_pFreeHead = NULL
     THEN m_pFreeTail' = NULL /\ UNCHANGED next
     ELSE next' = [next EXCEPT ![pNode[t]] = NULL] /\ UNCHANGED m_pFreeTail
  /\ m_szListLock' = NULL
  /\ goto(t, IF pNode[t] = NULL THEN "failed" ELSE "using")
  /\ UNCHANGED <<m_pFreeHead, m_iFreeNum, m_hFreeEvent, pNode>>

(* The handler that got NULL returns to its caller. *)
GiveUp(t) ==
  /\ pc[t] = "failed"
  /\ goto(t, "idle")
  /\ UNCHANGED <<list, m_iFreeNum, m_hFreeEvent, m_szListLock, pNode>>

(* Mutant: a handler returns without Recycle after an SQL error. *)
DropAny(t) ==
  /\ pc[t] = "using"
  /\ pNode' = [pNode EXCEPT ![t] = NULL]
  /\ goto(t, "idle")
  /\ UNCHANGED <<list, m_iFreeNum, m_hFreeEvent, m_szListLock>>

(* The handler finds pSqlCon = NULL and returns without Recycle. *)
Drop(t) ==
  /\ pc[t] = "using"
  /\ pNode[t] \in Dead
  /\ pNode' = [pNode EXCEPT ![t] = NULL]
  /\ goto(t, "idle")
  /\ UNCHANGED <<list, m_iFreeNum, m_hFreeEvent, m_szListLock>>

(* Recycle enters the critical section and appends the node. *)
RecycleLink(t) ==
  /\ pc[t] = "using"
  /\ pNode[t] \notin Dead
  /\ m_szListLock = NULL
  /\ m_szListLock' = t
  /\ IF m_pFreeTail = NULL
     THEN m_pFreeHead' = pNode[t] /\ UNCHANGED next
     ELSE next' = [next EXCEPT ![m_pFreeTail] = pNode[t]] /\ UNCHANGED m_pFreeHead
  /\ m_pFreeTail' = pNode[t]
  /\ goto(t, "recount")
  /\ UNCHANGED <<m_iFreeNum, m_hFreeEvent, pNode>>

RecycleCount(t) ==
  /\ pc[t] = "recount"
  /\ m_iFreeNum' = m_iFreeNum + 1
  /\ goto(t, "walk")
  /\ UNCHANGED <<list, m_hFreeEvent, m_szListLock, pNode>>

(* Mutant: an error path that recycles and falls through to a second       *)
(* Recycle, as the failed UPDATE of ResetPassWord falls through.           *)
RecycleWalkAgain(t) ==
  /\ pc[t] = "walk"
  /\ m_hFreeEvent' = TRUE
  /\ m_szListLock' = NULL
  /\ goto(t, "using")
  /\ UNCHANGED <<list, m_iFreeNum, pNode>>

(* Recycle follows what the node still points to, counting; at the end of  *)
(* the chain it signals the event and leaves the critical section.         *)
RecycleWalk(t) ==
  /\ pc[t] = "walk"
  /\ IF next[m_pFreeTail] # NULL
     THEN /\ m_pFreeTail' = next[m_pFreeTail]
          /\ m_iFreeNum' = m_iFreeNum + 1
          /\ UNCHANGED <<m_hFreeEvent, m_szListLock, pc, pNode>>
     ELSE /\ m_hFreeEvent' = TRUE
          /\ m_szListLock' = NULL
          /\ pNode' = [pNode EXCEPT ![t] = NULL]
          /\ goto(t, "idle")
          /\ UNCHANGED <<m_pFreeTail, m_iFreeNum>>
  /\ UNCHANGED <<next, m_pFreeHead>>

ThreadStep(t) ==
  \/ GetFreeCheck(t)
  \/ GetFreeCount(t)
  \/ GetFreeSignalled(t)
  \/ GetFreeTimeout(t)
  \/ GetFreeUnlink(t)
  \/ GetFreeUncount(t)
  \/ GetFreeDetach(t)
  \/ GiveUp(t)
  \/ Drop(t)
  \/ RecycleLink(t)
  \/ RecycleCount(t)
  \/ RecycleWalk(t)

Next == \E t \in Threads : ThreadStep(t)

Spec == Init /\ [][Next]_vars

(* The lock is held for a few instructions only: a thread inside the       *)
(* critical section keeps running.                                         *)
FairSpec == Spec /\ \A t \in Threads : WF_vars(m_szListLock = t /\ ThreadStep(t))

-----------------------------------------------------------------------------
PC == {"idle", "count", "wait", "unlink", "uncount", "detach", "using",
       "failed", "recount", "walk"}

(* Every variable keeps its type; in particular the counter, which nothing *)
(* in the code checks, never goes below zero.                              *)
TypeOK ==
  /\ next \in [Nodes -> Nodes \cup {NULL}]
  /\ m_pFreeHead \in Nodes \cup {NULL}
  /\ m_pFreeTail \in Nodes \cup {NULL}
  /\ m_iFreeNum \in Nat
  /\ m_hFreeEvent \in BOOLEAN
  /\ m_szListLock \in Threads \cup {NULL}
  /\ pc \in [Threads -> PC]
  /\ pNode \in [Threads -> Nodes \cup {NULL}]

(* The nodes a walk along pNext from the head meets: the smallest set that *)
(* contains the head and is closed under pNext.                            *)
ClosedUnderNext(S) ==
  /\ m_pFreeHead # NULL => m_pFreeHead \in S
  /\ \A n \in S : next[n] # NULL => next[n] \in S

OnList ==
  { n \in Nodes : \A S \in SUBSET Nodes : ClosedUnderNext(S) => n \in S }

(* A thread whose GetFree has returned a node that it has not recycled. *)
Holding(t) == pc[t] \in {"using", "recount", "walk"}

(* Whenever the lock is free, the free list is a chain that ends, once, at *)
(* m_pFreeTail, and m_iFreeNum is its length: the unlocked tests of        *)
(* GetFree and the next Recycle rely on all three.                         *)
ListConsistent ==
  m_szListLock = NULL =>
    /\ m_iFreeNum = Cardinality(OnList)
    /\ { n \in OnList : next[n] = NULL } = {m_pFreeTail} \ {NULL}
    /\ m_pFreeHead = NULL <=> m_pFreeTail = NULL

(* A connection taken by GetFree is used by one thread only, and is off    *)
(* the list until that thread recycles it.                                 *)
OneUserPerConnection ==
  /\ \A t, u \in Threads :
       Holding(t) /\ Holding(u) /\ pNode[t] = pNode[u] => t = u
  /\ \A t \in Threads : pc[t] = "using" => pNode[t] \notin OnList

(* Why ListConsistent holds at every step, also inside a critical section. *)
InGetFree == \E t \in Threads : pc[t] \in {"uncount", "detach"}
Uncounted == IF \E t \in Threads : pc[t] = "uncount" THEN 1 ELSE 0
Recounted == IF \E t \in Threads : pc[t] = "recount" THEN 1 ELSE 0

LockMatchesPc ==
  \A t \in Threads :
    m_szListLock = t <=> pc[t] \in {"uncount", "detach", "recount", "walk"}

NodesAreOwned ==
  /\ \A t \in Threads :
       /\ pc[t] \in {"idle", "count", "wait", "unlink", "failed"} => pNode[t] = NULL
       /\ pc[t] \in {"uncount", "using", "recount", "walk"} => pNode[t] # NULL
       /\ pc[t] \in {"recount", "walk"} => pNode[t] \notin Dead
       /\ pc[t] = "using" => next[pNode[t]] = NULL
       /\ pc[t] \in {"uncount", "detach"} =>
            m_pFreeHead = IF pNode[t] = NULL THEN NULL ELSE next[pNode[t]]
  /\ \A t, u \in Threads : pNode[t] # NULL /\ pNode[t] = pNode[u] => t = u

(* q[lo], ..., q[hi] are the nodes of the list in order.  A GetFree inside *)
(* the critical section may leave the tail behind and the counter one too  *)
(* high, a Recycle inside it the counter one too low.                      *)
Chain(q, lo, hi) ==
  /\ \A i \in lo .. hi : q[i] \in Nodes
  /\ \A i, j \in lo .. hi : q[i] = q[j] => i = j
  /\ m_pFreeHead = IF lo <= hi THEN q[lo] ELSE NULL
  /\ \A i \in lo .. hi : next[q[i]] = IF i = hi THEN NULL ELSE q[i + 1]
  /\ lo <= hi => m_pFreeTail = q[hi]
  /\ lo > hi => m_pFreeTail = NULL \/ InGetFree
  /\ lo <= hi + 1
  /\ m_iFreeNum = (hi - lo + 1) + Uncounted - Recounted
  /\ \A t \in Threads :
       /\ pc[t] \in {"uncount", "detach", "using"} =>
            \A i \in lo .. hi : q[i] # pNode[t]
       /\ pc[t] \in {"recount", "walk"} => lo <= hi /\ q[hi] = pNode[t]

(* At every step of GetFree and Recycle the free list is one chain without *)
(* repetition, no longer than the pool, and the lent nodes are off it.     *)
ListIsChain ==
  /\ LockMatchesPc
  /\ NodesAreOwned
  /\ \E k \in 0 .. Total :
       \E q \in [1..k -> Nodes] : Chain(q, 1, k)

(* The critical section is always left: the loop of Recycle along pNext    *)
(* ends although GetFree hands out nodes that pointed into the list.       *)
LockReleased == \A t \in Threads : m_szListLock = t ~> m_szListLock # t

(* The pool is what ConnectionPool promises: a node is lent when it is     *)
(* unlinked and given back when Recycle leaves its critical section.       *)
Given == { pNode[t] : t \in { u \in Threads : pc[u] \in {"recount", "walk"} } }

Pool == INSTANCE ConnectionPool
          WITH Callers <- Threads,
               Nobody <- NULL,
               Failed <- "failed",
               free <- OnList \ Given,
               held <- [t \in Threads |->
                          IF pc[t] = "failed" THEN "failed" ELSE pNode[t]]

ImplementsPool == Pool!PoolSpec
=============================================================================
