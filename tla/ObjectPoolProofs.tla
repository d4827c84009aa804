-------------------------- MODULE ObjectPoolProofs --------------------------
(***************************************************************************)
(* Proofs about ObjectPool, for every set of threads and every finite set  *)
(* of nodes: type correctness, the shape of the free list, exclusive use.  *)
(***************************************************************************)
EXTENDS ObjectPool, FiniteSetTheorems, TLAPS

(* The free list is the window lo .. hi of q.  GetFree moves lo, Recycle   *)
(* moves hi, and q never changes inside the window.                        *)
ListIsWindow ==
  \E q \in [Nat -> Nodes \cup {NULL}] : \E lo, hi \in Nat : Chain(q, lo, hi)

IInv == TypeOK /\ LockMatchesPc /\ NodesAreOwned /\ ListIsWindow

(* At most one thread is inside the critical section. *)
LEMMA CriticalSection ==
  ASSUME LockMatchesPc, NEW t \in Threads,
         pc[t] \in {"uncount", "detach", "recount", "walk"},
         NEW u \in Threads, u # t
  PROVE  pc[u] \notin {"uncount", "detach", "recount", "walk"}
BY DEF LockMatchesPc

LEMMA InitIInv == Init => IInv
<1> SUFFICES ASSUME Init PROVE IInv
  OBVIOUS
<1> USE ObjectPoolAssumption DEF Init
<1>1. Total \in Nat
  BY FS_CardinalityType DEF Total
<1>2. PICK s \in Orders : Create(s)
  OBVIOUS
<1>3. TypeOK
  <2>1. s \in [1..Total -> Nodes]
    BY DEF Orders
  <2>2. Total # 0 => s[1] \in Nodes /\ s[Total] \in Nodes
    BY <1>1, <2>1
  <2> QED
    BY <1>1, <1>2, <2>2 DEF TypeOK, Create, PC
<1>4. LockMatchesPc /\ NodesAreOwned
  BY DEF LockMatchesPc, NodesAreOwned
<1>5. ListIsWindow
  <2> DEFINE q == [i \in Nat |-> IF i \in 1..Total THEN s[i] ELSE NULL]
  <2>1. q \in [Nat -> Nodes \cup {NULL}]
    BY <1>1 DEF Orders
  <2>2. Uncounted = 0 /\ Recounted = 0
    BY DEF Uncounted, Recounted
  <2>3. \A i \in 1..Total : q[i] = s[i] /\ s[i] \in Nodes
    BY <1>1 DEF Orders
  <2>4. Chain(q, 1, Total)
    BY <1>1, <1>2, <2>2, <2>3 DEF Chain, Create, Orders
  <2> QED
    BY <1>1, <2>1, <2>4 DEF ListIsWindow
<1> QED
  BY <1>3, <1>4, <1>5 DEF IInv

-----------------------------------------------------------------------------
(* Every non-empty set of naturals has a least element: the initial        *)
(* segments are finite sets, and those are well-founded by inclusion.      *)
LEMMA LeastNatural ==
  ASSUME NEW S \in SUBSET Nat, S # {}
  PROVE  \E i \in S : \A j \in S : i <= j
<1> DEFINE Segments == { 0 .. i : i \in S }
<1>1. Segments \subseteq FiniteSubsetsOf(Nat)
  <2> SUFFICES ASSUME NEW i \in S PROVE 0 .. i \in FiniteSubsetsOf(Nat)
    OBVIOUS
  <2>1. i \in Nat
    OBVIOUS
  <2>2. IsFiniteSet(0 .. i)
    BY <2>1, FS_Interval
  <2> QED
    BY <2>1, <2>2 DEF FiniteSubsetsOf
<1>2. Segments # {}
  OBVIOUS
<1>3. PICK X \in Segments :
         \A Y \in Segments : ~ (<<Y, X>> \in StrictSubsetOrdering(Nat))
  <2> HIDE DEF Segments
  <2> QED
    BY <1>1, <1>2, FS_StrictSubsetOrderingWellFounded, WFMin
<1>4. PICK i \in S : X = 0 .. i
  OBVIOUS
<1>5. ASSUME NEW j \in S, j < i PROVE FALSE
  <2>1. <<0 .. j, 0 .. i>> \notin StrictSubsetOrdering(Nat)
    BY <1>3, <1>4
  <2>2. /\ 0 .. j \in SUBSET Nat
        /\ 0 .. i \in SUBSET Nat
        /\ 0 .. j \subseteq 0 .. i
        /\ i \in 0 .. i /\ i \notin 0 .. j
    BY <1>5
  <2> QED
    BY <2>1, <2>2 DEF StrictSubsetOrdering
<1> QED
  BY <1>5

(* What a walk along pNext from the head meets is the window.              *)
LEMMA OnListIsWindow ==
  ASSUME TypeOK, NEW q \in [Nat -> Nodes \cup {NULL}],
         NEW lo \in Nat, NEW hi \in Nat, Chain(q, lo, hi)
  PROVE  OnList = { q[i] : i \in lo .. hi }
<1> USE ObjectPoolAssumption
<1> DEFINE W == { q[i] : i \in lo .. hi }
<1>1. W \in SUBSET Nodes
  BY DEF Chain
<1>2. ClosedUnderNext(W)
  <2>1. m_pFreeHead # NULL => m_pFreeHead \in W
    BY DEF Chain
  <2>2. ASSUME NEW i \in lo .. hi, next[q[i]] # NULL
        PROVE  next[q[i]] \in W
    <3>1. next[q[i]] = q[i + 1] /\ i + 1 \in lo .. hi
      BY <2>2 DEF Chain
    <3> QED
      BY <3>1
  <2> QED
    BY <2>1, <2>2 DEF ClosedUnderNext
<1>3. OnList \subseteq W
  BY <1>1, <1>2 DEF OnList
<1>4. ASSUME NEW S \in SUBSET Nodes, ClosedUnderNext(S)
      PROVE  \A i \in lo .. hi : q[i] \in S
  <2> DEFINE Bad == { i \in lo .. hi : q[i] \notin S }
  <2> SUFFICES ASSUME Bad # {} PROVE FALSE
    OBVIOUS
  <2>1. Bad \in SUBSET Nat
    OBVIOUS
  <2>2. PICK i \in Bad : \A j \in Bad : i <= j
    BY <2>1, LeastNatural
  <2>3. i # lo
    BY <1>4 DEF Chain, ClosedUnderNext
  <2>4. i - 1 \in lo .. hi /\ i - 1 # hi
    BY <2>2, <2>3
  <2>5. q[i - 1] \in S
    BY <2>2, <2>4
  <2>6. next[q[i - 1]] = q[i]
    BY <2>4 DEF Chain
  <2>7. q[i] \in Nodes
    BY <2>2 DEF Chain
  <2> QED
    BY <1>4, <2>2, <2>5, <2>6, <2>7 DEF ClosedUnderNext
<1>5. W \subseteq OnList
  BY <1>1, <1>4 DEF OnList
<1> QED
  BY <1>3, <1>5

(* The same of the next state.                                             *)
LEMMA NextOnListIsWindow ==
  (\A q \in [Nat -> Nodes \cup {NULL}] : \A lo, hi \in Nat :
     TypeOK /\ Chain(q, lo, hi) => OnList = { q[i] : i \in lo .. hi })'
<1>1. \A q \in [Nat -> Nodes \cup {NULL}] : \A lo, hi \in Nat :
        TypeOK /\ Chain(q, lo, hi) => OnList = { q[i] : i \in lo .. hi }
  BY OnListIsWindow
<1> QED
  BY <1>1, PTL

-----------------------------------------------------------------------------
(* A step outside the critical section.                                    *)
OutsidePc == {"idle", "count", "wait", "unlink", "failed", "using"}

LEMMA OutsideStep ==
  ASSUME IInv, NEW t \in Threads, NEW there \in OutsidePc,
         pc[t] \in OutsidePc, goto(t, there),
         UNCHANGED <<list, m_iFreeNum, m_hFreeEvent, m_szListLock>>,
         there # "using", pNode' = [pNode EXCEPT ![t] = NULL]
  PROVE  IInv'
<1> USE ObjectPoolAssumption DEF OutsidePc
<1>1. TypeOK'
  BY DEF IInv, TypeOK, goto, list, PC
<1>2. LockMatchesPc'
  BY DEF IInv, TypeOK, LockMatchesPc, goto
<1>3. NodesAreOwned'
  BY DEF IInv, TypeOK, NodesAreOwned, goto, list
<1>4. /\ InGetFree' = InGetFree
      /\ Uncounted' = Uncounted
      /\ Recounted' = Recounted
  <2>1. \A u \in Threads : \A p \in {"uncount", "detach", "recount"} :
          pc'[u] = p <=> pc[u] = p
    BY DEF IInv, TypeOK, goto
  <2> QED
    BY <2>1 DEF InGetFree, Uncounted, Recounted
<1>5. ListIsWindow'
  <2>1. PICK q \in [Nat -> Nodes \cup {NULL}], lo \in Nat, hi \in Nat : Chain(q, lo, hi)
    BY DEF IInv, ListIsWindow
  <2>2. Chain(q, lo, hi)'
    BY <1>4, <2>1 DEF Chain, IInv, TypeOK, goto, list
  <2> QED
    BY <2>2 DEF ListIsWindow
<1> QED
  BY <1>1, <1>2, <1>3, <1>5 DEF IInv

LEMMA LocalSteps ==
  ASSUME IInv, NEW t \in Threads,
         \/ GetFreeCheck(t)
         \/ GetFreeCount(t)
         \/ GetFreeSignalled(t)
         \/ GetFreeTimeout(t)
         \/ GiveUp(t)
         \/ Drop(t)
  PROVE  IInv'
<1>1. pc[t] \in OutsidePc \ {"using"} /\ pNode' = pNode => pNode' = [pNode EXCEPT ![t] = NULL]
  BY DEF IInv, TypeOK, NodesAreOwned, OutsidePc
<1>2. CASE GetFreeCheck(t)
  <2>1. PICK there \in {"failed", "count"} : goto(t, there)
    BY <1>2 DEF GetFreeCheck
  <2> QED
    BY <1>1, <1>2, <2>1, OutsideStep DEF GetFreeCheck, OutsidePc
<1>3. CASE GetFreeCount(t)
  <2>1. PICK there \in {"wait", "unlink"} : goto(t, there)
    BY <1>3 DEF GetFreeCount
  <2> QED
    BY <1>1, <1>3, <2>1, OutsideStep DEF GetFreeCount, OutsidePc
<1>4. CASE GetFreeSignalled(t)
  BY <1>1, <1>4, OutsideStep DEF GetFreeSignalled, OutsidePc
<1>5. CASE GetFreeTimeout(t)
  BY <1>1, <1>5, OutsideStep DEF GetFreeTimeout, OutsidePc
<1>6. CASE GiveUp(t)
  BY <1>1, <1>6, OutsideStep DEF GiveUp, OutsidePc
<1>7. CASE Drop(t)
  BY <1>7, OutsideStep DEF Drop, OutsidePc
<1> QED
  BY <1>2, <1>3, <1>4, <1>5, <1>6, <1>7

(* What holds while t is about to enter the critical section.              *)
LEMMA LockFree ==
  ASSUME LockMatchesPc, m_szListLock = NULL, pc \in [Threads -> PC]
  PROVE  /\ \A u \in Threads : pc[u] \notin {"uncount", "detach", "recount", "walk"}
         /\ ~InGetFree
         /\ Uncounted = 0
         /\ Recounted = 0
<1>1. \A u \in Threads : pc[u] \notin {"uncount", "detach", "recount", "walk"}
  BY ObjectPoolAssumption DEF LockMatchesPc
<1> QED
  BY <1>1 DEF InGetFree, Uncounted, Recounted

LEMMA UnlinkStep ==
  ASSUME IInv, NEW t \in Threads, GetFreeUnlink(t)
  PROVE  /\ IInv'
         /\ m_pFreeHead # NULL => m_pFreeHead \in OnList
         /\ OnList' = OnList \ {m_pFreeHead}
<1> USE ObjectPoolAssumption DEF GetFreeUnlink, goto
<1>1. PICK q \in [Nat -> Nodes \cup {NULL}], lo \in Nat, hi \in Nat : Chain(q, lo, hi)
  BY DEF IInv, ListIsWindow
<1>2. TypeOK'
  BY DEF IInv, TypeOK, PC
<1>3. /\ \A u \in Threads : pc[u] \notin {"uncount", "detach", "recount", "walk"}
      /\ ~InGetFree /\ Uncounted = 0 /\ Recounted = 0
  BY LockFree DEF IInv, TypeOK
<1>4. LockMatchesPc'
  BY <1>3 DEF IInv, TypeOK, LockMatchesPc
<1>5. \A u \in Threads : m_pFreeHead # NULL => pNode[u] # m_pFreeHead
  BY <1>1, <1>3 DEF IInv, TypeOK, NodesAreOwned, Chain, PC
<1>6. NodesAreOwned'
  BY <1>3, <1>5 DEF IInv, TypeOK, NodesAreOwned
<1>7. Recounted' = 0 /\ InGetFree'
  BY <1>3 DEF IInv, TypeOK, Recounted, InGetFree
<1>8. OnList = { q[i] : i \in lo .. hi }
  BY <1>1, OnListIsWindow DEF IInv
<1>9. /\ ListIsWindow'
      /\ m_pFreeHead # NULL => m_pFreeHead \in OnList
      /\ OnList' = OnList \ {m_pFreeHead}
  <2>1. CASE m_pFreeHead = NULL
    <3>1. Uncounted' = 0
      BY <1>3, <2>1 DEF IInv, TypeOK, Uncounted
    <3>2. lo > hi
      BY <1>1, <2>1 DEF Chain
    <3>3. Chain(q, lo, hi)'
      BY <1>1, <1>3, <1>7, <2>1, <3>1, <3>2 DEF Chain, IInv, TypeOK
    <3>4. OnList' = { q[i] : i \in lo .. hi }
      BY <1>2, <3>3, NextOnListIsWindow
    <3> QED
      BY <1>1, <1>8, <2>1, <3>3, <3>4 DEF Chain, ListIsWindow
  <2>2. CASE m_pFreeHead # NULL
    <3>1. Uncounted' = 1
      BY <2>2 DEF IInv, TypeOK, Uncounted
    <3>2. /\ lo <= hi
          /\ m_pFreeHead = q[lo]
          /\ next[q[lo]] = IF lo = hi THEN NULL ELSE q[lo + 1]
      BY <1>1, <2>2 DEF Chain
    <3>3. m_pFreeHead' = IF lo + 1 <= hi THEN q[lo + 1] ELSE NULL
      BY <2>2, <3>2
    <3>4. /\ \A i \in lo + 1 .. hi : i \in lo .. hi /\ q[i] # q[lo]
          /\ lo + 1 \in Nat
      BY <1>1, <3>2 DEF Chain
    <3>5. \A u \in Threads :
            /\ pc'[u] \in {"uncount", "detach", "using"} =>
                 \A i \in lo + 1 .. hi : q[i] # pNode'[u]
            /\ pc'[u] \notin {"recount", "walk"}
      BY <1>1, <1>3, <2>2, <3>2, <3>4 DEF Chain, IInv, TypeOK
    <3>6. Chain(q, lo + 1, hi)'
      BY <1>1, <1>3, <1>7, <3>1, <3>2, <3>3, <3>4, <3>5 DEF Chain
    <3>7. OnList' = { q[i] : i \in lo + 1 .. hi }
      BY <1>2, <3>4, <3>6, NextOnListIsWindow
    <3>8. lo .. hi = {lo} \cup (lo + 1 .. hi)
      BY <3>2
    <3>9. OnList' = OnList \ {q[lo]} /\ q[lo] \in OnList
      BY <1>8, <3>4, <3>7, <3>8
    <3> QED
      BY <3>2, <3>4, <3>6, <3>9 DEF ListIsWindow
  <2> QED
    BY <2>1, <2>2
<1> QED
  BY <1>2, <1>4, <1>6, <1>9 DEF IInv

LEMMA UncountStep ==
  ASSUME IInv, NEW t \in Threads, GetFreeUncount(t)
  PROVE  IInv'
<1> USE ObjectPoolAssumption DEF GetFreeUncount, goto
<1>1. PICK q \in [Nat -> Nodes \cup {NULL}], lo \in Nat, hi \in Nat : Chain(q, lo, hi)
  BY DEF IInv, ListIsWindow
<1>2. \A u \in Threads \ {t} : pc[u] \notin {"uncount", "detach", "recount", "walk"}
  BY CriticalSection DEF IInv
<1>3. /\ Uncounted = 1 /\ Uncounted' = 0
      /\ Recounted = 0 /\ Recounted' = 0
      /\ InGetFree'
  BY <1>2 DEF IInv, TypeOK, Uncounted, Recounted, InGetFree
<1>4. m_iFreeNum' \in Nat
  BY <1>1, <1>3 DEF Chain
<1>5. TypeOK'
  BY <1>4 DEF IInv, TypeOK, PC, list
<1>6. LockMatchesPc'
  BY DEF IInv, TypeOK, LockMatchesPc
<1>7. NodesAreOwned'
  BY DEF IInv, TypeOK, NodesAreOwned, list
<1>8. Chain(q, lo, hi)'
  BY <1>1, <1>2, <1>3 DEF Chain, IInv, TypeOK, list
<1> QED
  BY <1>5, <1>6, <1>7, <1>8 DEF IInv, ListIsWindow

LEMMA DetachStep ==
  ASSUME IInv, NEW t \in Threads, GetFreeDetach(t)
  PROVE  IInv' /\ OnList' = OnList
<1> USE ObjectPoolAssumption DEF GetFreeDetach, goto
<1>1. PICK q \in [Nat -> Nodes \cup {NULL}], lo \in Nat, hi \in Nat : Chain(q, lo, hi)
  BY DEF IInv, ListIsWindow
<1>2. \A u \in Threads \ {t} : pc[u] \notin {"uncount", "detach", "recount", "walk"}
  BY CriticalSection DEF IInv
<1>3. /\ Uncounted = 0 /\ Uncounted' = 0
      /\ Recounted = 0 /\ Recounted' = 0
  BY <1>2 DEF IInv, TypeOK, Uncounted, Recounted
<1>4. m_pFreeHead # NULL => pNode[t] \in Nodes
  BY DEF IInv, TypeOK, NodesAreOwned
<1>5. TypeOK'
  <2>1. next' \in [Nodes -> Nodes \cup {NULL}]
    BY DEF IInv, TypeOK
  <2> QED
    BY <2>1 DEF IInv, TypeOK, PC
<1>6. LockMatchesPc'
  BY <1>2 DEF IInv, TypeOK, LockMatchesPc
<1>7. NodesAreOwned'
  <2>1. pNode[t] # NULL => next'[pNode[t]] = NULL
    BY <1>4 DEF IInv, TypeOK, NodesAreOwned
  <2>2. \A u \in Threads \ {t} : pNode[u] # NULL => next'[pNode[u]] = next[pNode[u]]
    BY DEF IInv, TypeOK, NodesAreOwned
  <2> QED
    BY <1>2, <2>1, <2>2 DEF IInv, TypeOK, NodesAreOwned
<1>8. Chain(q, lo, hi)'
  <2>1. \A i \in lo .. hi : q[i] # pNode[t]
    BY <1>1 DEF Chain
  <2>2. \A i \in lo .. hi : next'[q[i]] = next[q[i]]
    BY <1>1, <2>1 DEF Chain, IInv, TypeOK
  <2>3. /\ lo <= hi => m_pFreeTail' = q[hi]
        /\ lo > hi => m_pFreeTail' = NULL
    BY <1>1 DEF Chain, IInv, TypeOK
  <2>4. \A u \in Threads :
          /\ pc'[u] \in {"uncount", "detach", "using"} => \A i \in lo .. hi : q[i] # pNode'[u]
          /\ pc'[u] \notin {"recount", "walk"}
    BY <1>1, <1>2, <2>1 DEF Chain, IInv, TypeOK
  <2> QED
    BY <1>1, <1>3, <2>2, <2>3, <2>4 DEF Chain
<1>9. OnList' = OnList
  BY <1>1, <1>5, <1>8, OnListIsWindow, NextOnListIsWindow DEF IInv
<1> QED
  BY <1>5, <1>6, <1>7, <1>8, <1>9 DEF IInv, ListIsWindow

LEMMA LinkStep ==
  ASSUME IInv, NEW t \in Threads, RecycleLink(t)
  PROVE  IInv' /\ OnList' = OnList \cup {pNode[t]}
<1> USE ObjectPoolAssumption DEF RecycleLink, goto
<1>1. PICK q \in [Nat -> Nodes \cup {NULL}], lo \in Nat, hi \in Nat : Chain(q, lo, hi)
  BY DEF IInv, ListIsWindow
<1>2. /\ \A u \in Threads : pc[u] \notin {"uncount", "detach", "recount", "walk"}
      /\ ~InGetFree /\ Uncounted = 0 /\ Recounted = 0
  BY LockFree DEF IInv, TypeOK
<1>3. /\ pNode[t] \in Nodes
      /\ next[pNode[t]] = NULL
      /\ \A i \in lo .. hi : q[i] # pNode[t]
  BY <1>1 DEF IInv, TypeOK, NodesAreOwned, Chain
<1>4. TypeOK'
  <2>1. next' \in [Nodes -> Nodes \cup {NULL}]
    BY <1>3 DEF IInv, TypeOK
  <2> QED
    BY <1>3, <2>1 DEF IInv, TypeOK, PC
<1>5. LockMatchesPc'
  BY <1>2 DEF IInv, TypeOK, LockMatchesPc
<1>6. m_pFreeTail # NULL => lo <= hi /\ m_pFreeTail = q[hi]
  BY <1>1, <1>2 DEF Chain
<1>7. NodesAreOwned'
  <2>1. \A u \in Threads : pc[u] = "using" => pNode[u] # m_pFreeTail
    BY <1>1, <1>6 DEF Chain, IInv, TypeOK, NodesAreOwned
  <2> QED
    BY <1>2, <1>3, <2>1 DEF IInv, TypeOK, NodesAreOwned
<1>8. Uncounted' = 0 /\ Recounted' = 1 /\ ~InGetFree'
  BY <1>2 DEF IInv, TypeOK, Uncounted, Recounted, InGetFree
<1>9. ListIsWindow' /\ OnList' = OnList \cup {pNode[t]}
  <2>1. PICK r \in [Nat -> Nodes \cup {NULL}] :
          /\ r[hi + 1] = pNode[t]
          /\ \A i \in lo .. hi : r[i] = q[i]
    <3> DEFINE p == [q EXCEPT ![hi + 1] = pNode[t]]
    <3>1. p \in [Nat -> Nodes \cup {NULL}]
      BY <1>3
    <3>2. p[hi + 1] = pNode[t]
      BY hi + 1 \in Nat
    <3>3. \A i \in lo .. hi : p[i] = q[i]
      OBVIOUS
    <3> HIDE DEF p
    <3> QED
      BY <3>1, <3>2, <3>3
  <2>2. /\ lo <= hi + 1
        /\ \A i \in lo .. hi + 1 : i = hi + 1 \/ i \in lo .. hi
    BY <1>1 DEF Chain
  <2>3. \A i \in lo .. hi + 1 : r[i] \in Nodes
    BY <1>1, <1>3, <2>1, <2>2 DEF Chain
  <2>4. \A i, j \in lo .. hi + 1 : r[i] = r[j] => i = j
    BY <1>1, <1>3, <2>1, <2>2 DEF Chain
  <2>5. m_pFreeHead' = r[lo]
    BY <1>1, <1>2, <1>6, <2>1, <2>2 DEF Chain
  <2>6. \A i \in lo .. hi + 1 : next'[r[i]] = IF i = hi + 1 THEN NULL ELSE r[i + 1]
    <3>1. next'[r[hi + 1]] = NULL
      BY <1>1, <1>3, <1>6, <2>1 DEF Chain, IInv, TypeOK
    <3>2. ASSUME NEW i \in lo .. hi, i # hi
          PROVE  next'[r[i]] = r[i + 1]
      BY <1>1, <1>3, <1>6, <2>1, <3>2 DEF Chain, IInv, TypeOK
    <3>3. lo <= hi => next'[r[hi]] = r[hi + 1]
      BY <1>1, <1>2, <1>3, <1>6, <2>1 DEF Chain, IInv, TypeOK
    <3> QED
      BY <2>2, <3>1, <3>2, <3>3
  <2>7. m_iFreeNum' = (hi + 1 - lo + 1) + Uncounted' - Recounted'
    BY <1>1, <1>2, <1>8 DEF Chain
  <2>8. \A u \in Threads :
          /\ pc'[u] \in {"uncount", "detach", "using"} =>
               \A i \in lo .. hi + 1 : r[i] # pNode'[u]
          /\ pc'[u] \in {"recount", "walk"} => r[hi + 1] = pNode'[u]
    BY <1>1, <1>2, <1>3, <2>1, <2>2 DEF Chain, IInv, TypeOK, NodesAreOwned
  <2>9. Chain(r, lo, hi + 1)'
    <3>1. m_pFreeTail' = r[hi + 1]
      BY <2>1
    <3> QED
      BY <2>2, <2>3, <2>4, <2>5, <2>6, <2>7, <2>8, <3>1 DEF Chain
  <2>10. OnList' = { r[i] : i \in lo .. hi + 1 } /\ OnList = { q[i] : i \in lo .. hi }
    BY <1>1, <1>4, <2>9, hi + 1 \in Nat, OnListIsWindow, NextOnListIsWindow DEF IInv
  <2>11. lo .. hi + 1 = (lo .. hi) \cup {hi + 1}
    BY <2>2
  <2>12. OnList' = OnList \cup {pNode[t]}
    BY <2>1, <2>10, <2>11
  <2> QED
    BY <2>9, <2>12, hi + 1 \in Nat DEF ListIsWindow
<1> QED
  BY <1>4, <1>5, <1>7, <1>9 DEF IInv

LEMMA RecountStep ==
  ASSUME IInv, NEW t \in Threads, RecycleCount(t)
  PROVE  IInv'
<1> USE ObjectPoolAssumption DEF RecycleCount, goto
<1>1. PICK q \in [Nat -> Nodes \cup {NULL}], lo \in Nat, hi \in Nat : Chain(q, lo, hi)
  BY DEF IInv, ListIsWindow
<1>2. \A u \in Threads \ {t} : pc[u] \notin {"uncount", "detach", "recount", "walk"}
  BY CriticalSection DEF IInv
<1>3. /\ Uncounted = 0 /\ Uncounted' = 0
      /\ Recounted = 1 /\ Recounted' = 0
      /\ ~InGetFree /\ ~InGetFree'
  BY <1>2 DEF IInv, TypeOK, Uncounted, Recounted, InGetFree
<1>4. TypeOK'
  BY DEF IInv, TypeOK, PC, list
<1>5. LockMatchesPc'
  BY DEF IInv, TypeOK, LockMatchesPc
<1>6. NodesAreOwned'
  BY DEF IInv, TypeOK, NodesAreOwned, list
<1>7. Chain(q, lo, hi)'
  BY <1>1, <1>2, <1>3 DEF Chain, IInv, TypeOK, list
<1> QED
  BY <1>4, <1>5, <1>6, <1>7 DEF IInv, ListIsWindow

(* The node that Recycle appended ends the list: the loop along pNext does *)
(* not run.                                                                *)
LEMMA WalkEnds ==
  ASSUME IInv, NEW t \in Threads, pc[t] = "walk"
  PROVE  m_pFreeTail = pNode[t] /\ next[m_pFreeTail] = NULL
<1>1. PICK q \in [Nat -> Nodes \cup {NULL}], lo \in Nat, hi \in Nat : Chain(q, lo, hi)
  BY DEF IInv, ListIsWindow
<1> QED
  BY <1>1 DEF Chain

LEMMA WalkStep ==
  ASSUME IInv, NEW t \in Threads, RecycleWalk(t)
  PROVE  IInv'
<1> USE ObjectPoolAssumption DEF RecycleWalk, goto
<1>1. PICK q \in [Nat -> Nodes \cup {NULL}], lo \in Nat, hi \in Nat : Chain(q, lo, hi)
  BY DEF IInv, ListIsWindow
<1>2. \A u \in Threads \ {t} : pc[u] \notin {"uncount", "detach", "recount", "walk"}
  BY CriticalSection DEF IInv
<1>3. next[m_pFreeTail] = NULL
  BY WalkEnds
<1>4. /\ Uncounted = 0 /\ Uncounted' = 0
      /\ Recounted = 0 /\ Recounted' = 0
      /\ ~InGetFree /\ ~InGetFree'
  BY <1>2, <1>3 DEF IInv, TypeOK, Uncounted, Recounted, InGetFree
<1>5. TypeOK'
  BY <1>3 DEF IInv, TypeOK, PC
<1>6. LockMatchesPc'
  BY <1>2, <1>3 DEF IInv, TypeOK, LockMatchesPc
<1>7. NodesAreOwned'
  BY <1>2, <1>3 DEF IInv, TypeOK, NodesAreOwned
<1>8. Chain(q, lo, hi)'
  BY <1>1, <1>2, <1>3, <1>4 DEF Chain, IInv, TypeOK
<1> QED
  BY <1>5, <1>6, <1>7, <1>8 DEF IInv, ListIsWindow

LEMMA StepIInv == IInv /\ [Next]_vars => IInv'
<1> SUFFICES ASSUME IInv, [Next]_vars PROVE IInv'
  OBVIOUS
<1>1. CASE Next
  <2>1. PICK t \in Threads : ThreadStep(t)
    BY <1>1 DEF Next
  <2> QED
    BY <2>1, LocalSteps, UnlinkStep, UncountStep, DetachStep, LinkStep,
       RecountStep, WalkStep DEF ThreadStep
<1>2. CASE UNCHANGED vars
  <2> USE <1>2 DEF vars
  <2>1. TypeOK' /\ LockMatchesPc' /\ NodesAreOwned'
    BY DEF IInv, TypeOK, LockMatchesPc, NodesAreOwned
  <2>2. /\ InGetFree' = InGetFree
        /\ Uncounted' = Uncounted
        /\ Recounted' = Recounted
    BY DEF InGetFree, Uncounted, Recounted
  <2>3. PICK q \in [Nat -> Nodes \cup {NULL}], lo \in Nat, hi \in Nat : Chain(q, lo, hi)
    BY DEF IInv, ListIsWindow
  <2>4. Chain(q, lo, hi)'
    BY <2>2, <2>3 DEF Chain
  <2> QED
    BY <2>1, <2>4 DEF IInv, ListIsWindow
<1> QED
  BY <1>1, <1>2

(* IInv is an invariant of the pool: at every step of GetFree and Recycle   *)
(* the free list is one window of a sequence of nodes.                      *)
THEOREM Invariance == Spec => []IInv
BY InitIInv, StepIInv, PTL DEF Spec

(* Type correctness; in particular m_iFreeNum, which is decremented without *)
(* a test, never goes below zero.                                           *)
THEOREM TypeCorrect == Spec => []TypeOK
<1>1. IInv => TypeOK
  BY DEF IInv
<1> QED
  BY <1>1, Invariance, PTL

-----------------------------------------------------------------------------
(* Its length is the number of its nodes: they are counted from lo to hi.  *)
LEMMA OnListSize ==
  ASSUME TypeOK, NEW q \in [Nat -> Nodes \cup {NULL}],
         NEW lo \in Nat, NEW hi \in Nat, Chain(q, lo, hi)
  PROVE  Cardinality(OnList) = hi - lo + 1
<1> DEFINE size == hi - lo + 1
<1>1. OnList = { q[i] : i \in lo .. hi }
  BY OnListIsWindow
<1>2. size \in Nat
  BY DEF Chain
<1> DEFINE f == [k \in 1 .. size |-> q[lo + k - 1]]
<1>3. \A k \in 1 .. size : lo + k - 1 \in lo .. hi
  BY <1>2
<1>4. f \in [1 .. size -> OnList]
  BY <1>1, <1>3
<1>5. ASSUME NEW k \in 1 .. size, NEW l \in 1 .. size, f[k] = f[l]
      PROVE  k = l
  <2>1. lo + k - 1 = lo + l - 1
    BY <1>3, <1>5 DEF Chain
  <2> QED
    BY <1>2, <2>1
<1>6. ASSUME NEW n \in OnList PROVE \E k \in 1 .. size : f[k] = n
  <2>1. PICK i \in lo .. hi : q[i] = n
    BY <1>1
  <2>2. i - lo + 1 \in 1 .. size /\ lo + (i - lo + 1) - 1 = i
    BY <1>2
  <2>3. f[i - lo + 1] = n
    BY <2>1, <2>2
  <2> QED
    BY <2>2, <2>3
<1> HIDE DEF f
<1>7. f \in Bijection(1 .. size, OnList)
  BY <1>4, <1>5, <1>6 DEF Bijection, Injection, Surjection, IsInjective
<1> HIDE DEF size
<1>8. Cardinality(OnList) = size
  BY <1>2, <1>7, FS_CountingElements DEF ExistsBijection
<1> QED
  BY <1>8 DEF size

(* Whenever the lock is free, the list ends at its tail and m_iFreeNum is  *)
(* its length.                                                             *)
LEMMA ChainConsistent == IInv => ListConsistent
<1> SUFFICES ASSUME IInv, m_szListLock = NULL
             PROVE  /\ m_iFreeNum = Cardinality(OnList)
                    /\ { n \in OnList : next[n] = NULL } = {m_pFreeTail} \ {NULL}
                    /\ m_pFreeHead = NULL <=> m_pFreeTail = NULL
  BY DEF ListConsistent
<1> USE ObjectPoolAssumption
<1>1. PICK q \in [Nat -> Nodes \cup {NULL}], lo \in Nat, hi \in Nat : Chain(q, lo, hi)
  BY DEF IInv, ListIsWindow
<1>2. ~InGetFree /\ Uncounted = 0 /\ Recounted = 0
  BY LockFree DEF IInv, TypeOK
<1>3. OnList = { q[i] : i \in lo .. hi }
  BY <1>1, OnListIsWindow DEF IInv
<1>4. m_iFreeNum = hi - lo + 1 /\ m_iFreeNum \in Nat
  BY <1>1, <1>2 DEF Chain, IInv, TypeOK
<1>5. m_iFreeNum = Cardinality(OnList)
  BY <1>1, <1>4, OnListSize DEF IInv
<1>6. { n \in OnList : next[n] = NULL } = {m_pFreeTail} \ {NULL}
  <2>1. ASSUME NEW i \in lo .. hi, next[q[i]] = NULL PROVE i = hi
    <3>1. i # hi => q[i + 1] \in Nodes
      BY <1>1 DEF Chain
    <3> QED
      BY <1>1, <2>1, <3>1 DEF Chain
  <2>2. lo <= hi => next[q[hi]] = NULL /\ m_pFreeTail = q[hi] /\ q[hi] \in OnList
                    /\ q[hi] # NULL
    BY <1>1, <1>3 DEF Chain
  <2>3. lo > hi => m_pFreeTail = NULL
    BY <1>1, <1>2 DEF Chain
  <2> QED
    BY <1>3, <2>1, <2>2, <2>3
<1>7. m_pFreeHead = NULL <=> m_pFreeTail = NULL
  BY <1>1, <1>2 DEF Chain
<1> QED
  BY <1>5, <1>6, <1>7

(* Between two critical sections the free list ends at m_pFreeTail and has *)
(* m_iFreeNum nodes.                                                       *)
THEOREM FreeListConsistent == Spec => []ListConsistent
BY Invariance, ChainConsistent, PTL

(* A connection lent by GetFree has one user, and is off the list.         *)
LEMMA ChainExclusive == IInv => OneUserPerConnection
<1> SUFFICES ASSUME IInv PROVE OneUserPerConnection
  OBVIOUS
<1>1. PICK q \in [Nat -> Nodes \cup {NULL}], lo \in Nat, hi \in Nat : Chain(q, lo, hi)
  BY DEF IInv, ListIsWindow
<1>2. OnList = { q[i] : i \in lo .. hi }
  BY <1>1, OnListIsWindow DEF IInv
<1>3. \A t \in Threads : pc[t] = "using" => pNode[t] \notin OnList
  BY <1>1, <1>2 DEF Chain
<1>4. \A t, u \in Threads : Holding(t) /\ Holding(u) /\ pNode[t] = pNode[u] => t = u
  BY DEF IInv, NodesAreOwned, Holding
<1> QED
  BY <1>3, <1>4 DEF OneUserPerConnection

(* GetFree lends no connection that a thread already uses.                 *)
THEOREM ExclusiveUse == Spec => []OneUserPerConnection
BY Invariance, ChainExclusive, PTL

(* The window can be numbered from 1, and is never longer than the pool.   *)
LEMMA WindowIsChain == IInv => ListIsChain
<1> SUFFICES ASSUME IInv
             PROVE  \E k \in 0 .. Total :
                      \E q \in [1 .. k -> Nodes] : Chain(q, 1, k)
  BY DEF IInv, ListIsChain
<1> USE ObjectPoolAssumption
<1>1. PICK q \in [Nat -> Nodes \cup {NULL}], lo \in Nat, hi \in Nat : Chain(q, lo, hi)
  BY DEF IInv, ListIsWindow
<1>2. PICK k \in Nat : k = hi - lo + 1
  BY <1>1 DEF Chain
<1>3. PICK p : p = [i \in 1 .. k |-> q[lo + i - 1]]
  OBVIOUS
<1>4. \A i \in 1 .. k : lo + i - 1 \in lo .. hi /\ p[i] = q[lo + i - 1]
  BY <1>2, <1>3
<1>5. p \in [1 .. k -> Nodes]
  BY <1>1, <1>3, <1>4 DEF Chain
<1>6. k <= Total
  <2>1. Cardinality(OnList) = k
    BY <1>1, <1>2, OnListSize DEF IInv
  <2>2. OnList \subseteq Nodes
    BY DEF OnList
  <2> QED
    BY <2>1, <2>2, FS_Subset DEF Total
<1>7. Chain(p, 1, k)
  <2>1. \A i, j \in 1 .. k : p[i] = p[j] => i = j
    <3> SUFFICES ASSUME NEW i \in 1 .. k, NEW j \in 1 .. k, p[i] = p[j] PROVE i = j
      OBVIOUS
    <3>1. lo + i - 1 = lo + j - 1
      BY <1>1, <1>4 DEF Chain
    <3> QED
      BY <3>1
  <2>2. /\ lo <= hi <=> 1 <= k
        /\ 1 <= k => p[1] = q[lo] /\ p[k] = q[hi]
    BY <1>2, <1>4
  <2>3. ASSUME NEW i \in 1 .. k
        PROVE  next[p[i]] = IF i = k THEN NULL ELSE p[i + 1]
    <3>1. /\ lo + i - 1 = hi <=> i = k
          /\ i # k => i + 1 \in 1 .. k /\ lo + (i + 1) - 1 = (lo + i - 1) + 1
      BY <1>2
    <3> QED
      BY <1>1, <1>4, <3>1 DEF Chain
  <2>4. \A t \in Threads :
          /\ pc[t] \in {"uncount", "detach", "using"} => \A i \in 1 .. k : p[i] # pNode[t]
          /\ pc[t] \in {"recount", "walk"} => 1 <= k /\ p[k] = pNode[t]
    BY <1>1, <1>4, <2>2 DEF Chain
  <2>5. m_iFreeNum = (k - 1 + 1) + Uncounted - Recounted
    BY <1>1, <1>2 DEF Chain
  <2> QED
    BY <1>1, <1>2, <1>5, <2>1, <2>2, <2>3, <2>4, <2>5 DEF Chain
<1> QED
  BY <1>2, <1>5, <1>6, <1>7

(* At every step of GetFree and Recycle, also inside a critical section,   *)
(* the free list is one chain without repetition, no longer than the pool, *)
(* from which the nodes lent are absent.                                   *)
THEOREM ChainAlways == Spec => []ListIsChain
BY Invariance, WindowIsChain, PTL

-----------------------------------------------------------------------------
(* The refinement of ConnectionPool.  A GetFree that times out may say that *)
(* no connection is free: until the event is signalled for the first time, *)
(* a thread waits only while every listed node is still being given back.  *)
WaitingFindsNone ==
  ~m_hFreeEvent /\ (\E t \in Threads : pc[t] = "wait") => OnList \subseteq Given

RInv == IInv /\ WaitingFindsNone

(* A node counts as lent from the step that advances the head, and as      *)
(* given back when Recycle leaves the critical section.                    *)
LEMMA NothingGiven ==
  ASSUME \A t \in Threads : pc[t] \notin {"recount", "walk"}
  PROVE  Given = {}
BY DEF Given

LEMMA OneGiven ==
  ASSUME IInv, NEW t \in Threads, pc[t] \in {"recount", "walk"}
  PROVE  Given = {pNode[t]} /\ pNode[t] \in OnList
<1>1. \A u \in Threads \ {t} : pc[u] \notin {"recount", "walk"}
  BY CriticalSection DEF IInv
<1>2. PICK q \in [Nat -> Nodes \cup {NULL}], lo \in Nat, hi \in Nat : Chain(q, lo, hi)
  BY DEF IInv, ListIsWindow
<1>3. pNode[t] \in { q[i] : i \in lo .. hi }
  BY <1>2 DEF Chain
<1> QED
  BY <1>1, <1>2, <1>3, OnListIsWindow DEF Given, IInv

(* Nothing is on the list when there is no head, and when the counter is   *)
(* zero only what a Recycle has not counted yet.                           *)
LEMMA EmptyList ==
  ASSUME IInv
  PROVE  /\ m_pFreeHead = NULL => OnList = {}
         /\ m_iFreeNum = 0 => OnList \subseteq Given
<1> USE ObjectPoolAssumption
<1>1. PICK q \in [Nat -> Nodes \cup {NULL}], lo \in Nat, hi \in Nat : Chain(q, lo, hi)
  BY DEF IInv, ListIsWindow
<1>2. OnList = { q[i] : i \in lo .. hi }
  BY <1>1, OnListIsWindow DEF IInv
<1>3. m_pFreeHead = NULL => OnList = {}
  BY <1>1, <1>2 DEF Chain
<1>4. ASSUME m_iFreeNum = 0 PROVE OnList \subseteq Given
  <2>1. CASE \E t \in Threads : pc[t] = "recount"
    <3>1. PICK t \in Threads : pc[t] = "recount"
      BY <2>1
    <3>2. Uncounted \in {0, 1} /\ Recounted = 1
      BY <2>1 DEF Uncounted, Recounted
    <3>3. lo = hi /\ q[hi] = pNode[t]
      BY <1>1, <1>4, <3>1, <3>2 DEF Chain
    <3> QED
      BY <1>2, <3>1, <3>3, OneGiven
  <2>2. CASE ~ \E t \in Threads : pc[t] = "recount"
    <3>1. Uncounted \in {0, 1} /\ Recounted = 0
      BY <2>2 DEF Uncounted, Recounted
    <3>2. lo > hi
      BY <1>1, <1>4, <3>1 DEF Chain
    <3> QED
      BY <1>2, <3>2
  <2> QED
    BY <2>1, <2>2
<1> QED
  BY <1>3, <1>4

(* A step that leaves the links alone leaves the list alone.               *)
LEMMA SameList ==
  ASSUME UNCHANGED <<next, m_pFreeHead>> PROVE OnList' = OnList
BY DEF OnList, ClosedUnderNext

-----------------------------------------------------------------------------
(* What each step is of ConnectionPool, and that it leaves the threads     *)
(* that wait with nothing.                                                 *)
LEMMA CheckRefines ==
  ASSUME RInv, NEW t \in Threads, GetFreeCheck(t)
  PROVE  /\ Pool!TakeNothing(t) \/ UNCHANGED Pool!poolVars
         /\ WaitingFindsNone'
<1> USE DEF GetFreeCheck, goto, RInv, IInv, TypeOK
<1>1. OnList' = OnList /\ Given' = Given
  BY SameList DEF list, Given
<1>2. pNode[t] = NULL
  BY DEF NodesAreOwned
<1>3. m_pFreeHead = NULL => Pool!TakeNothing(t)
  BY <1>1, <1>2, EmptyList DEF Pool!TakeNothing
<1>4. m_pFreeHead # NULL => UNCHANGED Pool!poolVars
  BY <1>1 DEF Pool!poolVars
<1>5. WaitingFindsNone'
  BY <1>1 DEF WaitingFindsNone
<1> QED
  BY <1>3, <1>4, <1>5

LEMMA CountRefines ==
  ASSUME RInv, NEW t \in Threads, GetFreeCount(t)
  PROVE  /\ UNCHANGED Pool!poolVars
         /\ WaitingFindsNone'
<1> USE DEF GetFreeCount, goto, RInv, IInv, TypeOK
<1>1. OnList' = OnList /\ Given' = Given
  BY SameList DEF list, Given
<1>2. UNCHANGED Pool!poolVars
  BY <1>1 DEF Pool!poolVars
<1>3. WaitingFindsNone'
  BY <1>1, EmptyList DEF WaitingFindsNone
<1> QED
  BY <1>2, <1>3

LEMMA SignalledRefines ==
  ASSUME RInv, NEW t \in Threads, GetFreeSignalled(t)
  PROVE  /\ UNCHANGED Pool!poolVars
         /\ WaitingFindsNone'
<1> USE DEF GetFreeSignalled, goto, RInv, IInv, TypeOK
<1>1. OnList' = OnList /\ Given' = Given
  BY SameList DEF list, Given
<1> QED
  BY <1>1 DEF Pool!poolVars, WaitingFindsNone

LEMMA TimeoutRefines ==
  ASSUME RInv, NEW t \in Threads, GetFreeTimeout(t)
  PROVE  /\ Pool!TakeNothing(t)
         /\ WaitingFindsNone'
<1> USE DEF GetFreeTimeout, goto, RInv, IInv, TypeOK
<1>1. OnList' = OnList /\ Given' = Given
  BY SameList DEF list, Given
<1>2. OnList \ Given = {}
  BY DEF WaitingFindsNone
<1>3. pNode[t] = NULL
  BY DEF NodesAreOwned
<1>4. Pool!TakeNothing(t)
  BY <1>1, <1>2, <1>3 DEF Pool!TakeNothing
<1>5. WaitingFindsNone'
  BY <1>1 DEF WaitingFindsNone
<1> QED
  BY <1>4, <1>5

LEMMA UnlinkRefines ==
  ASSUME RInv, NEW t \in Threads, GetFreeUnlink(t)
  PROVE  /\ Pool!Take(t) \/ UNCHANGED Pool!poolVars
         /\ WaitingFindsNone'
<1> USE DEF GetFreeUnlink, goto, RInv, IInv, TypeOK
<1>1. /\ m_pFreeHead # NULL => m_pFreeHead \in OnList
      /\ OnList' = OnList \ {m_pFreeHead}
  BY UnlinkStep
<1>2. Given = {} /\ Given' = {}
  BY LockFree DEF Given
<1>3. pNode[t] = NULL
  BY DEF NodesAreOwned
<1>4. m_pFreeHead = NULL => UNCHANGED Pool!poolVars
  BY <1>1, <1>2, <1>3, EmptyList DEF Pool!poolVars
<1>5. m_pFreeHead # NULL => Pool!Take(t)
  BY <1>1, <1>2, <1>3 DEF Pool!Take
<1>6. WaitingFindsNone'
  BY <1>1, <1>2 DEF WaitingFindsNone
<1> QED
  BY <1>4, <1>5, <1>6

LEMMA UncountRefines ==
  ASSUME RInv, NEW t \in Threads, GetFreeUncount(t)
  PROVE  /\ UNCHANGED Pool!poolVars
         /\ WaitingFindsNone'
<1> USE DEF GetFreeUncount, goto, RInv, IInv, TypeOK
<1>1. OnList' = OnList /\ Given' = Given
  BY SameList DEF list, Given
<1> QED
  BY <1>1 DEF Pool!poolVars, WaitingFindsNone

LEMMA DetachRefines ==
  ASSUME RInv, NEW t \in Threads, GetFreeDetach(t)
  PROVE  /\ Pool!TakeNothing(t) \/ UNCHANGED Pool!poolVars
         /\ WaitingFindsNone'
<1> USE DEF GetFreeDetach, goto, RInv, IInv, TypeOK
<1>1. OnList' = OnList
  BY DetachStep
<1>2. Given' = Given
  BY DEF Given
<1>3. CASE pNode[t] = NULL
  <2>1. OnList = {}
    BY <1>3, EmptyList DEF NodesAreOwned
  <2> QED
    BY <1>1, <1>2, <1>3, <2>1 DEF Pool!TakeNothing, WaitingFindsNone
<1>4. CASE pNode[t] # NULL
  BY <1>1, <1>2, <1>4 DEF Pool!poolVars, WaitingFindsNone
<1> QED
  BY <1>3, <1>4

LEMMA GiveUpRefines ==
  ASSUME RInv, NEW t \in Threads, GiveUp(t)
  PROVE  /\ Pool!GiveUp(t)
         /\ WaitingFindsNone'
<1> USE DEF GiveUp, goto, RInv, IInv, TypeOK
<1>1. OnList' = OnList /\ Given' = Given
  BY SameList DEF list, Given
<1>2. pNode[t] = NULL
  BY DEF NodesAreOwned
<1> QED
  BY <1>1, <1>2 DEF Pool!GiveUp, WaitingFindsNone

LEMMA DropRefines ==
  ASSUME RInv, NEW t \in Threads, Drop(t)
  PROVE  /\ Pool!Drop(t)
         /\ WaitingFindsNone'
<1> USE DEF Drop, goto, RInv, IInv, TypeOK
<1>1. OnList' = OnList /\ Given' = Given
  BY SameList DEF list, Given
<1> QED
  BY <1>1 DEF Pool!Drop, WaitingFindsNone

LEMMA LinkRefines ==
  ASSUME RInv, NEW t \in Threads, RecycleLink(t)
  PROVE  /\ UNCHANGED Pool!poolVars
         /\ WaitingFindsNone'
<1> USE DEF RecycleLink, goto, RInv, IInv, TypeOK
<1>1. OnList' = OnList \cup {pNode[t]}
  BY LinkStep
<1>2. Given = {} /\ Given' = {pNode[t]}
  BY LockFree DEF Given
<1>3. pNode[t] \notin OnList
  BY ChainExclusive DEF OneUserPerConnection
<1> QED
  BY <1>1, <1>2, <1>3 DEF Pool!poolVars, WaitingFindsNone

LEMMA RecountRefines ==
  ASSUME RInv, NEW t \in Threads, RecycleCount(t)
  PROVE  /\ UNCHANGED Pool!poolVars
         /\ WaitingFindsNone'
<1> USE DEF RecycleCount, goto, RInv, IInv, TypeOK
<1>1. OnList' = OnList /\ Given' = Given
  BY SameList DEF list, Given
<1> QED
  BY <1>1 DEF Pool!poolVars, WaitingFindsNone

LEMMA WalkRefines ==
  ASSUME RInv, NEW t \in Threads, RecycleWalk(t)
  PROVE  /\ Pool!Return(t)
         /\ WaitingFindsNone'
<1> USE DEF RecycleWalk, goto, RInv, IInv, TypeOK
<1>1. OnList' = OnList
  BY SameList
<1>2. next[m_pFreeTail] = NULL
  BY WalkEnds
<1>3. Given = {pNode[t]} /\ pNode[t] \in OnList
  BY OneGiven
<1>4. Given' = {}
  BY <1>2, CriticalSection DEF Given
<1>5. pNode[t] \in Nodes \ Dead
  BY DEF NodesAreOwned
<1> QED
  BY <1>1, <1>2, <1>3, <1>4, <1>5 DEF Pool!Return, WaitingFindsNone

LEMMA InitRefines == Init => Pool!PoolInit /\ RInv
<1> SUFFICES ASSUME Init PROVE Pool!PoolInit /\ RInv
  OBVIOUS
<1> USE ObjectPoolAssumption DEF Init
<1>1. IInv
  BY InitIInv
<1>2. Given = {}
  BY DEF Given
<1>3. OnList = Nodes
  <2>1. OnList \subseteq Nodes
    BY DEF OnList
  <2>2. m_szListLock = NULL /\ m_iFreeNum = Cardinality(Nodes)
    BY DEF Create, Total
  <2>3. Cardinality(OnList) = Cardinality(Nodes)
    BY <1>1, <2>2, ChainConsistent DEF ListConsistent
  <2> QED
    BY <2>1, <2>3, FS_Subset
<1>4. Pool!PoolInit
  BY <1>2, <1>3 DEF Pool!PoolInit
<1> QED
  BY <1>1, <1>4 DEF RInv, WaitingFindsNone

LEMMA StepRefines ==
  RInv /\ [Next]_vars => RInv' /\ [Pool!PoolNext]_(Pool!poolVars)
<1> SUFFICES ASSUME RInv, [Next]_vars
             PROVE  RInv' /\ (Pool!PoolNext \/ UNCHANGED Pool!poolVars)
  OBVIOUS
<1>1. IInv'
  BY StepIInv DEF RInv
<1>2. CASE Next
  <2>1. PICK t \in Threads : ThreadStep(t)
    BY <1>2 DEF Next
  <2>2. \/ Pool!Take(t)
        \/ Pool!TakeNothing(t)
        \/ Pool!GiveUp(t)
        \/ Pool!Return(t)
        \/ Pool!Drop(t)
        \/ UNCHANGED Pool!poolVars
    BY <2>1, CheckRefines, CountRefines, SignalledRefines, TimeoutRefines, UnlinkRefines,
       UncountRefines, DetachRefines, GiveUpRefines, DropRefines, LinkRefines,
       RecountRefines, WalkRefines DEF ThreadStep
  <2>3. WaitingFindsNone'
    BY <2>1, CheckRefines, CountRefines, SignalledRefines, TimeoutRefines, UnlinkRefines,
       UncountRefines, DetachRefines, GiveUpRefines, DropRefines, LinkRefines,
       RecountRefines, WalkRefines DEF ThreadStep
  <2> QED
    BY <1>1, <2>2, <2>3 DEF Pool!PoolNext, RInv
<1>3. CASE UNCHANGED vars
  <2>1. OnList' = OnList /\ Given' = Given
    BY <1>3, SameList DEF vars, Given
  <2> QED
    BY <1>1, <1>3, <2>1 DEF vars, Pool!poolVars, RInv, WaitingFindsNone
<1> QED
  BY <1>2, <1>3

(* object_pool.h does what ConnectionPool promises: GetFree takes a free   *)
(* node atomically or, only when there is none, returns NULL, Recycle      *)
(* gives back the node that its caller was lent, and nothing else happens  *)
(* to the nodes.                                                           *)
THEOREM PoolRefinement == Spec => ImplementsPool
BY InitRefines, StepRefines, PTL DEF Spec, ImplementsPool, Pool!PoolSpec
=============================================================================
