---------------------------- MODULE FlowGraphProofs ----------------------------
(***************************************************************************)
(* Proofs about FlowGraph, for every finite graph, with links repeated or  *)
(* in cycles, any number of calls of Run() and Reset(), and joins that     *)
(* wait for more or fewer nodes than are linked to them.  The invariant is *)
(* that a node's runs, done and posted, are as many as its links from      *)
(* nodes that are done; it counts places of sequences, so the lemmas are   *)
(* about Count.                                                            *)
(***************************************************************************)
EXTENDS FlowGraph, SequenceTheorems, FiniteSetTheorems, TLAPS

Places(s, n) == {k \in DOMAIN s : s[k] = n}
DoneLinks(d, n) == {l \in Links(n) : d[l[1]]}

LEMMA PlacesFinite ==
  ASSUME NEW s \in Seq(Nodes), NEW n
  PROVE  /\ Places(s, n) \subseteq 1..Len(s) /\ DOMAIN s = 1..Len(s) /\ Len(s) \in Nat
         /\ IsFiniteSet(Places(s, n)) /\ Count(s, n) = Cardinality(Places(s, n))
         /\ Count(s, n) \in Nat
<1>1. DOMAIN s = 1..Len(s) /\ Len(s) \in Nat BY LenProperties
<1>2. Places(s, n) \in SUBSET (1..Len(s)) BY <1>1 DEF Places
<1>3. IsFiniteSet(1..Len(s)) BY <1>1, FS_Interval
<1>4. IsFiniteSet(Places(s, n)) BY <1>2, <1>3, FS_Subset
<1> QED BY <1>1, <1>2, <1>4, FS_CardinalityType DEF Count, Places

\* As many elements as there are in the set they are made from, one for one.
LEMMA OneForOne ==
  ASSUME NEW S, NEW T, IsFiniteSet(S), NEW f \in [S -> T],
         \A x, y \in S : f[x] = f[y] => x = y, \A t \in T : \E x \in S : f[x] = t
  PROVE  IsFiniteSet(T) /\ Cardinality(T) = Cardinality(S)
<1>1. f \in Bijection(S, T) BY DEF Bijection, Injection, IsInjective, Surjection
<1> QED BY <1>1, FS_Bijection DEF ExistsBijection

LEMMA Disjoint ==
  ASSUME NEW S, NEW T, IsFiniteSet(S), IsFiniteSet(T), S \cap T = {}
  PROVE  Cardinality(S \cup T) = Cardinality(S) + Cardinality(T)
<1>1. Cardinality(S \cap T) = 0 BY FS_EmptySet
<1>2. Cardinality(S) \in Nat /\ Cardinality(T) \in Nat BY FS_CardinalityType
<1>3. Cardinality(S \cup T) = Cardinality(S) + Cardinality(T) - Cardinality(S \cap T)
  BY FS_Union
<1> QED BY <1>1, <1>2, <1>3

LEMMA CountConcat ==
  ASSUME NEW s \in Seq(Nodes), NEW t \in Seq(Nodes), NEW n
  PROVE  s \o t \in Seq(Nodes) /\ Count(s \o t, n) = Count(s, n) + Count(t, n)
<1> DEFINE m == Len(s)
           A == Places(s, n)
           B == Places(t, n)
           C == {k \in (m + 1)..(m + Len(t)) : t[k - m] = n}
           f == [k \in B |-> k + m]
<1>1. /\ DOMAIN s = 1..m /\ m \in Nat /\ DOMAIN t = 1..Len(t) /\ Len(t) \in Nat
      /\ IsFiniteSet(A) /\ IsFiniteSet(B) /\ B \subseteq 1..Len(t) /\ A \subseteq 1..m
  BY PlacesFinite
<1>2. /\ s \o t \in Seq(Nodes) /\ DOMAIN (s \o t) = 1..(m + Len(t))
      /\ \A k \in 1..(m + Len(t)) : (s \o t)[k] = IF k <= m THEN s[k] ELSE t[k - m]
  BY <1>1, ConcatProperties
<1>3. IsFiniteSet(C) /\ Cardinality(C) = Cardinality(B)
  <2>1. f \in [B -> C] BY <1>1 DEF Places
  <2>2. \A x, y \in B : f[x] = f[y] => x = y BY <1>1
  <2>3. \A c \in C : \E x \in B : f[x] = c
    <3> SUFFICES ASSUME NEW c \in C PROVE c - m \in B /\ f[c - m] = c OBVIOUS
    <3> QED BY <1>1 DEF Places
  <2> HIDE DEF f, B, C
  <2> QED BY <1>1, <2>1, <2>2, <2>3, OneForOne
<1>4. Places(s \o t, n) = A \cup C
  BY <1>1, <1>2 DEF Places
<1>5. A \cap C = {} BY <1>1
<1>6. Cardinality(A \cup C) = Cardinality(A) + Cardinality(C)
  BY <1>1, <1>3, <1>5, Disjoint
<1> QED BY <1>2, <1>3, <1>4, <1>6, PlacesFinite

LEMMA CountHead ==
  ASSUME NEW q \in Seq(Nodes), q # <<>>, NEW n
  PROVE  /\ Head(q) \in Nodes /\ Tail(q) \in Seq(Nodes)
         /\ Count(q, n) = Count(Tail(q), n) + IF Head(q) = n THEN 1 ELSE 0
<1> DEFINE h == <<Head(q)>>
<1>1. Head(q) \in Nodes /\ Tail(q) \in Seq(Nodes) /\ q = h \o Tail(q) /\ h \in Seq(Nodes)
  BY HeadTailProperties
<1>2. DOMAIN h = {1} /\ h[1] = Head(q) OBVIOUS
<1>3. Count(h, n) = IF Head(q) = n THEN 1 ELSE 0
  <2>1. Places(h, n) = IF Head(q) = n THEN {1} ELSE {} BY <1>2 DEF Places
  <2>2. Count(h, n) = Cardinality(Places(h, n)) BY <1>1, PlacesFinite
  <2> QED BY <2>1, <2>2, FS_Singleton, FS_EmptySet
<1> HIDE DEF h
<1>4. Count(h \o Tail(q), n) = Count(h, n) + Count(Tail(q), n) BY <1>1, CountConcat
<1>5. Count(Tail(q), n) \in Nat BY <1>1, PlacesFinite
<1>6. Count(q, n) = Count(h, n) + Count(Tail(q), n) BY <1>1, <1>4, Zenon
<1> QED BY <1>1, <1>3, <1>5, <1>6

-------------------------------------------------------------------------------
(***************************************************************************)
(* The links of nodes that are done.                                       *)
(***************************************************************************)
LEMMA LinksFinite == ASSUME NEW n PROVE IsFiniteSet(Links(n))
<1> DEFINE Of(p) == {p} \X DOMAIN nextnodes[p]
           All == {Of(p) : p \in Nodes}
           f == [p \in Nodes |-> Of(p)]
<1>1. \A p \in Nodes : IsFiniteSet(Of(p))
  <2> TAKE p \in Nodes
  <2>1. nextnodes[p] \in Seq(Nodes) BY GraphAssumption
  <2>2. IsFiniteSet(DOMAIN nextnodes[p]) BY <2>1, LenProperties, FS_Interval
  <2> QED BY <2>2, FS_Singleton, FS_Product
<1>2. IsFiniteSet(All)
  <2>1. f \in Surjection(Nodes, All) BY DEF Surjection
  <2> QED BY <2>1, FS_Surjection, GraphAssumption
<1>3. IsFiniteSet(UNION All) BY <1>1, <1>2, FS_UNION
<1>4. Links(n) \in SUBSET (UNION All) BY DEF Links
<1> QED BY <1>3, <1>4, FS_Subset

LEMMA LinksCounted ==
  ASSUME NEW d \in [Nodes -> BOOLEAN], NEW n
  PROVE  IsFiniteSet(DoneLinks(d, n)) /\ Cardinality(DoneLinks(d, n)) \in Nat
<1>1. DoneLinks(d, n) \in SUBSET Links(n) BY DEF DoneLinks
<1> QED BY <1>1, LinksFinite, FS_Subset, FS_CardinalityType

LEMMA DoneAddsLinks ==
  ASSUME NEW d \in [Nodes -> BOOLEAN], NEW m \in Nodes, ~d[m], NEW n
  PROVE  Cardinality(DoneLinks([d EXCEPT ![m] = TRUE], n))
           = Cardinality(DoneLinks(d, n)) + Count(nextnodes[m], n)
<1> DEFINE e == [d EXCEPT ![m] = TRUE]
           K == Places(nextnodes[m], n)
           L == {m} \X K
           f == [k \in K |-> <<m, k>>]
<1>1. nextnodes[m] \in Seq(Nodes) BY GraphAssumption
<1>2. IsFiniteSet(K) /\ Count(nextnodes[m], n) = Cardinality(K) BY <1>1, PlacesFinite
<1>3. IsFiniteSet(L) /\ Cardinality(L) = Cardinality(K)
  <2>1. f \in [K -> L] OBVIOUS
  <2>2. \A x, y \in K : f[x] = f[y] => x = y OBVIOUS
  <2>3. \A l \in L : \E x \in K : f[x] = l OBVIOUS
  <2> HIDE DEF K, L, f
  <2> QED BY <1>2, <2>1, <2>2, <2>3, OneForOne
<1>4. \A l \in Links(n) : l[1] \in Nodes /\ (l[1] = m => l \in L) BY DEF Links, Places
<1>5. L \subseteq Links(n)
  <2>1. L \subseteq UNION {{p} \X DOMAIN nextnodes[p] : p \in Nodes} BY DEF Places
  <2>2. \A l \in L : nextnodes[l[1]][l[2]] = n BY DEF Places
  <2> QED BY <2>1, <2>2 DEF Links
<1>6. \A l \in L : l[1] = m OBVIOUS
<1>7. \A p \in Nodes : e[p] = (p = m \/ d[p]) OBVIOUS
<1> HIDE DEF e, L
<1>8. DoneLinks(e, n) = DoneLinks(d, n) \cup L
  BY <1>4, <1>5, <1>6, <1>7 DEF DoneLinks
<1>9. DoneLinks(d, n) \cap L = {} BY <1>6 DEF DoneLinks
<1>10. Cardinality(DoneLinks(d, n) \cup L) = Cardinality(DoneLinks(d, n)) + Cardinality(L)
  BY <1>3, <1>9, LinksCounted, Disjoint
<1> QED BY <1>2, <1>3, <1>8, <1>10 DEF e

-------------------------------------------------------------------------------
(***************************************************************************)
(* The steps.                                                              *)
(***************************************************************************)
GraphInv == TypeOK /\ RunsAccounted

\* done() posts as many followers as it makes links done.
LEMMA DoneAccounted ==
  ASSUME TypeOK, NEW m \in Nodes, NEW rest \in Seq(Nodes), Done(m, rest)
  PROVE  /\ is_done' \in [Nodes -> BOOLEAN] /\ queue' \in Seq(Nodes)
         /\ \A n : Count(queue', n) + Cardinality(DoneLinks(is_done, n))
                     = Count(rest, n) + Cardinality(DoneLinks(is_done', n))
<1>1. is_done \in [Nodes -> BOOLEAN] /\ nextnodes[m] \in Seq(Nodes)
      /\ is_done' = [is_done EXCEPT ![m] = TRUE]
      /\ queue' = IF is_done[m] THEN rest ELSE rest \o nextnodes[m]
  BY GraphAssumption DEF TypeOK, Done
<1>2. is_done' \in [Nodes -> BOOLEAN] BY <1>1
<1>3. CASE is_done[m]
  <2>1. is_done' = is_done BY <1>1, <1>3
  <2> QED BY <1>1, <1>2, <1>3, <2>1
<1>4. CASE ~is_done[m]
  <2>1. ASSUME NEW n
        PROVE  Count(queue', n) + Cardinality(DoneLinks(is_done, n))
                 = Count(rest, n) + Cardinality(DoneLinks(is_done', n))
    <3>1. Count(queue', n) = Count(rest, n) + Count(nextnodes[m], n)
      BY <1>1, <1>4, CountConcat
    <3>2. Cardinality(DoneLinks(is_done', n))
            = Cardinality(DoneLinks(is_done, n)) + Count(nextnodes[m], n)
      BY <1>1, <1>4, DoneAddsLinks
    <3>3. /\ Count(rest, n) \in Nat /\ Count(nextnodes[m], n) \in Nat
          /\ Cardinality(DoneLinks(is_done, n)) \in Nat
      BY <1>1, PlacesFinite, LinksCounted
    <3> QED BY <3>1, <3>2, <3>3
  <2>2. queue' \in Seq(Nodes) BY <1>1, <1>4, CountConcat
  <2> QED BY <1>2, <2>1, <2>2
<1> QED BY <1>3, <1>4

LEMMA JoinTyped ==
  ASSUME TypeOK, NEW n \in Joins, NEW r \in BOOLEAN, Join(n, r)
  PROVE  want' \in [Joins -> Nat] /\ seen' \in [Joins -> 0..MaxResets]
<1>1. want_orig[n] \in Nat /\ want_orig[n] > 0 BY GraphAssumption
<1>2. Counted(n) \in Nat /\ Counted(n) > 0 BY <1>1 DEF Counted, TypeOK
<1>3. want' \in [Joins -> Nat] BY <1>2 DEF Join, TypeOK
<1>4. seen' \in [Joins -> 0..MaxResets] BY DEF Join, TypeOK
<1> QED BY <1>3, <1>4

LEMMA GraphTypes ==
  ASSUME GraphInv
  PROVE  /\ calls \in Nat /\ rootnodes \in Seq(Nodes) /\ queue \in Seq(Nodes)
         /\ \A n \in Nodes :
              /\ runs[n] \in Nat /\ Count(queue, n) \in Nat /\ Count(rootnodes, n) \in Nat
              /\ calls * Count(rootnodes, n) \in Nat
              /\ Cardinality(DoneLinks(is_done, n)) \in Nat
              /\ runs[n] + Count(queue, n)
                   = calls * Count(rootnodes, n) + Cardinality(DoneLinks(is_done, n))
<1>1. calls \in Nat /\ rootnodes \in Seq(Nodes) /\ queue \in Seq(Nodes)
      /\ is_done \in [Nodes -> BOOLEAN]
  BY GraphAssumption DEF GraphInv, TypeOK
<1>2. ASSUME NEW n \in Nodes
      PROVE  /\ runs[n] \in Nat /\ Count(queue, n) \in Nat /\ Count(rootnodes, n) \in Nat
             /\ Cardinality(DoneLinks(is_done, n)) \in Nat
  BY <1>1, PlacesFinite, LinksCounted DEF GraphInv, TypeOK
<1>3. ASSUME NEW n \in Nodes PROVE calls * Count(rootnodes, n) \in Nat BY <1>1, <1>2
<1> QED BY <1>1, <1>2, <1>3 DEF GraphInv, RunsAccounted, DoneLinks

\* Nodes that come to be posted, for links that come to be done.
LEMMA Balance ==
  ASSUME NEW r \in Nat, NEW q \in Nat, NEW p \in Nat, NEW c \in Nat, NEW d \in Nat,
         NEW e \in Nat, r + q = c + d, p + d = q + e
  PROVE  r + p = c + e
  OBVIOUS

LEMMA Accounts ==
  ASSUME \A n \in Nodes : runs'[n] + Count(queue', n)
           = calls' * Count(rootnodes, n) + Cardinality(DoneLinks(is_done', n))
  PROVE  RunsAccounted'
  BY DEF RunsAccounted, DoneLinks, Count, Links

LEMMA RunKeeps == ASSUME GraphInv, Run PROVE GraphInv'
<1>1. /\ calls' = calls + 1 /\ queue' = queue \o rootnodes
      /\ UNCHANGED <<is_done, want, seen, reset_counter, runs>>
      /\ calls < MaxRuns
  BY DEF Run
<1>2. TypeOK'
  <2>1. queue' \in Seq(Nodes) BY <1>1, GraphTypes, CountConcat
  <2>2. calls' \in 0..MaxRuns BY <1>1, GraphTypes, GraphAssumption
  <2> QED BY <1>1, <2>1, <2>2 DEF GraphInv, TypeOK
<1>3. ASSUME NEW n \in Nodes
      PROVE  runs'[n] + Count(queue', n)
               = calls' * Count(rootnodes, n) + Cardinality(DoneLinks(is_done', n))
  <2>1. Count(queue', n) = Count(queue, n) + Count(rootnodes, n)
    BY <1>1, GraphTypes, CountConcat
  <2>2. (calls + 1) * Count(rootnodes, n)
          = calls * Count(rootnodes, n) + Count(rootnodes, n)
    BY GraphTypes
  <2>3. calls' * Count(rootnodes, n) = calls * Count(rootnodes, n) + Count(rootnodes, n)
    BY <1>1, <2>2
  <2> DEFINE product == calls * Count(rootnodes, n)
  <2>4. /\ runs[n] \in Nat /\ Count(queue, n) \in Nat /\ Count(rootnodes, n) \in Nat
        /\ product \in Nat /\ Cardinality(DoneLinks(is_done, n)) \in Nat
        /\ runs[n] + Count(queue, n) = product + Cardinality(DoneLinks(is_done, n))
    BY GraphTypes
  <2> HIDE DEF product
  <2>5. runs[n] + (Count(queue, n) + Count(rootnodes, n))
          = (product + Count(rootnodes, n)) + Cardinality(DoneLinks(is_done, n))
    BY <2>4
  <2> USE DEF product
  <2> QED BY <1>1, <2>1, <2>3, <2>5
<1> QED BY <1>2, <1>3, Accounts DEF GraphInv

LEMMA RunNodeKeeps == ASSUME GraphInv, RunNode PROVE GraphInv'
<1> DEFINE m == Head(queue)
           rest == Tail(queue)
<1>1. /\ queue # <<>> /\ runs' = [runs EXCEPT ![m] = @ + 1]
      /\ UNCHANGED <<reset_counter, calls>>
  BY DEF RunNode
<1>2. PICK r \in BOOLEAN :
        /\ \/ m \in Joins /\ Join(m, r)
           \/ m \notin Joins /\ UNCHANGED <<want, seen>>
        /\ \/ r /\ Done(m, rest)
           \/ ~r /\ queue' = rest /\ UNCHANGED is_done
  BY DEF RunNode
<1>3. m \in Nodes /\ rest \in Seq(Nodes) BY <1>1, GraphTypes, CountHead
<1>4. /\ is_done' \in [Nodes -> BOOLEAN] /\ queue' \in Seq(Nodes)
      /\ \A n : Count(queue', n) + Cardinality(DoneLinks(is_done, n))
                  = Count(rest, n) + Cardinality(DoneLinks(is_done', n))
  <2>1. CASE Done(m, rest) BY <1>3, <2>1, DoneAccounted DEF GraphInv
  <2>2. CASE queue' = rest /\ UNCHANGED is_done BY <1>3, <2>2 DEF GraphInv, TypeOK
  <2> QED BY <1>2, <2>1, <2>2
<1>5. want' \in [Joins -> Nat] /\ seen' \in [Joins -> 0..MaxResets]
  BY <1>2, JoinTyped DEF GraphInv, TypeOK
<1>6. ASSUME NEW n \in Nodes
      PROVE  runs'[n] + Count(queue', n)
               = calls' * Count(rootnodes, n) + Cardinality(DoneLinks(is_done', n))
  <2>1. Count(queue, n) = Count(rest, n) + IF m = n THEN 1 ELSE 0
    BY <1>1, GraphTypes, CountHead
  <2>2. runs'[n] = IF m = n THEN runs[n] + 1 ELSE runs[n]
    BY <1>1, <1>3 DEF GraphInv, TypeOK
  <2>3. /\ Count(rest, n) \in Nat /\ Count(queue', n) \in Nat
        /\ Cardinality(DoneLinks(is_done', n)) \in Nat
    BY <1>3, <1>4, PlacesFinite, LinksCounted
  <2>4. Count(queue', n) + Cardinality(DoneLinks(is_done, n))
          = Count(rest, n) + Cardinality(DoneLinks(is_done', n))
    BY <1>4
  <2>5. /\ runs'[n] \in Nat /\ calls * Count(rootnodes, n) \in Nat
        /\ Cardinality(DoneLinks(is_done, n)) \in Nat
    BY <2>2, GraphTypes
  <2> HIDE DEF rest, m
  <2>6. runs'[n] + Count(rest, n)
          = calls * Count(rootnodes, n) + Cardinality(DoneLinks(is_done, n))
    <3> DEFINE product == calls * Count(rootnodes, n)
    <3>1. /\ runs[n] \in Nat /\ product \in Nat
          /\ runs[n] + Count(queue, n) = product + Cardinality(DoneLinks(is_done, n))
      BY GraphTypes
    <3> HIDE DEF product
    <3>2. runs'[n] + Count(rest, n) = product + Cardinality(DoneLinks(is_done, n))
      BY <2>1, <2>2, <2>3, <3>1
    <3> QED BY <3>2 DEF product
  <2> QED BY <1>1, <2>3, <2>4, <2>5, <2>6, Balance
<1>7. runs' \in [Nodes -> Nat] BY <1>1, <1>3 DEF GraphInv, TypeOK
<1>8. TypeOK' BY <1>1, <1>4, <1>5, <1>7 DEF GraphInv, TypeOK
<1> QED BY <1>6, <1>8, Accounts DEF GraphInv

LEMMA JobDoneKeeps == ASSUME GraphInv, NEW m \in Nodes, JobDone(m) PROVE GraphInv'
<1>1. Done(m, queue) /\ UNCHANGED <<want, seen, reset_counter, calls, runs>>
  BY DEF JobDone
<1>2. /\ is_done' \in [Nodes -> BOOLEAN] /\ queue' \in Seq(Nodes)
      /\ \A n : Count(queue', n) + Cardinality(DoneLinks(is_done, n))
                  = Count(queue, n) + Cardinality(DoneLinks(is_done', n))
  BY <1>1, GraphTypes, DoneAccounted DEF GraphInv
<1>3. ASSUME NEW n \in Nodes
      PROVE  runs'[n] + Count(queue', n)
               = calls' * Count(rootnodes, n) + Cardinality(DoneLinks(is_done', n))
  <2>1. Count(queue', n) \in Nat /\ Cardinality(DoneLinks(is_done', n)) \in Nat
    BY <1>2, PlacesFinite, LinksCounted
  <2>2. Count(queue', n) + Cardinality(DoneLinks(is_done, n))
          = Count(queue, n) + Cardinality(DoneLinks(is_done', n))
    BY <1>2
  <2>3. runs[n] + Count(queue', n)
          = calls * Count(rootnodes, n) + Cardinality(DoneLinks(is_done', n))
    <3>1. /\ runs[n] \in Nat /\ Count(queue, n) \in Nat
          /\ calls * Count(rootnodes, n) \in Nat
          /\ Cardinality(DoneLinks(is_done, n)) \in Nat
          /\ runs[n] + Count(queue, n)
               = calls * Count(rootnodes, n) + Cardinality(DoneLinks(is_done, n))
      BY GraphTypes
    <3> QED BY <2>1, <2>2, <3>1, Balance
  <2> QED BY <1>1, <2>3
<1>4. TypeOK' BY <1>1, <1>2 DEF GraphInv, TypeOK
<1> QED BY <1>3, <1>4, Accounts DEF GraphInv

LEMMA GraphStep == GraphInv /\ [Next]_vars => GraphInv'
<1> SUFFICES ASSUME GraphInv, [Next]_vars PROVE GraphInv' OBVIOUS
<1>1. CASE Run BY <1>1, RunKeeps
<1>2. CASE Reset
  <2>1. reset_counter' \in 0..MaxResets
    BY <1>2, GraphAssumption DEF Reset, GraphInv, TypeOK
  <2> QED BY <1>2, <2>1 DEF Reset, GraphInv, TypeOK, RunsAccounted
<1>3. CASE RunNode BY <1>3, RunNodeKeeps
<1>4. ASSUME NEW m \in Nodes, JobDone(m) PROVE GraphInv' BY <1>4, JobDoneKeeps
<1>5. CASE UNCHANGED vars BY <1>5 DEF vars, GraphInv, TypeOK, RunsAccounted
<1> QED BY <1>1, <1>2, <1>3, <1>4, <1>5 DEF Next

LEMMA GraphInit == Init => GraphInv
<1> SUFFICES ASSUME Init PROVE GraphInv OBVIOUS
<1>1. TypeOK BY GraphAssumption DEF Init, TypeOK
<1>2. ASSUME NEW n \in Nodes
      PROVE  runs[n] + Count(queue, n)
               = calls * Count(rootnodes, n) + Cardinality(DoneLinks(is_done, n))
  <2>1. Places(<<>>, n) = {} /\ <<>> \in Seq(Nodes) BY DEF Places
  <2>2. Count(queue, n) = 0 BY <2>1, PlacesFinite, FS_EmptySet DEF Init
  <2>3. DoneLinks(is_done, n) = {} BY DEF DoneLinks, Init, Links
  <2>4. Count(rootnodes, n) \in Nat BY GraphAssumption, PlacesFinite
  <2>5. runs[n] = 0 /\ calls = 0 BY DEF Init
  <2>6. 0 * Count(rootnodes, n) = 0 BY <2>4
  <2> QED BY <2>2, <2>3, <2>5, <2>6, FS_EmptySet
<1> QED BY <1>1, <1>2 DEF GraphInv, RunsAccounted, DoneLinks

LEMMA GraphCorrect == Spec => []GraphInv
  BY GraphInit, GraphStep, PTL DEF Spec

(***************************************************************************)
(* The types of a graph's state: a NodeJoiner's count never falls below    *)
(* zero, although it is decremented whatever it is.                        *)
(***************************************************************************)
THEOREM GraphTypeCorrect == Spec => []TypeOK
<1>1. GraphInv => TypeOK BY DEF GraphInv
<1> QED BY <1>1, GraphCorrect, PTL

(***************************************************************************)
(* In every graph, each node is run or posted once for each link from a    *)
(* node that is done and once for each Run(), as often as it is a root: a  *)
(* join once for each of its links, and not once when they all are done.   *)
(***************************************************************************)
THEOREM FollowersRunOnce == Spec => []RunsAccounted
<1>1. GraphInv => RunsAccounted BY DEF GraphInv
<1> QED BY <1>1, GraphCorrect, PTL
================================================================================
