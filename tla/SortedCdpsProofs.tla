-------------------------- MODULE SortedCdpsProofs --------------------------
(***************************************************************************)
(* Machine-checked proofs that the doubly linked list of SortedCdps is a   *)
(* sequence of ids, that its search finds a position, and that the views   *)
(* which walk it list that sequence.                                       *)
(***************************************************************************)
EXTENDS CdpViews, SumLemmas, SequenceTheorems, TLAPS

(* --- The sequence a list stands for ------------------------------------ *)

\* The i-th id, and the dummy beyond either end
At(s, i) == IF i \in 1 .. Len(s) THEN s[i] ELSE dummyId

Represents(list, s) ==
  /\ list \in [head : NodeIds, tail : NodeIds, size : Nat, nodes : [NodeIds -> Node]]
  /\ s \in Seq(CdpIds) /\ Len(s) = list.size
  /\ \A i, j \in 1 .. Len(s) : s[i] = s[j] => i = j
  /\ list.head = At(s, 1) /\ list.tail = At(s, Len(s))
  /\ \A i \in 1 .. Len(s) : list.nodes[s[i]] = [nextId |-> At(s, i + 1), prevId |-> At(s, i - 1)]
  /\ \A id \in NodeIds : (\A i \in 1 .. Len(s) : s[i] # id) => list.nodes[id] = BlankNode

LEMMA DummyIsNoCdp == dummyId \in NodeIds /\ dummyId \notin CdpIds /\ CdpIds \subseteq NodeIds
  BY DEF dummyId, NodeIds, CdpIds

LEMMA AtType ==
  ASSUME NEW s \in Seq(CdpIds), NEW i \in Int
  PROVE  /\ At(s, i) \in NodeIds
         /\ i \in 1 .. Len(s) => At(s, i) = s[i] /\ At(s, i) # dummyId
         /\ i \notin 1 .. Len(s) => At(s, i) = dummyId
  BY DummyIsNoCdp DEF At

LEMMA NextOf ==
  ASSUME NEW list, NEW s, Represents(list, s), NEW i \in Nat \ {0}
  PROVE  list.nodes[At(s, i)].nextId = At(s, i + 1)
<1>1. s \in Seq(CdpIds) /\ Len(s) \in Nat
  BY DEF Represents
<1>2. CASE i \in 1 .. Len(s)
  <2>1. At(s, i) = s[i]
    BY <1>2 DEF At
  <2>2. list.nodes[s[i]] = [nextId |-> At(s, i + 1), prevId |-> At(s, i - 1)]
    BY <1>2 DEF Represents
  <2> QED
    BY <2>1, <2>2
<1>3. CASE i \notin 1 .. Len(s)
  <2>1. At(s, i) = dummyId /\ At(s, i + 1) = dummyId
    BY <1>1, <1>3 DEF At
  <2>2. list.nodes[dummyId] = BlankNode
    BY <1>1, DummyIsNoCdp DEF Represents
  <2> QED
    BY <2>1, <2>2 DEF BlankNode
<1> QED
  BY <1>2, <1>3

LEMMA PrevOf ==
  ASSUME NEW list, NEW s, Represents(list, s), NEW i \in Int, i <= Len(s)
  PROVE  list.nodes[At(s, i)].prevId = At(s, i - 1)
<1>1. s \in Seq(CdpIds) /\ Len(s) \in Nat
  BY DEF Represents
<1>2. CASE i \in 1 .. Len(s)
  <2>1. At(s, i) = s[i]
    BY <1>2 DEF At
  <2>2. list.nodes[s[i]] = [nextId |-> At(s, i + 1), prevId |-> At(s, i - 1)]
    BY <1>2 DEF Represents
  <2> QED
    BY <2>1, <2>2
<1>3. CASE i \notin 1 .. Len(s)
  <2>1. At(s, i) = dummyId /\ At(s, i - 1) = dummyId
    BY <1>1, <1>3 DEF At
  <2>2. list.nodes[dummyId] = BlankNode
    BY <1>1, DummyIsNoCdp DEF Represents
  <2> QED
    BY <2>1, <2>2 DEF BlankNode
<1> QED
  BY <1>2, <1>3

\* A walk is determined by its start and its step.
LEMMA DescentIsUnique ==
  ASSUME NEW list, NEW start, NEW f, list.size \in Nat,
         f = [n \in 0 .. list.size |->
                IF n = 0 THEN start ELSE list.nodes[f[n - 1]].nextId]
  PROVE  Descent(list, start) = f
<1> DEFINE g == Descent(list, start)
           N == list.size
           T == {n \in 0 .. N : g[n] = f[n]}
<1>1. g = [n \in 0 .. list.size |-> IF n = 0 THEN start ELSE list.nodes[g[n - 1]].nextId]
  BY DEF Descent
<1> HIDE DEF g
<1>2. 0 \in T
  BY <1>1
<1>3. \A n \in 1 .. N : n - 1 \in T => n \in T
  BY <1>1
<1> HIDE DEF T, N
<1>4. N \in Nat
  BY DEF N
<1>5. \A n \in 0 .. N : n \in T
  BY <1>2, <1>3, <1>4, IntervalInduction
<1>6. \A n \in 0 .. list.size : g[n] = f[n]
  BY <1>5 DEF T, N
<1> QED
  BY <1>1, <1>6 DEF g

LEMMA AscentIsUnique ==
  ASSUME NEW list, NEW start, NEW f, list.size \in Nat,
         f = [n \in 0 .. list.size |->
                IF n = 0 THEN start ELSE list.nodes[f[n - 1]].prevId]
  PROVE  Ascent(list, start) = f
<1> DEFINE g == Ascent(list, start)
           N == list.size
           T == {n \in 0 .. N : g[n] = f[n]}
<1>1. g = [n \in 0 .. list.size |-> IF n = 0 THEN start ELSE list.nodes[g[n - 1]].prevId]
  BY DEF Ascent
<1> HIDE DEF g
<1>2. 0 \in T
  BY <1>1
<1>3. \A n \in 1 .. N : n - 1 \in T => n \in T
  BY <1>1
<1> HIDE DEF T, N
<1>4. N \in Nat
  BY DEF N
<1>5. \A n \in 0 .. N : n \in T
  BY <1>2, <1>3, <1>4, IntervalInduction
<1>6. \A n \in 0 .. list.size : g[n] = f[n]
  BY <1>5 DEF T, N
<1> QED
  BY <1>1, <1>6 DEF g

\* Walking along the links is counting along the sequence.
PlacesDown(list, s, i) == [n \in 0 .. list.size |-> At(s, i + n)]

LEMMA DescentPlaces ==
  ASSUME NEW list, NEW s, Represents(list, s), NEW i \in Nat \ {0}
  PROVE  Descent(list, At(s, i)) = PlacesDown(list, s, i)
<1> DEFINE f == [n \in 0 .. list.size |-> At(s, i + n)]
<1>1. list.size \in Nat
  BY DEF Represents
<1>2. \A n \in 0 .. list.size :
        f[n] = IF n = 0 THEN At(s, i) ELSE list.nodes[f[n - 1]].nextId
  <2> TAKE n \in 0 .. list.size
  <2>1. CASE n = 0
    BY <1>1, <2>1
  <2>2. CASE n # 0
    <3> DEFINE j == i + (n - 1)
    <3>1. n - 1 \in 0 .. list.size /\ j \in Nat \ {0} /\ j + 1 = i + n
      BY <1>1, <2>2
    <3>2. f[n] = At(s, j + 1) /\ f[n - 1] = At(s, j)
      BY <3>1
    <3> HIDE DEF f, j
    <3> QED
      BY <2>2, <3>1, <3>2, NextOf
  <2> QED
    BY <2>1, <2>2
<1>3. f = [n \in 0 .. list.size |->
             IF n = 0 THEN At(s, i) ELSE list.nodes[f[n - 1]].nextId]
  <2>1. f = [n \in 0 .. list.size |-> f[n]]
    OBVIOUS
  <2> HIDE DEF f
  <2> QED
    BY <1>2, <2>1
<1> HIDE DEF f
<1>4. Descent(list, At(s, i)) = f
  BY <1>1, <1>3, DescentIsUnique
<1> QED
  BY <1>4 DEF f, PlacesDown

LEMMA DescentIs ==
  ASSUME NEW list, NEW s, Represents(list, s), NEW i \in Nat \ {0}
  PROVE  Descent(list, At(s, i)) = [n \in 0 .. list.size |-> At(s, i + n)]
  BY DescentPlaces DEF PlacesDown

PlacesUp(list, s, i) == [n \in 0 .. list.size |-> At(s, i - n)]

LEMMA AscentPlaces ==
  ASSUME NEW list, NEW s, Represents(list, s), NEW i \in Int, i <= Len(s)
  PROVE  Ascent(list, At(s, i)) = PlacesUp(list, s, i)
<1> DEFINE f == [n \in 0 .. list.size |-> At(s, i - n)]
<1>1. list.size \in Nat /\ Len(s) \in Nat
  BY DEF Represents
<1>2. \A n \in 0 .. list.size :
        f[n] = IF n = 0 THEN At(s, i) ELSE list.nodes[f[n - 1]].prevId
  <2> TAKE n \in 0 .. list.size
  <2>1. CASE n = 0
    BY <1>1, <2>1
  <2>2. CASE n # 0
    <3> DEFINE j == i - (n - 1)
    <3>1. n - 1 \in 0 .. list.size /\ j \in Int /\ j <= Len(s) /\ j - 1 = i - n
      BY <1>1, <2>2
    <3>2. f[n] = At(s, j - 1) /\ f[n - 1] = At(s, j)
      BY <3>1
    <3> HIDE DEF f, j
    <3> QED
      BY <2>2, <3>1, <3>2, PrevOf
  <2> QED
    BY <2>1, <2>2
<1>3. f = [n \in 0 .. list.size |->
             IF n = 0 THEN At(s, i) ELSE list.nodes[f[n - 1]].prevId]
  <2>1. f = [n \in 0 .. list.size |-> f[n]]
    OBVIOUS
  <2> HIDE DEF f
  <2> QED
    BY <1>2, <2>1
<1> HIDE DEF f
<1>4. Ascent(list, At(s, i)) = f
  BY <1>1, <1>3, AscentIsUnique
<1> QED
  BY <1>4 DEF f, PlacesUp

LEMMA AscentIs ==
  ASSUME NEW list, NEW s, Represents(list, s), NEW i \in Int, i <= Len(s)
  PROVE  Ascent(list, At(s, i)) = [n \in 0 .. list.size |-> At(s, i - n)]
  BY AscentPlaces DEF PlacesUp

(* --- What the links say of the sequence -------------------------------- *)

OrderOf(list) == [i \in 1 .. list.size |-> Descent(list, list.head)[i - 1]]

LEMMA OrderIs == ASSUME NEW list, NEW s, Represents(list, s) PROVE OrderOf(list) = s
<1>1. s \in Seq(CdpIds) /\ Len(s) = list.size /\ list.head = At(s, 1)
  BY DEF Represents
<1>2. Descent(list, list.head) = [n \in 0 .. list.size |-> At(s, 1 + n)]
  BY <1>1, DescentIs
<1>3. \A i \in 1 .. list.size : OrderOf(list)[i] = s[i]
  <2> TAKE i \in 1 .. list.size
  <2> DEFINE n == i - 1
  <2>1. n \in 0 .. list.size /\ 1 + n = i
    BY <1>1
  <2>2. OrderOf(list)[i] = Descent(list, list.head)[n]
    BY DEF OrderOf
  <2> HIDE DEF n
  <2>3. OrderOf(list)[i] = At(s, i)
    BY <1>2, <2>1, <2>2
  <2> QED
    BY <1>1, <2>3 DEF At
<1>4. OrderOf(list) = [i \in 1 .. list.size |-> OrderOf(list)[i]]
  BY DEF OrderOf
<1>5. s = [i \in 1 .. list.size |-> s[i]]
  BY <1>1
<1> QED
  BY <1>3, <1>4, <1>5

LEMMA ListedIsOrder == Listed = OrderOf(List)
  BY DEF Listed, OrderOf, List

LEMMA ListedAfterIsOrder == Listed' = OrderOf(List')
  BY DEF Listed, OrderOf, List

LEMMA ContainsIs ==
  ASSUME NEW list, NEW s, Represents(list, s), NEW id \in NodeIds
  PROVE  Contains(list, id) <=> \E i \in 1 .. Len(s) : s[i] = id
<1>1. s \in Seq(CdpIds) /\ Len(s) \in Nat /\ \A i \in 1 .. Len(s) : s[i] # dummyId
  BY DummyIsNoCdp DEF Represents
<1>2. ASSUME Contains(list, id) PROVE \E i \in 1 .. Len(s) : s[i] = id
  <2>1. CASE list.head = id
    BY <1>1, <1>2, <2>1 DEF Contains, Represents, At
  <2>2. CASE list.tail = id
    BY <1>1, <1>2, <2>2 DEF Contains, Represents, At
  <2>3. CASE list.nodes[id].nextId # dummyId
    <3>1. list.nodes[id] # BlankNode
      BY <2>3 DEF BlankNode
    <3> QED
      BY <3>1 DEF Represents
  <2> QED
    BY <1>2, <2>1, <2>2, <2>3 DEF Contains
<1>3. ASSUME NEW i \in 1 .. Len(s), s[i] = id PROVE Contains(list, id)
  <2>1. id # dummyId
    BY <1>1, <1>3
  <2>2. CASE i = 1
    BY <1>1, <1>3, <2>1, <2>2 DEF Contains, Represents, At
  <2>3. CASE i = Len(s)
    BY <1>1, <1>3, <2>1, <2>3 DEF Contains, Represents, At
  <2>4. CASE i # 1 /\ i # Len(s)
    <3>1. i + 1 \in 1 .. Len(s) /\ i - 1 \in 1 .. Len(s)
      BY <1>1, <2>4
    <3>2. At(s, i + 1) # dummyId /\ At(s, i - 1) # dummyId
      BY <1>1, <3>1 DEF At
    <3>3. list.nodes[id] = [nextId |-> At(s, i + 1), prevId |-> At(s, i - 1)]
      BY <1>3 DEF Represents
    <3> QED
      BY <2>1, <3>2, <3>3 DEF Contains
  <2> QED
    BY <2>2, <2>3, <2>4
<1> QED
  BY <1>2, <1>3

\* As many ids as places
LEMMA CountOfPlaces ==
  ASSUME NEW n \in Nat, NEW f, NEW ids,
         \A i \in 1 .. n : f[i] \in ids, \A id \in ids : \E i \in 1 .. n : f[i] = id,
         \A i, j \in 1 .. n : f[i] = f[j] => i = j
  PROVE  Cardinality(ids) = n
<1> DEFINE g == [i \in 1 .. n |-> f[i]]
<1>1. g \in Bijection(1 .. n, ids)
  BY DEF Bijection, Injection, Surjection, IsInjective
<1>2. ExistsBijection(1 .. n, ids)
  BY <1>1 DEF ExistsBijection
<1> QED
  BY <1>2, FS_CountingElements

SortedInv == TypeOK /\ Represents(List, Listed)

LEMMA LinksFollow == SortedInv => LinksAreConsistent
<1> SUFFICES ASSUME SortedInv PROVE LinksAreConsistent
  OBVIOUS
<1> DEFINE s == Listed
           down == Descent(List, head)
           up == Ascent(List, tail)
           listed == {down[n] : n \in 0 .. size - 1}
<1>1. /\ TypeOK /\ Represents(List, s) /\ List.size = size /\ List.nodes = nodes
      /\ List.head = head /\ List.tail = tail
  BY DEF SortedInv, List
<1> HIDE DEF s
<1>2. /\ s \in Seq(CdpIds) /\ Len(s) = size /\ size \in Nat
      /\ head = At(s, 1) /\ tail = At(s, size)
      /\ \A i, j \in 1 .. size : s[i] = s[j] => i = j
  BY <1>1 DEF Represents
<1>3. down = [n \in 0 .. size |-> At(s, 1 + n)]
  BY <1>1, <1>2, DescentIs
<1>4. up = [n \in 0 .. size |-> At(s, size - n)]
  BY <1>1, <1>2, AscentIs
<1> HIDE DEF down, up
<1>5. \A n \in 0 .. size - 1 : down[n] = s[n + 1] /\ up[n] = s[size - n]
  BY <1>2, <1>3, <1>4 DEF At
<1>6. down[size] = dummyId /\ up[size] = dummyId
  BY <1>2, <1>3, <1>4 DEF At
<1>7. \A id : id \in listed <=> \E i \in 1 .. size : s[i] = id
  <2> TAKE id
  <2>1. ASSUME id \in listed PROVE \E i \in 1 .. size : s[i] = id
    <3> PICK n \in 0 .. size - 1 : id = down[n]
      BY <2>1
    <3>1. n + 1 \in 1 .. size /\ s[n + 1] = id
      BY <1>2, <1>5
    <3> QED
      BY <3>1
  <2>2. ASSUME NEW i \in 1 .. size, s[i] = id PROVE id \in listed
    <3> DEFINE n == i - 1
    <3>1. n \in 0 .. size - 1 /\ n + 1 = i
      BY <1>2
    <3> HIDE DEF n
    <3>2. down[n] = id
      BY <1>5, <2>2, <3>1
    <3> QED
      BY <3>1, <3>2
  <2> QED
    BY <2>1, <2>2
<1> HIDE DEF listed
<1>8. Cardinality(listed) = size
  <2>1. \A i \in 1 .. size : s[i] \in listed
    BY <1>7
  <2>2. \A id \in listed : \E i \in 1 .. size : s[i] = id
    BY <1>7
  <2> QED
    BY <1>2, <2>1, <2>2, CountOfPlaces
<1>9. \A n \in 0 .. size - 1 : up[n] = down[size - 1 - n]
  <2> TAKE n \in 0 .. size - 1
  <2> DEFINE m == size - 1 - n
  <2>1. m \in 0 .. size - 1 /\ m + 1 = size - n
    BY <1>2
  <2> HIDE DEF m
  <2>2. up[n] = down[m]
    BY <1>5, <2>1
  <2> QED
    BY <2>2 DEF m
<1>10. dummyId \notin listed
  BY <1>2, <1>7, DummyIsNoCdp
<1>11. \A id \in NodeIds \ listed : nodes[id] = BlankNode
  BY <1>1, <1>2, <1>7 DEF Represents
<1>12. \A id \in NodeIds : Contains(List, id) <=> id \in listed
  BY <1>1, <1>2, <1>7, ContainsIs
<1> QED
  BY <1>1, <1>6, <1>8, <1>9, <1>10, <1>11, <1>12 DEF LinksAreConsistent, listed, down, up

(* --- Putting into a sequence, and cutting out of it -------------------- *)

Put(s, k, id) == SubSeq(s, 1, k) \o <<id>> \o SubSeq(s, k + 1, Len(s))
Cut(s, a, b) == SubSeq(s, 1, a - 1) \o SubSeq(s, b + 1, Len(s))

LEMMA PrefixFacts ==
  ASSUME NEW S, NEW s \in Seq(S), NEW k \in Nat, k <= Len(s)
  PROVE  /\ SubSeq(s, 1, k) \in Seq(S) /\ Len(SubSeq(s, 1, k)) = k
         /\ \A i \in 1 .. k : SubSeq(s, 1, k)[i] = s[i]
  OBVIOUS

LEMMA SuffixFacts ==
  ASSUME NEW S, NEW s \in Seq(S), NEW k \in Nat, k <= Len(s)
  PROVE  /\ SubSeq(s, k + 1, Len(s)) \in Seq(S)
         /\ Len(SubSeq(s, k + 1, Len(s))) = Len(s) - k
         /\ \A i \in 1 .. Len(s) - k : SubSeq(s, k + 1, Len(s))[i] = s[k + i]
  OBVIOUS

LEMMA PutFacts ==
  ASSUME NEW s \in Seq(CdpIds), NEW k \in 0 .. Len(s), NEW id \in CdpIds
  PROVE  /\ Put(s, k, id) \in Seq(CdpIds) /\ Len(Put(s, k, id)) = Len(s) + 1
         /\ \A i \in Int : At(Put(s, k, id), i) = IF i <= k THEN At(s, i)
                                                  ELSE IF i = k + 1 THEN id ELSE At(s, i - 1)
<1> DEFINE p == SubSeq(s, 1, k)
           e == <<id>>
           q == SubSeq(s, k + 1, Len(s))
           pe == p \o e
           t == pe \o q
<1>0. Len(s) \in Nat /\ k \in Nat /\ k <= Len(s)
  OBVIOUS
<1>1. p \in Seq(CdpIds) /\ Len(p) = k /\ \A i \in 1 .. k : p[i] = s[i]
  BY <1>0, PrefixFacts
<1>2. /\ q \in Seq(CdpIds) /\ Len(q) = Len(s) - k
      /\ \A i \in 1 .. Len(s) - k : q[i] = s[k + i]
  BY <1>0, SuffixFacts
<1>3. e \in Seq(CdpIds) /\ Len(e) = 1 /\ e[1] = id
  OBVIOUS
<1> HIDE DEF p, q, e
<1>4. /\ pe \in Seq(CdpIds) /\ Len(pe) = k + 1 /\ \A i \in 1 .. k : pe[i] = s[i]
      /\ pe[k + 1] = id
  <2>1. /\ pe \in Seq(CdpIds) /\ Len(pe) = k + 1
        /\ \A i \in 1 .. k + 1 : pe[i] = IF i <= k THEN p[i] ELSE e[i - k]
    <3>1. /\ pe \in Seq(CdpIds) /\ Len(pe) = Len(p) + Len(e)
          /\ \A i \in 1 .. Len(p) + Len(e) : pe[i] = IF i <= Len(p) THEN p[i] ELSE e[i - Len(p)]
      BY <1>1, <1>3, ConcatProperties
    <3> HIDE DEF pe
    <3> QED
      BY <1>0, <1>1, <1>3, <3>1
  <2>2. k + 1 \in 1 .. k + 1 /\ ~(k + 1 <= k) /\ k + 1 - k = 1 /\ \A i \in 1 .. k : i \in 1 .. k + 1 /\ i <= k
    BY <1>0
  <2> HIDE DEF pe
  <2>3. pe[k + 1] = e[k + 1 - k]
    BY <2>1, <2>2
  <2> QED
    BY <1>1, <1>3, <2>1, <2>2, <2>3
<1> HIDE DEF pe
<1>5. /\ t \in Seq(CdpIds) /\ Len(t) = Len(s) + 1
      /\ \A i \in 1 .. Len(s) + 1 : t[i] = IF i <= k + 1 THEN pe[i] ELSE q[i - (k + 1)]
  <2>1. /\ t \in Seq(CdpIds) /\ Len(t) = Len(pe) + Len(q)
        /\ \A i \in 1 .. Len(pe) + Len(q) : t[i] = IF i <= Len(pe) THEN pe[i] ELSE q[i - Len(pe)]
    BY <1>2, <1>4, ConcatProperties
  <2> HIDE DEF t
  <2>2. Len(pe) + Len(q) = Len(s) + 1
    BY <1>0, <1>2, <1>4
  <2> QED
    BY <1>4, <2>1, <2>2
<1> HIDE DEF t
<1>6. \A i \in Int : At(t, i) = IF i <= k THEN At(s, i)
                                ELSE IF i = k + 1 THEN id ELSE At(s, i - 1)
  <2> TAKE i \in Int
  <2>1. CASE i <= k
    BY <1>0, <1>4, <1>5, <2>1 DEF At
  <2>2. CASE i = k + 1
    BY <1>0, <1>4, <1>5, <2>2 DEF At
  <2>3. CASE i > k + 1 /\ i <= Len(s) + 1
    <3> DEFINE m == i - (k + 1)
    <3>1. m \in 1 .. Len(s) - k /\ k + m = i - 1 /\ i - 1 \in 1 .. Len(s)
          /\ i \in 1 .. Len(s) + 1 /\ ~(i <= k + 1)
      BY <1>0, <2>3
    <3>2. t[i] = q[m]
      BY <1>5, <3>1
    <3> HIDE DEF m
    <3>3. q[m] = s[i - 1]
      BY <1>2, <3>1
    <3> QED
      BY <1>0, <1>5, <2>3, <3>1, <3>2, <3>3 DEF At
  <2>4. CASE i > Len(s) + 1
    BY <1>0, <1>5, <2>4 DEF At
  <2> QED
    BY <1>0, <2>1, <2>2, <2>3, <2>4
<1>7. t = Put(s, k, id)
  BY DEF t, pe, p, e, q, Put
<1> QED
  BY <1>5, <1>6, <1>7

LEMMA CutFacts ==
  ASSUME NEW s \in Seq(CdpIds), NEW a \in 1 .. Len(s), NEW b \in a .. Len(s)
  PROVE  /\ Cut(s, a, b) \in Seq(CdpIds) /\ Len(Cut(s, a, b)) = Len(s) - (b - a + 1)
         /\ \A i \in Int : At(Cut(s, a, b), i) = IF i < a THEN At(s, i)
                                                 ELSE At(s, i + (b - a + 1))
<1> DEFINE k == a - 1
           p == SubSeq(s, 1, k)
           q == SubSeq(s, b + 1, Len(s))
           t == p \o q
<1>0. Len(s) \in Nat /\ k \in Nat /\ k <= Len(s) /\ b \in Nat /\ b <= Len(s) /\ a = k + 1 /\ a <= b
  OBVIOUS
<1> HIDE DEF k
<1>1. p \in Seq(CdpIds) /\ Len(p) = k /\ \A i \in 1 .. k : p[i] = s[i]
  BY <1>0, PrefixFacts
<1>2. /\ q \in Seq(CdpIds) /\ Len(q) = Len(s) - b
      /\ \A i \in 1 .. Len(s) - b : q[i] = s[b + i]
  BY <1>0, SuffixFacts
<1> HIDE DEF p, q
<1>5. /\ t \in Seq(CdpIds) /\ Len(t) = k + (Len(s) - b)
      /\ \A i \in 1 .. k + (Len(s) - b) : t[i] = IF i <= k THEN p[i] ELSE q[i - k]
  <2>1. /\ t \in Seq(CdpIds) /\ Len(t) = Len(p) + Len(q)
        /\ \A i \in 1 .. Len(p) + Len(q) : t[i] = IF i <= Len(p) THEN p[i] ELSE q[i - Len(p)]
    BY <1>1, <1>2, ConcatProperties
  <2> HIDE DEF t
  <2> QED
    BY <1>1, <1>2, <2>1
<1> HIDE DEF t
<1>6. \A i \in Int : At(t, i) = IF i < a THEN At(s, i) ELSE At(s, i + (b - a + 1))
  <2> TAKE i \in Int
  <2>1. CASE i <= k
    BY <1>0, <1>1, <1>5, <2>1 DEF At
  <2>3. CASE i > k /\ i <= k + (Len(s) - b)
    <3> DEFINE m == i - k
    <3>1. m \in 1 .. Len(s) - b /\ b + m = i + (b - a + 1) /\ i + (b - a + 1) \in 1 .. Len(s)
          /\ i \in 1 .. k + (Len(s) - b) /\ ~(i <= k) /\ ~(i < a)
      BY <1>0, <2>3
    <3>2. t[i] = q[m]
      BY <1>5, <3>1
    <3> HIDE DEF m
    <3>3. q[m] = s[i + (b - a + 1)]
      BY <1>2, <3>1
    <3> QED
      BY <1>0, <1>5, <2>3, <3>1, <3>2, <3>3 DEF At
  <2>4. CASE i > k + (Len(s) - b)
    BY <1>0, <1>5, <2>4 DEF At
  <2> QED
    BY <1>0, <2>1, <2>3, <2>4
<1>7. t = Cut(s, a, b)
  BY DEF t, p, q, k, Cut
<1>8. Len(t) = Len(s) - (b - a + 1)
  BY <1>0, <1>5
<1> QED
  BY <1>5, <1>6, <1>7, <1>8

(* --- What the operations make of the links ----------------------------- *)

Lists == [head : NodeIds, tail : NodeIds, size : Nat, nodes : [NodeIds -> Node]]

ListRec(h, l, z, N) == [head |-> h, tail |-> l, size |-> z, nodes |-> N]

LEMMA NodeIs ==
  ASSUME NEW x \in NodeIds, NEW y \in NodeIds PROVE [nextId |-> x, prevId |-> y] \in Node
  BY DEF Node

LEMMA FieldsOf ==
  ASSUME NEW list \in Lists
  PROVE  /\ list.head \in NodeIds /\ list.tail \in NodeIds /\ list.size \in Nat
         /\ list.nodes \in [NodeIds -> Node]
         /\ list = ListRec(list.head, list.tail, list.size, list.nodes)
  BY DEF Lists, ListRec

LEMMA ListOf ==
  ASSUME NEW h \in NodeIds, NEW l \in NodeIds, NEW z \in Nat, NEW N \in [NodeIds -> Node]
  PROVE  /\ ListRec(h, l, z, N) \in Lists
         /\ ListRec(h, l, z, N).head = h /\ ListRec(h, l, z, N).tail = l
         /\ ListRec(h, l, z, N).size = z /\ ListRec(h, l, z, N).nodes = N
  BY DEF Lists, ListRec

SetNode(N, a, x) == [N EXCEPT ![a] = x]
SetNext(N, a, x) == [N EXCEPT ![a].nextId = x]
SetPrev(N, a, x) == [N EXCEPT ![a].prevId = x]

LEMMA SetNextFacts ==
  ASSUME NEW N \in [NodeIds -> Node], NEW a \in NodeIds, NEW x \in NodeIds
  PROVE  /\ SetNext(N, a, x) \in [NodeIds -> Node]
         /\ \A n \in NodeIds : SetNext(N, a, x)[n] =
              [nextId |-> IF n = a THEN x ELSE N[n].nextId, prevId |-> N[n].prevId]
<1>1. \A n \in NodeIds : SetNext(N, a, x)[n] = IF n = a THEN [N[n] EXCEPT !.nextId = x] ELSE N[n]
  BY DEF SetNext
<1>2. \A node \in Node : /\ node = [nextId |-> node.nextId, prevId |-> node.prevId]
                         /\ [node EXCEPT !.nextId = x] = [nextId |-> x, prevId |-> node.prevId]
  BY DEF Node
<1>3. \A n \in NodeIds : SetNext(N, a, x)[n] =
              [nextId |-> IF n = a THEN x ELSE N[n].nextId, prevId |-> N[n].prevId]
  BY <1>1, <1>2
<1>4. \A n \in NodeIds : N[n].nextId \in NodeIds /\ N[n].prevId \in NodeIds
  BY DEF Node
<1>5. \A n \in NodeIds : SetNext(N, a, x)[n] \in Node
  <2> TAKE n \in NodeIds
  <2> DEFINE down == IF n = a THEN x ELSE N[n].nextId
  <2>1. down \in NodeIds /\ N[n].prevId \in NodeIds
    BY <1>4
  <2>2. SetNext(N, a, x)[n] = [nextId |-> down, prevId |-> N[n].prevId]
    BY <1>3
  <2> HIDE DEF down
  <2> QED
    BY <2>1, <2>2, NodeIs
<1>6. SetNext(N, a, x) = [n \in NodeIds |-> SetNext(N, a, x)[n]]
  BY DEF SetNext
<1> QED
  BY <1>3, <1>5, <1>6

LEMMA SetPrevFacts ==
  ASSUME NEW N \in [NodeIds -> Node], NEW a \in NodeIds, NEW x \in NodeIds
  PROVE  /\ SetPrev(N, a, x) \in [NodeIds -> Node]
         /\ \A n \in NodeIds : SetPrev(N, a, x)[n] =
              [nextId |-> N[n].nextId, prevId |-> IF n = a THEN x ELSE N[n].prevId]
<1>1. \A n \in NodeIds : SetPrev(N, a, x)[n] = IF n = a THEN [N[n] EXCEPT !.prevId = x] ELSE N[n]
  BY DEF SetPrev
<1>2. \A node \in Node : /\ node = [nextId |-> node.nextId, prevId |-> node.prevId]
                         /\ [node EXCEPT !.prevId = x] = [nextId |-> node.nextId, prevId |-> x]
  BY DEF Node
<1>3. \A n \in NodeIds : SetPrev(N, a, x)[n] =
              [nextId |-> N[n].nextId, prevId |-> IF n = a THEN x ELSE N[n].prevId]
  BY <1>1, <1>2
<1>4. \A n \in NodeIds : N[n].nextId \in NodeIds /\ N[n].prevId \in NodeIds
  BY DEF Node
<1>5. \A n \in NodeIds : SetPrev(N, a, x)[n] \in Node
  <2> TAKE n \in NodeIds
  <2> DEFINE up == IF n = a THEN x ELSE N[n].prevId
  <2>1. up \in NodeIds /\ N[n].nextId \in NodeIds
    BY <1>4
  <2>2. SetPrev(N, a, x)[n] = [nextId |-> N[n].nextId, prevId |-> up]
    BY <1>3
  <2> HIDE DEF up
  <2> QED
    BY <2>1, <2>2, NodeIs
<1>6. SetPrev(N, a, x) = [n \in NodeIds |-> SetPrev(N, a, x)[n]]
  BY DEF SetPrev
<1> QED
  BY <1>3, <1>5, <1>6

\* One change at a time
WithHead(list, x) == [list EXCEPT !.head = x]
WithTail(list, x) == [list EXCEPT !.tail = x]
Longer(list) == [list EXCEPT !.size = @ + 1]
Shorter(list) == [list EXCEPT !.size = @ - 1]
WithNode(list, a, x) == [list EXCEPT !.nodes[a] = x]
WithNext(list, a, x) == [list EXCEPT !.nodes[a].nextId = x]
WithPrev(list, a, x) == [list EXCEPT !.nodes[a].prevId = x]

LEMMA HeadSet ==
  ASSUME NEW h \in NodeIds, NEW l \in NodeIds, NEW z \in Nat, NEW N \in [NodeIds -> Node],
         NEW x
  PROVE  WithHead(ListRec(h, l, z, N), x) = ListRec(x, l, z, N)
<1> DEFINE list == ListRec(h, l, z, N)
<1>1. /\ list \in Lists /\ list.head = h /\ list.tail = l /\ list.size = z /\ list.nodes = N
  BY ListOf
<1> HIDE DEF list
<1>2. WithHead(list, x) = ListRec(x, l, z, N)
  BY <1>1 DEF Lists, ListRec, SetNext, SetPrev, WithHead
<1> QED
  BY <1>2 DEF list

LEMMA TailSet ==
  ASSUME NEW h \in NodeIds, NEW l \in NodeIds, NEW z \in Nat, NEW N \in [NodeIds -> Node],
         NEW x
  PROVE  WithTail(ListRec(h, l, z, N), x) = ListRec(h, x, z, N)
<1> DEFINE list == ListRec(h, l, z, N)
<1>1. /\ list \in Lists /\ list.head = h /\ list.tail = l /\ list.size = z /\ list.nodes = N
  BY ListOf
<1> HIDE DEF list
<1>2. WithTail(list, x) = ListRec(h, x, z, N)
  BY <1>1 DEF Lists, ListRec, SetNext, SetPrev, WithTail
<1> QED
  BY <1>2 DEF list

LEMMA SizeGrows ==
  ASSUME NEW h \in NodeIds, NEW l \in NodeIds, NEW z \in Nat, NEW N \in [NodeIds -> Node]
  PROVE  Longer(ListRec(h, l, z, N)) = ListRec(h, l, z + 1, N)
<1> DEFINE list == ListRec(h, l, z, N)
<1>1. /\ list \in Lists /\ list.head = h /\ list.tail = l /\ list.size = z /\ list.nodes = N
  BY ListOf
<1> HIDE DEF list
<1>2. Longer(list) = ListRec(h, l, z + 1, N)
  BY <1>1 DEF Lists, ListRec, SetNext, SetPrev, Longer
<1> QED
  BY <1>2 DEF list

LEMMA SizeShrinks ==
  ASSUME NEW h \in NodeIds, NEW l \in NodeIds, NEW z \in Nat, NEW N \in [NodeIds -> Node]
  PROVE  Shorter(ListRec(h, l, z, N)) = ListRec(h, l, z - 1, N)
<1> DEFINE list == ListRec(h, l, z, N)
<1>1. /\ list \in Lists /\ list.head = h /\ list.tail = l /\ list.size = z /\ list.nodes = N
  BY ListOf
<1> HIDE DEF list
<1>2. Shorter(list) = ListRec(h, l, z - 1, N)
  BY <1>1 DEF Lists, ListRec, SetNext, SetPrev, Shorter
<1> QED
  BY <1>2 DEF list

LEMMA NodeSet ==
  ASSUME NEW h \in NodeIds, NEW l \in NodeIds, NEW z \in Nat, NEW N \in [NodeIds -> Node],
         NEW a, NEW x
  PROVE  WithNode(ListRec(h, l, z, N), a, x) = ListRec(h, l, z, SetNode(N, a, x))
<1> DEFINE list == ListRec(h, l, z, N)
<1>1. /\ list \in Lists /\ list.head = h /\ list.tail = l /\ list.size = z /\ list.nodes = N
  BY ListOf
<1> HIDE DEF list
<1>2. WithNode(list, a, x) = ListRec(h, l, z, SetNode(N, a, x))
  BY <1>1 DEF Lists, ListRec, SetNode, WithNode
<1> QED
  BY <1>2 DEF list

LEMMA NextSet ==
  ASSUME NEW h \in NodeIds, NEW l \in NodeIds, NEW z \in Nat, NEW N \in [NodeIds -> Node],
         NEW a, NEW x
  PROVE  WithNext(ListRec(h, l, z, N), a, x) = ListRec(h, l, z, SetNext(N, a, x))
<1> DEFINE list == ListRec(h, l, z, N)
<1>1. /\ list \in Lists /\ list.head = h /\ list.tail = l /\ list.size = z /\ list.nodes = N
  BY ListOf
<1> HIDE DEF list
<1>2. WithNext(list, a, x) = ListRec(h, l, z, SetNext(N, a, x))
  BY <1>1 DEF Lists, ListRec, SetNext, SetPrev, WithNext
<1> QED
  BY <1>2 DEF list

LEMMA PrevSet ==
  ASSUME NEW h \in NodeIds, NEW l \in NodeIds, NEW z \in Nat, NEW N \in [NodeIds -> Node],
         NEW a, NEW x
  PROVE  WithPrev(ListRec(h, l, z, N), a, x) = ListRec(h, l, z, SetPrev(N, a, x))
<1> DEFINE list == ListRec(h, l, z, N)
<1>1. /\ list \in Lists /\ list.head = h /\ list.tail = l /\ list.size = z /\ list.nodes = N
  BY ListOf
<1> HIDE DEF list
<1>2. WithPrev(list, a, x) = ListRec(h, l, z, SetPrev(N, a, x))
  BY <1>1 DEF Lists, ListRec, SetNext, SetPrev, WithPrev
<1> QED
  BY <1>2 DEF list

\* The links after an id is put between p and q
Relinked(M, N, id, p, q) ==
  \A n \in NodeIds : M[n] =
    IF n = id THEN [nextId |-> q, prevId |-> p]
    ELSE [nextId |-> IF n = p /\ n # dummyId THEN id ELSE N[n].nextId,
          prevId |-> IF n = q /\ n # dummyId THEN id ELSE N[n].prevId]

\* The four cases of _insert in one
LEMMA LinkedIs ==
  ASSUME NEW list, NEW s, Represents(list, s), NEW k \in 0 .. Len(s),
         NEW id \in CdpIds, \A i \in 1 .. Len(s) : s[i] # id,
         NEW p, NEW q, p = At(s, k), q = At(s, k + 1)
  PROVE  \E M \in [NodeIds -> Node] :
           /\ Relinked(M, list.nodes, id, p, q)
           /\ Linked(list, id, p, q) = ListRec(IF k = 0 THEN id ELSE list.head,
                                               IF k = Len(s) THEN id ELSE list.tail,
                                               list.size + 1, M)
<1> DEFINE new == Linked(list, id, p, q)
           N == list.nodes
           h == list.head
           l == list.tail
           z == list.size
<1>1. /\ list \in Lists /\ s \in Seq(CdpIds) /\ Len(s) \in Nat /\ z = Len(s)
      /\ h = At(s, 1) /\ l = At(s, Len(s))
      /\ N[id] = BlankNode /\ id # dummyId /\ id \in NodeIds
  <2>1. id # dummyId /\ id \in NodeIds
    BY DummyIsNoCdp
  <2> QED
    BY <2>1 DEF Represents, Lists
<1>2. /\ p \in NodeIds /\ q \in NodeIds
      /\ (p = dummyId <=> k = 0) /\ (q = dummyId <=> k = Len(s))
  BY <1>1, AtType
<1>3. p # id /\ q # id
  BY <1>1 DEF At
<1>4. p = q => p = dummyId /\ q = dummyId
  BY <1>1, <1>2 DEF At, Represents
<1>5. /\ N \in [NodeIds -> Node] /\ N[id].nextId = dummyId /\ N[id].prevId = dummyId
      /\ \A n \in NodeIds : N[n] = [nextId |-> N[n].nextId, prevId |-> N[n].prevId]
  BY <1>1 DEF Lists, Node, BlankNode
<1>6. /\ h \in NodeIds /\ l \in NodeIds /\ z \in Nat /\ z + 1 \in Nat
      /\ list = ListRec(h, l, z, N)
  BY <1>1, FieldsOf
<1>7. CASE p = dummyId /\ q = dummyId
  <2> DEFINE A1 == WithHead(list, id)
             A2 == WithTail(A1, id)
  <2>1. new = Longer(A2)
    BY <1>7 DEF Linked, WithHead, WithTail, WithNode, WithNext, WithPrev, Longer
  <2> HIDE DEF new, N, h, l, z
  <2>2. A1 = ListRec(id, l, z, N)
    BY <1>5, <1>6, HeadSet
  <2> HIDE DEF A1
  <2>3. A2 = ListRec(id, id, z, N)
    BY <1>1, <1>5, <1>6, <2>2, TailSet
  <2> HIDE DEF A2
  <2>4. new = ListRec(id, id, z + 1, N)
    BY <1>1, <1>5, <1>6, <2>1, <2>3, SizeGrows
  <2>5. Relinked(N, N, id, p, q)
    BY <1>1, <1>5, <1>7 DEF Relinked
  <2> QED
    BY <1>2, <1>5, <1>7, <2>4, <2>5 DEF new, N, z
<1>8. CASE p = dummyId /\ q # dummyId
  <2> DEFINE N1 == SetNext(N, id, q)
             N2 == SetPrev(N1, q, id)
             A1 == WithNext(list, id, q)
             A2 == WithPrev(A1, q, id)
             A3 == WithHead(A2, id)
  <2>1. h = q
    BY <1>1, <1>2, <1>8
  <2>2. new = Longer(A3)
    BY <1>8, <2>1 DEF Linked, WithHead, WithTail, WithNode, WithNext, WithPrev, Longer
  <2> HIDE DEF new, N, h, l, z
  <2>3. /\ N1 \in [NodeIds -> Node]
        /\ \A n \in NodeIds :
             N1[n] = [nextId |-> IF n = id THEN q ELSE N[n].nextId, prevId |-> N[n].prevId]
    BY <1>1, <1>2, <1>5, SetNextFacts
  <2>4. A1 = ListRec(h, l, z, N1)
    BY <1>5, <1>6, NextSet
  <2> HIDE DEF N1, A1
  <2>5. /\ N2 \in [NodeIds -> Node]
        /\ \A n \in NodeIds :
             N2[n] = [nextId |-> N1[n].nextId, prevId |-> IF n = q THEN id ELSE N1[n].prevId]
    BY <1>1, <1>2, <2>3, SetPrevFacts
  <2>6. A2 = ListRec(h, l, z, N2)
    BY <1>6, <2>3, <2>4, PrevSet
  <2> HIDE DEF N2, A2
  <2>7. A3 = ListRec(id, l, z, N2)
    BY <1>6, <2>5, <2>6, HeadSet
  <2> HIDE DEF A3
  <2>8. new = ListRec(id, l, z + 1, N2)
    BY <1>1, <1>6, <2>2, <2>5, <2>7, SizeGrows
  <2>9. Relinked(N2, N, id, p, q)
    BY <1>1, <1>3, <1>5, <1>8, <2>3, <2>5 DEF Relinked
  <2> QED
    BY <1>2, <1>8, <2>5, <2>8, <2>9 DEF new, N, l, z
<1>9. CASE p # dummyId /\ q = dummyId
  <2> DEFINE N1 == SetPrev(N, id, p)
             N2 == SetNext(N1, p, id)
             A1 == WithPrev(list, id, p)
             A2 == WithNext(A1, p, id)
             A3 == WithTail(A2, id)
  <2>1. l = p
    BY <1>1, <1>2, <1>9
  <2>2. new = Longer(A3)
    BY <1>9, <2>1 DEF Linked, WithHead, WithTail, WithNode, WithNext, WithPrev, Longer
  <2> HIDE DEF new, N, h, l, z
  <2>3. /\ N1 \in [NodeIds -> Node]
        /\ \A n \in NodeIds :
             N1[n] = [nextId |-> N[n].nextId, prevId |-> IF n = id THEN p ELSE N[n].prevId]
    BY <1>1, <1>2, <1>5, SetPrevFacts
  <2>4. A1 = ListRec(h, l, z, N1)
    BY <1>5, <1>6, PrevSet
  <2> HIDE DEF N1, A1
  <2>5. /\ N2 \in [NodeIds -> Node]
        /\ \A n \in NodeIds :
             N2[n] = [nextId |-> IF n = p THEN id ELSE N1[n].nextId, prevId |-> N1[n].prevId]
    BY <1>1, <1>2, <2>3, SetNextFacts
  <2>6. A2 = ListRec(h, l, z, N2)
    BY <1>6, <2>3, <2>4, NextSet
  <2> HIDE DEF N2, A2
  <2>7. A3 = ListRec(h, id, z, N2)
    BY <1>6, <2>5, <2>6, TailSet
  <2> HIDE DEF A3
  <2>8. new = ListRec(h, id, z + 1, N2)
    BY <1>1, <1>6, <2>2, <2>5, <2>7, SizeGrows
  <2>9. Relinked(N2, N, id, p, q)
    BY <1>1, <1>3, <1>5, <1>9, <2>3, <2>5 DEF Relinked
  <2> QED
    BY <1>2, <1>9, <2>5, <2>8, <2>9 DEF new, N, h, z
<1>10. CASE p # dummyId /\ q # dummyId
  <2> DEFINE own == [nextId |-> q, prevId |-> p]
             N1 == SetNode(N, id, own)
             N2 == SetNext(N1, p, id)
             N3 == SetPrev(N2, q, id)
             A1 == WithNode(list, id, own)
             A2 == WithNext(A1, p, id)
             A3 == WithPrev(A2, q, id)
  <2>1. new = Longer(A3)
    BY <1>10 DEF Linked, WithHead, WithTail, WithNode, WithNext, WithPrev, Longer
  <2>2. own \in Node /\ own.nextId = q /\ own.prevId = p
    BY <1>2, NodeIs
  <2> HIDE DEF new, N, h, l, z, own
  <2>3. N1 \in [NodeIds -> Node] /\ \A n \in NodeIds : N1[n] = IF n = id THEN own ELSE N[n]
    BY <1>5, <2>2 DEF SetNode
  <2>4. A1 = ListRec(h, l, z, N1)
    BY <1>5, <1>6, NodeSet
  <2> HIDE DEF N1, A1
  <2>5. /\ N2 \in [NodeIds -> Node]
        /\ \A n \in NodeIds :
             N2[n] = [nextId |-> IF n = p THEN id ELSE N1[n].nextId, prevId |-> N1[n].prevId]
    BY <1>1, <1>2, <2>3, SetNextFacts
  <2>6. A2 = ListRec(h, l, z, N2)
    BY <1>6, <2>3, <2>4, NextSet
  <2> HIDE DEF N2, A2
  <2>7. /\ N3 \in [NodeIds -> Node]
        /\ \A n \in NodeIds :
             N3[n] = [nextId |-> N2[n].nextId, prevId |-> IF n = q THEN id ELSE N2[n].prevId]
    BY <1>1, <1>2, <2>5, SetPrevFacts
  <2>8. A3 = ListRec(h, l, z, N3)
    BY <1>6, <2>5, <2>6, PrevSet
  <2> HIDE DEF N3, A3
  <2>9. new = ListRec(h, l, z + 1, N3)
    <3>1. h \in NodeIds /\ l \in NodeIds /\ z \in Nat
      BY <1>1, <1>6
    <3>2. new = Longer(ListRec(h, l, z, N3))
      BY <2>1, <2>8
    <3> QED
      BY <2>7, <3>1, <3>2, SizeGrows
  <2>10. Relinked(N3, N, id, p, q)
    <3> SUFFICES ASSUME NEW n \in NodeIds
                 PROVE N3[n] = IF n = id THEN [nextId |-> q, prevId |-> p]
                   ELSE [nextId |-> IF n = p /\ n # dummyId THEN id ELSE N[n].nextId,
                         prevId |-> IF n = q /\ n # dummyId THEN id ELSE N[n].prevId]
      BY DEF Relinked
    <3>1. N2[n].nextId = (IF n = p THEN id ELSE N1[n].nextId) /\ N2[n].prevId = N1[n].prevId
      BY <2>5
    <3>2. N3[n] = [nextId |-> IF n = p THEN id ELSE N1[n].nextId,
                   prevId |-> IF n = q THEN id ELSE N1[n].prevId]
      BY <2>7, <3>1
    <3>3. N1[n] = IF n = id THEN own ELSE N[n]
      BY <2>3
    <3> QED
      BY <1>3, <1>10, <2>2, <3>2, <3>3
  <2> QED
    BY <1>2, <1>10, <2>7, <2>9, <2>10 DEF new, N, h, l, z
<1> QED
  BY <1>7, <1>8, <1>9, <1>10

\* _insert puts the id between the two neighbours.
LEMMA LinkedRepresents ==
  ASSUME NEW list, NEW s, Represents(list, s), NEW k \in 0 .. Len(s),
         NEW id \in CdpIds, \A i \in 1 .. Len(s) : s[i] # id
  PROVE  Represents(Linked(list, id, At(s, k), At(s, k + 1)), Put(s, k, id))
<1> DEFINE p == At(s, k)
           q == At(s, k + 1)
           new == Linked(list, id, p, q)
           t == Put(s, k, id)
           L == Len(s)
<1>1. PICK M \in [NodeIds -> Node] :
        /\ Relinked(M, list.nodes, id, p, q)
        /\ new = ListRec(IF k = 0 THEN id ELSE list.head, IF k = L THEN id ELSE list.tail,
                         list.size + 1, M)
  BY LinkedIs
<1>2. /\ list \in Lists /\ s \in Seq(CdpIds) /\ L \in Nat /\ list.size = L /\ k \in 0 .. L
      /\ list.head = At(s, 1) /\ list.tail = At(s, L)
      /\ id # dummyId /\ id \in NodeIds
  <2>1. id # dummyId /\ id \in NodeIds
    BY DummyIsNoCdp
  <2> QED
    BY <2>1 DEF Represents, Lists
<1>once. /\ \A i, j \in 1 .. L : s[i] = s[j] => i = j
         /\ \A i \in 1 .. L : s[i] \in NodeIds /\ s[i] # id /\ s[i] # dummyId
  <2>1. \A i \in 1 .. L : s[i] \in CdpIds
    BY <1>2
  <2> QED
    BY <2>1, DummyIsNoCdp DEF Represents
<1>3. /\ t \in Seq(CdpIds) /\ Len(t) = L + 1
      /\ \A i \in Int : At(t, i) = IF i <= k THEN At(s, i)
                                   ELSE IF i = k + 1 THEN id ELSE At(s, i - 1)
  BY <1>2, PutFacts
<1>new. /\ new \in Lists /\ new.nodes = M /\ new.size = L + 1
        /\ new.head = (IF k = 0 THEN id ELSE list.head)
        /\ new.tail = (IF k = L THEN id ELSE list.tail)
  <2> DEFINE h == IF k = 0 THEN id ELSE list.head
             l == IF k = L THEN id ELSE list.tail
  <2>1. h \in NodeIds /\ l \in NodeIds /\ L + 1 \in Nat
    BY <1>2, FieldsOf
  <2>2. new = ListRec(h, l, L + 1, M)
    BY <1>1, <1>2
  <2> HIDE DEF h, l, new
  <2>3. new \in Lists /\ new.nodes = M /\ new.size = L + 1 /\ new.head = h /\ new.tail = l
    BY <2>1, <2>2, ListOf
  <2> QED
    BY <2>3 DEF h, l
<1> HIDE DEF new, t, L, p, q
<1>M. \A n \in NodeIds : new.nodes[n] =
           IF n = id THEN [nextId |-> q, prevId |-> p]
           ELSE [nextId |-> IF n = p /\ n # dummyId THEN id ELSE list.nodes[n].nextId,
                 prevId |-> IF n = q /\ n # dummyId THEN id ELSE list.nodes[n].prevId]
  BY <1>1, <1>new DEF Relinked
<1>4. \A i \in 1 .. L + 1 :
        t[i] = IF i <= k THEN s[i] ELSE IF i = k + 1 THEN id ELSE s[i - 1]
  <2> TAKE i \in 1 .. L + 1
  <2>1. t[i] = At(t, i)
    BY <1>3 DEF At
  <2>2. i <= k => At(s, i) = s[i]
    BY <1>2 DEF At, L
  <2>3. i > k + 1 => At(s, i - 1) = s[i - 1]
    BY <1>2 DEF At, L
  <2>4. i \in Int /\ k \in Int
    BY <1>2
  <2>5. At(t, i) = IF i <= k THEN At(s, i) ELSE IF i = k + 1 THEN id ELSE At(s, i - 1)
    BY <1>3, <2>4
  <2>6. CASE i <= k
    BY <2>1, <2>2, <2>5, <2>6
  <2>7. CASE i = k + 1
    BY <2>1, <2>4, <2>5, <2>7
  <2>8. CASE i > k + 1
    BY <2>1, <2>3, <2>4, <2>5, <2>8
  <2> QED
    BY <2>4, <2>6, <2>7, <2>8
<1>5. \A i, j \in 1 .. Len(t) : t[i] = t[j] => i = j
  <2> DEFINE place(i) == IF i <= k THEN i ELSE i - 1
  <2>1. ASSUME NEW i \in 1 .. L + 1
        PROVE  \/ i = k + 1 /\ t[i] = id
               \/ i # k + 1 /\ place(i) \in 1 .. L /\ t[i] = s[place(i)]
    BY <1>2, <1>4
  <2>2. ASSUME NEW i \in 1 .. L + 1, NEW j \in 1 .. L + 1, i # k + 1, j # k + 1,
               place(i) = place(j)
        PROVE  i = j
    BY <1>2, <2>2
  <2> HIDE DEF place
  <2>3. \A i, j \in 1 .. L + 1 : t[i] = t[j] => i = j
    BY <1>once, <2>1, <2>2
  <2> QED
    BY <1>3, <2>3
<1>6. new.head = At(t, 1)
  BY <1>2, <1>3, <1>new
<1>7. new.tail = At(t, Len(t))
  BY <1>2, <1>3, <1>new
<1>8. ASSUME NEW i \in 1 .. L
      PROVE  /\ list.nodes[s[i]].nextId = At(s, i + 1) /\ list.nodes[s[i]].prevId = At(s, i - 1)
             /\ (s[i] = p <=> i = k) /\ (s[i] = q <=> i = k + 1)
  <2>1. list.nodes[s[i]] = [nextId |-> At(s, i + 1), prevId |-> At(s, i - 1)]
    BY DEF Represents, L
  <2>2. (s[i] = p <=> i = k) /\ (s[i] = q <=> i = k + 1)
    BY <1>2, <1>once DEF p, q, At, L
  <2> QED
    BY <2>1, <2>2
<1>9. \A i \in 1 .. Len(t) :
        new.nodes[t[i]] = [nextId |-> At(t, i + 1), prevId |-> At(t, i - 1)]
  <2> TAKE i \in 1 .. Len(t)
  <2>0. i \in 1 .. L + 1 /\ i + 1 \in Int /\ i - 1 \in Int
    BY <1>2, <1>3
  <2>1. CASE i <= k
    <3>1. i \in 1 .. L /\ t[i] = s[i]
      BY <1>2, <1>4, <2>0, <2>1
    <3>2. new.nodes[t[i]] = [nextId |-> IF i = k THEN id ELSE At(s, i + 1),
                             prevId |-> At(s, i - 1)]
      BY <1>once, <1>8, <1>M, <2>1, <3>1, SMTT(30)
    <3>3. At(t, i + 1) = (IF i = k THEN id ELSE At(s, i + 1)) /\ At(t, i - 1) = At(s, i - 1)
      BY <1>2, <1>3, <2>0, <2>1
    <3> QED
      BY <3>2, <3>3
  <2>2. CASE i = k + 1
    <3>1. new.nodes[t[i]] = [nextId |-> q, prevId |-> p]
      <4>1. ~(i <= k)
        BY <1>2, <2>2
      <4>2. t[i] = id
        BY <1>4, <2>0, <2>2, <4>1
      <4> QED
        BY <1>2, <1>M, <4>2
    <3>2. At(t, i + 1) = At(s, k + 1) /\ At(t, i - 1) = At(s, k)
      BY <1>2, <1>3, <2>0, <2>2
    <3> QED
      BY <3>1, <3>2 DEF p, q
  <2>3. CASE i > k + 1
    <3> DEFINE j == i - 1
    <3>1. j \in 1 .. L /\ t[i] = s[j] /\ j + 1 = i /\ j > k
      BY <1>2, <1>4, <2>0, <2>3
    <3>4. At(t, i + 1) = At(s, i) /\ At(t, i - 1) = IF j = k + 1 THEN id ELSE At(s, j - 1)
      BY <1>2, <1>3, <2>0, <2>3
    <3> HIDE DEF j
    <3>2. new.nodes[t[i]] = [nextId |-> At(s, j + 1),
                             prevId |-> IF j = k + 1 THEN id ELSE At(s, j - 1)]
      BY <1>once, <1>8, <1>M, <3>1
    <3> QED
      BY <3>1, <3>2, <3>4
  <2> QED
    BY <1>2, <2>0, <2>1, <2>2, <2>3
<1>10. ASSUME NEW n \in NodeIds, \A i \in 1 .. Len(t) : t[i] # n PROVE new.nodes[n] = BlankNode
  <2>1. k + 1 \in 1 .. Len(t) /\ t[k + 1] = id
    BY <1>2, <1>3, <1>4
  <2>2. n # id
    BY <1>10, <2>1
  <2>3. \A i \in 1 .. L : s[i] # n
    <3> TAKE i \in 1 .. L
    <3> DEFINE j == IF i <= k THEN i ELSE i + 1
    <3>1. j \in 1 .. Len(t) /\ t[j] = s[i]
      BY <1>2, <1>3, <1>4
    <3> QED
      BY <1>10, <3>1
  <2>4. list.nodes[n] = BlankNode
    BY <2>3 DEF Represents, L
  <2>5. (n # dummyId => n # p /\ n # q)
    BY <2>3 DEF p, q, At, L
  <2> QED
    BY <1>M, <2>2, <2>4, <2>5 DEF BlankNode
<1>11. new.size = Len(t)
  BY <1>3, <1>new
<1>12. Represents(new, t)
  BY <1>3, <1>5, <1>6, <1>7, <1>9, <1>10, <1>11, <1>new DEF Represents, Lists
<1> QED
  BY <1>12 DEF new, t, p, q

\* The links after the ids between p and q are cut out
CutLinks(M, N, ids, p, q) ==
  \A n \in NodeIds : M[n] =
    IF n \in ids THEN BlankNode
    ELSE [nextId |-> IF n = p /\ n # dummyId THEN q ELSE N[n].nextId,
          prevId |-> IF n = q /\ n # dummyId THEN p ELSE N[n].prevId]

CutList(list, s, a, b, M) ==
  ListRec(IF a = 1 THEN At(s, b + 1) ELSE list.head, IF b = Len(s) THEN At(s, a - 1) ELSE list.tail,
          list.size - (b - a + 1), M)

\* What is left is the sequence without them.
LEMMA CutRepresents ==
  ASSUME NEW list, NEW s, Represents(list, s), NEW a \in 1 .. Len(s), NEW b \in a .. Len(s),
         NEW M \in [NodeIds -> Node], NEW ids,
         \A id : id \in ids <=> \E i \in a .. b : s[i] = id,
         CutLinks(M, list.nodes, ids, At(s, a - 1), At(s, b + 1))
  PROVE  Represents(CutList(list, s, a, b, M), Cut(s, a, b))
<1> DEFINE p == At(s, a - 1)
           q == At(s, b + 1)
           h == IF a = 1 THEN q ELSE list.head
           l == IF b = Len(s) THEN p ELSE list.tail
           L == Len(s)
           c == b - a + 1
           new == ListRec(h, l, list.size - c, M)
           t == Cut(s, a, b)
           place(i) == IF i < a THEN i ELSE i + c
<1>1. /\ list \in Lists /\ s \in Seq(CdpIds) /\ L \in Nat /\ list.size = L
      /\ list.head = At(s, 1) /\ list.tail = At(s, L)
  BY DEF Represents, Lists
<1>2. /\ a \in Int /\ b \in Int /\ c \in Int /\ 1 <= a /\ a <= b /\ b <= L /\ c >= 1 /\ c <= L
      /\ b + 1 = a + c /\ L - c \in Nat
  BY <1>1
<1>int. \A i \in 1 .. L - c : i \in Int /\ i + c \in Int /\ i + 1 \in Int /\ i - 1 \in Int
  BY <1>2
<1>3. /\ \A i, j \in 1 .. L : s[i] = s[j] => i = j
      /\ \A i \in 1 .. L : s[i] \in NodeIds /\ s[i] # dummyId
  <2>1. \A i \in 1 .. L : s[i] \in CdpIds
    BY <1>1
  <2> QED
    BY <2>1, DummyIsNoCdp DEF Represents
<1>4. /\ t \in Seq(CdpIds) /\ Len(t) = L - c
      /\ \A i \in Int : At(t, i) = IF i < a THEN At(s, i) ELSE At(s, i + c)
  BY <1>1, CutFacts
<1>5. p \in NodeIds /\ q \in NodeIds /\ (a = 1 => p = dummyId) /\ (b = L => q = dummyId)
  BY <1>1, <1>2, AtType
<1>6. new \in Lists /\ new.head = h /\ new.tail = l /\ new.size = L - c /\ new.nodes = M
  <2>1. h \in NodeIds /\ l \in NodeIds
    BY <1>1, <1>5, FieldsOf
  <2> HIDE DEF h, l, c
  <2> QED
    BY <1>1, <1>2, <2>1, ListOf
<1>7. ASSUME NEW i \in 1 .. L
      PROVE  /\ list.nodes[s[i]].nextId = At(s, i + 1) /\ list.nodes[s[i]].prevId = At(s, i - 1)
             /\ (s[i] = p <=> i = a - 1) /\ (s[i] = q <=> i = b + 1)
             /\ (s[i] \in ids <=> i \in a .. b)
  <2>1. list.nodes[s[i]] = [nextId |-> At(s, i + 1), prevId |-> At(s, i - 1)]
    BY DEF Represents
  <2>2. (s[i] = p <=> i = a - 1) /\ (s[i] = q <=> i = b + 1)
    BY <1>2, <1>3 DEF At
  <2>3. s[i] \in ids <=> i \in a .. b
    BY <1>2, <1>3
  <2> QED
    BY <2>1, <2>2, <2>3
<1>8. \A n \in NodeIds : new.nodes[n] =
        IF n \in ids THEN BlankNode
        ELSE [nextId |-> IF n = p /\ n # dummyId THEN q ELSE list.nodes[n].nextId,
              prevId |-> IF n = q /\ n # dummyId THEN p ELSE list.nodes[n].prevId]
  BY <1>6 DEF CutLinks
<1>9. /\ \A i \in 1 .. L - c : place(i) \in 1 .. L /\ place(i) \notin a .. b
      /\ \A i, j \in 1 .. L - c : place(i) = place(j) => i = j
  <2> HIDE DEF c, L, p, q, h, l, t, new
  <2>1. \A i \in 1 .. L - c : place(i) \in 1 .. L /\ place(i) \notin a .. b
    <3> TAKE i \in 1 .. L - c
    <3>1. CASE i < a
      BY <1>1, <1>2, <3>1
    <3>2. CASE ~(i < a)
      BY <1>1, <1>2, <3>2
    <3> QED
      BY <3>1, <3>2
  <2>2. ASSUME NEW i \in 1 .. L - c, NEW j \in 1 .. L - c, place(i) = place(j) PROVE i = j
    BY <1>1, <1>2, <2>2
  <2> QED
    BY <2>1, <2>2
<1> HIDE DEF new, t, p, q, h, l, c
<1>10. \A i \in 1 .. L - c : t[i] = s[place(i)]
  <2> TAKE i \in 1 .. L - c
  <2>1. t[i] = At(t, i)
    BY <1>4 DEF At
  <2>2. At(t, i) = IF i < a THEN At(s, i) ELSE At(s, i + c)
    BY <1>4, <1>int
  <2>3. i < a => i \in 1 .. L
    BY <1>2
  <2>4. ~(i < a) => i + c \in 1 .. L
    BY <1>2
  <2> QED
    BY <2>1, <2>2, <2>3, <2>4 DEF At
<1>11. \A i, j \in 1 .. Len(t) : t[i] = t[j] => i = j
  <2> HIDE DEF place, L
  <2>1. ASSUME NEW i \in 1 .. L - c, NEW j \in 1 .. L - c, t[i] = t[j] PROVE i = j
    <3>1. s[place(i)] = s[place(j)] /\ place(i) \in 1 .. L /\ place(j) \in 1 .. L
      BY <1>9, <1>10, <2>1
    <3>2. place(i) = place(j)
      BY <1>3, <3>1
    <3> QED
      BY <1>9, <3>2
  <2> QED
    BY <1>4, <2>1
<1>12. new.head = At(t, 1)
  <2>1. At(t, 1) = IF a > 1 THEN At(s, 1) ELSE At(s, 1 + c)
    BY <1>2, <1>4
  <2> QED
    BY <1>1, <1>2, <1>6, <2>1 DEF h, q
<1>13. new.tail = At(t, Len(t))
  <2>1. At(t, L - c) = IF L - c < a THEN At(s, L - c) ELSE At(s, L - c + c)
    <3>1. L - c \in Int
      BY <1>2
    <3> QED
      BY <1>4, <3>1
  <2>2. CASE b = L
    <3>1. L - c = a - 1 /\ L - c < a
      BY <1>2, <2>2
    <3> QED
      BY <1>4, <1>6, <2>1, <2>2, <3>1 DEF l, p
  <2>3. CASE b # L
    <3>1. L - c + c = L /\ ~(L - c < a)
      BY <1>1, <1>2, <2>3
    <3> QED
      BY <1>1, <1>4, <1>6, <2>1, <2>3, <3>1 DEF l
  <2> QED
    BY <2>2, <2>3
<1>14. \A i \in 1 .. Len(t) :
         new.nodes[t[i]] = [nextId |-> At(t, i + 1), prevId |-> At(t, i - 1)]
  <2> TAKE i \in 1 .. Len(t)
  <2> DEFINE j == place(i)
  <2>0. /\ i \in 1 .. L - c /\ i + 1 \in Int /\ i - 1 \in Int /\ t[i] = s[j]
        /\ j \in 1 .. L /\ j \notin a .. b
    <3> HIDE DEF place
    <3> QED
      BY <1>4, <1>9, <1>10, <1>int
  <2>1. new.nodes[s[j]] = [nextId |-> IF j = a - 1 THEN q ELSE At(s, j + 1),
                           prevId |-> IF j = b + 1 THEN p ELSE At(s, j - 1)]
    <3> HIDE DEF j
    <3>1. s[j] \in NodeIds /\ s[j] # dummyId /\ s[j] \notin ids
      BY <1>3, <1>7, <2>0
    <3>2. /\ list.nodes[s[j]].nextId = At(s, j + 1) /\ list.nodes[s[j]].prevId = At(s, j - 1)
          /\ (s[j] = p <=> j = a - 1) /\ (s[j] = q <=> j = b + 1)
      BY <1>7, <2>0
    <3>3. new.nodes[s[j]] =
            [nextId |-> IF s[j] = p /\ s[j] # dummyId THEN q ELSE list.nodes[s[j]].nextId,
             prevId |-> IF s[j] = q /\ s[j] # dummyId THEN p ELSE list.nodes[s[j]].prevId]
      BY <1>8, <3>1
    <3> QED
      BY <3>1, <3>2, <3>3
  <2>2. At(t, i + 1) = IF j = a - 1 THEN q ELSE At(s, j + 1)
    <3>1. At(t, i + 1) = IF i + 1 < a THEN At(s, i + 1) ELSE At(s, i + 1 + c)
      BY <1>4, <2>0
    <3>2. CASE i < a - 1
      BY <1>2, <2>0, <3>1, <3>2
    <3>3. CASE i = a - 1
      <4>1. i + 1 + c = b + 1 /\ ~(i + 1 < a) /\ j = a - 1
        BY <1>2, <3>3
      <4> QED
        BY <3>1, <4>1 DEF q
    <3>4. CASE i > a - 1
      <4>1. i + 1 + c = j + 1 /\ ~(i + 1 < a) /\ j # a - 1
        BY <1>2, <2>0, <3>4
      <4> QED
        BY <3>1, <4>1
    <3> QED
      BY <1>2, <2>0, <3>2, <3>3, <3>4
  <2>3. At(t, i - 1) = IF j = b + 1 THEN p ELSE At(s, j - 1)
    <3>1. At(t, i - 1) = IF i - 1 < a THEN At(s, i - 1) ELSE At(s, i - 1 + c)
      BY <1>4, <2>0
    <3>2. CASE i < a
      BY <1>2, <2>0, <3>1, <3>2
    <3>3. CASE i = a
      <4>1. i - 1 = a - 1 /\ i - 1 < a /\ j = b + 1
        BY <1>2, <3>3
      <4> QED
        BY <3>1, <4>1 DEF p
    <3>4. CASE i > a
      <4>1. i - 1 + c = j - 1 /\ ~(i - 1 < a) /\ j # b + 1
        BY <1>2, <2>0, <3>4
      <4> QED
        BY <3>1, <4>1
    <3> QED
      BY <1>2, <2>0, <3>2, <3>3, <3>4
  <2> QED
    BY <2>0, <2>1, <2>2, <2>3
<1>15. ASSUME NEW n \in NodeIds, \A i \in 1 .. Len(t) : t[i] # n PROVE new.nodes[n] = BlankNode
  <2>1. CASE n \in ids
    BY <1>8, <2>1
  <2>2. CASE n \notin ids
    <3>1. \A i \in 1 .. L : s[i] # n
      <4> SUFFICES ASSUME NEW i \in 1 .. L, s[i] = n PROVE FALSE
        OBVIOUS
      <4>1. i \notin a .. b
        BY <1>7, <2>2
      <4> DEFINE j == IF i < a THEN i ELSE i - c
      <4>2. j \in 1 .. Len(t) /\ place(j) = i
        <5>1. CASE i < a
          BY <1>1, <1>2, <1>4, <5>1
        <5>2. CASE i > b
          <6>1. i \in Int /\ i <= L /\ a + c <= i /\ ~(i < a)
            BY <1>1, <1>2, <5>2
          <6>2. j = i - c
            BY <6>1
          <6> HIDE DEF j
          <6>3. j \in Int /\ a <= j /\ j <= L - c /\ j + c = i /\ ~(j < a)
            BY <1>2, <6>1, <6>2
          <6> QED
            BY <1>2, <1>4, <6>3
        <5> QED
          BY <1>1, <1>2, <4>1, <5>1, <5>2
      <4> HIDE DEF j, place
      <4>3. t[j] = n
        BY <1>4, <1>10, <4>2
      <4> QED
        BY <1>15, <4>2, <4>3
    <3>2. list.nodes[n] = BlankNode
      BY <3>1 DEF Represents
    <3>3. n # dummyId => n # p /\ n # q
      BY <3>1 DEF p, q, At
    <3> QED
      BY <1>8, <2>2, <3>2, <3>3 DEF BlankNode
  <2> QED
    BY <2>1, <2>2
<1>16. Represents(new, t)
  BY <1>4, <1>6, <1>11, <1>12, <1>13, <1>14, <1>15 DEF Represents, Lists
<1> QED
  BY <1>16 DEF new, t, h, l, p, q, c, CutList

LEMMA OrphanedRepresents ==
  ASSUME NEW list, NEW s, Represents(list, s), NEW a \in 1 .. Len(s), NEW b \in a .. Len(s),
         NEW ids, \A id : id \in ids <=> \E i \in a .. b : s[i] = id
  PROVE  Represents(Orphaned(list, ids, s[a], s[b]), Cut(s, a, b))
<1> DEFINE p == At(s, a - 1)
           q == At(s, b + 1)
           N == list.nodes
           M == [n \in NodeIds |->
                   IF n \in ids THEN BlankNode
                   ELSE [nextId |-> IF n = p /\ n # dummyId THEN q ELSE N[n].nextId,
                         prevId |-> IF n = q /\ n # dummyId THEN p ELSE N[n].prevId]]
<1>1. /\ list \in Lists /\ s \in Seq(CdpIds) /\ Len(s) \in Nat
      /\ \A i, j \in 1 .. Len(s) : s[i] = s[j] => i = j
  BY DEF Represents, Lists
<1>2. a \in Int /\ b \in Int /\ 1 <= a /\ a <= b /\ b <= Len(s) /\ b \in 1 .. Len(s)
  BY <1>1
<1>3. /\ p \in NodeIds /\ q \in NodeIds
      /\ (p = dummyId <=> a = 1) /\ (q = dummyId <=> b = Len(s))
  BY <1>1, <1>2, AtType
<1>4. N[s[a]].prevId = p /\ N[s[b]].nextId = q
  <2>1. /\ N[s[a]] = [nextId |-> At(s, a + 1), prevId |-> At(s, a - 1)]
        /\ N[s[b]] = [nextId |-> At(s, b + 1), prevId |-> At(s, b - 1)]
    BY <1>2 DEF Represents
  <2> QED
    BY <2>1
<1>5. N \in [NodeIds -> Node] /\ \A n \in NodeIds : N[n].nextId \in NodeIds /\ N[n].prevId \in NodeIds
  BY <1>1 DEF Lists, Node
<1>6. Cardinality(ids) = b - a + 1
  <2> DEFINE n == b - a + 1
             f == [i \in 1 .. n |-> s[a + i - 1]]
  <2>1. n \in Nat /\ \A i \in 1 .. n : a + i - 1 \in a .. b /\ a + i - 1 \in 1 .. Len(s)
    BY <1>2
  <2>2. \A i \in 1 .. n : f[i] \in ids
    BY <2>1
  <2>3. \A id \in ids : \E i \in 1 .. n : f[i] = id
    <3> TAKE id \in ids
    <3> PICK j \in a .. b : s[j] = id
      OBVIOUS
    <3> DEFINE i == j - a + 1
    <3>1. i \in 1 .. n /\ a + i - 1 = j
      BY <1>2
    <3> HIDE DEF i, n
    <3> QED
      BY <3>1
  <2>4. \A i, j \in 1 .. n : f[i] = f[j] => i = j
    <3> TAKE i, j \in 1 .. n
    <3>1. f[i] = f[j] => a + i - 1 = a + j - 1
      BY <1>1, <2>1
    <3> QED
      BY <1>2, <3>1
  <2> HIDE DEF n
  <2>5. f \in Bijection(1 .. n, ids)
    BY <2>2, <2>3, <2>4 DEF Bijection, Injection, Surjection, IsInjective
  <2> HIDE DEF f
  <2>6. ExistsBijection(1 .. n, ids)
    BY <2>5 DEF ExistsBijection
  <2>7. n \in Nat
    BY <2>1
  <2>8. Cardinality(ids) = n
    BY <2>6, <2>7, FS_CountingElements
  <2> QED
    BY <2>8 DEF n
<1> HIDE DEF p, q, N
<1>7. M \in [NodeIds -> Node]
  <2>1. BlankNode \in Node
    BY DummyIsNoCdp DEF BlankNode, Node
  <2>2. \A n \in NodeIds : M[n] \in Node
    <3> TAKE n \in NodeIds
    <3> DEFINE down == IF n = p /\ n # dummyId THEN q ELSE N[n].nextId
               up == IF n = q /\ n # dummyId THEN p ELSE N[n].prevId
    <3>1. down \in NodeIds /\ up \in NodeIds
      BY <1>3, <1>5
    <3>2. M[n] = IF n \in ids THEN BlankNode ELSE [nextId |-> down, prevId |-> up]
      OBVIOUS
    <3> HIDE DEF down, up, M
    <3> QED
      BY <2>1, <3>1, <3>2, NodeIs
  <2> QED
    BY <2>2
<1>8. CutLinks(M, N, ids, p, q)
  BY DEF CutLinks
<1>9. Orphaned(list, ids, s[a], s[b]) = CutList(list, s, a, b, M)
  BY <1>3, <1>4, <1>6 DEF Orphaned, CutList, ListRec, N, p, q
<1> HIDE DEF M
<1>10. Represents(CutList(list, s, a, b, M), Cut(s, a, b))
  BY <1>7, <1>8, CutRepresents DEF N, p, q
<1> QED
  BY <1>9, <1>10

\* The four cases of _remove in one
LEMMA UnlinkedIs ==
  ASSUME NEW list, NEW s, Represents(list, s), NEW a \in 1 .. Len(s),
         NEW ids, ids = {s[a]}
  PROVE  \E M \in [NodeIds -> Node] :
           /\ CutLinks(M, list.nodes, ids, At(s, a - 1), At(s, a + 1))
           /\ Unlinked(list, s[a]) = CutList(list, s, a, a, M)
<1> DEFINE id == s[a]
           p == At(s, a - 1)
           q == At(s, a + 1)
           new == Unlinked(list, id)
           N == list.nodes
           h == list.head
           l == list.tail
           z == list.size
<1>1. /\ list \in Lists /\ s \in Seq(CdpIds) /\ Len(s) \in Nat /\ z = Len(s)
      /\ h = At(s, 1) /\ l = At(s, Len(s)) /\ a \in Int /\ 1 <= a /\ a <= Len(s)
      /\ \A i, j \in 1 .. Len(s) : s[i] = s[j] => i = j
  BY DEF Represents, Lists
<1>2. /\ p \in NodeIds /\ q \in NodeIds /\ id \in NodeIds /\ id # dummyId /\ dummyId \in NodeIds
      /\ (p = dummyId <=> a = 1) /\ (q = dummyId <=> a = Len(s))
  BY <1>1, AtType, DummyIsNoCdp
<1>3. p # id /\ q # id /\ (p = q => p = dummyId)
  BY <1>1, <1>2 DEF At
<1>4. N[id].nextId = q /\ N[id].prevId = p
  <2>1. N[s[a]] = [nextId |-> At(s, a + 1), prevId |-> At(s, a - 1)]
    BY <1>1 DEF Represents
  <2> QED
    BY <2>1
<1>5. /\ N \in [NodeIds -> Node]
      /\ \A n \in NodeIds : N[n] = [nextId |-> N[n].nextId, prevId |-> N[n].prevId]
  BY <1>1 DEF Lists, Node
<1>6. /\ h \in NodeIds /\ l \in NodeIds /\ z \in Nat /\ z >= 1
      /\ list = ListRec(h, l, z, N)
  BY <1>1, FieldsOf
<1>7. (h = id <=> a = 1) /\ (l = id <=> a = Len(s))
  BY <1>1 DEF At
<1>cut. \A M : CutList(list, s, a, a, M)
                = ListRec(IF a = 1 THEN q ELSE h, IF a = Len(s) THEN p ELSE l, z - 1, M)
  <2>1. a - a + 1 = 1
    BY <1>1
  <2> HIDE DEF ListRec
  <2> QED
    BY <2>1 DEF CutList
<1> SUFFICES \E M \in [NodeIds -> Node] :
               /\ CutLinks(M, N, ids, p, q)
               /\ new = ListRec(IF a = 1 THEN q ELSE h, IF a = Len(s) THEN p ELSE l, z - 1, M)
  BY <1>cut
<1>ids. \A n : n \in ids <=> n = id
  OBVIOUS
<1> HIDE DEF id, p, q
<1>8. CASE z <= 1
  <2> DEFINE M == SetNode(N, id, BlankNode)
             A1 == WithHead(list, dummyId)
             A2 == WithTail(A1, dummyId)
             A3 == WithNode(A2, id, BlankNode)
  <2>1. new = Shorter(A3)
    BY <1>8 DEF Unlinked, WithHead, WithTail, WithNode, Shorter
  <2>0. a = 1 /\ a = Len(s)
    BY <1>1, <1>8
  <2> HIDE DEF new, N, h, l, z
  <2>2. A1 = ListRec(dummyId, l, z, N)
    BY <1>5, <1>6, HeadSet
  <2> HIDE DEF A1
  <2>3. A2 = ListRec(dummyId, dummyId, z, N)
    BY <1>2, <1>5, <1>6, <2>2, TailSet
  <2> HIDE DEF A2
  <2>4. A3 = ListRec(dummyId, dummyId, z, M)
    BY <1>2, <1>5, <1>6, <2>3, NodeSet
  <2>5. BlankNode \in Node
    BY <1>2, NodeIs DEF BlankNode
  <2>6. M \in [NodeIds -> Node] /\ \A n \in NodeIds : M[n] = IF n = id THEN BlankNode ELSE N[n]
    BY <1>5, <2>5 DEF SetNode
  <2> HIDE DEF A3, M
  <2>7. new = ListRec(dummyId, dummyId, z - 1, M)
    BY <1>2, <1>6, <2>1, <2>4, <2>6, SizeShrinks
  <2>8. CutLinks(M, N, ids, p, q)
    BY <1>2, <1>5, <1>ids, <2>0, <2>6 DEF CutLinks
  <2> QED
    BY <1>2, <2>0, <2>6, <2>7, <2>8
<1>9. CASE z > 1 /\ a = 1
  <2> DEFINE N1 == SetPrev(N, q, dummyId)
             M == SetNode(N1, id, BlankNode)
             A1 == WithHead(list, q)
             A2 == WithPrev(A1, q, dummyId)
             A3 == WithNode(A2, id, BlankNode)
  <2>1. new = Shorter(A3)
    <3>1. ~(z <= 1) /\ id = h
      BY <1>6, <1>7, <1>9
    <3> QED
      BY <1>4, <3>1 DEF Unlinked, WithHead, WithPrev, WithNode, Shorter
  <2>0. p = dummyId /\ a # Len(s)
    BY <1>1, <1>2, <1>9
  <2> HIDE DEF new, N, h, l, z
  <2>2. A1 = ListRec(q, l, z, N)
    BY <1>5, <1>6, HeadSet
  <2> HIDE DEF A1
  <2>3. /\ N1 \in [NodeIds -> Node]
        /\ \A n \in NodeIds :
             N1[n] = [nextId |-> N[n].nextId, prevId |-> IF n = q THEN dummyId ELSE N[n].prevId]
    BY <1>2, <1>5, SetPrevFacts
  <2>4. A2 = ListRec(q, l, z, N1)
    BY <1>2, <1>5, <1>6, <2>2, PrevSet
  <2> HIDE DEF N1, A2
  <2>5. A3 = ListRec(q, l, z, M)
    BY <1>2, <1>6, <2>3, <2>4, NodeSet
  <2>6. BlankNode \in Node
    BY <1>2, NodeIs DEF BlankNode
  <2>7. M \in [NodeIds -> Node] /\ \A n \in NodeIds : M[n] = IF n = id THEN BlankNode ELSE N1[n]
    BY <2>3, <2>6 DEF SetNode
  <2> HIDE DEF A3, M
  <2>8. new = ListRec(q, l, z - 1, M)
    BY <1>2, <1>6, <2>1, <2>5, <2>7, SizeShrinks
  <2>9. CutLinks(M, N, ids, p, q)
    BY <1>2, <1>5, <1>ids, <2>0, <2>3, <2>7 DEF CutLinks
  <2> QED
    BY <1>2, <1>9, <2>0, <2>7, <2>8, <2>9
<1>10. CASE z > 1 /\ a = Len(s)
  <2> DEFINE N1 == SetNext(N, p, dummyId)
             M == SetNode(N1, id, BlankNode)
             A1 == WithTail(list, p)
             A2 == WithNext(A1, p, dummyId)
             A3 == WithNode(A2, id, BlankNode)
  <2>1. new = Shorter(A3)
    <3>1. ~(z <= 1) /\ id # h /\ id = l
      BY <1>1, <1>6, <1>7, <1>10
    <3> QED
      BY <1>4, <3>1 DEF Unlinked, WithTail, WithNext, WithNode, Shorter
  <2>0. q = dummyId /\ a # 1
    BY <1>1, <1>2, <1>10
  <2> HIDE DEF new, N, h, l, z
  <2>2. A1 = ListRec(h, p, z, N)
    BY <1>5, <1>6, TailSet
  <2> HIDE DEF A1
  <2>3. /\ N1 \in [NodeIds -> Node]
        /\ \A n \in NodeIds :
             N1[n] = [nextId |-> IF n = p THEN dummyId ELSE N[n].nextId, prevId |-> N[n].prevId]
    BY <1>2, <1>5, SetNextFacts
  <2>4. A2 = ListRec(h, p, z, N1)
    BY <1>2, <1>5, <1>6, <2>2, NextSet
  <2> HIDE DEF N1, A2
  <2>5. A3 = ListRec(h, p, z, M)
    BY <1>2, <1>6, <2>3, <2>4, NodeSet
  <2>6. BlankNode \in Node
    BY <1>2, NodeIs DEF BlankNode
  <2>7. M \in [NodeIds -> Node] /\ \A n \in NodeIds : M[n] = IF n = id THEN BlankNode ELSE N1[n]
    BY <2>3, <2>6 DEF SetNode
  <2> HIDE DEF A3, M
  <2>8. new = ListRec(h, p, z - 1, M)
    BY <1>2, <1>6, <2>1, <2>5, <2>7, SizeShrinks
  <2>9. CutLinks(M, N, ids, p, q)
    BY <1>2, <1>5, <1>ids, <2>0, <2>3, <2>7 DEF CutLinks
  <2> QED
    BY <1>2, <1>10, <2>0, <2>7, <2>8, <2>9
<1>11. CASE a # 1 /\ a # Len(s)
  <2> DEFINE N1 == SetNext(N, p, q)
             N2 == SetPrev(N1, q, p)
             M == SetNode(N2, id, BlankNode)
             A1 == WithNext(list, p, q)
             A2 == WithPrev(A1, q, p)
             A3 == WithNode(A2, id, BlankNode)
  <2>1. new = Shorter(A3)
    <3>1. ~(z <= 1) /\ id # h /\ id # l
      BY <1>1, <1>6, <1>7, <1>11
    <3> QED
      BY <1>4, <3>1 DEF Unlinked, WithPrev, WithNext, WithNode, Shorter
  <2>0. q # dummyId /\ p # dummyId /\ p # q
    BY <1>1, <1>2, <1>3, <1>11
  <2> HIDE DEF new, N, h, l, z
  <2>2. A1 = ListRec(h, l, z, N1)
    BY <1>5, <1>6, NextSet
  <2>3. /\ N1 \in [NodeIds -> Node]
        /\ \A n \in NodeIds :
             N1[n] = [nextId |-> IF n = p THEN q ELSE N[n].nextId, prevId |-> N[n].prevId]
    BY <1>2, <1>5, SetNextFacts
  <2> HIDE DEF A1, N1
  <2>4. /\ N2 \in [NodeIds -> Node]
        /\ \A n \in NodeIds :
             N2[n] = [nextId |-> N1[n].nextId, prevId |-> IF n = q THEN p ELSE N1[n].prevId]
    BY <1>2, <2>3, SetPrevFacts
  <2>5. A2 = ListRec(h, l, z, N2)
    BY <1>2, <1>6, <2>2, <2>3, PrevSet
  <2> HIDE DEF N2, A2
  <2>6. A3 = ListRec(h, l, z, M)
    BY <1>2, <1>6, <2>4, <2>5, NodeSet
  <2>7. BlankNode \in Node
    BY <1>2, NodeIs DEF BlankNode
  <2>8. M \in [NodeIds -> Node] /\ \A n \in NodeIds : M[n] = IF n = id THEN BlankNode ELSE N2[n]
    BY <2>4, <2>7 DEF SetNode
  <2> HIDE DEF A3, M
  <2>9. new = ListRec(h, l, z - 1, M)
    BY <1>2, <1>6, <2>1, <2>6, <2>8, SizeShrinks
  <2>10. CutLinks(M, N, ids, p, q)
    <3> SUFFICES ASSUME NEW n \in NodeIds
                 PROVE M[n] = IF n \in ids THEN BlankNode
                   ELSE [nextId |-> IF n = p /\ n # dummyId THEN q ELSE N[n].nextId,
                         prevId |-> IF n = q /\ n # dummyId THEN p ELSE N[n].prevId]
      BY DEF CutLinks
    <3>1. N1[n].nextId = (IF n = p THEN q ELSE N[n].nextId) /\ N1[n].prevId = N[n].prevId
      BY <2>3
    <3>2. N2[n] = [nextId |-> IF n = p THEN q ELSE N[n].nextId,
                   prevId |-> IF n = q THEN p ELSE N[n].prevId]
      BY <2>4, <3>1
    <3> QED
      BY <1>ids, <2>0, <2>8, <3>2
  <2> QED
    BY <1>11, <2>8, <2>9, <2>10
<1> QED
  <2>1. z <= 1 \/ (z > 1 /\ a = 1) \/ (z > 1 /\ a = Len(s)) \/ (a # 1 /\ a # Len(s))
    BY <1>6
  <2> QED
    BY <1>8, <1>9, <1>10, <1>11, <2>1

LEMMA UnlinkedRepresents ==
  ASSUME NEW list, NEW s, Represents(list, s), NEW a \in 1 .. Len(s)
  PROVE  Represents(Unlinked(list, s[a]), Cut(s, a, a))
<1> DEFINE ids == {s[a]}
<1>1. /\ a \in a .. Len(s) /\ ids = {s[a]}
      /\ \A n : n \in ids <=> \E i \in a .. a : s[i] = n
  <2>1. a \in a .. Len(s) /\ \A i \in a .. a : i = a
    BY DEF Represents
  <2>2. a \in a .. a
    BY DEF Represents
  <2> QED
    BY <2>1, <2>2
<1> HIDE DEF ids
<1>2. PICK M \in [NodeIds -> Node] :
        /\ CutLinks(M, list.nodes, ids, At(s, a - 1), At(s, a + 1))
        /\ Unlinked(list, s[a]) = CutList(list, s, a, a, M)
  BY <1>1, UnlinkedIs
<1>3. Represents(CutList(list, s, a, a, M), Cut(s, a, a))
  BY <1>1, <1>2, CutRepresents
<1> QED
  BY <1>2, <1>3

(* --- The search for a position ----------------------------------------- *)

LEMMA MinOfNumbers ==
  ASSUME NEW T, NEW w \in T, \A n \in T : n \in Nat
  PROVE  Min(T) \in T /\ \A n \in T : Min(T) <= n
<1>1. PICK m \in T : \A n \in T : <<n, m>> \notin OpToRel(<, Nat)
  <2>1. T \subseteq Nat /\ T # {}
    OBVIOUS
  <2> QED
    BY <2>1, NatLessThanWellFounded, WFMin
<1>2. \A n \in T : ~(n < m)
  <2> TAKE n \in T
  <2>1. n < m => <<n, m>> \in OpToRel(<, Nat)
    BY DEF OpToRel
  <2> QED
    BY <1>1, <2>1
<1>3. \A n \in T : m <= n
  BY <1>2
<1>4. \E x \in T : \A y \in T : x <= y
  BY <1>3
<1> QED
  BY <1>4 DEF Min

\* Between the k-th id and the next, a ratio is in order.
FitsAt(s, k, x) ==
  /\ k > 0 => NICR(At(s, k)) >= x
  /\ k < Len(s) => x >= NICR(At(s, k + 1))

LEMMA NICRType ==
  ASSUME nicr \in [CdpIds -> NICRs], NEW id \in NodeIds
  PROVE  NICR(id) \in Nat /\ \A x \in NICRs : x \in Nat /\ x > 0 /\ ~(x >= NICR(dummyId))
<1>1. /\ \A x \in NICRs : x \in Nat \ {0} /\ x < MAX_NICR
      /\ MAX_NICR \in Nat
  BY SortedCdpsAssumption
<1>2. NICR(dummyId) = MAX_NICR
  BY DEF NICR
<1>3. id # dummyId => NICR(id) \in NICRs
  BY DEF NICR, NodeIds
<1> QED
  BY <1>1, <1>2, <1>3

LEMMA ValidIs ==
  ASSUME NEW list, NEW s, Represents(list, s), NEW x, NEW p \in NodeIds, NEW q \in NodeIds,
         ValidInsertPosition(list, x, p, q)
  PROVE  \E k \in 0 .. Len(s) : p = At(s, k) /\ q = At(s, k + 1) /\ FitsAt(s, k, x)
<1>1. /\ s \in Seq(CdpIds) /\ Len(s) \in Nat /\ list.size = Len(s)
      /\ list.head = At(s, 1) /\ list.tail = At(s, Len(s))
  BY DEF Represents
<1>2. CASE p = dummyId /\ q = dummyId
  <2>1. Len(s) = 0
    BY <1>1, <1>2 DEF ValidInsertPosition
  <2>2. 0 \in 0 .. Len(s) /\ p = At(s, 0) /\ q = At(s, 0 + 1) /\ FitsAt(s, 0, x)
    BY <1>2, <2>1 DEF At, FitsAt
  <2> QED
    BY <2>2
<1>3. CASE p = dummyId /\ q # dummyId
  <2>1. list.head = q /\ x >= NICR(q)
    BY <1>3 DEF ValidInsertPosition
  <2>2. 0 \in 0 .. Len(s) /\ p = At(s, 0) /\ q = At(s, 0 + 1) /\ FitsAt(s, 0, x)
    BY <1>1, <1>3, <2>1 DEF At, FitsAt
  <2> QED
    BY <2>2
<1>4. CASE p # dummyId /\ q = dummyId
  <2>1. list.tail = p /\ x <= NICR(p)
    BY <1>4 DEF ValidInsertPosition
  <2>2. Len(s) > 0
    BY <1>1, <1>4, <2>1 DEF At
  <2> DEFINE k == Len(s)
  <2>3. k \in 0 .. Len(s) /\ p = At(s, k) /\ q = At(s, k + 1)
    BY <1>1, <1>4, <2>1 DEF At
  <2>4. NICR(At(s, k)) >= x
    BY <2>1, <2>3
  <2>5. FitsAt(s, k, x)
    BY <1>1, <2>4 DEF FitsAt
  <2> QED
    BY <2>3, <2>5
<1>5. CASE p # dummyId /\ q # dummyId
  <2>1. list.nodes[p].nextId = q /\ NICR(p) >= x /\ x >= NICR(q)
    BY <1>5 DEF ValidInsertPosition
  <2>2. PICK k \in 1 .. Len(s) : s[k] = p
    <3>1. list.nodes[p] # BlankNode
      BY <1>5, <2>1 DEF BlankNode
    <3> QED
      BY <3>1 DEF Represents
  <2>3. p = At(s, k) /\ k \in Nat \ {0}
    BY <1>1, <2>2 DEF At
  <2>4. q = At(s, k + 1)
    BY <2>1, <2>3, NextOf
  <2>5. k \in 0 .. Len(s) /\ FitsAt(s, k, x)
    BY <1>1, <2>1, <2>3, <2>4 DEF FitsAt
  <2> QED
    BY <2>3, <2>4, <2>5
<1> QED
  BY <1>2, <1>3, <1>4, <1>5

LEMMA ValidFrom ==
  ASSUME NEW list, NEW s, Represents(list, s), NEW x, NEW k \in 0 .. Len(s), FitsAt(s, k, x),
         \A id \in NodeIds : NICR(id) \in Nat, x \in Nat
  PROVE  ValidInsertPosition(list, x, At(s, k), At(s, k + 1))
<1> DEFINE p == At(s, k)
           q == At(s, k + 1)
<1>1. /\ s \in Seq(CdpIds) /\ Len(s) \in Nat /\ list.size = Len(s)
      /\ list.head = At(s, 1) /\ list.tail = At(s, Len(s)) /\ k \in Nat /\ k <= Len(s)
  BY DEF Represents
<1>2. /\ p \in NodeIds /\ q \in NodeIds
      /\ (p = dummyId <=> k = 0) /\ (q = dummyId <=> k = Len(s))
  BY <1>1, AtType, SMTT(30)
<1>3. k > 0 => NICR(p) >= x /\ x <= NICR(p) /\ list.nodes[p].nextId = q
  <2> SUFFICES ASSUME k > 0 PROVE NICR(p) >= x /\ x <= NICR(p) /\ list.nodes[p].nextId = q
    OBVIOUS
  <2>1. k \in Nat \ {0}
    BY <1>1
  <2>2. list.nodes[p].nextId = q
    BY <2>1, NextOf
  <2>3. NICR(p) >= x
    BY DEF FitsAt
  <2> QED
    BY <1>2, <2>2, <2>3
<1>4. k < Len(s) => x >= NICR(q)
  BY DEF FitsAt
<1>5. /\ k = 0 => list.head = q
      /\ k = Len(s) => list.tail = p
      /\ (k = 0 /\ k = Len(s)) => list.size = 0
      /\ (k # 0 => k > 0) /\ (k # Len(s) => k < Len(s))
  BY <1>1
<1> HIDE DEF p, q
<1>6. ValidInsertPosition(list, x, p, q)
  BY <1>2, <1>3, <1>4, <1>5 DEF ValidInsertPosition
<1> QED
  BY <1>6 DEF p, q

\* From an id whose ratio is no smaller, the way down meets a position.
LEMMA WayDown ==
  ASSUME nicr \in [CdpIds -> NICRs], NEW list, NEW s, Represents(list, s), NEW x \in NICRs,
         NEW i \in 1 .. Len(s), x <= NICR(s[i])
  PROVE  \E n \in 0 .. Len(s) - i : FitsAt(s, i + n, x)
<1>1. /\ s \in Seq(CdpIds) /\ Len(s) \in Nat /\ i \in Nat /\ 1 <= i /\ i <= Len(s) /\ x \in Nat
      /\ \A id \in NodeIds : NICR(id) \in Nat
  BY NICRType, DummyIsNoCdp DEF Represents
<1> DEFINE L == Len(s) - i
           r(n) == NICR(At(s, i + n))
           D == {n \in 0 .. L : x > r(n)}
<1>2. L \in Nat /\ \A n \in D : n \in Nat
  BY <1>1
<1>3. \A n \in 0 .. L : r(n) \in Nat
  BY <1>1, AtType
<1>4. r(0) = NICR(s[i])
  <2>1. i + 0 = i /\ At(s, i) = s[i]
    BY <1>1 DEF At
  <2> QED
    BY <2>1
<1>5. ASSUME NEW n \in 0 .. L, r(n) >= x, n = L \/ x >= r(n + 1) PROVE FitsAt(s, i + n, x)
  <2>1. i + n + 1 = i + (n + 1) /\ (i + n < Len(s) => n # L)
    BY <1>1
  <2>2. (i + n < Len(s)) => x >= NICR(At(s, i + n + 1))
    BY <1>5, <2>1
  <2> QED
    BY <1>5, <2>2 DEF FitsAt
<1> HIDE DEF r, L
<1>6. CASE D = {}
  <2>1. L \in 0 .. L /\ L \notin D
    BY <1>2, <1>6
  <2>2. r(L) >= x
    BY <1>1, <1>3, <2>1
  <2> QED
    BY <1>5, <2>1, <2>2 DEF L
<1>7. ASSUME NEW v \in D PROVE \E n \in 0 .. Len(s) - i : FitsAt(s, i + n, x)
  <2> DEFINE w == Min(D)
  <2> HIDE DEF D
  <2>1. w \in D /\ \A n \in D : w <= n
    BY <1>2, <1>7, MinOfNumbers
  <2> USE DEF D
  <2> HIDE DEF w
  <2>2. w \in 0 .. L /\ x > r(w)
    BY <2>1
  <2>3. w # 0
    BY <1>1, <1>3, <1>4, <2>2
  <2> DEFINE n == w - 1
  <2>4. n \in 0 .. L /\ n \notin D /\ n + 1 = w
    <3>1. n \in 0 .. L /\ n + 1 = w /\ ~(w <= n)
      BY <1>2, <2>2, <2>3
    <3> HIDE DEF n, D
    <3> QED
      BY <2>1, <3>1
  <2> HIDE DEF n
  <2>5. r(n) >= x /\ x >= r(n + 1)
    BY <1>1, <1>3, <2>2, <2>4
  <2> QED
    BY <1>5, <2>4, <2>5 DEF L
<1> QED
  BY <1>6, <1>7

\* From one whose ratio is no larger, the way up does.
LEMMA WayUp ==
  ASSUME nicr \in [CdpIds -> NICRs], NEW list, NEW s, Represents(list, s), NEW x \in NICRs,
         NEW i \in 1 .. Len(s), x >= NICR(s[i])
  PROVE  \E n \in 0 .. i - 1 : FitsAt(s, i - n - 1, x)
<1>1. /\ s \in Seq(CdpIds) /\ Len(s) \in Nat /\ i \in Nat /\ 1 <= i /\ i <= Len(s) /\ x \in Nat
      /\ \A id \in NodeIds : NICR(id) \in Nat
  BY NICRType, DummyIsNoCdp DEF Represents
<1> DEFINE r(n) == NICR(At(s, i - n))
           D == {n \in 0 .. i - 1 : x < r(n)}
<1>2. i - 1 \in Nat /\ \A n \in D : n \in Nat
  BY <1>1
<1>3. \A n \in 0 .. i - 1 : r(n) \in Nat
  BY <1>1, AtType
<1>4. r(0) = NICR(s[i])
  <2>1. i - 0 = i /\ At(s, i) = s[i]
    BY <1>1 DEF At
  <2> QED
    BY <2>1
<1>5. ASSUME NEW n \in 0 .. i - 1, x >= r(n), n = i - 1 \/ r(n + 1) >= x
      PROVE  FitsAt(s, i - n - 1, x)
  <2>1. i - n - 1 + 1 = i - n /\ i - n - 1 = i - (n + 1) /\ (i - n - 1 > 0 => n # i - 1)
    BY <1>1
  <2>2. i - n - 1 > 0 => NICR(At(s, i - n - 1)) >= x
    BY <1>5, <2>1
  <2>3. x >= NICR(At(s, i - n - 1 + 1))
    BY <1>5, <2>1
  <2> QED
    BY <2>2, <2>3 DEF FitsAt
<1> HIDE DEF r
<1>6. CASE D = {}
  <2> DEFINE n == i - 1
  <2>1. n \in 0 .. i - 1 /\ n \notin D
    BY <1>2, <1>6
  <2> HIDE DEF n
  <2>2. x >= r(n)
    BY <1>1, <1>3, <2>1
  <2> QED
    BY <1>5, <2>1, <2>2 DEF n
<1>7. ASSUME NEW v \in D PROVE \E n \in 0 .. i - 1 : FitsAt(s, i - n - 1, x)
  <2> DEFINE w == Min(D)
  <2> HIDE DEF D
  <2>1. w \in D /\ \A n \in D : w <= n
    BY <1>2, <1>7, MinOfNumbers
  <2> USE DEF D
  <2> HIDE DEF w
  <2>2. w \in 0 .. i - 1 /\ x < r(w)
    BY <2>1
  <2>3. w # 0
    BY <1>1, <1>3, <1>4, <2>2
  <2> DEFINE n == w - 1
  <2>4. n \in 0 .. i - 1 /\ n \notin D /\ n + 1 = w
    <3>1. n \in 0 .. i - 1 /\ n + 1 = w /\ ~(w <= n)
      BY <1>2, <2>2, <2>3
    <3> HIDE DEF n, D
    <3> QED
      BY <2>1, <3>1
  <2> HIDE DEF n
  <2>5. x >= r(n) /\ r(n + 1) >= x
    BY <1>1, <1>3, <2>2, <2>4
  <2> QED
    BY <1>5, <2>4, <2>5
<1> QED
  BY <1>6, <1>7

\* A pair of neighbours, with the dummies at the ends, that enclose the ratio
IsPosition(list, x, position) ==
  /\ position[1] \in NodeIds /\ position[2] \in NodeIds
  /\ ValidInsertPosition(list, x, position[1], position[2])

LEMMA DescentFrom ==
  ASSUME NEW list, NEW s, Represents(list, s), NEW i \in 1 .. Len(s)
  PROVE  \A n \in 0 .. list.size : Descent(list, s[i])[n] = At(s, i + n)
<1>1. i \in Nat \ {0}
  BY DEF Represents
<1>2. Descent(list, At(s, i)) = PlacesDown(list, s, i)
  BY <1>1, DescentPlaces
<1>3. At(s, i) = s[i]
  BY DEF At
<1> QED
  BY <1>2, <1>3 DEF PlacesDown

LEMMA AscentFrom ==
  ASSUME NEW list, NEW s, Represents(list, s), NEW i \in 1 .. Len(s)
  PROVE  \A n \in 0 .. list.size : Ascent(list, s[i])[n] = At(s, i - n)
<1>1. i \in Int /\ i <= Len(s)
  BY DEF Represents
<1>2. Ascent(list, At(s, i)) = PlacesUp(list, s, i)
  BY <1>1, AscentPlaces
<1>3. At(s, i) = s[i]
  BY DEF At
<1> QED
  BY <1>2, <1>3 DEF PlacesUp

LEMMA DescentFinds ==
  ASSUME nicr \in [CdpIds -> NICRs], NEW list, NEW s, Represents(list, s), NEW x \in NICRs,
         NEW i \in 1 .. Len(s), x <= NICR(s[i]), ~(list.head = s[i] /\ x >= NICR(s[i]))
  PROVE  IsPosition(list, x, DescendList(list, x, s[i]))
<1> DEFINE node == Descent(list, s[i])
           Stops(n) == \/ node[n] = dummyId
                       \/ ValidInsertPosition(list, x, node[n], list.nodes[node[n]].nextId)
           T == {n \in 0 .. list.size : Stops(n)}
           m == Min(T)
           last == node[m]
<1>1. /\ s \in Seq(CdpIds) /\ Len(s) \in Nat /\ list.size = Len(s) /\ list \in Lists
      /\ i \in Nat \ {0} /\ i <= Len(s) /\ x \in Nat /\ At(s, i) = s[i]
      /\ \A id \in NodeIds : NICR(id) \in Nat
  <2>1. s \in Seq(CdpIds) /\ Len(s) \in Nat /\ list.size = Len(s) /\ list \in Lists
    BY DEF Represents, Lists
  <2>2. x \in Nat /\ \A id \in NodeIds : NICR(id) \in Nat
    BY NICRType, DummyIsNoCdp
  <2>3. At(s, i) = s[i]
    BY DEF At
  <2> QED
    BY <2>1, <2>2, <2>3
<1>2. \A n \in 0 .. list.size : node[n] = At(s, i + n)
  BY DescentFrom
<1>3. DescendList(list, x, s[i]) = <<last, list.nodes[last].nextId>>
  BY DEF DescendList
<1> HIDE DEF node
<1>4. PICK n \in 0 .. Len(s) - i : FitsAt(s, i + n, x)
  BY WayDown
<1>5. /\ n \in 0 .. list.size /\ i + n \in 0 .. Len(s) /\ i + n \in 1 .. Len(s)
      /\ i + n \in Nat \ {0}
  BY <1>1
<1>6. n \in T
  <2>1. node[n] = At(s, i + n)
    BY <1>2, <1>5
  <2>2. list.nodes[At(s, i + n)].nextId = At(s, i + n + 1)
    BY <1>5, NextOf
  <2>3. ValidInsertPosition(list, x, At(s, i + n), At(s, i + n + 1))
    <3> DEFINE k == i + n
    <3>1. k \in 0 .. Len(s) /\ FitsAt(s, k, x)
      BY <1>4, <1>5
    <3> HIDE DEF k
    <3>2. ValidInsertPosition(list, x, At(s, k), At(s, k + 1))
      BY <1>1, <3>1, ValidFrom
    <3> QED
      BY <3>2 DEF k
  <2> QED
    BY <1>5, <2>1, <2>2, <2>3
<1>7. m \in T /\ m <= n
  <2>1. \A j \in T : j \in Nat
    BY <1>1
  <2> HIDE DEF T
  <2> QED
    BY <1>6, <2>1, MinOfNumbers
<1> HIDE DEF m
<1>8. last # dummyId /\ last \in NodeIds
  <2>1. m \in 0 .. list.size /\ i + m \in 1 .. Len(s) /\ i + m \in Int
    BY <1>1, <1>7
  <2>2. last = At(s, i + m)
    BY <1>2, <2>1
  <2> QED
    BY <1>1, <2>1, <2>2, AtType
<1>9. ValidInsertPosition(list, x, last, list.nodes[last].nextId)
  BY <1>7, <1>8
<1> HIDE DEF last
<1>10. list.nodes[last].nextId \in NodeIds
  BY <1>1, <1>8, FieldsOf DEF Node
<1> QED
  BY <1>3, <1>8, <1>9, <1>10 DEF IsPosition

LEMMA AscentFinds ==
  ASSUME nicr \in [CdpIds -> NICRs], NEW list, NEW s, Represents(list, s), NEW x \in NICRs,
         NEW i \in 1 .. Len(s), x >= NICR(s[i]), ~(list.tail = s[i] /\ x <= NICR(s[i]))
  PROVE  IsPosition(list, x, AscendList(list, x, s[i]))
<1> DEFINE node == Ascent(list, s[i])
           Stops(n) == \/ node[n] = dummyId
                       \/ ValidInsertPosition(list, x, list.nodes[node[n]].prevId, node[n])
           T == {n \in 0 .. list.size : Stops(n)}
           m == Min(T)
           last == node[m]
<1>1. /\ s \in Seq(CdpIds) /\ Len(s) \in Nat /\ list.size = Len(s) /\ list \in Lists
      /\ i \in Int /\ 1 <= i /\ i <= Len(s) /\ x \in Nat /\ At(s, i) = s[i]
      /\ \A id \in NodeIds : NICR(id) \in Nat
  <2>1. s \in Seq(CdpIds) /\ Len(s) \in Nat /\ list.size = Len(s) /\ list \in Lists
    BY DEF Represents, Lists
  <2>2. x \in Nat /\ \A id \in NodeIds : NICR(id) \in Nat
    BY NICRType, DummyIsNoCdp
  <2>3. At(s, i) = s[i]
    BY DEF At
  <2> QED
    BY <2>1, <2>2, <2>3
<1>2. \A n \in 0 .. list.size : node[n] = At(s, i - n)
  BY AscentFrom
<1>3. AscendList(list, x, s[i]) = <<list.nodes[last].prevId, last>>
  BY DEF AscendList
<1> HIDE DEF node
<1>4. PICK n \in 0 .. i - 1 : FitsAt(s, i - n - 1, x)
  BY WayUp
<1>5. /\ n \in 0 .. list.size /\ i - n - 1 \in 0 .. Len(s) /\ i - n \in Int /\ i - n <= Len(s)
      /\ i - n - 1 + 1 = i - n
  BY <1>1
<1>6. n \in T
  <2>1. node[n] = At(s, i - n)
    BY <1>2, <1>5
  <2>2. list.nodes[At(s, i - n)].prevId = At(s, i - n - 1)
    BY <1>5, PrevOf
  <2>3. ValidInsertPosition(list, x, At(s, i - n - 1), At(s, i - n))
    <3> DEFINE k == i - n - 1
    <3>1. k \in 0 .. Len(s) /\ FitsAt(s, k, x) /\ k + 1 = i - n
      BY <1>4, <1>5
    <3> HIDE DEF k
    <3>2. ValidInsertPosition(list, x, At(s, k), At(s, k + 1))
      BY <1>1, <3>1, ValidFrom
    <3> QED
      BY <3>1, <3>2 DEF k
  <2> QED
    BY <1>5, <2>1, <2>2, <2>3
<1>7. m \in T /\ m <= n
  <2>1. \A j \in T : j \in Nat
    BY <1>1
  <2> HIDE DEF T
  <2> QED
    BY <1>6, <2>1, MinOfNumbers
<1> HIDE DEF m
<1>8. last # dummyId /\ last \in NodeIds
  <2>1. m \in 0 .. list.size /\ i - m \in 1 .. Len(s) /\ i - m \in Int
    BY <1>1, <1>7
  <2>2. last = At(s, i - m)
    BY <1>2, <2>1
  <2> QED
    BY <1>1, <2>1, <2>2, AtType
<1>9. ValidInsertPosition(list, x, list.nodes[last].prevId, last)
  BY <1>7, <1>8
<1> HIDE DEF last
<1>10. list.nodes[last].prevId \in NodeIds
  BY <1>1, <1>8, FieldsOf DEF Node
<1> QED
  BY <1>3, <1>8, <1>9, <1>10 DEF IsPosition

LEMMA DescentFromHead ==
  ASSUME nicr \in [CdpIds -> NICRs], NEW list, NEW s, Represents(list, s), NEW x \in NICRs
  PROVE  IsPosition(list, x, DescendList(list, x, list.head))
<1>1. /\ s \in Seq(CdpIds) /\ Len(s) \in Nat /\ list.size = Len(s) /\ list \in Lists
      /\ list.head = At(s, 1) /\ x \in Nat /\ list.head \in NodeIds
      /\ \A id \in NodeIds : NICR(id) \in Nat
      /\ ~(x >= NICR(dummyId))
  BY NICRType, DummyIsNoCdp DEF Represents, Lists
<1>2. CASE x >= NICR(list.head)
  <2>1. DescendList(list, x, list.head) = <<dummyId, list.head>> /\ list.head # dummyId
    BY <1>1, <1>2 DEF DescendList
  <2>2. ValidInsertPosition(list, x, dummyId, list.head)
    BY <1>2, <2>1 DEF ValidInsertPosition
  <2> QED
    BY <1>1, <2>1, <2>2, DummyIsNoCdp DEF IsPosition
<1>3. CASE ~(x >= NICR(list.head)) /\ Len(s) # 0
  <2>1. 1 \in 1 .. Len(s) /\ list.head = s[1] /\ x <= NICR(s[1])
    BY <1>1, <1>3 DEF At
  <2> QED
    BY <1>3, <2>1, DescentFinds
<1>4. CASE Len(s) = 0
  <2> DEFINE node == Descent(list, list.head)
             Stops(n) == \/ node[n] = dummyId
                         \/ ValidInsertPosition(list, x, node[n], list.nodes[node[n]].nextId)
             T == {n \in 0 .. list.size : Stops(n)}
             m == Min(T)
  <2>1. node = [n \in 0 .. list.size |-> At(s, 1 + n)]
    BY <1>1, DescentIs
  <2>2. list.head = dummyId
    BY <1>1, <1>4 DEF At
  <2>3. DescendList(list, x, list.head) = <<node[m], list.nodes[node[m]].nextId>>
    BY <1>1, <2>2 DEF DescendList
  <2> HIDE DEF node
  <2>4. node[0] = dummyId
    BY <1>1, <1>4, <2>1 DEF At
  <2>5. 0 \in T /\ \A j \in T : j \in Nat /\ j = 0
    BY <1>1, <1>4, <2>4
  <2>6. m = 0
    <3> HIDE DEF T
    <3> QED
      BY <2>5, MinOfNumbers
  <2> HIDE DEF m
  <2>7. list.nodes[dummyId].nextId = dummyId
    BY <1>1, <1>4, DummyIsNoCdp DEF Represents, BlankNode
  <2>8. DescendList(list, x, list.head) = <<dummyId, dummyId>>
    BY <2>3, <2>4, <2>6, <2>7
  <2>9. ValidInsertPosition(list, x, dummyId, dummyId)
    BY <1>1, <1>4 DEF ValidInsertPosition
  <2> QED
    BY <2>8, <2>9, DummyIsNoCdp DEF IsPosition
<1> QED
  BY <1>2, <1>3, <1>4

LEMMA FindIsPosition ==
  ASSUME nicr \in [CdpIds -> NICRs], NEW list, NEW s, Represents(list, s), NEW x \in NICRs,
         NEW prevHint \in NodeIds, NEW nextHint \in NodeIds
  PROVE  IsPosition(list, x, FindInsertPosition(list, x, prevHint, nextHint))
<1>1. CASE Contains(list, prevHint) /\ x <= NICR(prevHint)
  <2>1. PICK i \in 1 .. Len(s) : s[i] = prevHint
    BY <1>1, ContainsIs
  <2>2. prevHint # dummyId
    BY <1>1 DEF Contains
  <2>3. FindInsertPosition(list, x, prevHint, nextHint) = DescendList(list, x, prevHint)
    BY <1>1, <2>2 DEF FindInsertPosition
  <2>4. CASE list.head = prevHint
    BY <2>3, <2>4, DescentFromHead
  <2>5. CASE list.head # prevHint
    BY <1>1, <2>1, <2>3, <2>5, DescentFinds
  <2> QED
    BY <2>4, <2>5
<1>2. CASE /\ ~(Contains(list, prevHint) /\ x <= NICR(prevHint))
           /\ ~(Contains(list, nextHint) /\ x >= NICR(nextHint))
  <2>1. FindInsertPosition(list, x, prevHint, nextHint) = DescendList(list, x, list.head)
    BY <1>2 DEF FindInsertPosition
  <2> QED
    BY <2>1, DescentFromHead
<1>3. CASE /\ ~(Contains(list, prevHint) /\ x <= NICR(prevHint))
           /\ Contains(list, nextHint) /\ x >= NICR(nextHint)
  <2>1. PICK i \in 1 .. Len(s) : s[i] = nextHint
    BY <1>3, ContainsIs
  <2>2. nextHint # dummyId
    BY <1>3 DEF Contains
  <2>3. FindInsertPosition(list, x, prevHint, nextHint) = AscendList(list, x, nextHint)
    BY <1>3, <2>2 DEF FindInsertPosition
  <2>4. CASE list.tail = nextHint /\ x <= NICR(nextHint)
    <3>1. AscendList(list, x, nextHint) = <<nextHint, dummyId>>
      BY <2>4 DEF AscendList
    <3>2. ValidInsertPosition(list, x, nextHint, dummyId)
      BY <2>2, <2>4 DEF ValidInsertPosition
    <3> QED
      BY <2>3, <3>1, <3>2, DummyIsNoCdp DEF IsPosition
  <2>5. CASE ~(list.tail = nextHint /\ x <= NICR(nextHint))
    BY <1>3, <2>1, <2>3, <2>5, AscentFinds
  <2> QED
    BY <2>4, <2>5
<1> QED
  BY <1>1, <1>2, <1>3

LEMMA InsertPositionIs ==
  ASSUME nicr \in [CdpIds -> NICRs], NEW list, NEW s, Represents(list, s), NEW x \in NICRs,
         NEW prevHint \in NodeIds, NEW nextHint \in NodeIds
  PROVE  \E k \in 0 .. Len(s) :
           /\ InsertPosition(list, x, prevHint, nextHint)[1] = At(s, k)
           /\ InsertPosition(list, x, prevHint, nextHint)[2] = At(s, k + 1)
           /\ FitsAt(s, k, x)
<1> DEFINE position == InsertPosition(list, x, prevHint, nextHint)
<1>1. IsPosition(list, x, position)
  <2>1. CASE ValidInsertPosition(list, x, prevHint, nextHint)
    BY <2>1 DEF InsertPosition, IsPosition
  <2>2. CASE ~ValidInsertPosition(list, x, prevHint, nextHint)
    BY <2>2, FindIsPosition DEF InsertPosition
  <2> QED
    BY <2>1, <2>2
<1> HIDE DEF position
<1>2. /\ position[1] \in NodeIds /\ position[2] \in NodeIds
      /\ ValidInsertPosition(list, x, position[1], position[2])
  BY <1>1 DEF IsPosition
<1>3. \E k \in 0 .. Len(s) : /\ position[1] = At(s, k) /\ position[2] = At(s, k + 1)
                             /\ FitsAt(s, k, x)
  BY <1>2, ValidIs
<1> QED
  BY <1>3 DEF position

LEMMA CutOne ==
  ASSUME NEW s \in Seq(CdpIds), NEW a \in 1 .. Len(s)
  PROVE  Cut(s, a, a) \in Seq(CdpIds) /\ Len(Cut(s, a, a)) = Len(s) - 1
<1>1. a \in a .. Len(s) /\ a - a + 1 = 1
  OBVIOUS
<1>2. \A b : b \in a .. Len(s) => /\ Cut(s, a, b) \in Seq(CdpIds)
                                  /\ Len(Cut(s, a, b)) = Len(s) - (b - a + 1)
  BY CutFacts
<1>3. Cut(s, a, a) \in Seq(CdpIds) /\ Len(Cut(s, a, a)) = Len(s) - (a - a + 1)
  BY <1>1, <1>2
<1> QED
  BY <1>1, <1>3

\* A walk from an id off the list is over at once.
LEMMA DescentOffList ==
  ASSUME NEW list, NEW s, Represents(list, s), NEW id \in CdpIds, ~Contains(list, id)
  PROVE  Descent(list, id)[0] = id
<1> DEFINE f == [n \in 0 .. list.size |-> IF n = 0 THEN id ELSE dummyId]
<1>1. list.size \in Nat /\ s \in Seq(CdpIds) /\ Len(s) \in Nat
  BY DEF Represents
<1>2. list.nodes[id] = BlankNode /\ list.nodes[dummyId] = BlankNode
  <2>1. \A i \in 1 .. Len(s) : s[i] # id /\ s[i] # dummyId
    BY <1>1, ContainsIs, DummyIsNoCdp
  <2> QED
    BY <2>1, DummyIsNoCdp DEF Represents
<1>3. \A n \in 0 .. list.size : f[n] = IF n = 0 THEN id ELSE list.nodes[f[n - 1]].nextId
  <2> TAKE n \in 0 .. list.size
  <2>1. CASE n = 0
    BY <2>1
  <2>2. CASE n # 0
    <3>1. n - 1 \in 0 .. list.size /\ f[n] = dummyId
      BY <1>1, <2>2
    <3>2. f[n - 1] = id \/ f[n - 1] = dummyId
      BY <3>1
    <3> QED
      BY <1>2, <2>2, <3>1, <3>2 DEF BlankNode
  <2> QED
    BY <2>1, <2>2
<1>4. f = [n \in 0 .. list.size |-> IF n = 0 THEN id ELSE list.nodes[f[n - 1]].nextId]
  <2>1. f = [n \in 0 .. list.size |-> f[n]]
    OBVIOUS
  <2> HIDE DEF f
  <2> QED
    BY <1>3, <2>1
<1>5. f[0] = id
  BY <1>1
<1> HIDE DEF f
<1>6. Descent(list, id) = f
  BY <1>1, <1>4, DescentIsUnique
<1> QED
  BY <1>5, <1>6

(* --- What each operation makes of the sequence ------------------------- *)

LEMMA BecomesIs ==
  ASSUME NEW list, NEW s, Represents(list, s), Becomes(list)
  PROVE  List' = list /\ Listed' = s
<1>1. list \in Lists
  BY DEF Represents, Lists
<1>2. List' = ListRec(list.head, list.tail, list.size, list.nodes)
  BY DEF Becomes, List, ListRec
<1>3. list = ListRec(list.head, list.tail, list.size, list.nodes)
  BY <1>1 DEF Lists, ListRec
<1>4. List' = list
  BY <1>2, <1>3
<1>5. OrderOf(list) = s
  BY OrderIs
<1> QED
  BY <1>4, <1>5, ListedAfterIsOrder

LEMMA InvariantFrom ==
  ASSUME NEW list, NEW s, Represents(list, s), Becomes(list), list.size <= maxSize,
         nextCdpNonce' \in Nat \ {0}, nicr' \in [CdpIds -> NICRs]
  PROVE  SortedInv' /\ Listed' = s
<1>1. List' = list /\ Listed' = s
  BY BecomesIs
<1>2. list \in [head : NodeIds, tail : NodeIds, size : Nat, nodes : [NodeIds -> Node]]
  BY DEF Represents
<1>3. maxSize \in Nat
  BY SortedCdpsAssumption
<1>4. TypeOK'
  BY <1>2, <1>3 DEF TypeOK, Becomes
<1>5. Represents(List', Listed')
  BY <1>1
<1>6. Represents(List, Listed)'
  BY <1>5 DEF Represents, At
<1> QED
  BY <1>1, <1>4, <1>6 DEF SortedInv

LEMMA InvariantSays ==
  ASSUME SortedInv
  PROVE  /\ Represents(List, Listed) /\ Listed \in Seq(CdpIds) /\ Len(Listed) \in Nat
         /\ List.size = Len(Listed) /\ size = Len(Listed) /\ size \in Nat /\ size <= maxSize
         /\ maxSize \in Nat /\ nicr \in [CdpIds -> NICRs] /\ nextCdpNonce \in Nat \ {0}
         /\ List.nodes = nodes
<1>1. Represents(List, Listed) /\ TypeOK
  BY DEF SortedInv
<1>2. List.size = size /\ List.nodes = nodes
  BY DEF List
<1>3. Listed \in Seq(CdpIds) /\ Len(Listed) \in Nat /\ List.size = Len(Listed)
  BY <1>1 DEF Represents
<1> QED
  BY <1>1, <1>2, <1>3, SortedCdpsAssumption DEF TypeOK

LEMMA InsertedIs ==
  ASSUME nicr \in [CdpIds -> NICRs], NEW list, NEW s, Represents(list, s), NEW x \in NICRs,
         NEW prevHint \in NodeIds, NEW nextHint \in NodeIds, NEW id \in CdpIds,
         ~Contains(list, id)
  PROVE  \E k \in 0 .. Len(s) :
           /\ FitsAt(s, k, x)
           /\ Represents(Inserted(list, id, x, prevHint, nextHint), Put(s, k, id))
<1>1. \A i \in 1 .. Len(s) : s[i] # id
  BY ContainsIs, DummyIsNoCdp
<1>2. PICK k \in 0 .. Len(s) :
        /\ InsertPosition(list, x, prevHint, nextHint)[1] = At(s, k)
        /\ InsertPosition(list, x, prevHint, nextHint)[2] = At(s, k + 1)
        /\ FitsAt(s, k, x)
  BY InsertPositionIs
<1>3. Inserted(list, id, x, prevHint, nextHint) = Linked(list, id, At(s, k), At(s, k + 1))
  BY <1>2 DEF Inserted
<1>4. Represents(Linked(list, id, At(s, k), At(s, k + 1)), Put(s, k, id))
  BY <1>1, LinkedRepresents
<1> QED
  BY <1>2, <1>3, <1>4

LEMMA InsertStep ==
  ASSUME SortedInv, NEW x \in NICRs, NEW prevHint \in NodeIds, NEW nextHint \in NodeIds,
         Insert(x, prevHint, nextHint)
  PROVE  /\ SortedInv'
         /\ \A i \in 1 .. Len(Listed) : Listed[i] # nextCdpNonce
         /\ \E k \in 0 .. Len(Listed) : /\ FitsAt(Listed, k, x)
                                        /\ Listed' = Put(Listed, k, nextCdpNonce)
<1> DEFINE id == nextCdpNonce
           s == Listed
           list == List
           new == Inserted(list, id, x, prevHint, nextHint)
<1>1. /\ Represents(list, s) /\ s \in Seq(CdpIds) /\ Len(s) \in Nat
      /\ list.size = Len(s) /\ Len(s) <= maxSize /\ maxSize \in Nat
      /\ nicr \in [CdpIds -> NICRs] /\ nextCdpNonce \in Nat \ {0}
  BY InvariantSays
<1>2. /\ id \in CdpIds /\ ~IsFull(list) /\ ~Contains(list, id) /\ Becomes(new)
      /\ nextCdpNonce' = nextCdpNonce + 1 /\ nicr' = [nicr EXCEPT ![id] = x]
  BY DEF Insert, MayInsert
<1>3. nextCdpNonce' \in Nat \ {0} /\ nicr' \in [CdpIds -> NICRs]
  BY <1>1, <1>2
<1> HIDE DEF s, list, id
<1>4. PICK k \in 0 .. Len(s) : FitsAt(s, k, x) /\ Represents(new, Put(s, k, id))
  BY <1>1, <1>2, InsertedIs
<1>5. Len(Put(s, k, id)) = Len(s) + 1
  BY <1>1, <1>2, PutFacts
<1>6. new.size = Len(s) + 1
  BY <1>4, <1>5 DEF Represents
<1>7. new.size <= maxSize
  BY <1>1, <1>2, <1>6 DEF IsFull
<1>8. \A i \in 1 .. Len(s) : s[i] # id
  BY <1>1, <1>2, ContainsIs, DummyIsNoCdp
<1> HIDE DEF new
<1>9. SortedInv' /\ Listed' = Put(s, k, id)
  BY <1>2, <1>3, <1>4, <1>7, InvariantFrom
<1> QED
  BY <1>4, <1>8, <1>9 DEF s, id

LEMMA RemoveStep ==
  ASSUME SortedInv, NEW id \in CdpIds, Remove(id)
  PROVE  /\ SortedInv'
         /\ \E a \in 1 .. Len(Listed) : Listed[a] = id /\ Listed' = Cut(Listed, a, a)
<1> DEFINE s == Listed
           list == List
           new == Unlinked(list, id)
<1>1. /\ Represents(list, s) /\ s \in Seq(CdpIds) /\ Len(s) \in Nat
      /\ list.size = Len(s) /\ Len(s) <= maxSize /\ maxSize \in Nat
      /\ nicr \in [CdpIds -> NICRs] /\ nextCdpNonce \in Nat \ {0}
  BY InvariantSays
<1>2. Contains(list, id) /\ Becomes(new) /\ nextCdpNonce' = nextCdpNonce /\ nicr' = nicr
  BY DEF Remove
<1> HIDE DEF s, list
<1>3. PICK a \in 1 .. Len(s) : s[a] = id
  BY <1>1, <1>2, ContainsIs, DummyIsNoCdp
<1>4. Represents(new, Cut(s, a, a))
  BY <1>1, <1>3, UnlinkedRepresents
<1>5. new.size <= maxSize
  <2>1. Len(Cut(s, a, a)) = Len(s) - 1
    BY <1>1, CutOne
  <2>2. new.size = Len(Cut(s, a, a))
    BY <1>4 DEF Represents
  <2> QED
    BY <1>1, <2>1, <2>2
<1> HIDE DEF new
<1>6. SortedInv' /\ Listed' = Cut(s, a, a)
  BY <1>1, <1>2, <1>4, <1>5, InvariantFrom
<1> QED
  BY <1>3, <1>6 DEF s

LEMMA ReInsertStep ==
  ASSUME SortedInv, NEW id \in CdpIds, NEW x \in NICRs,
         NEW prevHint \in NodeIds, NEW nextHint \in NodeIds, ReInsert(id, x, prevHint, nextHint)
  PROVE  /\ SortedInv'
         /\ \E a \in 1 .. Len(Listed) : \E k \in 0 .. Len(Cut(Listed, a, a)) :
              /\ Listed[a] = id
              /\ FitsAt(Cut(Listed, a, a), k, x)
              /\ Listed' = Put(Cut(Listed, a, a), k, id)
<1> DEFINE s == Listed
           list == List
           rest == Unlinked(list, id)
           new == Inserted(rest, id, x, prevHint, nextHint)
<1>1. /\ Represents(list, s) /\ s \in Seq(CdpIds) /\ Len(s) \in Nat
      /\ list.size = Len(s) /\ Len(s) <= maxSize /\ maxSize \in Nat
      /\ nicr \in [CdpIds -> NICRs] /\ nextCdpNonce \in Nat \ {0}
  BY InvariantSays
<1>2. /\ Contains(list, id) /\ ~Contains(rest, id) /\ Becomes(new)
      /\ nextCdpNonce' = nextCdpNonce /\ nicr' = [nicr EXCEPT ![id] = x]
  BY DEF ReInsert, MayInsert
<1>3. nextCdpNonce' \in Nat \ {0} /\ nicr' \in [CdpIds -> NICRs]
  BY <1>1, <1>2
<1> HIDE DEF s, list
<1>4. PICK a \in 1 .. Len(s) : s[a] = id
  BY <1>1, <1>2, ContainsIs, DummyIsNoCdp
<1> DEFINE t == Cut(s, a, a)
<1>5. Represents(rest, t)
  BY <1>1, <1>4, UnlinkedRepresents
<1>6. t \in Seq(CdpIds) /\ Len(t) \in Nat /\ Len(t) + 1 = Len(s)
  <2>1. t \in Seq(CdpIds) /\ Len(t) = Len(s) - 1
    BY <1>1, CutOne
  <2> HIDE DEF t
  <2> QED
    BY <1>1, <2>1
<1> HIDE DEF rest, t
<1>7. PICK k \in 0 .. Len(t) : FitsAt(t, k, x) /\ Represents(new, Put(t, k, id))
  BY <1>1, <1>2, <1>5, InsertedIs
<1>8. new.size <= maxSize
  <2>1. Len(Put(t, k, id)) = Len(t) + 1
    BY <1>6, PutFacts
  <2>2. new.size = Len(Put(t, k, id))
    BY <1>7 DEF Represents
  <2> QED
    BY <1>1, <1>6, <2>1, <2>2
<1> HIDE DEF new
<1>9. SortedInv' /\ Listed' = Put(t, k, id)
  BY <1>2, <1>3, <1>7, <1>8, InvariantFrom
<1> QED
  BY <1>4, <1>7, <1>9 DEF s, t

LEMMA BatchStep ==
  ASSUME SortedInv, NEW firstId \in CdpIds, NEW count \in 2 .. size, BatchRemove(firstId, count)
  PROVE  /\ SortedInv' /\ nicr' = nicr
         /\ \E a, b \in 1 .. Len(Listed) : /\ a < b /\ b - a + 1 < Len(Listed)
                                           /\ Listed' = Cut(Listed, a, b)
<1> DEFINE s == Listed
           list == List
           node == Descent(list, firstId)
           ids == {node[n] : n \in 0 .. count - 1}
           lastId == node[count - 1]
           new == Orphaned(list, ids, firstId, lastId)
<1>1. /\ Represents(list, s) /\ s \in Seq(CdpIds) /\ Len(s) \in Nat
      /\ list.size = Len(s) /\ Len(s) <= maxSize /\ maxSize \in Nat /\ size = Len(s)
      /\ nicr \in [CdpIds -> NICRs] /\ nextCdpNonce \in Nat \ {0} /\ list.nodes = nodes
  BY InvariantSays
<1>2. /\ dummyId \notin ids
      /\ nodes[firstId].prevId # dummyId \/ nodes[lastId].nextId # dummyId
      /\ \A id \in ids : Contains(list, id)
      /\ Becomes(new) /\ nextCdpNonce' = nextCdpNonce /\ nicr' = nicr
  BY DEF BatchRemove
<1>3. count \in Nat /\ 2 <= count /\ count <= Len(s) /\ count - 1 \in Nat /\ 0 \in 0 .. count - 1
  BY <1>1
<1> HIDE DEF s, list
<1>4. Contains(list, firstId)
  <2> SUFFICES ASSUME ~Contains(list, firstId) PROVE FALSE
    OBVIOUS
  <2>1. node[0] = firstId
    BY <1>1, DescentOffList
  <2> HIDE DEF node
  <2>2. firstId \in ids
    BY <1>3, <2>1
  <2> QED
    BY <1>2, <2>2
<1>5. PICK a \in 1 .. Len(s) : s[a] = firstId
  BY <1>1, <1>4, ContainsIs, DummyIsNoCdp
<1>6. \A n \in 0 .. list.size : node[n] = At(s, a + n)
  <2>1. \A n \in 0 .. list.size : Descent(list, s[a])[n] = At(s, a + n)
    <3>1. a \in 1 .. Len(s) /\ Represents(list, s)
      BY <1>1, <1>5
    <3> QED
      BY <3>1, DescentFrom
  <2>2. node = Descent(list, s[a])
    BY <1>5
  <2> QED
    BY <2>1, <2>2
<1> HIDE DEF node
<1> DEFINE b == a + (count - 1)
<1>7. lastId = At(s, b) /\ lastId \in ids
  BY <1>1, <1>3, <1>6
<1>8. a \in Int /\ 1 <= a /\ b \in Int /\ a < b /\ b - a + 1 = count
  BY <1>1, <1>3
<1>9. b \in 1 .. Len(s) /\ lastId = s[b]
  BY <1>1, <1>2, <1>7, <1>8, AtType
<1>10. \A id : id \in ids <=> \E i \in a .. b : s[i] = id
  <2>1. \A n \in 0 .. count - 1 : a + n \in a .. b /\ node[n] = s[a + n]
    <3> TAKE n \in 0 .. count - 1
    <3>1. n \in 0 .. list.size
      BY <1>1, <1>3
    <3>2. a + n \in a .. b
      BY <1>3, <1>8
    <3>3. a + n \in 1 .. Len(s)
      BY <1>8, <1>9, <3>2
    <3>4. node[n] = At(s, a + n)
      BY <1>6, <3>1
    <3> QED
      BY <3>2, <3>3, <3>4 DEF At
  <2>2. \A i \in a .. b : i - a \in 0 .. count - 1 /\ a + (i - a) = i
    BY <1>3, <1>8
  <2> HIDE DEF b
  <2>3. ASSUME NEW id, id \in ids PROVE \E i \in a .. b : s[i] = id
    BY <2>1, <2>3
  <2>4. ASSUME NEW i \in a .. b PROVE s[i] \in ids
    <3> DEFINE n == i - a
    <3>1. n \in 0 .. count - 1 /\ a + n = i
      BY <2>2
    <3> HIDE DEF n
    <3> QED
      BY <2>1, <3>1
  <2> QED
    BY <2>3, <2>4
<1>11. count < Len(s)
  <2>1. nodes[firstId].prevId = At(s, a - 1)
    <3>1. list.nodes[s[a]] = [nextId |-> At(s, a + 1), prevId |-> At(s, a - 1)]
      BY <1>1 DEF Represents
    <3> QED
      BY <1>1, <1>5, <3>1
  <2>2. nodes[lastId].nextId = At(s, b + 1)
    <3> HIDE DEF b
    <3>1. list.nodes[s[b]] = [nextId |-> At(s, b + 1), prevId |-> At(s, b - 1)]
      BY <1>1, <1>9 DEF Represents
    <3> QED
      BY <1>1, <1>9, <3>1
  <2>3. ~(a = 1 /\ b = Len(s))
    <3> SUFFICES ASSUME a = 1, b = Len(s) PROVE FALSE
      OBVIOUS
    <3>1. At(s, a - 1) = dummyId /\ At(s, b + 1) = dummyId
      BY <1>1 DEF At
    <3> QED
      BY <1>2, <2>1, <2>2, <3>1
  <2> QED
    BY <1>1, <1>8, <1>9, <2>3
<1> HIDE DEF b, ids, lastId
<1>12. b \in a .. Len(s)
  BY <1>8, <1>9
<1>13. Represents(new, Cut(s, a, b))
  BY <1>1, <1>5, <1>9, <1>10, <1>12, OrphanedRepresents
<1>14. new.size <= maxSize
  <2>1. Len(Cut(s, a, b)) = Len(s) - (b - a + 1)
    BY <1>1, <1>12, CutFacts
  <2>2. new.size = Len(Cut(s, a, b))
    BY <1>13 DEF Represents
  <2> QED
    BY <1>1, <1>3, <1>8, <2>1, <2>2
<1> HIDE DEF new
<1>15. SortedInv' /\ Listed' = Cut(s, a, b)
  BY <1>1, <1>2, <1>13, <1>14, InvariantFrom
<1> QED
  BY <1>2, <1>8, <1>9, <1>11, <1>15 DEF s

(* --- The invariant, and the sequence it implements --------------------- *)

LEMMA InitIs == Init => SortedInv /\ Listed = <<>>
<1> SUFFICES ASSUME Init PROVE SortedInv /\ Listed = <<>>
  OBVIOUS
<1> DEFINE s == <<>>
<1>1. /\ maxSize \in Nat /\ BlankNode \in Node /\ dummyId \in NodeIds
      /\ BlankNode = [nextId |-> dummyId, prevId |-> dummyId]
  BY SortedCdpsAssumption, DummyIsNoCdp DEF BlankNode, Node
<1>2. List = [head |-> dummyId, tail |-> dummyId, nodes |-> [n \in NodeIds |-> BlankNode], size |-> 0]
  BY DEF Init, List
<1>3. s \in Seq(CdpIds) /\ Len(s) = 0 /\ \A i : i \notin 1 .. Len(s) /\ At(s, i) = dummyId
  BY DEF At
<1>4. List \in [head : NodeIds, tail : NodeIds, size : Nat, nodes : [NodeIds -> Node]]
  BY <1>1, <1>2
<1> HIDE DEF s
<1>5. Represents(List, s)
  BY <1>2, <1>3, <1>4 DEF Represents
<1>6. Listed = s
  BY <1>5, OrderIs, ListedIsOrder
<1>7. TypeOK
  BY <1>1 DEF Init, TypeOK
<1> QED
  BY <1>5, <1>6, <1>7 DEF SortedInv, s

LEMMA ListStays ==
  ASSUME SortedInv, UNCHANGED <<head, tail, size, nodes, nextCdpNonce>>,
         nicr' \in [CdpIds -> NICRs]
  PROVE  SortedInv' /\ Listed' = Listed
<1>1. /\ Represents(List, Listed) /\ List.size <= maxSize /\ nextCdpNonce \in Nat \ {0}
  BY InvariantSays
<1>2. Becomes(List) /\ nextCdpNonce' \in Nat \ {0}
  BY <1>1 DEF Becomes, List
<1> HIDE DEF List, Listed
<1>3. \A list, s : (list = List /\ s = Listed) => SortedInv' /\ Listed' = s
  BY <1>1, <1>2, InvariantFrom
<1> QED
  BY <1>3

LEMMA SortedStep == SortedInv /\ [Next]_vars => SortedInv'
<1> SUFFICES ASSUME SortedInv, [Next]_vars PROVE SortedInv'
  OBVIOUS
<1>1. ASSUME NEW x \in NICRs, NEW prevHint \in NodeIds, NEW nextHint \in NodeIds,
             Insert(x, prevHint, nextHint)
      PROVE  SortedInv'
  BY <1>1, InsertStep
<1>2. ASSUME NEW x \in NICRs, NEW prevHint \in NodeIds, NEW nextHint \in NodeIds,
             NEW id \in CdpIds, ReInsert(id, x, prevHint, nextHint)
      PROVE  SortedInv'
  BY <1>2, ReInsertStep
<1>3. ASSUME NEW id \in CdpIds, Remove(id) PROVE SortedInv'
  BY <1>3, RemoveStep
<1>4. ASSUME NEW firstId \in CdpIds, NEW count \in 2 .. size, BatchRemove(firstId, count)
      PROVE  SortedInv'
  BY <1>4, BatchStep
<1>5. nicr \in [CdpIds -> NICRs]
  BY InvariantSays
<1>6. CASE NICRChanges
  <2>1. nicr' \in [CdpIds -> NICRs] /\ UNCHANGED <<head, tail, size, nodes, nextCdpNonce>>
    BY <1>5, <1>6 DEF NICRChanges
  <2> QED
    BY <2>1, ListStays
<1>7. CASE UNCHANGED vars
  <2>1. nicr' \in [CdpIds -> NICRs] /\ UNCHANGED <<head, tail, size, nodes, nextCdpNonce>>
    BY <1>5, <1>7 DEF vars
  <2> QED
    BY <2>1, ListStays
<1> QED
  BY <1>1, <1>2, <1>3, <1>4, <1>6, <1>7 DEF Next

LEMMA SortedAlways == Spec => []SortedInv
<1>1. Init => SortedInv
  BY InitIs
<1> QED
  BY <1>1, SortedStep, PTL DEF Spec

\* The next and the previous links always describe one sequence of `size' ids
\* between head and tail, whatever ids are put in, moved and cut out, singly or in
\* batches, and whatever the hints: SortedCdps._insert, _remove, batchRemove.
THEOREM LinksTheorem == Spec => []LinksAreConsistent
  BY SortedAlways, LinksFollow, PTL

LEMMA SearchFollows == SortedInv => InsertPositionIsFound
<1> SUFFICES ASSUME SortedInv, NEW x \in NICRs, NEW prevHint \in NodeIds, NEW nextHint \in NodeIds
             PROVE  LET position == FindInsertPosition(List, x, prevHint, nextHint)
                    IN  ValidInsertPosition(List, x, position[1], position[2])
  BY DEF InsertPositionIsFound
<1>1. Represents(List, Listed) /\ nicr \in [CdpIds -> NICRs]
  BY InvariantSays
<1> HIDE DEF List, Listed
<1>2. \A list, s : (list = List /\ s = Listed)
                     => IsPosition(list, x, FindInsertPosition(list, x, prevHint, nextHint))
  BY <1>1, FindIsPosition
<1>3. IsPosition(List, x, FindInsertPosition(List, x, prevHint, nextHint))
  BY <1>2
<1> QED
  BY <1>3 DEF IsPosition

\* Whatever the hints, and however far redistributed debt and the fee index have
\* moved the ratios away from the order of the list, the search ends at two
\* neighbours that enclose the new ratio: SortedCdps._findInsertPosition.
THEOREM SearchTheorem == Spec => []InsertPositionIsFound
  BY SortedAlways, SearchFollows, PTL

LEMMA PositionIs ==
  ASSUME NEW s \in Seq(CdpIds), \A i, j \in 1 .. Len(s) : s[i] = s[j] => i = j,
         NEW a \in 1 .. Len(s)
  PROVE  Sequence!Position(s, s[a]) = a
<1>1. \E i \in 1 .. Len(s) : s[i] = s[a]
  OBVIOUS
<1>2. Sequence!Position(s, s[a]) \in 1 .. Len(s) /\ s[Sequence!Position(s, s[a])] = s[a]
  BY <1>1 DEF Sequence!Position
<1> QED
  BY <1>2

LEMMA FitsIs ==
  ASSUME NEW s \in Seq(CdpIds), NEW k \in 0 .. Len(s), NEW x, FitsAt(s, k, x)
  PROVE  Sequence!Fits(s, k, x)
<1>1. k > 0 => At(s, k) = s[k] /\ s[k] # dummyId
  BY DummyIsNoCdp DEF At
<1>2. k < Len(s) => At(s, k + 1) = s[k + 1] /\ s[k + 1] # dummyId
  BY DummyIsNoCdp DEF At
<1> QED
  BY <1>1, <1>2 DEF FitsAt, Sequence!Fits, NICR

LEMMA PutIs ==
  ASSUME NEW s, NEW k \in Int, NEW id
  PROVE  Put(s, k, id) = Sequence!InsertAt(s, k + 1, id)
<1> DEFINE j == k + 1
<1>1. j - 1 = k
  OBVIOUS
<1>2. Put(s, k, id) = SubSeq(s, 1, k) \o <<id>> \o SubSeq(s, j, Len(s))
  BY DEF Put
<1>3. Sequence!InsertAt(s, j, id) = SubSeq(s, 1, j - 1) \o <<id>> \o SubSeq(s, j, Len(s))
  BY DEF Sequence!InsertAt
<1> HIDE DEF j
<1>4. Put(s, k, id) = Sequence!InsertAt(s, j, id)
  BY <1>1, <1>2, <1>3
<1> QED
  BY <1>4 DEF j

LEMMA CutIs == ASSUME NEW s, NEW a PROVE Cut(s, a, a) = Sequence!RemoveAt(s, a)
  BY DEF Cut, Sequence!RemoveAt

LEMMA AbstractStep ==
  SortedInv /\ [Next]_vars => [Sequence!Next]_<<Listed, nicr>>
<1> SUFFICES ASSUME SortedInv, [Next]_vars
             PROVE  Sequence!Next \/ (Listed' = Listed /\ nicr' = nicr)
  OBVIOUS
<1> DEFINE s == Listed
           t == Listed'
<1>1. /\ s \in Seq(CdpIds) /\ Len(s) \in Nat /\ nicr \in [CdpIds -> NICRs]
      /\ \A i, j \in 1 .. Len(s) : s[i] = s[j] => i = j
  BY InvariantSays DEF Represents
<1>2. ASSUME NEW x \in NICRs, NEW prevHint \in NodeIds, NEW nextHint \in NodeIds,
             Insert(x, prevHint, nextHint)
      PROVE  Sequence!Next
  <2> DEFINE id == nextCdpNonce
  <2>1. id \in CdpIds /\ nicr' = [nicr EXCEPT ![id] = x]
    BY <1>2 DEF Insert
  <2>2. PICK k \in 0 .. Len(s) : FitsAt(s, k, x) /\ t = Put(s, k, id)
    BY <1>2, InsertStep
  <2>3. \A i \in 1 .. Len(s) : s[i] # id
    BY <1>2, InsertStep
  <2> HIDE DEF s, t, id
  <2>4. id \notin Sequence!ToSet(s)
    BY <2>3 DEF Sequence!ToSet
  <2>5. Sequence!Fits(s, k, x) /\ t = Sequence!InsertAt(s, k + 1, id)
    BY <1>1, <2>2, FitsIs, PutIs
  <2>6. Sequence!InsertCdp(id, x)
    BY <2>1, <2>4, <2>5 DEF Sequence!InsertCdp, s, t
  <2> QED
    BY <2>1, <2>6 DEF Sequence!Next
<1>3. ASSUME NEW x \in NICRs, NEW prevHint \in NodeIds, NEW nextHint \in NodeIds,
             NEW id \in CdpIds, ReInsert(id, x, prevHint, nextHint)
      PROVE  Sequence!Next
  <2>1. nicr' = [nicr EXCEPT ![id] = x]
    BY <1>3 DEF ReInsert
  <2>2. PICK a \in 1 .. Len(s) : \E k \in 0 .. Len(Cut(s, a, a)) :
          /\ s[a] = id
          /\ FitsAt(Cut(s, a, a), k, x)
          /\ t = Put(Cut(s, a, a), k, id)
    BY <1>3, ReInsertStep
  <2> HIDE DEF s, t
  <2> DEFINE rest == Cut(s, a, a)
  <2>3. PICK k \in 0 .. Len(rest) : s[a] = id /\ FitsAt(rest, k, x) /\ t = Put(rest, k, id)
    BY <2>2
  <2>4. id \in Sequence!ToSet(s) /\ Sequence!Position(s, id) = a
    BY <1>1, <2>3, PositionIs DEF Sequence!ToSet
  <2>5. rest = Sequence!RemoveAt(s, Sequence!Position(s, id))
    BY <2>4, CutIs
  <2>6. rest \in Seq(CdpIds)
    BY <1>1, CutOne
  <2> HIDE DEF rest
  <2>7. Sequence!Fits(rest, k, x) /\ t = Sequence!InsertAt(rest, k + 1, id)
    BY <2>3, <2>6, FitsIs, PutIs
  <2>8. Sequence!ReInsertCdp(id, x)
    BY <2>1, <2>4, <2>5, <2>7 DEF Sequence!ReInsertCdp, s, t
  <2> QED
    BY <2>8 DEF Sequence!Next
<1>4. ASSUME NEW id \in CdpIds, Remove(id) PROVE Sequence!Next
  <2>1. nicr' = nicr
    BY <1>4 DEF Remove
  <2>2. PICK a \in 1 .. Len(s) : s[a] = id /\ t = Cut(s, a, a)
    BY <1>4, RemoveStep
  <2> HIDE DEF s, t
  <2>3. id \in Sequence!ToSet(s) /\ Sequence!Position(s, id) = a
    BY <1>1, <2>2, PositionIs DEF Sequence!ToSet
  <2>4. t = Sequence!RemoveAt(s, Sequence!Position(s, id))
    BY <2>2, <2>3, CutIs
  <2>5. Sequence!RemoveCdp(id)
    BY <2>1, <2>3, <2>4 DEF Sequence!RemoveCdp, s, t
  <2> QED
    BY <2>5 DEF Sequence!Next
<1>5. ASSUME NEW firstId \in CdpIds, NEW count \in 2 .. size, BatchRemove(firstId, count)
      PROVE  Sequence!Next
  <2>1. PICK a \in 1 .. Len(s), b \in 1 .. Len(s) :
          a < b /\ b - a + 1 < Len(s) /\ t = Cut(s, a, b) /\ nicr' = nicr
    BY <1>5, BatchStep
  <2>2. Sequence!RemoveCdps
    BY <2>1 DEF Sequence!RemoveCdps, Cut
  <2> QED
    BY <2>2 DEF Sequence!Next
<1>6. CASE NICRChanges
  <2>1. nicr' \in [CdpIds -> NICRs] /\ UNCHANGED <<head, tail, size, nodes, nextCdpNonce>>
    BY <1>1, <1>6 DEF NICRChanges
  <2>2. Listed' = Listed
    BY <2>1, ListStays
  <2>3. Sequence!NICRChanges
    BY <1>6, <2>2 DEF NICRChanges, Sequence!NICRChanges
  <2> QED
    BY <2>3 DEF Sequence!Next
<1>7. CASE UNCHANGED vars
  <2>1. /\ nicr' \in [CdpIds -> NICRs] /\ UNCHANGED <<head, tail, size, nodes, nextCdpNonce>>
        /\ nicr' = nicr
    BY <1>1, <1>7 DEF vars
  <2> QED
    BY <2>1, ListStays
<1> QED
  BY <1>2, <1>3, <1>4, <1>5, <1>6, <1>7 DEF Next

LEMMA AbstractInit == Init => Sequence!Init
  BY InitIs DEF Init, Sequence!Init

\* The linked list implements the abstract sequence: each operation on the links
\* is one operation on the sequence, an id put between two neighbours whose ratios
\* enclose its own, an id taken out, or a stretch of neighbours that is never the
\* whole list.
THEOREM SequenceTheorem == Spec => ImplementsSequence
<1>1. Init => Sequence!Init
  BY AbstractInit
<1> QED
  BY <1>1, SortedAlways, AbstractStep, PTL DEF Spec, ImplementsSequence, Sequence!Spec

(* --- The views of the list --------------------------------------------- *)

\* The loop over `ids' has collected f[i] of the first i of them.
Collects(f, ids, owned) ==
  /\ f[0] = <<>>
  /\ \A i \in 1 .. Len(ids) :
       f[i] = IF ids[i] \in owned THEN Append(f[i - 1], ids[i]) ELSE f[i - 1]

LEMMA OwnedAmongUnfolds ==
  ASSUME NEW ids, Len(ids) \in Nat, NEW owned
  PROVE  \E f : Collects(f, ids, owned) /\ OwnedAmong(ids, owned) = f[Len(ids)]
<1> DEFINE N == Len(ids)
           Pass(s, i) == IF ids[i] \in owned THEN Append(s, ids[i]) ELSE s
           Solves(f, m) == f = [i \in 0 .. m |-> IF i = 0 THEN <<>> ELSE Pass(f[i - 1], i)]
           T == {m \in 0 .. N : \E f : Solves(f, m)}
<1>0. N \in Nat
  OBVIOUS
<1> HIDE DEF Pass, N
<1>1. Solves([i \in 0 .. 0 |-> <<>>], 0)
  OBVIOUS
<1>2. ASSUME NEW m \in 1 .. N, m - 1 \in T PROVE m \in T
  <2>1. PICK f : Solves(f, m - 1)
    BY <1>2
  <2> DEFINE h == [i \in 0 .. m |-> IF i = m THEN Pass(f[m - 1], m) ELSE f[i]]
             hh == [i \in 0 .. m |-> IF i = 0 THEN <<>> ELSE Pass(h[i - 1], i)]
  <2>2. \A i \in 0 .. m : h[i] = hh[i]
    BY <2>1
  <2>3. Solves(h, m)
    <3> HIDE DEF hh
    <3> QED
      BY <2>2 DEF hh
  <2> HIDE DEF Solves, h
  <2> QED
    BY <2>3, <1>0
<1>3. 0 \in T
  <2> HIDE DEF Solves
  <2> QED
    BY <1>0, <1>1
<1>4. N \in T
  <2> HIDE DEF T
  <2>1. \A n \in 0 .. N : n \in T
    BY <1>0, <1>2, <1>3, IntervalInduction
  <2> QED
    BY <1>0, <2>1
<1> DEFINE g == CHOOSE f : Solves(f, N)
<1>5. Solves(g, N)
  <2>1. \E f : Solves(f, N)
    BY <1>4
  <2> HIDE DEF Solves
  <2> QED
    BY <2>1
<1>6. OwnedAmong(ids, owned) = g[N]
  BY DEF OwnedAmong, Pass, N
<1> HIDE DEF g
<1>7. g[0] = <<>>
  BY <1>0, <1>5
<1>8. ASSUME NEW i \in 1 .. N PROVE g[i] = Pass(g[i - 1], i)
  BY <1>0, <1>5
<1>9. Collects(g, ids, owned)
  BY <1>7, <1>8 DEF Collects, Pass, N
<1> QED
  BY <1>6, <1>9 DEF N

LEMMA CollectedType ==
  ASSUME NEW ids \in Seq(CdpIds), NEW owned, NEW f, Collects(f, ids, owned)
  PROVE  \A i \in 0 .. Len(ids) : f[i] \in Seq(CdpIds) /\ Len(f[i]) \in Nat
<1> DEFINE T == {i \in 0 .. Len(ids) : f[i] \in Seq(CdpIds)}
<1>0. Len(ids) \in Nat
  OBVIOUS
<1>1. 0 \in T
  <2>1. f[0] \in Seq(CdpIds)
    BY DEF Collects
  <2>2. 0 \in 0 .. Len(ids)
    BY <1>0
  <2> QED
    BY <2>1, <2>2
<1>2. ASSUME NEW i \in 1 .. Len(ids), i - 1 \in T PROVE i \in T
  <2>1. f[i - 1] \in Seq(CdpIds) /\ ids[i] \in CdpIds
    BY <1>2
  <2>2. Append(f[i - 1], ids[i]) \in Seq(CdpIds)
    BY <2>1, AppendProperties
  <2>3. f[i] = Append(f[i - 1], ids[i]) \/ f[i] = f[i - 1]
    BY DEF Collects
  <2>4. f[i] \in Seq(CdpIds)
    BY <2>1, <2>2, <2>3, Zenon
  <2> QED
    BY <1>0, <2>4
<1> HIDE DEF T
<1>3. \A i \in 0 .. Len(ids) : i \in T
  BY <1>0, <1>1, <1>2, IntervalInduction
<1> QED
  BY <1>3 DEF T

LEMMA OneMore == ASSUME NEW x \in Nat, NEW y \in Nat PROVE (x + y) + 1 = x + (y + 1)
  OBVIOUS

\* `ids' are those of `all' behind the first a.
IsStretch(ids, all, a) ==
  /\ a \in Nat /\ a + Len(ids) <= Len(all)
  /\ \A i \in 1 .. Len(ids) : ids[i] = all[a + i]

\* Over the n ids behind the first a, f gains as much as g finds in n.
Gains(f, g, a, n) == Len(f[a + n]) = Len(f[a]) + Len(g[n])

\* What a loop finds in a stretch is what a loop over all gains along it.
LEMMA StretchCounts ==
  ASSUME NEW all \in Seq(CdpIds), NEW owned, NEW f, Collects(f, all, owned),
         NEW ids \in Seq(CdpIds), NEW g, Collects(g, ids, owned),
         NEW a, IsStretch(ids, all, a)
  PROVE  Gains(f, g, a, Len(ids))
<1> DEFINE N == Len(ids)
           T == {i \in 0 .. N : Len(f[a + i]) = Len(f[a]) + Len(g[i])}
<1>0. N \in Nat /\ Len(all) \in Nat /\ a \in Nat /\ a + N <= Len(all)
  BY DEF IsStretch
<1>1. \A i \in 0 .. Len(all) : f[i] \in Seq(CdpIds) /\ Len(f[i]) \in Nat
  BY CollectedType
<1>2. \A i \in 0 .. N : g[i] \in Seq(CdpIds) /\ Len(g[i]) \in Nat
  BY CollectedType
<1>3. 0 \in T
  <2>1. Len(g[0]) = 0
    BY DEF Collects
  <2>2. a + 0 = a /\ a \in 0 .. Len(all)
    BY <1>0
  <2>3. Len(f[a]) \in Nat
    BY <1>1, <2>2
  <2>4. Len(f[a + 0]) = Len(f[a]) + Len(g[0])
    BY <2>1, <2>2, <2>3
  <2>5. 0 \in 0 .. N
    BY <1>0
  <2> QED
    BY <2>4, <2>5
<1>4. ASSUME NEW i \in 1 .. N, i - 1 \in T PROVE i \in T
  <2> DEFINE j == i - 1
             k == a + i
             id == ids[i]
  <2>1. /\ k \in 1 .. Len(all) /\ k - 1 = a + j /\ j \in 0 .. N /\ a + j \in 0 .. Len(all)
        /\ a \in 0 .. Len(all)
    BY <1>0
  <2>2. id \in CdpIds /\ all[k] = id
    BY DEF IsStretch
  <2>3. /\ id \in owned => f[k] = Append(f[a + j], id) /\ g[i] = Append(g[j], id)
        /\ id \notin owned => f[k] = f[a + j] /\ g[i] = g[j]
    <3>1. f[k] = IF all[k] \in owned THEN Append(f[k - 1], all[k]) ELSE f[k - 1]
      BY <2>1 DEF Collects
    <3>2. g[i] = IF ids[i] \in owned THEN Append(g[i - 1], ids[i]) ELSE g[i - 1]
      BY DEF Collects
    <3> HIDE DEF k
    <3> QED
      BY <2>1, <2>2, <3>1, <3>2
  <2>4. Len(f[a + j]) = Len(f[a]) + Len(g[j])
    BY <1>4
  <2>5. f[a + j] \in Seq(CdpIds) /\ g[j] \in Seq(CdpIds)
    BY <1>1, <1>2, <2>1
  <2>6. Len(Append(f[a + j], id)) = Len(f[a + j]) + 1 /\ Len(Append(g[j], id)) = Len(g[j]) + 1
    BY <2>2, <2>5, AppendProperties
  <2>7. Len(f[a]) \in Nat /\ Len(g[j]) \in Nat
    BY <1>1, <1>2, <2>1
  <2> HIDE DEF j, k, id
  <2>8. Len(f[k]) = Len(f[a]) + Len(g[i])
    <3>1. CASE id \in owned
      <4>1. Len(f[k]) = Len(f[a + j]) + 1 /\ Len(g[i]) = Len(g[j]) + 1
        BY <2>3, <2>6, <3>1
      <4>2. (Len(f[a]) + Len(g[j])) + 1 = Len(f[a]) + (Len(g[j]) + 1)
        BY <2>7, OneMore
      <4> QED
        BY <2>4, <4>1, <4>2
    <3>2. CASE id \notin owned
      BY <2>3, <2>4, <3>2
    <3> QED
      BY <3>1, <3>2
  <2> QED
    <3>1. Len(f[a + i]) = Len(f[a]) + Len(g[i])
      BY <2>8 DEF k
    <3>2. i \in 0 .. N
      BY <1>0
    <3> QED
      BY <3>1, <3>2
<1> HIDE DEF T
<1>5. \A i \in 0 .. N : i \in T
  BY <1>0, <1>3, <1>4, IntervalInduction
<1>6. N \in T
  BY <1>0, <1>5
<1> QED
  BY <1>6 DEF T, N, Gains

LEMMA ReverseIs ==
  ASSUME NEW s \in Seq(CdpIds)
  PROVE  /\ Seqs!Reverse(s) \in Seq(CdpIds) /\ Len(Seqs!Reverse(s)) = Len(s)
         /\ \A i \in 1 .. Len(s) : Seqs!Reverse(s)[i] = s[Len(s) - i + 1]
<1>1. \A i \in 1 .. Len(s) : Len(s) - i + 1 \in 1 .. Len(s) /\ s[Len(s) - i + 1] \in CdpIds
  OBVIOUS
<1> QED
  BY <1>1 DEF Seqs!Reverse

\* How many ids a walk passes that starts after `a' of them
Steps(a, maxNodes) == IF maxNodes > 0 /\ a + maxNodes < size THEN maxNodes ELSE size - a

\* Where the walk starts that has `a' ids behind it; from the tail it may be told so.
StartsAfter(a, start) ==
  \/ a = 0 /\ start = dummyId
  \/ a < size /\ start = Listed[size - a]

LEMMA WalkIs ==
  ASSUME SortedInv, NEW a \in 0 .. size, NEW maxNodes \in Nat,
         NEW start, StartsAfter(a, start), NEW t, t = Steps(a, maxNodes)
  PROVE  /\ Walk(start, maxNodes).ids \in Seq(CdpIds) /\ Len(Walk(start, maxNodes).ids) = t
         /\ \A i \in 1 .. t : Walk(start, maxNodes).ids[i] = Listed[size - (a + i) + 1]
         /\ Walk(start, maxNodes).next = At(Listed, size - (a + t))
<1> DEFINE s == Listed
           first == IF start = dummyId THEN tail ELSE start
           node == Ascent(List, first)
           Stops(n) == node[n] = dummyId \/ (maxNodes > 0 /\ n >= maxNodes)
           T == {n \in 0 .. size : Stops(n)}
<1>1. /\ Represents(List, s) /\ s \in Seq(CdpIds) /\ Len(s) = size /\ size \in Nat
      /\ List.size = size
  BY InvariantSays
<1>2. List.tail = tail
  BY DEF List
<1> HIDE DEF s
<1>3. first = At(s, size - a)
  <2>1. CASE a = 0 /\ start = dummyId
    BY <1>1, <1>2, <2>1 DEF Represents
  <2>2. CASE a < size /\ start = Listed[size - a]
    <3>1. size - a \in 1 .. size
      BY <1>1, <2>2
    <3>2. s[size - a] \in CdpIds /\ start = s[size - a]
      BY <1>1, <2>2, <3>1 DEF s
    <3>3. At(s, size - a) = start
      BY <1>1, <3>1, <3>2 DEF At
    <3> QED
      BY <3>2, <3>3, DummyIsNoCdp
  <2> QED
    BY <2>1, <2>2 DEF StartsAfter
<1>4. \A n \in 0 .. size : node[n] = At(s, (size - a) - n)
  <2>1. size - a \in Int /\ size - a <= Len(s)
    BY <1>1
  <2> DEFINE i == size - a
  <2> HIDE DEF i
  <2>2. i \in Int /\ i <= Len(s)
    BY <2>1 DEF i
  <2>3. Ascent(List, At(s, i)) = PlacesUp(List, s, i)
    BY <1>1, <2>2, AscentPlaces
  <2>4. node = PlacesUp(List, s, i)
    BY <1>3, <2>3 DEF i
  <2> HIDE DEF node
  <2>5. \A n \in 0 .. size : node[n] = At(s, i - n)
    BY <1>1, <2>4 DEF PlacesUp
  <2> QED
    BY <2>5 DEF i
<1>5. t \in 0 .. size /\ a + t <= size
  BY <1>1 DEF Steps
<1>6. \A n \in 0 .. size : node[n] = dummyId <=> n >= size - a
  <2> TAKE n \in 0 .. size
  <2>1. (size - a) - n \in 1 .. Len(s) <=> ~(n >= size - a)
    BY <1>1
  <2>2. (size - a) - n \in Int
    BY <1>1
  <2> HIDE DEF node
  <2> QED
    BY <1>1, <1>4, <2>1, <2>2, AtType
<1> HIDE DEF node
<1>7. t \in T /\ \A n \in T : n \in Nat /\ t <= n
  <2>1. \A n \in 0 .. size : Stops(n) <=> n >= t
    BY <1>1, <1>6 DEF Steps
  <2> HIDE DEF Stops
  <2> QED
    BY <1>1, <1>5, <2>1
<1>8. Min(T) = t
  <2> HIDE DEF T
  <2>1. Min(T) \in T /\ Min(T) <= t
    BY <1>7, MinOfNumbers
  <2> QED
    BY <1>7, <2>1
<1> DEFINE passed == [i \in 1 .. t |-> node[i - 1]]
<1>9. Walk(start, maxNodes) = [ids |-> passed, next |-> node[t]]
  <2>1. Min({n \in 0 .. size : node[n] = dummyId \/ (maxNodes > 0 /\ n >= maxNodes)}) = t
    BY <1>8
  <2> QED
    BY <2>1 DEF Walk, node
<1>10. \A i \in 1 .. t : passed[i] = s[size - (a + i) + 1] /\ passed[i] \in CdpIds
  <2> TAKE i \in 1 .. t
  <2>1. i - 1 \in 0 .. size /\ (size - a) - (i - 1) = size - (a + i) + 1
    BY <1>1, <1>5
  <2>2. size - (a + i) + 1 \in 1 .. Len(s)
    BY <1>1, <1>5
  <2>3. passed[i] = At(s, size - (a + i) + 1)
    BY <1>4, <2>1
  <2> HIDE DEF passed
  <2>4. s[size - (a + i) + 1] \in CdpIds
    BY <1>1, <2>2
  <2> QED
    BY <2>2, <2>3, <2>4 DEF At
<1>11. passed \in Seq(CdpIds) /\ Len(passed) = t
  <2>1. t \in Nat
    BY <1>5
  <2> QED
    BY <1>10, <2>1
<1>12. node[t] = At(s, size - (a + t))
  <2>1. (size - a) - t = size - (a + t)
    BY <1>1, <1>5
  <2> QED
    BY <1>4, <1>5, <2>1
<1>13. Walk(start, maxNodes).ids = passed /\ Walk(start, maxNodes).next = node[t]
  BY <1>9
<1> HIDE DEF passed
<1> QED
  BY <1>10, <1>11, <1>12, <1>13 DEF s

LEMMA CollectionIs ==
  ASSUME NEW ids \in Seq(CdpIds), NEW owned
  PROVE  OwnedAmong(ids, owned) \in Seq(CdpIds) /\ Len(OwnedAmong(ids, owned)) \in Nat
<1>1. Len(ids) \in Nat /\ Len(ids) \in 0 .. Len(ids)
  OBVIOUS
<1>2. PICK f : Collects(f, ids, owned) /\ OwnedAmong(ids, owned) = f[Len(ids)]
  BY <1>1, OwnedAmongUnfolds
<1>3. f[Len(ids)] \in Seq(CdpIds) /\ Len(f[Len(ids)]) \in Nat
  BY <1>1, <1>2, CollectedType
<1> QED
  BY <1>2, <1>3

LEMMA WholeWalk ==
  ASSUME SortedInv
  PROVE  Walk(dummyId, 0).ids = Seqs!Reverse(Listed) /\ Walk(dummyId, 0).next = dummyId
<1> DEFINE ids == Walk(dummyId, 0).ids
           rev == Seqs!Reverse(Listed)
<1>1. Listed \in Seq(CdpIds) /\ Len(Listed) = size /\ size \in Nat
  BY InvariantSays
<1>2. rev \in Seq(CdpIds) /\ Len(rev) = size /\ \A i \in 1 .. size : rev[i] = Listed[size - i + 1]
  BY <1>1, ReverseIs
<1>3. StartsAfter(0, dummyId) /\ Steps(0, 0) = size /\ 0 \in 0 .. size
  BY <1>1 DEF StartsAfter, Steps
<1>4. /\ ids \in Seq(CdpIds) /\ Len(ids) = size
      /\ \A i \in 1 .. size : ids[i] = Listed[size - (0 + i) + 1]
      /\ Walk(dummyId, 0).next = At(Listed, size - (0 + size))
  BY <1>3, WalkIs
<1> HIDE DEF ids, rev
<1>5. \A i \in 1 .. size : ids[i] = rev[i]
  BY <1>2, <1>4
<1>6. At(Listed, size - (0 + size)) = dummyId
  BY <1>1, AtType
<1> QED
  BY <1>2, <1>4, <1>5, <1>6, SeqEqual DEF ids, rev

LEMMA OwnerViewsFollow == SortedInv => OwnerViewsMatchTheList
<1> SUFFICES ASSUME SortedInv, NEW owned, NEW theirs, theirs = Theirs(owned)
             PROVE  /\ CdpCountOf(owned, dummyId, 0) = [count |-> Len(theirs), next |-> dummyId]
                    /\ GetCdpsOf(owned, dummyId, 0, Len(theirs)) = [cdps |-> theirs, next |-> dummyId]
                    /\ \A index \in 0 .. size :
                         LET answer == CdpOfOwnerByIdx(owned, index, dummyId, 0)
                         IN  /\ answer.found = (index < Len(theirs))
                             /\ answer.found => answer.id = theirs[index + 1]
  BY DEF OwnerViewsMatchTheList
<1>1. OwnedAmong(Walk(dummyId, 0).ids, owned) = theirs /\ Walk(dummyId, 0).next = dummyId
  BY WholeWalk DEF Theirs
<1>2. theirs \in Seq(CdpIds)
  <2>1. Seqs!Reverse(Listed) \in Seq(CdpIds)
    BY InvariantSays, ReverseIs
  <2> QED
    BY <2>1, CollectionIs DEF Theirs
<1>3. CdpCountOf(owned, dummyId, 0) = [count |-> Len(theirs), next |-> dummyId]
  BY <1>1 DEF CdpCountOf
<1>4. GetCdpsOf(owned, dummyId, 0, Len(theirs)) = [cdps |-> theirs, next |-> dummyId]
  <2>1. CASE Len(theirs) = 0
    <3>1. theirs = <<>>
      BY <1>2, <2>1
    <3> QED
      BY <2>1, <3>1 DEF GetCdpsOf
  <2>2. CASE Len(theirs) # 0
    BY <1>1, <2>2 DEF GetCdpsOf
  <2> QED
    BY <2>1, <2>2
<1>5. ASSUME NEW index \in 0 .. size
      PROVE  LET answer == CdpOfOwnerByIdx(owned, index, dummyId, 0)
             IN  /\ answer.found = (index < Len(theirs))
                 /\ answer.found => answer.id = theirs[index + 1]
  <2> DEFINE answer == CdpOfOwnerByIdx(owned, index, dummyId, 0)
  <2>1. answer = IF index < Len(theirs) THEN [id |-> theirs[index + 1], found |-> TRUE]
                 ELSE [id |-> dummyId, found |-> FALSE]
    BY <1>1 DEF CdpOfOwnerByIdx
  <2> HIDE DEF answer
  <2>2. index < Len(theirs) => answer.found = TRUE /\ answer.id = theirs[index + 1]
    BY <2>1
  <2>3. ~(index < Len(theirs)) => answer.found = FALSE
    BY <2>1
  <2> DEFINE inside == index < Len(theirs)
             itsId == answer.id = theirs[index + 1]
  <2>4. (inside => answer.found = TRUE /\ itsId) /\ (~inside => answer.found = FALSE)
    BY <2>2, <2>3
  <2> HIDE DEF inside, itsId
  <2>5. answer.found = inside /\ (answer.found => itsId)
    BY <2>4, inside \in BOOLEAN, Zenon DEF inside
  <2> QED
    BY <2>5 DEF answer, inside, itsId
<1> QED
  BY <1>3, <1>4, <1>5

\* A run of nodes, read from a walk that passes them in the order of `list'
LEMMA RunIs ==
  ASSUME NEW list \in Seq(CdpIds), NEW n \in Nat, Len(list) = n, NEW node,
         \A i \in 0 .. n - 1 : node[i] = list[i + 1], NEW start \in Nat, NEW count \in Nat,
         start < n
  PROVE  [i \in 1 .. (IF count > n - start THEN n - start ELSE count) |-> node[start + i - 1]]
           = SubSeq(list, start + 1, IF start + count < n THEN start + count ELSE n)
<1> DEFINE t == IF count > n - start THEN n - start ELSE count
           last == IF start + count < n THEN start + count ELSE n
           run == [i \in 1 .. t |-> node[start + i - 1]]
           sub == SubSeq(list, start + 1, last)
<1>1. t \in Nat /\ last = start + t /\ last <= n
  OBVIOUS
<1> HIDE DEF t, last
<1>2. \A i \in 1 .. t : run[i] = list[start + i] /\ run[i] \in CdpIds
  <2> TAKE i \in 1 .. t
  <2>1. start + i - 1 \in 0 .. n - 1 /\ (start + i - 1) + 1 = start + i /\ start + i \in 1 .. Len(list)
    BY <1>1
  <2>2. run[i] = list[start + i]
    BY <2>1
  <2> HIDE DEF run
  <2> QED
    BY <2>1, <2>2
<1>3. run \in Seq(CdpIds) /\ Len(run) = t
  BY <1>1, <1>2
<1>4. /\ sub \in Seq(CdpIds) /\ Len(sub) = t
      /\ \A i \in 1 .. t : sub[i] = list[start + i]
  <2>1. start + 1 \in Int /\ last \in Int /\ \A i \in start + 1 .. last : list[i] \in CdpIds
    BY <1>1
  <2>2. /\ sub \in Seq(CdpIds)
        /\ Len(sub) = IF start + 1 <= last THEN last - (start + 1) + 1 ELSE 0
        /\ \A i \in 1 .. last - (start + 1) + 1 : sub[i] = list[(start + 1) + i - 1]
    BY <2>1, SubSeqProperties
  <2> HIDE DEF sub
  <2>3. last - (start + 1) + 1 = t /\ (start + 1 <= last <=> t > 0)
    BY <1>1
  <2>4. \A i \in 1 .. t : (start + 1) + i - 1 = start + i
    BY <1>1
  <2>5. Len(sub) = t
    BY <1>1, <2>2, <2>3
  <2>6. \A i \in 1 .. t : sub[i] = list[(start + 1) + i - 1]
    BY <2>2, <2>3
  <2>7. \A i \in 1 .. t : sub[i] = list[start + i]
    BY <2>4, <2>6
  <2> QED
    BY <2>2, <2>5, <2>7
<1> HIDE DEF run, sub
<1>5. run = sub
  BY <1>2, <1>3, <1>4, SeqEqual
<1> QED
  BY <1>5 DEF run, sub, t, last

LEMMA GetterFollows == SortedInv => GetterReturnsTheRun
<1> SUFFICES ASSUME SortedInv, NEW start \in 0 .. maxSize + 1, NEW count \in 0 .. maxSize + 1
             PROVE  /\ GetMultipleSortedCdps(start, count) =
                         SubSeq(Listed, start + 1, IF start + count < size THEN start + count ELSE size)
                    /\ GetMultipleSortedCdps(- (start + 1), count) =
                         SubSeq(Seqs!Reverse(Listed), start + 1,
                                IF start + count < size THEN start + count ELSE size)
  BY DEF GetterReturnsTheRun
<1> DEFINE s == Listed
           rev == Seqs!Reverse(s)
           down == Descent(List, head)
           up == Ascent(List, tail)
           last == IF start + count < size THEN start + count ELSE size
           some == IF count > size - start THEN size - start ELSE count
<1>1. /\ Represents(List, s) /\ s \in Seq(CdpIds) /\ Len(s) = size /\ size \in Nat
      /\ List.size = size
  BY InvariantSays
<1>2. start \in Nat /\ count \in Nat
  BY SortedCdpsAssumption
<1>3. rev \in Seq(CdpIds) /\ Len(rev) = size /\ \A i \in 1 .. size : rev[i] = s[size - i + 1]
  BY <1>1, ReverseIs
<1>4. List.head = head /\ List.tail = tail
  BY DEF List
<1> HIDE DEF s, rev
<1>5. \A i \in 0 .. size - 1 : down[i] = s[i + 1]
  <2>1. head = At(s, 1)
    BY <1>1, <1>4 DEF Represents
  <2>2. Descent(List, At(s, 1)) = PlacesDown(List, s, 1)
    BY <1>1, DescentPlaces
  <2> TAKE i \in 0 .. size - 1
  <2>3. i \in 0 .. size /\ 1 + i = i + 1 /\ i + 1 \in 1 .. Len(s)
    BY <1>1
  <2>4. down[i] = At(s, 1 + i)
    BY <1>1, <2>1, <2>2, <2>3 DEF PlacesDown
  <2> QED
    BY <2>3, <2>4 DEF At
<1>6. \A i \in 0 .. size - 1 : up[i] = rev[i + 1]
  <2>1. tail = At(s, size)
    BY <1>1, <1>4 DEF Represents
  <2>2. Ascent(List, At(s, size)) = PlacesUp(List, s, size)
    <3>1. size \in Int /\ size <= Len(s)
      BY <1>1
    <3> QED
      BY <1>1, <3>1, AscentPlaces
  <2> TAKE i \in 0 .. size - 1
  <2>3. i \in 0 .. size /\ i + 1 \in 1 .. size /\ size - i = size - (i + 1) + 1 /\ size - i \in 1 .. Len(s)
    BY <1>1
  <2>4. up[i] = At(s, size - i)
    BY <1>1, <2>1, <2>2, <2>3 DEF PlacesUp
  <2>5. up[i] = s[size - i]
    BY <2>3, <2>4 DEF At
  <2> HIDE DEF up
  <2>6. rev[i + 1] = s[size - (i + 1) + 1]
    BY <1>3, <2>3
  <2> QED
    BY <2>3, <2>5, <2>6
<1>7. /\ start >= 0 /\ ~(-(start + 1) >= 0) /\ StartFrom(start) = start
      /\ StartFrom(-(start + 1)) = start
  BY <1>2 DEF StartFrom
<1>8. CASE start >= size
  <2>1. GetMultipleSortedCdps(start, count) = <<>> /\ GetMultipleSortedCdps(-(start + 1), count) = <<>>
    BY <1>7, <1>8 DEF GetMultipleSortedCdps
  <2>2. last = size /\ last \in Int /\ start + 1 \in Int /\ last < start + 1
    BY <1>1, <1>2, <1>8
  <2> HIDE DEF last
  <2>3. SubSeq(s, start + 1, last) = <<>> /\ SubSeq(rev, start + 1, last) = <<>>
    BY <2>2, SubSeqEmpty
  <2> QED
    BY <2>1, <2>3 DEF last, s, rev
<1>9. CASE start < size
  <2>1. ~(start >= size)
    BY <1>1, <1>2, <1>9
  <2>2. GetMultipleSortedCdps(start, count) = [i \in 1 .. some |-> down[start + i - 1]]
    BY <1>7, <2>1 DEF GetMultipleSortedCdps
  <2>3. GetMultipleSortedCdps(-(start + 1), count) = [i \in 1 .. some |-> up[start + i - 1]]
    BY <1>7, <2>1 DEF GetMultipleSortedCdps
  <2> HIDE DEF down, up
  <2>4. [i \in 1 .. some |-> down[start + i - 1]] = SubSeq(s, start + 1, last)
    BY <1>1, <1>2, <1>5, <1>9, RunIs
  <2>5. [i \in 1 .. some |-> up[start + i - 1]] = SubSeq(rev, start + 1, last)
    BY <1>1, <1>2, <1>3, <1>6, <1>9, RunIs
  <2>6. /\ GetMultipleSortedCdps(start, count) = SubSeq(s, start + 1, last)
        /\ GetMultipleSortedCdps(-(start + 1), count) = SubSeq(rev, start + 1, last)
    <3> HIDE DEF some, last
    <3> QED
      BY <2>2, <2>3, <2>4, <2>5, Zenon
  <2> QED
    BY <2>6 DEF s, rev
<1> QED
  BY <1>1, <1>2, <1>8, <1>9

\* The pages of counts that a caller has collected after following k of them on
NextPage(before, owned, maxNodes) ==
  IF Seqs!Last(before).next = dummyId THEN before
  ELSE Append(before, CdpCountOf(owned, Seqs!Last(before).next, maxNodes))

TurnsPages(page, owned, maxNodes) ==
  /\ page[0] = <<CdpCountOf(owned, dummyId, maxNodes)>>
  /\ \A k \in 1 .. size : page[k] = NextPage(page[k - 1], owned, maxNodes)

LEMMA PagesUnfold ==
  ASSUME size \in Nat, NEW owned, NEW maxNodes
  PROVE  \E page : TurnsPages(page, owned, maxNodes) /\ CountPages(owned, maxNodes) = page[size]
<1> DEFINE Front == <<CdpCountOf(owned, dummyId, maxNodes)>>
           Turn(q) == NextPage(q, owned, maxNodes)
           Solves(f, m) == f = [k \in 0 .. m |-> IF k = 0 THEN Front ELSE Turn(f[k - 1])]
           T == {m \in 0 .. size : \E f : Solves(f, m)}
<1> HIDE DEF Turn, Front
<1>1. Solves([k \in 0 .. 0 |-> Front], 0)
  OBVIOUS
<1>2. ASSUME NEW m \in 1 .. size, m - 1 \in T PROVE m \in T
  <2>1. PICK f : Solves(f, m - 1)
    BY <1>2
  <2> DEFINE h == [k \in 0 .. m |-> IF k = m THEN Turn(f[m - 1]) ELSE f[k]]
             hh == [k \in 0 .. m |-> IF k = 0 THEN Front ELSE Turn(h[k - 1])]
  <2>2. \A k \in 0 .. m : h[k] = hh[k]
    BY <2>1
  <2>3. Solves(h, m)
    <3> HIDE DEF hh
    <3> QED
      BY <2>2 DEF hh
  <2> HIDE DEF Solves, h
  <2> QED
    BY <2>3
<1>3. 0 \in T
  <2> HIDE DEF Solves
  <2> QED
    BY <1>1
<1>4. size \in T
  <2> HIDE DEF T
  <2>1. \A n \in 0 .. size : n \in T
    BY <1>2, <1>3, IntervalInduction
  <2> QED
    BY <2>1
<1> DEFINE g == CHOOSE f : Solves(f, size)
<1>5. Solves(g, size)
  <2>1. \E f : Solves(f, size)
    BY <1>4
  <2> HIDE DEF Solves
  <2> QED
    BY <2>1
<1>6. CountPages(owned, maxNodes) = g[size]
  BY DEF CountPages, Pages, NextPage, Turn, Front
<1> HIDE DEF g
<1>7. g[0] = Front
  BY <1>5
<1>8. ASSUME NEW k \in 1 .. size PROVE g[k] = Turn(g[k - 1])
  BY <1>5
<1>9. TurnsPages(g, owned, maxNodes)
  BY <1>7, <1>8 DEF TurnsPages, Turn, Front
<1> QED
  BY <1>6, <1>9

\* The number of ids behind a caller who has seen `j' pages
Behind(j, maxNodes) == IF j * maxNodes < size THEN j * maxNodes ELSE size

LEMMA BehindFacts ==
  ASSUME size \in Nat, NEW maxNodes \in Nat \ {0}, NEW j \in Nat
  PROVE  /\ Behind(0, maxNodes) = 0 /\ Behind(j, maxNodes) \in 0 .. size
         /\ j <= Behind(j, maxNodes) \/ Behind(j, maxNodes) = size
         /\ Behind(j + 1, maxNodes) = Behind(j, maxNodes) + Steps(Behind(j, maxNodes), maxNodes)
<1> DEFINE p == j * maxNodes
<1>1. p \in Nat /\ 0 * maxNodes = 0 /\ (j + 1) * maxNodes = p + maxNodes
  BY DEF p
<1>2. j <= p
  OBVIOUS
<1> HIDE DEF p
<1>3. /\ Behind(0, maxNodes) = 0
      /\ Behind(j, maxNodes) = IF p < size THEN p ELSE size
      /\ Behind(j + 1, maxNodes) = IF p + maxNodes < size THEN p + maxNodes ELSE size
  BY <1>1 DEF Behind, p
<1> QED
  BY <1>1, <1>2, <1>3 DEF Steps

\* A page is right, the j-th: it counts what the owner has among its ids, and says
\* where the ids behind it end.
RightPage(p, f, j, maxNodes) ==
  /\ p.count \in Nat /\ p.next = At(Listed, size - Behind(j, maxNodes))
  /\ Len(f[Behind(j, maxNodes)]) = Len(f[Behind(j - 1, maxNodes)]) + p.count

LEMMA PageIsRight ==
  ASSUME SortedInv, NEW owned, NEW f, Collects(f, Seqs!Reverse(Listed), owned),
         NEW maxNodes \in Nat \ {0}, NEW j \in Nat,
         NEW start, StartsAfter(Behind(j, maxNodes), start)
  PROVE  RightPage(CdpCountOf(owned, start, maxNodes), f, j + 1, maxNodes)
<1> DEFINE a == Behind(j, maxNodes)
           t == Steps(a, maxNodes)
           ids == Walk(start, maxNodes).ids
           rev == Seqs!Reverse(Listed)
           p == CdpCountOf(owned, start, maxNodes)
<1>1. Listed \in Seq(CdpIds) /\ Len(Listed) = size /\ size \in Nat
  BY InvariantSays
<1>2. rev \in Seq(CdpIds) /\ Len(rev) = size /\ \A i \in 1 .. size : rev[i] = Listed[size - i + 1]
  BY <1>1, ReverseIs
<1>3. a \in 0 .. size /\ Behind(j + 1, maxNodes) = a + t
  BY <1>1, BehindFacts
<1>4. t \in Nat /\ a + t <= size
  BY <1>1, <1>3 DEF Steps
<1>5. (j + 1) - 1 = j
  OBVIOUS
<1>6. StartsAfter(a, start)
  OBVIOUS
<1> HIDE DEF a
<1>7. /\ ids \in Seq(CdpIds) /\ Len(ids) = t
      /\ \A i \in 1 .. t : ids[i] = Listed[size - (a + i) + 1]
      /\ Walk(start, maxNodes).next = At(Listed, size - (a + t))
  BY <1>3, <1>6, WalkIs
<1> HIDE DEF t, ids, rev
<1>8. \A i \in 1 .. t : ids[i] = rev[a + i]
  <2> TAKE i \in 1 .. t
  <2>1. a + i \in 1 .. size
    BY <1>1, <1>3, <1>4
  <2>2. rev[a + i] = Listed[size - (a + i) + 1]
    BY <1>2, <2>1
  <2> QED
    BY <1>7, <2>2
<1>9. PICK g : Collects(g, ids, owned) /\ OwnedAmong(ids, owned) = g[Len(ids)]
  BY <1>4, <1>7, OwnedAmongUnfolds
<1>10. Len(g[Len(ids)]) \in Nat
  <2>1. Len(ids) \in 0 .. Len(ids)
    BY <1>4, <1>7
  <2> QED
    BY <1>7, <1>9, <2>1, CollectedType
<1>11. Gains(f, g, a, Len(ids))
  <2>1. IsStretch(ids, rev, a)
    BY <1>1, <1>2, <1>3, <1>4, <1>7, <1>8 DEF IsStretch
  <2>2. Collects(f, rev, owned) /\ Collects(g, ids, owned)
    BY <1>9 DEF rev
  <2>3. rev \in Seq(CdpIds) /\ ids \in Seq(CdpIds)
    BY <1>2, <1>7
  <2> QED
    BY <2>1, <2>2, <2>3, StretchCounts
<1>12. p.count = Len(g[Len(ids)]) /\ p.next = At(Listed, size - (a + t))
  BY <1>7, <1>9 DEF CdpCountOf, ids
<1> HIDE DEF p
<1> QED
  BY <1>3, <1>5, <1>7, <1>10, <1>11, <1>12 DEF RightPage, Gains, a, p

PageViews == [count : Nat, next : NodeIds]

LEMMA PageType ==
  ASSUME SortedInv, NEW owned, NEW f, NEW maxNodes \in Nat \ {0}, NEW j \in Nat, NEW start,
         RightPage(CdpCountOf(owned, start, maxNodes), f, j, maxNodes)
  PROVE  CdpCountOf(owned, start, maxNodes) \in PageViews
<1> DEFINE p == CdpCountOf(owned, start, maxNodes)
<1>1. p = [count |-> p.count, next |-> p.next]
  BY DEF CdpCountOf
<1>2. Listed \in Seq(CdpIds) /\ size \in Nat
  BY InvariantSays
<1>3. size - Behind(j, maxNodes) \in Int
  <2>1. Behind(j, maxNodes) \in 0 .. size
    BY <1>2, BehindFacts
  <2> HIDE DEF p
  <2> QED
    BY <1>2, <2>1
<1> HIDE DEF p
<1>4. p.count \in Nat /\ p.next \in NodeIds
  <2>1. At(Listed, size - Behind(j, maxNodes)) \in NodeIds
    BY <1>2, <1>3, AtType
  <2> QED
    BY <2>1 DEF RightPage, p
<1>5. p \in PageViews
  BY <1>1, <1>4 DEF PageViews
<1> QED
  BY <1>5 DEF p

\* What the caller has after k more turns: right pages, to the head or one for each turn.
RightPages(s, f, maxNodes, k) ==
  /\ s \in Seq(PageViews) /\ Len(s) \in 1 .. k + 1
  /\ \A j \in 1 .. Len(s) : RightPage(s[j], f, j, maxNodes)
  /\ Len(s) = 1 \/ Behind(Len(s) - 1, maxNodes) < size
  /\ Behind(Len(s), maxNodes) = size \/ Len(s) = k + 1

LEMMA FirstPageIsRight ==
  ASSUME SortedInv, NEW owned, NEW f, Collects(f, Seqs!Reverse(Listed), owned),
         NEW maxNodes \in Nat \ {0}
  PROVE  RightPages(<<CdpCountOf(owned, dummyId, maxNodes)>>, f, maxNodes, 0)
<1> DEFINE p == CdpCountOf(owned, dummyId, maxNodes)
           s == <<p>>
<1>1. size \in Nat
  BY InvariantSays
<1>2. StartsAfter(Behind(0, maxNodes), dummyId)
  BY <1>1, BehindFacts DEF StartsAfter
<1>3. RightPage(p, f, 0 + 1, maxNodes)
  BY <1>2, PageIsRight
<1>4. RightPage(p, f, 1, maxNodes)
  BY <1>3
<1>5. p \in PageViews
  BY <1>4, PageType
<1> HIDE DEF p
<1>6. s \in Seq(PageViews) /\ Len(s) = 1 /\ s[1] = p
  BY <1>5
<1> HIDE DEF s
<1>7. /\ Len(s) \in 1 .. 0 + 1 /\ Len(s) = 0 + 1
      /\ \A j \in 1 .. Len(s) : RightPage(s[j], f, j, maxNodes)
  BY <1>4, <1>6
<1> QED
  BY <1>6, <1>7 DEF RightPages, s, p

LEMMA NextPageIsRight ==
  ASSUME SortedInv, NEW owned, NEW f, Collects(f, Seqs!Reverse(Listed), owned),
         NEW maxNodes \in Nat \ {0}, NEW k \in Nat, NEW s, RightPages(s, f, maxNodes, k)
  PROVE  RightPages(NextPage(s, owned, maxNodes), f, maxNodes, k + 1)
<1> DEFINE n == Len(s)
           b == Behind(n, maxNodes)
           start == Seqs!Last(s).next
           p == CdpCountOf(owned, start, maxNodes)
           r == Append(s, p)
<1>1. Listed \in Seq(CdpIds) /\ Len(Listed) = size /\ size \in Nat
  BY InvariantSays
<1>2. /\ s \in Seq(PageViews) /\ n \in 1 .. k + 1
      /\ \A j \in 1 .. n : RightPage(s[j], f, j, maxNodes)
      /\ n = 1 \/ Behind(n - 1, maxNodes) < size
      /\ b = size \/ n = k + 1
  BY DEF RightPages
<1>3. start = At(Listed, size - b)
  <2>1. n \in 1 .. n
    BY <1>2
  <2>2. RightPage(s[n], f, n, maxNodes)
    BY <1>2, <2>1
  <2> QED
    BY <2>2 DEF RightPage, Seqs!Last
<1>4. b \in 0 .. size
  BY <1>1, <1>2, BehindFacts
<1> HIDE DEF n, b, start
<1>5. CASE b = size
  <2>1. start = dummyId
    BY <1>1, <1>3, <1>5, AtType
  <2>2. NextPage(s, owned, maxNodes) = s
    BY <2>1 DEF NextPage, start
  <2>3. n \in 1 .. (k + 1) + 1
    BY <1>2
  <2> QED
    BY <1>2, <1>5, <2>2, <2>3 DEF RightPages, n, b
<1>6. CASE b < size
  <2>1. size - b \in 1 .. Len(Listed) /\ size - b \in Int
    BY <1>1, <1>4, <1>6
  <2>2. start = Listed[size - b] /\ start # dummyId
    BY <1>1, <1>3, <2>1, AtType
  <2>3. NextPage(s, owned, maxNodes) = r
    BY <2>2 DEF NextPage, start
  <2>4. StartsAfter(b, start)
    BY <1>6, <2>2 DEF StartsAfter
  <2>5. n \in Nat /\ n = k + 1 /\ n + 1 \in Nat
    BY <1>2, <1>4, <1>6
  <2>6. RightPage(p, f, n + 1, maxNodes)
    BY <2>4, <2>5, PageIsRight DEF b
  <2>7. p \in PageViews
    BY <2>5, <2>6, PageType
  <2> HIDE DEF p
  <2>8. /\ r \in Seq(PageViews) /\ Len(r) = n + 1 /\ r[n + 1] = p
        /\ \A j \in 1 .. n : r[j] = s[j]
    BY <1>2, <2>7, AppendProperties DEF n
  <2> HIDE DEF r
  <2>9. \A j \in 1 .. n + 1 : RightPage(r[j], f, j, maxNodes)
    <3> TAKE j \in 1 .. n + 1
    <3>1. CASE j = n + 1
      BY <2>6, <2>8, <3>1
    <3>2. CASE j # n + 1
      <4>1. j \in 1 .. n
        BY <2>5, <3>2
      <4> QED
        BY <1>2, <2>8, <4>1
    <3> QED
      BY <3>1, <3>2
  <2>10. /\ Len(r) \in 1 .. (k + 1) + 1 /\ Len(r) = (k + 1) + 1 /\ Len(r) - 1 = n
    BY <2>5, <2>8
  <2>11. Behind(Len(r) - 1, maxNodes) < size
    BY <1>6, <2>10 DEF b
  <2>12. RightPages(r, f, maxNodes, k + 1)
    BY <2>8, <2>9, <2>10, <2>11 DEF RightPages
  <2> QED
    BY <2>3, <2>12
<1> QED
  BY <1>1, <1>4, <1>5, <1>6

\* With as many turns as there are CDPs the caller has reached the head.
LEMMA AllPagesAreRight ==
  ASSUME SortedInv, NEW owned, NEW f, Collects(f, Seqs!Reverse(Listed), owned),
         NEW maxNodes \in Nat \ {0}, NEW pages, pages = CountPages(owned, maxNodes)
  PROVE  /\ pages \in Seq(PageViews) /\ Len(pages) \in Nat
         /\ \A j \in 1 .. Len(pages) : RightPage(pages[j], f, j, maxNodes)
         /\ Behind(Len(pages), maxNodes) = size
<1> DEFINE n == Len(pages)
<1>1. size \in Nat
  BY InvariantSays
<1>2. PICK page : TurnsPages(page, owned, maxNodes) /\ CountPages(owned, maxNodes) = page[size]
  BY <1>1, PagesUnfold
<1> DEFINE T == {k \in 0 .. size : RightPages(page[k], f, maxNodes, k)}
<1>3. 0 \in T
  <2>1. RightPages(page[0], f, maxNodes, 0)
    BY <1>2, FirstPageIsRight DEF TurnsPages
  <2> QED
    BY <1>1, <2>1
<1>4. ASSUME NEW k \in 1 .. size, k - 1 \in T PROVE k \in T
  <2>1. k - 1 \in Nat /\ (k - 1) + 1 = k /\ k \in 0 .. size
    BY <1>1
  <2>2. RightPages(page[k - 1], f, maxNodes, k - 1)
    BY <1>4
  <2>3. RightPages(NextPage(page[k - 1], owned, maxNodes), f, maxNodes, (k - 1) + 1)
    BY <2>1, <2>2, NextPageIsRight
  <2>4. page[k] = NextPage(page[k - 1], owned, maxNodes)
    BY <1>2 DEF TurnsPages
  <2>5. RightPages(page[k], f, maxNodes, k)
    BY <2>1, <2>3, <2>4
  <2> QED
    BY <2>1, <2>5
<1>5. size \in T
  <2> HIDE DEF T
  <2>1. \A k \in 0 .. size : k \in T
    BY <1>1, <1>3, <1>4, IntervalInduction
  <2> QED
    BY <1>1, <2>1
<1>6. RightPages(pages, f, maxNodes, size)
  BY <1>2, <1>5
<1>7. /\ pages \in Seq(PageViews) /\ n \in 1 .. size + 1
      /\ \A j \in 1 .. n : RightPage(pages[j], f, j, maxNodes)
      /\ n = 1 \/ Behind(n - 1, maxNodes) < size
      /\ Behind(n, maxNodes) = size \/ n = size + 1
  BY <1>6 DEF RightPages
<1> HIDE DEF n
<1>8. Behind(n, maxNodes) = size
  <2> SUFFICES ASSUME Behind(n, maxNodes) # size PROVE FALSE
    OBVIOUS
  <2>1. n = size + 1 /\ n \in Nat /\ n - 1 = size
    BY <1>1, <1>7
  <2>2. n <= Behind(n, maxNodes) /\ Behind(n, maxNodes) \in 0 .. size
    BY <1>1, <2>1, BehindFacts
  <2> QED
    BY <1>1, <2>1, <2>2
<1>9. n \in Nat
  BY <1>1, <1>7
<1> QED
  BY <1>7, <1>8, <1>9 DEF n

LEMMA CountedIs ==
  ASSUME NEW pages, Len(pages) \in Nat, NEW c, c[0] = 0,
         \A k \in 1 .. Len(pages) : c[k] = c[k - 1] + pages[k].count
  PROVE  Counted(pages) = c[Len(pages)]
<1> DEFINE N == Len(pages)
           More(x, k) == x + pages[k].count
           Solves(g) == g = [k \in 0 .. N |-> IF k = 0 THEN 0 ELSE More(g[k - 1], k)]
           d == [k \in 0 .. N |-> c[k]]
           dd == [k \in 0 .. N |-> IF k = 0 THEN 0 ELSE More(d[k - 1], k)]
           h == CHOOSE g : Solves(g)
<1>0. N \in Nat
  OBVIOUS
<1>1. \A k \in 1 .. N : c[k] = More(c[k - 1], k)
  OBVIOUS
<1>2. Counted(pages) = h[N]
  BY DEF Counted
<1> HIDE DEF N, More
<1>3. \A k \in 0 .. N : d[k] = dd[k]
  BY <1>0, <1>1
<1>4. Solves(d)
  <2> HIDE DEF dd
  <2> QED
    BY <1>3 DEF dd
<1>5. Solves(h)
  <2> HIDE DEF Solves, d
  <2> QED
    BY <1>4
<1> HIDE DEF h
<1> DEFINE T == {k \in 0 .. N : h[k] = c[k]}
<1>6. 0 \in T
  <2>1. 0 \in 0 .. N
    BY <1>0
  <2>2. h[0] = 0
    BY <1>5, <2>1
  <2> QED
    BY <2>1, <2>2
<1>7. ASSUME NEW k \in 1 .. N, k - 1 \in T PROVE k \in T
  <2>1. k \in 0 .. N /\ k # 0
    BY <1>0
  <2>2. h[k] = More(h[k - 1], k)
    BY <1>5, <2>1
  <2>3. h[k - 1] = c[k - 1]
    BY <1>7
  <2>4. h[k] = c[k]
    BY <1>1, <2>2, <2>3
  <2> QED
    BY <2>1, <2>4
<1> HIDE DEF T, Solves
<1>8. \A k \in 0 .. N : k \in T
  BY <1>0, <1>6, <1>7, IntervalInduction
<1>9. N \in T
  BY <1>0, <1>8
<1> QED
  BY <1>2, <1>9 DEF T, N

LEMMA CountsFollow == SortedInv => CountsByPageAddUp
<1> SUFFICES ASSUME SortedInv, NEW owned, NEW maxNodes \in 1 .. size + 1
             PROVE  Counted(CountPages(owned, maxNodes)) = Len(Theirs(owned))
  BY DEF CountsByPageAddUp
<1> DEFINE pages == CountPages(owned, maxNodes)
           n == Len(pages)
           rev == Seqs!Reverse(Listed)
<1>1. Listed \in Seq(CdpIds) /\ Len(Listed) = size /\ size \in Nat
  BY InvariantSays
<1>2. rev \in Seq(CdpIds) /\ Len(rev) = size
  BY <1>1, ReverseIs
<1>3. PICK f : Collects(f, rev, owned) /\ Theirs(owned) = f[size]
  BY <1>1, <1>2, OwnedAmongUnfolds DEF Theirs
<1>4. maxNodes \in Nat \ {0}
  BY <1>1
<1> HIDE DEF pages
<1>5. /\ n \in Nat /\ \A j \in 1 .. n : RightPage(pages[j], f, j, maxNodes)
      /\ Behind(n, maxNodes) = size
  BY <1>3, <1>4, AllPagesAreRight DEF pages
<1> DEFINE c == [k \in 0 .. n |-> Len(f[Behind(k, maxNodes)])]
<1>6. c[0] = 0
  <2>1. Behind(0, maxNodes) = 0
    BY <1>1, <1>4, BehindFacts
  <2>2. 0 \in 0 .. n
    BY <1>5
  <2>3. Len(f[0]) = 0
    BY <1>3 DEF Collects
  <2> QED
    BY <2>1, <2>2, <2>3
<1>7. \A k \in 1 .. n : c[k] = c[k - 1] + pages[k].count
  <2> TAKE k \in 1 .. n
  <2>1. k \in 0 .. n /\ k - 1 \in 0 .. n
    BY <1>5
  <2>2. c[k] = Len(f[Behind(k, maxNodes)]) /\ c[k - 1] = Len(f[Behind(k - 1, maxNodes)])
    BY <2>1
  <2> HIDE DEF c
  <2> QED
    BY <1>5, <2>2 DEF RightPage
<1>8. c[n] = Len(f[size])
  BY <1>5
<1> HIDE DEF c
<1>9. Counted(pages) = c[n]
  BY <1>5, <1>6, <1>7, CountedIs
<1> QED
  BY <1>3, <1>8, <1>9 DEF pages

LEMMA ViewsFollow == SortedInv => ViewsMatchTheList
  BY OwnerViewsFollow, CountsFollow, GetterFollows DEF ViewsMatchTheList

\* However removals and insertions rearranged the links, and whoever owns what, the
\* views agree with the list: an owner's CDPs are found once each and in order, by
\* index too, their counts by page of any length add up, and a run read from either
\* end is that run: SortedCdps.getCdpsOf, cdpCountOf, cdpOfOwnerByIndex, MultiCdpGetter.
THEOREM ViewsListTheorem == Spec => []ViewsMatchTheList
  BY SortedAlways, ViewsFollow, PTL

=============================================================================
