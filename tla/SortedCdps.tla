----------------------------- MODULE SortedCdps -----------------------------
(***************************************************************************)
(* SortedCdps: the doubly linked list of CDPs, from the largest nominal    *)
(* collateral ratio at the head to the smallest at the tail, with the      *)
(* search that turns a caller's hints into a position.                     *)
(*                                                                         *)
(* The ratios belong to CdpManager and change while the ids are listed:    *)
(* debt redistributed by a liquidation and a rising fee index move them at *)
(* different paces, so the search may meet a list that is out of order.    *)
(***************************************************************************)
EXTENDS Naturals, FiniteSetsExt

CONSTANTS
  MaxCdps,       \* bound: how many ids are ever issued
  maxSize,       \* the list's own limit
  NICRs,         \* nominal collateral ratios of listed CDPs
  MAX_NICR       \* the ratio of a CDP without debt, as an unknown id has

ASSUME SortedCdpsAssumption ==
  /\ MaxCdps \in Nat
  /\ maxSize \in Nat
  /\ NICRs \subseteq Nat \ {0}
  /\ MAX_NICR \in Nat
  /\ \A x \in NICRs : x < MAX_NICR

dummyId == 0
CdpIds == 1 .. MaxCdps
NodeIds == CdpIds \cup {dummyId}

VARIABLES
  head, tail, size,   \* of data
  nodes,              \* the links, also of ids that are not listed
  nextCdpNonce,
  nicr                \* cdpManager.getCachedNominalICR of every id

vars == <<head, tail, size, nodes, nextCdpNonce, nicr>>

Node == [nextId : NodeIds, prevId : NodeIds]
BlankNode == [nextId |-> dummyId, prevId |-> dummyId]

NICR(id) == IF id = dummyId THEN MAX_NICR ELSE nicr[id]

-----------------------------------------------------------------------------
(* The list as a value, so that an operation can make several changes       *)

List == [head |-> head, tail |-> tail, nodes |-> nodes, size |-> size]

IsFull(list) == list.size = maxSize

Contains(list, id) ==
  /\ id # dummyId
  /\ \/ list.head = id
     \/ list.tail = id
     \/ list.nodes[id].nextId # dummyId /\ list.nodes[id].prevId # dummyId

\* Mutant: between two neighbours only the upper one is compared.
ValidInsertPositionBelow(list, newNICR, prevId, nextId) ==
  IF prevId = dummyId /\ nextId = dummyId THEN list.size = 0
  ELSE IF prevId = dummyId THEN list.head = nextId /\ newNICR >= NICR(nextId)
  ELSE IF nextId = dummyId THEN list.tail = prevId /\ newNICR <= NICR(prevId)
  ELSE list.nodes[prevId].nextId = nextId /\ NICR(prevId) >= newNICR

ValidInsertPosition(list, newNICR, prevId, nextId) ==
  IF prevId = dummyId /\ nextId = dummyId THEN list.size = 0
  ELSE IF prevId = dummyId THEN list.head = nextId /\ newNICR >= NICR(nextId)
  ELSE IF nextId = dummyId THEN list.tail = prevId /\ newNICR <= NICR(prevId)
  ELSE /\ list.nodes[prevId].nextId = nextId
       /\ NICR(prevId) >= newNICR
       /\ newNICR >= NICR(nextId)

\* The nodes a walk passes: the n-th along the next links, and along the
\* previous links.
Descent(list, startId) ==
  LET node[n \in 0 .. list.size] == IF n = 0 THEN startId ELSE list.nodes[node[n - 1]].nextId
  IN  node

Ascent(list, startId) ==
  LET node[n \in 0 .. list.size] == IF n = 0 THEN startId ELSE list.nodes[node[n - 1]].prevId
  IN  node

\* The loop stops at the end of the list or at the first valid position.
DescendList(list, newNICR, startId) ==
  LET node == Descent(list, startId)
      Stops(n) == \/ node[n] = dummyId
                  \/ ValidInsertPosition(list, newNICR, node[n], list.nodes[node[n]].nextId)
      last == node[Min({n \in 0 .. list.size : Stops(n)})]
  IN  IF list.head = startId /\ newNICR >= NICR(startId)
        THEN <<dummyId, startId>>
        ELSE <<last, list.nodes[last].nextId>>

AscendList(list, newNICR, startId) ==
  LET node == Ascent(list, startId)
      Stops(n) == \/ node[n] = dummyId
                  \/ ValidInsertPosition(list, newNICR, list.nodes[node[n]].prevId, node[n])
      last == node[Min({n \in 0 .. list.size : Stops(n)})]
  IN  IF list.tail = startId /\ newNICR <= NICR(startId)
        THEN <<startId, dummyId>>
        ELSE <<list.nodes[last].prevId, last>>

\* Mutant: a hint is believed though its ratio is on the wrong side.
FindInsertPositionTrusting(list, newNICR, prevHint, nextHint) ==
  LET prevId == IF Contains(list, prevHint) THEN prevHint ELSE dummyId
      nextId == IF Contains(list, nextHint) THEN nextHint ELSE dummyId
  IN  IF prevId = dummyId /\ nextId # dummyId THEN AscendList(list, newNICR, nextId)
      ELSE DescendList(list, newNICR, IF prevId = dummyId THEN list.head ELSE prevId)

\* A hint is dropped when it is not listed or its ratio is on the wrong side.
FindInsertPosition(list, newNICR, prevHint, nextHint) ==
  LET prevId == IF Contains(list, prevHint) /\ newNICR <= NICR(prevHint) THEN prevHint ELSE dummyId
      nextId == IF Contains(list, nextHint) /\ newNICR >= NICR(nextHint) THEN nextHint ELSE dummyId
  IN  IF prevId = dummyId /\ nextId # dummyId THEN AscendList(list, newNICR, nextId)
      ELSE DescendList(list, newNICR, IF prevId = dummyId THEN list.head ELSE prevId)

InsertPosition(list, newNICR, prevHint, nextHint) ==
  IF ValidInsertPosition(list, newNICR, prevHint, nextHint)
    THEN <<prevHint, nextHint>>
    ELSE FindInsertPosition(list, newNICR, prevHint, nextHint)

\* Mutant: the node after the new one keeps its previous link.
LinkedOneWay(list, id, prevId, nextId) ==
  [list EXCEPT !.size = @ + 1,
               !.head = IF prevId = dummyId THEN id ELSE @,
               !.tail = IF nextId = dummyId THEN id ELSE @,
               !.nodes = [n \in NodeIds |->
                  IF n = id THEN [nextId |-> nextId, prevId |-> prevId]
                  ELSE IF n = prevId /\ n # dummyId THEN [@[n] EXCEPT !.nextId = id]
                  ELSE @[n]]]

\* _insert once the position is known.
Linked(list, id, prevId, nextId) ==
  CASE prevId = dummyId /\ nextId = dummyId ->
         [list EXCEPT !.head = id, !.tail = id, !.size = @ + 1]
    [] prevId = dummyId /\ nextId # dummyId ->
         [list EXCEPT !.nodes[id].nextId = list.head, !.nodes[list.head].prevId = id,
                      !.head = id, !.size = @ + 1]
    [] prevId # dummyId /\ nextId = dummyId ->
         [list EXCEPT !.nodes[id].prevId = list.tail, !.nodes[list.tail].nextId = id,
                      !.tail = id, !.size = @ + 1]
    [] OTHER ->
         [list EXCEPT !.nodes[id] = [nextId |-> nextId, prevId |-> prevId],
                      !.nodes[prevId].nextId = id, !.nodes[nextId].prevId = id, !.size = @ + 1]

\* _remove of an id the list contains.
Unlinked(list, id) ==
  LET node == list.nodes[id]
  IN  IF list.size <= 1
        THEN [list EXCEPT !.head = dummyId, !.tail = dummyId,
                          !.nodes[id] = BlankNode, !.size = @ - 1]
      ELSE IF id = list.head
        THEN [list EXCEPT !.head = node.nextId, !.nodes[node.nextId].prevId = dummyId,
                          !.nodes[id] = BlankNode, !.size = @ - 1]
      ELSE IF id = list.tail
        THEN [list EXCEPT !.tail = node.prevId, !.nodes[node.prevId].nextId = dummyId,
                          !.nodes[id] = BlankNode, !.size = @ - 1]
      ELSE [list EXCEPT !.nodes[node.prevId].nextId = node.nextId,
                        !.nodes[node.nextId].prevId = node.prevId,
                        !.nodes[id] = BlankNode, !.size = @ - 1]

\* batchRemove of the neighbours from firstId down to lastId.
Orphaned(list, ids, firstId, lastId) ==
  LET firstPrev == list.nodes[firstId].prevId
      lastNext == list.nodes[lastId].nextId
  IN  [head |-> IF firstPrev = dummyId THEN lastNext ELSE list.head,
       tail |-> IF lastNext = dummyId THEN firstPrev ELSE list.tail,
       size |-> list.size - Cardinality(ids),
       nodes |-> [n \in NodeIds |->
          IF n \in ids THEN BlankNode
          ELSE [nextId |-> IF n = firstPrev /\ n # dummyId THEN lastNext ELSE list.nodes[n].nextId,
                prevId |-> IF n = lastNext /\ n # dummyId THEN firstPrev ELSE list.nodes[n].prevId]]]

-----------------------------------------------------------------------------
(* Operations *)

Becomes(list) ==
  /\ head' = list.head
  /\ tail' = list.tail
  /\ nodes' = list.nodes
  /\ size' = list.size

MayInsert(list, id, newNICR) == ~IsFull(list) /\ ~Contains(list, id) /\ newNICR > 0

Inserted(list, id, newNICR, prevHint, nextHint) ==
  LET position == InsertPosition(list, newNICR, prevHint, nextHint)
  IN  Linked(list, id, position[1], position[2])

\* insert, by BorrowerOperations, of a new id.
Insert(newNICR, prevHint, nextHint) ==
  LET id == nextCdpNonce
  IN  /\ id \in CdpIds
      /\ MayInsert(List, id, newNICR)
      /\ Becomes(Inserted(List, id, newNICR, prevHint, nextHint))
      /\ nextCdpNonce' = nextCdpNonce + 1
      /\ nicr' = [nicr EXCEPT ![id] = newNICR]

\* remove, by CdpManager.
Remove(id) ==
  /\ Contains(List, id)
  /\ Becomes(Unlinked(List, id))
  /\ UNCHANGED <<nextCdpNonce, nicr>>

\* reInsert, by either, of an id whose ratio has become newNICR.
ReInsert(id, newNICR, prevHint, nextHint) ==
  LET rest == Unlinked(List, id)
  IN  /\ Contains(List, id)
      /\ MayInsert(rest, id, newNICR)
      /\ Becomes(Inserted(rest, id, newNICR, prevHint, nextHint))
      /\ nicr' = [nicr EXCEPT ![id] = newNICR]
      /\ UNCHANGED nextCdpNonce

\* batchRemove, by CdpManager after a redemption: the redeemed CDPs are `count'
\* neighbours, in the order of the list.
BatchRemove(firstId, count) ==
  LET node == Descent(List, firstId)
      ids == {node[n] : n \in 0 .. count - 1}
      lastId == node[count - 1]
  IN  /\ dummyId \notin ids
      /\ nodes[firstId].prevId # dummyId \/ nodes[lastId].nextId # dummyId
      /\ \A id \in ids : Contains(List, id)
      /\ Becomes(Orphaned(List, ids, firstId, lastId))
      /\ UNCHANGED <<nextCdpNonce, nicr>>

\* CdpManager's state moves the ratios.
NICRChanges ==
  /\ \E id \in CdpIds : \E newNICR \in NICRs : nicr' = [nicr EXCEPT ![id] = newNICR]
  /\ UNCHANGED <<head, tail, size, nodes, nextCdpNonce>>

Init ==
  /\ head = dummyId
  /\ tail = dummyId
  /\ size = 0
  /\ nodes = [n \in NodeIds |-> BlankNode]
  /\ nextCdpNonce = 1
  /\ nicr \in [CdpIds -> NICRs]

Next ==
  \/ \E newNICR \in NICRs : \E prevHint, nextHint \in NodeIds :
       \/ Insert(newNICR, prevHint, nextHint)
       \/ \E id \in CdpIds : ReInsert(id, newNICR, prevHint, nextHint)
  \/ \E id \in CdpIds : Remove(id)
  \/ \E firstId \in CdpIds : \E count \in 2 .. size : BatchRemove(firstId, count)
  \/ NICRChanges

Spec == Init /\ [][Next]_vars

TypeOK ==
  /\ head \in NodeIds
  /\ tail \in NodeIds
  /\ size \in 0 .. maxSize
  /\ nodes \in [NodeIds -> Node]
  /\ nextCdpNonce \in Nat \ {0}
  /\ nicr \in [CdpIds -> NICRs]

-----------------------------------------------------------------------------

\* The ids in the order of the next links.
Listed == [i \in 1 .. size |-> Descent(List, head)[i - 1]]

\* The links of both directions describe one and the same sequence of `size'
\* ids between head and tail; a node off the list, the dummy included, has no
\* links, and `contains' says just who is listed.
\* (SortedCdps._insert, _remove, batchRemove, contains.)
LinksAreConsistent ==
  LET down == Descent(List, head)
      up == Ascent(List, tail)
      listed == {down[n] : n \in 0 .. size - 1}
  IN  /\ TypeOK
      /\ Cardinality(listed) = size
      /\ \A n \in 0 .. size - 1 : up[n] = down[size - 1 - n]
      /\ dummyId \notin listed
      /\ down[size] = dummyId
      /\ up[size] = dummyId
      /\ \A id \in NodeIds \ listed : nodes[id] = BlankNode
      /\ \A id \in NodeIds : Contains(List, id) <=> id \in listed

\* Whatever the hints, and however far the ratios have drifted from the order of
\* the list, the search ends at two neighbours that enclose the new ratio.  Had it
\* run off the end, _insert would make the new node a list of its own.
\* (SortedCdps._findInsertPosition, _descendList, _ascendList.)
InsertPositionIsFound ==
  \A newNICR \in NICRs : \A prevHint, nextHint \in NodeIds :
    LET position == FindInsertPosition(List, newNICR, prevHint, nextHint)
    IN  ValidInsertPosition(List, newNICR, position[1], position[2])

Sequence == INSTANCE CdpSequence WITH sortedCdps <- Listed

\* The linked list implements the sequence the protocol relies on.
ImplementsSequence == Sequence!Spec

=============================================================================
