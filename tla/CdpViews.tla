------------------------------ MODULE CdpViews ------------------------------
(***************************************************************************)
(* The views that list CDPs, whole or in pages: an owner's, by SortedCdps, *)
(* from the tail up, and anybody's, by MultiCdpGetter, from either end.    *)
(* An id holds its owner's address; `owned' stands for the ids that hold   *)
(* the address asked for.                                                  *)
(***************************************************************************)
EXTENDS SortedCdps, Integers, Sequences

Seqs == INSTANCE SequencesExt

\* The loop all owner views share: the ids it passes and where it stops.
\* With maxNodes = 0 it runs to the head.
Walk(startNodeId, maxNodes) ==
  LET node == Ascent(List, IF startNodeId = dummyId THEN tail ELSE startNodeId)
      Stops(n) == node[n] = dummyId \/ (maxNodes > 0 /\ n >= maxNodes)
      steps == Min({n \in 0 .. size : Stops(n)})
  IN  [ids |-> [i \in 1 .. steps |-> node[i - 1]], next |-> node[steps]]

\* What the loop has collected of the ids it passed
OwnedAmong(ids, owned) ==
  LET among[i \in 0 .. Len(ids)] ==
        IF i = 0 THEN <<>>
        ELSE IF ids[i] \in owned THEN Append(among[i - 1], ids[i]) ELSE among[i - 1]
  IN  among[Len(ids)]

\* _cdpCountOf, of getCdpCountOf and cdpCountOf
CdpCountOf(owned, startNodeId, maxNodes) ==
  LET walk == Walk(startNodeId, maxNodes)
  IN  [count |-> Len(OwnedAmong(walk.ids, owned)), next |-> walk.next]

GetCdpsOf(owned, startNodeId, maxNodes, maxArraySize) ==
  LET walk == Walk(startNodeId, maxNodes)
  IN  IF maxArraySize = 0 THEN [cdps |-> <<>>, next |-> dummyId]
      ELSE [cdps |-> OwnedAmong(walk.ids, owned), next |-> walk.next]

GetAllCdpsOf(owned, startNodeId, maxNodes) ==
  GetCdpsOf(owned, startNodeId, maxNodes, CdpCountOf(owned, startNodeId, maxNodes).count)

\* Mutant: the index counts every CDP passed, not the owner's.
CdpOfOwnerByIdxOfAll(owned, index, startNodeId, maxNodes) ==
  LET walk == Walk(startNodeId, maxNodes)
  IN  IF index < Len(walk.ids) /\ walk.ids[index + 1] \in owned
      THEN [id |-> walk.ids[index + 1], found |-> TRUE]
      ELSE [id |-> walk.next, found |-> FALSE]

\* _cdpOfOwnerByIndex, which returns where it stopped when it finds nothing
CdpOfOwnerByIdx(owned, index, startNodeId, maxNodes) ==
  LET walk == Walk(startNodeId, maxNodes)
      theirs == OwnedAmong(walk.ids, owned)
  IN  IF index < Len(theirs) THEN [id |-> theirs[index + 1], found |-> TRUE]
      ELSE [id |-> walk.next, found |-> FALSE]

StartFrom(startIdx) == IF startIdx >= 0 THEN startIdx ELSE - (startIdx + 1)

\* getMultipleSortedCdps, of the ids it returns
GetMultipleSortedCdps(startIdx, count) ==
  LET start == StartFrom(startIdx)
      node == IF startIdx >= 0 THEN Descent(List, head) ELSE Ascent(List, tail)
      available == size - start
  IN  IF start >= size THEN <<>>
      ELSE [i \in 1 .. (IF count > available THEN available ELSE count) |->
              node[start + i - 1]]

-----------------------------------------------------------------------------
\* What a caller collects who passes the end of each page on as the next start
Pages(View(_)) ==
  LET page[k \in 0 .. size] ==
        IF k = 0 THEN <<View(dummyId)>>
        ELSE LET before == page[k - 1]
                 start == Seqs!Last(before).next
             IN  IF start = dummyId THEN before ELSE Append(before, View(start))
  IN  page[size]

\* The CDPs of an owner from the tail up
Theirs(owned) == OwnedAmong(Seqs!Reverse(Listed), owned)

\* Every view that walks the whole list finds each CDP of the owner once, in the
\* order of the list from the tail, at the index it is asked by, and says of an
\* index beyond them that there is none.
OwnerViewsMatchTheList ==
  \A owned \in SUBSET Seqs!ToSet(Listed) :
    LET theirs == Theirs(owned) IN
    /\ CdpCountOf(owned, dummyId, 0) = [count |-> Len(theirs), next |-> dummyId]
    /\ GetCdpsOf(owned, dummyId, 0, Len(theirs)) = [cdps |-> theirs, next |-> dummyId]
    /\ \A index \in 0 .. size :
         LET answer == CdpOfOwnerByIdx(owned, index, dummyId, 0)
         IN  /\ answer.found = (index < Len(theirs))
             /\ answer.found => answer.id = theirs[index + 1]

CountPages(owned, maxNodes) == Pages(LAMBDA start : CdpCountOf(owned, start, maxNodes))

Counted(pages) ==
  LET counted[k \in 0 .. Len(pages)] == IF k = 0 THEN 0 ELSE counted[k - 1] + pages[k].count
  IN  counted[Len(pages)]

\* Counted page by page, of any length, the owner's CDPs add up to all of them.
CountsByPageAddUp ==
  \A owned \in SUBSET Seqs!ToSet(Listed), maxNodes \in 1 .. size + 1 :
    Counted(CountPages(owned, maxNodes)) = Len(Theirs(owned))

\* The getter returns the run of CDPs asked for, from the head down or, for a
\* negative index, from the tail up with -1 for the last.
GetterReturnsTheRun ==
  \A start, count \in 0 .. maxSize + 1 :
    LET Run(list) == SubSeq(list, start + 1, IF start + count < size THEN start + count ELSE size)
    IN  /\ GetMultipleSortedCdps(start, count) = Run(Listed)
        /\ GetMultipleSortedCdps(- (start + 1), count) = Run(Seqs!Reverse(Listed))

\* All these views agree with the list, whoever owns what and however removals
\* and insertions rearranged the links.
ViewsMatchTheList ==
  /\ OwnerViewsMatchTheList
  /\ CountsByPageAddUp
  /\ GetterReturnsTheRun

\* Retrieved page by page, an owner's CDPs are all of them: as documented, a page
\* without any says where the next one starts.
PagesListEveryCdp ==
  \A owned \in SUBSET Seqs!ToSet(Listed), maxNodes \in 1 .. size + 1 :
    LET pages == Pages(LAMBDA start : GetAllCdpsOf(owned, start, maxNodes))
    IN  Seqs!FlattenSeq([k \in 1 .. Len(pages) |-> pages[k].cdps]) = Theirs(owned)

=============================================================================
