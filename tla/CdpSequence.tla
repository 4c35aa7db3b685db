---------------------------- MODULE CdpSequence ----------------------------
(***************************************************************************)
(* What SortedCdps promises its callers: a sequence of CDP ids, in which   *)
(* an id is put between two neighbours whose ratios enclose its own.       *)
(*                                                                         *)
(* The ratios of the ids change while they are in the list, so that the    *)
(* list as a whole need not be in order.                                   *)
(***************************************************************************)
EXTENDS Naturals, SequencesExt

CONSTANTS CdpIds, NICRs

VARIABLES sortedCdps, nicr

Fits(list, k, newNICR) ==
  /\ k > 0 => nicr[list[k]] >= newNICR
  /\ k < Len(list) => newNICR >= nicr[list[k + 1]]

Position(list, id) == CHOOSE i \in 1 .. Len(list) : list[i] = id

InsertCdp(id, newNICR) ==
  /\ nicr' = [nicr EXCEPT ![id] = newNICR]
  /\ id \notin ToSet(sortedCdps)
  /\ \E k \in 0 .. Len(sortedCdps) :
       /\ Fits(sortedCdps, k, newNICR)
       /\ sortedCdps' = InsertAt(sortedCdps, k + 1, id)

RemoveCdp(id) ==
  /\ UNCHANGED nicr
  /\ id \in ToSet(sortedCdps)
  /\ sortedCdps' = RemoveAt(sortedCdps, Position(sortedCdps, id))

\* Several neighbours at once, but never the whole list.
RemoveCdps ==
  /\ UNCHANGED nicr
  /\ \E first, last \in 1 .. Len(sortedCdps) :
       /\ first < last
       /\ last - first + 1 < Len(sortedCdps)
       /\ sortedCdps' = SubSeq(sortedCdps, 1, first - 1)
                          \o SubSeq(sortedCdps, last + 1, Len(sortedCdps))

ReInsertCdp(id, newNICR) ==
  /\ nicr' = [nicr EXCEPT ![id] = newNICR]
  /\ id \in ToSet(sortedCdps)
  /\ LET rest == RemoveAt(sortedCdps, Position(sortedCdps, id))
     IN  \E k \in 0 .. Len(rest) :
           /\ Fits(rest, k, newNICR)
           /\ sortedCdps' = InsertAt(rest, k + 1, id)

NICRChanges ==
  /\ \E id \in CdpIds : \E newNICR \in NICRs : nicr' = [nicr EXCEPT ![id] = newNICR]
  /\ UNCHANGED sortedCdps

Init == sortedCdps = <<>> /\ nicr \in [CdpIds -> NICRs]

Next ==
  \/ \E id \in CdpIds : \E newNICR \in NICRs : InsertCdp(id, newNICR) \/ ReInsertCdp(id, newNICR)
  \/ \E id \in CdpIds : RemoveCdp(id)
  \/ RemoveCdps
  \/ NICRChanges

Spec == Init /\ [][Next]_<<sortedCdps, nicr>>

=============================================================================
