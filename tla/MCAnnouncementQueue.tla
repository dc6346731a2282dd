------------------------ MODULE MCAnnouncementQueue ------------------------
(* Small instances of AnnouncementQueue.                                    *)
EXTENDS AnnouncementQueue, TLC

CONSTANTS a1, a2, a3, motion, general

MCAnn == {a1, a2, a3}

(* Two are enough for an announcement accepted after a clear.              *)
MCAnn2 == {a1, a2}
MCKeys == {motion, general}

(* As in AnnouncementService.java, only motion goes stale, and its age      *)
(* limit is longer than the window of duplicate suppression.                *)
MCMaxAge == [k \in MCKeys |-> IF k = motion THEN DedupWindow + 1 ELSE 0]

MCRequests == [key : MCKeys, rank : {0, 2}]

Symmetry == Permutations(MCAnn)
=============================================================================
