----------------------- MODULE MCAnnouncementService -----------------------
(* Small instances of AnnouncementService.                                  *)
EXTENDS AnnouncementService, TLC

CONSTANTS a1, a2, a3, s1, s2, k1, k2, k3

MCAnn == {a1, a2, a3}
MCAnn2 == {a1, a2}
MCKeys == {k1, k2, k3}

Request(k, r, i, u) == [key |-> k, rank |-> r, interruptible |-> i, audio |-> u]

(* A LOW announcement that may not be interrupted, with a url and a text to *)
(* fall back to; a HIGH one; an EMERGENCY that is only a url.               *)
MCRequests == {Request(k1, 3, FALSE, "both"), Request(k2, 1, TRUE, "text"),
               Request(k3, 0, TRUE, "url")}

(* The first one goes stale.                                                *)
MCMaxAge == [k \in MCKeys |-> IF k = k1 THEN 1 ELSE 0]

MCStops == {s1}
MCChains == {<<"device">>, <<"remote", "device">>}
MCChain == {<<"remote", "device">>}

Symmetry == Permutations(MCAnn)
Symmetry2 == Permutations(MCAnn2)
=============================================================================
