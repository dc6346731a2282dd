------------------------- MODULE MCPoisonDetection -------------------------
(* Small instances of PoisonDetection: two messages, each with a clip of    *)
(* its own; a registered bad clip and one nobody registered, perhaps one    *)
(* that ffmpeg cannot decode, which an engine may answer instead.           *)
EXTENDS PoisonDetection, TLC

CONSTANTS t1, t2, m1, m2, clip1, clip2, bad, canned

MCCalls == {t1, t2}
MCMessages == {m1, m2}
MCClips == {clip1, clip2, bad, canned}
MCSignatures == MCClips
MCSignature(c) == c
MCRegistered == {bad}
MCAnswers(m) == {IF m = m1 THEN clip1 ELSE clip2, bad, canned}
MCOneEntry == {"living_room"}
NoFaults == {}
MCFaults == {"ffmpeg", "fetch", "disk"}

(* The messages are alike if each takes its own clip with it.               *)
Swap == (m1 :> m2) @@ (m2 :> m1) @@ (clip1 :> clip2) @@ (clip2 :> clip1)
Both == {(t1 :> t2) @@ (t2 :> t1)}
Symmetry == Both \cup {Swap} \cup {b @@ Swap : b \in Both}
=============================================================================
