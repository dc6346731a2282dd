----------------------------- MODULE OrderedSets -----------------------------
(* A LinkedHashSet, or the keys of a LinkedHashMap: the elements in the     *)
(* order they came in, each of them once.  Both operators are recursive     *)
(* functions and not SelectSeq and FoldLeft, which have no proof rules.     *)
EXTENDS Integers, SequencesExt

(* Removal: what is left of s, in its order.                                *)
Only(s, keep) ==
    LET kept[i \in 0 .. Len(s)] ==
            IF i = 0 THEN <<>>
            ELSE IF s[i] \in keep THEN Append(kept[i - 1], s[i]) ELSE kept[i - 1]
    IN  kept[Len(s)]

(* add and addAll: s, each of its elements where it comes first.            *)
FirstOccurrences(s) ==
    LET seen[i \in 0 .. Len(s)] ==
            IF i = 0 THEN <<>>
            ELSE IF s[i] \in ToSet(seen[i - 1]) THEN seen[i - 1] ELSE Append(seen[i - 1], s[i])
    IN  seen[Len(s)]
=============================================================================
