------------------------------- MODULE MCRegistry -------------------------------
(* Small instances of Registry for TLC. *)
EXTENDS Registry, TLC

CONSTANTS s1, k1, k2, capped, watching, path, entry

OneService == {s1}
TwoCalls == {k1, k2}
Definitions == {capped, watching}
CappedOnly == {capped}
OnePath == {path}
OneEntry == {entry}
Triggers == [d \in Definition |->
                IF d = watching THEN [path |-> path, events |-> {"add", "change"}] ELSE None]
Symmetry == Permutations(Calls)
================================================================================
