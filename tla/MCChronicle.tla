------------------------------- MODULE MCChronicle -------------------------------
(* Small instances of Chronicle for TLC. *)
EXTENDS Chronicle

\* Suffixes of one digit are in the order of numbers.
AsNumbers == [n \in 0..MaxLines |-> n]
================================================================================
