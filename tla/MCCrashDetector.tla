----------------------------- MODULE MCCrashDetector -----------------------------
(* Small instances of CrashDetector for TLC. *)
EXTENDS CrashDetector, TLC

CONSTANTS bash, edit, code1

TwoTools == {bash, edit}
OneSignal == {code1}
Symmetry == Permutations(TwoTools)
================================================================================
