---- MODULE MCSupervisor ----
(* Small instances of Supervisor for TLC. *)
EXTENDS Supervisor, TLC

CONSTANTS k1, k2, k3, c1, c2

TwoCalls == {k1, k2}
ThreeCalls == {k1, k2, k3}
TwoChildren == {c1, c2}

Serially == {}
Freely == Ops
OneRunAtATime == Ops \ {"run"}

Symmetry == Permutations(Calls) \cup Permutations(Children)
====
