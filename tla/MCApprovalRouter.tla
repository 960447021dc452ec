---- MODULE MCApprovalRouter ----
(* Small instances of ApprovalRouter for TLC. *)
EXTENDS ApprovalRouter

CONSTANTS safe, risky, confirm, choice

TwoTools == {safe, risky}
OneBlessed == {safe}
TwoDialogs == {confirm, choice}
OneConfirm == {confirm}
====
