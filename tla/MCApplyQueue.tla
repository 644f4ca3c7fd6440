---------------------------- MODULE MCApplyQueue ----------------------------
(* ApplyQueue on its own: no grey release ever holds a lock row.             *)
EXTENDS ApplyQueue
=============================================================================
