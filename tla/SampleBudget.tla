---------------------------- MODULE SampleBudget ----------------------------
(***************************************************************************)
(* What the Monte Carlo program of exercise 7 promises, whatever its       *)
(* threads do: samples arrive in whole batches until the quota is reached, *)
(* each batch brings at most as many hits as samples, and nothing changes  *)
(* once the quota is reached.                                              *)
(***************************************************************************)
EXTENDS Integers

CONSTANTS
  Quota,   (* the number of samples to reach          *)
  Batch    (* the number of samples one commit brings *)

VARIABLES samples, hits

vars == <<samples, hits>>

Init == samples = 0 /\ hits = 0

Commit ==
  /\ samples < Quota
  /\ samples' = samples + Batch
  /\ \E k \in 0..Batch : hits' = hits + k

Next == Commit

Spec == Init /\ [][Next]_vars
=============================================================================
