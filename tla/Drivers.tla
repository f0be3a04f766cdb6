-------------------------------- MODULE Drivers --------------------------------
(***************************************************************************)
(* The two drivers that keep nothing but a few variables, the counting one *)
(* of exercise 10 and the LED's of exercise 12, each on a machine of its   *)
(* own.                                                                    *)
(***************************************************************************)
EXTENDS CountDriver, BlinkDriver

VARIABLE machine  (* the machine that is looked at: "count" or "blink"      *)

driversVars == <<vars, ledVars, machine>>

DriversInit == Init /\ LedInit /\ machine \in {"count", "blink"}

DriversNext ==
  \/ machine = "count" /\ Next /\ UNCHANGED <<ledVars, machine>>
  \/ machine = "blink" /\ LedNext /\ UNCHANGED <<vars, machine>>

DriversSpec ==
  /\ DriversInit /\ [][DriversNext]_driversVars
  /\ Fairness /\ LedFairness
=============================================================================
