---------------------------- MODULE BlinkDriver ----------------------------
(***************************************************************************)
(* The driver of exercise 12: a timer toggles an LED while a switch is on. *)
(* Any number of processes write commands to the device, and the timer's   *)
(* callback runs between any two of their steps: there is no lock.  The    *)
(* kernel runs one callback of the timer at a time, and marks the timer as *)
(* not pending before it does.                                             *)
(***************************************************************************)
EXTENDS Integers

CONSTANTS
  Writers,        (* the processes that have the device open                *)
  Default, Short  (* user_interval at load, 2000 ms, and after 0x01, 500 ms *)

ASSUME BlinkAssumption == Default \in Nat /\ Short \in Nat

None == -1

VARIABLES
  LEDon, SWITCHon, user_interval,
  timer,    (* led_timer: ticks left, None when it is not pending           *)
  cpc,      (* where timer_callback is                                      *)
  wpc,      (* where each process is in device_write, "closed" outside      *)
  inserted, (* whether the module is in the kernel                          *)
  caught,   (* history: the callback was running when del_timer was called  *)
  late,     (* history: toggles since SWITCHon was last 1                   *)
  after     (* history: runs of the callback that have begun since the exit *)

module  == <<LEDon, SWITCHon, user_interval, timer>>
history == <<caught, late, after>>
ledVars == <<module, cpc, wpc, inserted, history>>

LedInit ==
  /\ LEDon = 0 /\ SWITCHon = 0 /\ user_interval = Default
  /\ timer = None
  /\ cpc = "idle"
  /\ wpc = [w \in Writers |-> "closed"]
  /\ inserted = TRUE
  /\ caught = FALSE /\ late = 0 /\ after = 0

(* mod_timer(&led_timer, jiffies + msecs_to_jiffies(user_interval)) moves  *)
(* a timer that is pending already.                                        *)
ModTimer == timer' = user_interval

-----------------------------------------------------------------------------
(* device_write *)

WriterGoes(w, from, to) == wpc[w] = from /\ wpc' = [wpc EXCEPT ![w] = to]

OpenLed(w) ==
  /\ inserted
  /\ WriterGoes(w, "closed", "open")
  /\ UNCHANGED <<module, cpc, inserted, history>>

Close(w) ==
  /\ WriterGoes(w, "open", "closed")
  /\ UNCHANGED <<module, cpc, inserted, history>>

SetInterval(w) ==
  /\ WriterGoes(w, "open", "check")
  /\ user_interval' \in {0, Short}
  /\ UNCHANGED <<LEDon, SWITCHon, timer, cpc, inserted, history>>

SetSwitch(w) ==
  /\ WriterGoes(w, "open", "check")
  /\ SWITCHon' \in {0, 1}
  /\ late' = IF SWITCHon' = 1 THEN 0 ELSE late
  /\ UNCHANGED <<LEDon, user_interval, timer, cpc, inserted, caught, after>>

(* A mutation of CheckSwitch: no timer for an interval of 0.               *)
CheckSwitch_SkipsZero(w) ==
  /\ WriterGoes(w, "check", IF SWITCHon = 1 /\ user_interval > 0 THEN "arm" ELSE "open")
  /\ UNCHANGED <<module, cpc, inserted, history>>

CheckSwitch(w) ==
  /\ WriterGoes(w, "check", IF SWITCHon = 1 THEN "arm" ELSE "open")
  /\ UNCHANGED <<module, cpc, inserted, history>>

Arm(w) ==
  /\ WriterGoes(w, "arm", "open")
  /\ ModTimer
  /\ UNCHANGED <<LEDon, SWITCHon, user_interval, cpc, inserted, history>>

InWrite(w) == SetInterval(w) \/ SetSwitch(w) \/ CheckSwitch(w) \/ Arm(w)

-----------------------------------------------------------------------------
(* timer_callback; two runs after the exit are counted, no more. *)

MaxAfter == 2

Expire ==
  /\ cpc = "idle" /\ timer = 0
  /\ timer' = None
  /\ cpc' = "check"
  /\ after' = IF inserted \/ after = MaxAfter THEN after ELSE after + 1
  /\ UNCHANGED <<LEDon, SWITCHon, user_interval, wpc, inserted, caught, late>>

(* A mutation of CallbackCheck: the switch is not looked at.               *)
CallbackCheck_Always ==
  /\ cpc = "check" /\ cpc' = "toggle"
  /\ UNCHANGED <<module, wpc, inserted, history>>

CallbackCheck ==
  /\ cpc = "check"
  /\ cpc' = IF SWITCHon = 1 THEN "toggle" ELSE "idle"
  /\ UNCHANGED <<module, wpc, inserted, history>>

Toggle ==
  /\ cpc = "toggle" /\ cpc' = "rearm"
  /\ LEDon' = 1 - LEDon
  /\ late' = IF SWITCHon = 1 THEN 0 ELSE late + 1
  /\ UNCHANGED <<SWITCHon, user_interval, timer, wpc, inserted, caught, after>>

(* A mutation of Rearm: an LED that has gone out is not lit again.         *)
Rearm_OnlyLit ==
  /\ cpc = "rearm" /\ cpc' = "idle"
  /\ IF LEDon = 1 THEN ModTimer ELSE UNCHANGED timer
  /\ UNCHANGED <<LEDon, SWITCHon, user_interval, wpc, inserted, history>>

Rearm ==
  /\ cpc = "rearm" /\ cpc' = "idle"
  /\ ModTimer
  /\ UNCHANGED <<LEDon, SWITCHon, user_interval, wpc, inserted, history>>

Callback == Expire \/ CallbackCheck \/ Toggle \/ Rearm

Tick ==
  /\ timer > 0 /\ timer' = timer - 1
  /\ UNCHANGED <<LEDon, SWITCHon, user_interval, cpc, wpc, inserted, history>>

-----------------------------------------------------------------------------
(* A mutation of Exit: no del_timer.                                       *)
Exit_KeepsTimer ==
  /\ inserted /\ inserted' = FALSE
  /\ \A w \in Writers : wpc[w] = "closed"
  /\ caught' = (cpc # "idle")
  /\ UNCHANGED <<module, cpc, wpc, late, after>>

(* modul_exit.  The module has an owner, so it stays while it is open;     *)
(* del_timer does not wait for a callback that is running.                 *)
Exit ==
  /\ inserted /\ inserted' = FALSE
  /\ \A w \in Writers : wpc[w] = "closed"
  /\ timer' = None
  /\ caught' = (cpc # "idle")
  /\ UNCHANGED <<LEDon, SWITCHon, user_interval, cpc, wpc, late, after>>

Unloaded == ~inserted /\ cpc = "idle" /\ timer = None /\ UNCHANGED ledVars

LedNext ==
  \/ \E w \in Writers : OpenLed(w) \/ Close(w) \/ InWrite(w)
  \/ Callback \/ Tick \/ Exit \/ Unloaded

(* Time passes, the kernel runs an expired timer, and a process that has   *)
(* stored its command finishes its call.  Nobody has to write or to leave. *)
LedFairness ==
  /\ WF_ledVars(Tick) /\ WF_ledVars(Callback)
  /\ \A w \in Writers : WF_ledVars(CheckSwitch(w) \/ Arm(w))

LedSpec     == LedInit /\ [][LedNext]_ledVars
FairLedSpec == LedSpec /\ LedFairness

-----------------------------------------------------------------------------
(* Properties *)

(* Every variable stays in its domain.                                     *)
LedTypes ==
  /\ LEDon \in {0, 1} /\ SWITCHon \in {0, 1}
  /\ user_interval \in {0, Short, Default}
  /\ timer \in {None} \cup Nat
  /\ cpc \in {"idle", "check", "toggle", "rearm"}
  /\ wpc \in [Writers -> {"closed", "open", "check", "arm"}]
  /\ inserted \in BOOLEAN /\ caught \in BOOLEAN
  /\ late \in Nat /\ after \in 0..MaxAfter

(* However writers and callback interleave, a switch that is on always has *)
(* somebody who will toggle the LED: the pending timer, the callback that  *)
(* will set it again, or a writer on its way to mod_timer                  *)
(* (malinaSW.c:21-23, 52-53).                                              *)
OnIsArmed ==
  inserted /\ SWITCHon = 1 =>
    \/ timer # None
    \/ cpc # "idle"
    \/ \E w \in Writers : wpc[w] \in {"check", "arm"}

(* Switching off takes effect at once, but for a callback that has already *)
(* looked at the switch: the LED changes at most once more.                *)
AtMostOneLateToggle == late <= 1

(* What still runs once the module is gone: nothing, when no callback was  *)
(* running at the time.  del_timer (malinaSW.c:79) neither waits for one   *)
(* that is nor keeps it from setting the timer again; even so it runs only *)
(* once more when the switch is off, and goes on for ever when it is on.   *)
AtMostOneRunAfterExit ==
  ~inserted =>
    /\ ~caught => timer = None /\ cpc = "idle" /\ after = 0
    /\ SWITCHon = 0 => after <= 1

(* A switch left on makes the LED blink for ever, once nobody writes any   *)
(* more: every write to a device that is on postpones the next toggle, so  *)
(* that it does not while commands keep coming.                            *)
LeftOn == inserted /\ SWITCHon = 1 /\ \A w \in Writers : wpc[w] \in {"closed", "open"}
Blinks == <>[]LeftOn => []<>(LEDon = 1) /\ []<>(LEDon = 0)
=============================================================================
