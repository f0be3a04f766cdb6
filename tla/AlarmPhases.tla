---------------------------- MODULE AlarmPhases ----------------------------
(***************************************************************************)
(* naloga1 of exercise 5: three phases of five seconds each, in which it   *)
(* catches Ctrl+C, ignores it, dies of it.  The handler of Ctrl+C stops    *)
(* the alarm and starts it again with the whole seconds that were left.    *)
(***************************************************************************)
EXTENDS CommandLine

CONSTANT Second   (* the ticks of one *)

ASSUME AlarmAssumption == Second \in Nat \ {0}

VARIABLES
  phase,          (* 0: another program is run; 4: it has ended             *)
  leftTicks,      (* the ticks to the alarm; 0: there is none               *)
  rung,           (* SIGALRM has been sent and not been handled             *)
  hpc,            (* the next call of handle_sigint                         *)
  unslept_time,
  elapsed,        (* history: the ticks of this phase                       *)
  late            (* history: alarm(0) has come too late for an alarm       *)

alarmVars == <<phase, leftTicks, rung, hpc, unslept_time, elapsed, late>>

AlarmStarts(first) ==
  /\ phase = first /\ leftTicks = (IF first = 0 THEN 0 ELSE 5 * Second)
  /\ rung = FALSE /\ hpc = "off" /\ unslept_time = 0 /\ elapsed = 0 /\ late = FALSE

(* What alarm returns: the nearest whole second, and 0 for no alarm only.  *)
WholeSeconds(t) ==
  IF t \in 1..(Second - 1) THEN 1 ELSE (t + Second \div 2) \div Second

(* Ctrl+C; the next one waits until the handler has returned.              *)
CtrlC ==
  /\ phase \in 1..3 /\ typed < MaxTyped /\ ~rung /\ hpc = "off"
  /\ typed' = typed + 1
  /\ phase' = (IF phase = 3 THEN 4 ELSE phase)
  /\ hpc' = (IF phase = 1 THEN "stop" ELSE "off")
  /\ UNCHANGED <<leftTicks, rung, unslept_time, elapsed, late>>

AlarmTick ==
  /\ phase \in 1..3 /\ leftTicks > 0 /\ hpc # "restart"
  /\ leftTicks' = leftTicks - 1 /\ rung' = (leftTicks = 1)
  /\ elapsed' = elapsed + 1
  /\ UNCHANGED <<typed, phase, hpc, unslept_time, late>>

(* alarm(0), in which the alarm may just ring: then it returns 0.          *)
StopAlarm ==
  /\ hpc = "stop" /\ hpc' = "restart"
  /\ unslept_time' = WholeSeconds(leftTicks) /\ leftTicks' = 0 /\ late' = rung
  /\ UNCHANGED <<typed, phase, rung, elapsed>>

(* A mutation of RestartAlarm: the alarm is not started again.             *)
RestartAlarm_Forgotten ==
  /\ hpc = "restart" /\ ~rung /\ hpc' = "off"
  /\ UNCHANGED <<typed, phase, leftTicks, rung, unslept_time, elapsed, late>>

(* SIGALRM is handled before the next call; alarm(0) would stop an alarm.  *)
RestartAlarm ==
  /\ hpc = "restart" /\ ~rung /\ hpc' = "off"
  /\ leftTicks' = unslept_time * Second
  /\ UNCHANGED <<typed, phase, rung, unslept_time, elapsed, late>>

handle_alarm ==
  /\ rung /\ rung' = FALSE
  /\ phase' = phase + 1 /\ elapsed' = 0
  /\ hpc' = (IF phase = 3 THEN "off" ELSE hpc)
  /\ leftTicks' = (IF phase = 3 THEN 0 ELSE 5 * Second)
  /\ UNCHANGED <<typed, unslept_time, late>>

AlarmRuns == AlarmTick \/ StopAlarm \/ RestartAlarm \/ handle_alarm
=============================================================================
