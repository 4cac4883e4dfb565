----------------------------- MODULE Thermostat -----------------------------
(***************************************************************************)
(* The thermostat of examples/thermostat: each second fb_temp_sensor moves *)
(* its simulated temperature and publishes it; fb_temp_controller puts     *)
(* each reading to a state machine. Both have threads and NORMAL queues of *)
(* their own, so readings may be dropped on the way. ctrl_run() also       *)
(* checks in with the watchdog (module Watchdog, CheckIn) and counts       *)
(* readings for a test; neither reaches the state kept here.               *)
(***************************************************************************)
EXTENDS Integers, Sequences, StateMachine

CONSTANTS
    Cold, Hot, Pace,        \* 20, 90 and 5 degrees
    Warn, Critical, Calm,   \* 75, 85 and 70 degrees
    QueueDepth              \* EMBEDIQ_NORMAL_QUEUE_DEPTH

ASSUME ThermostatAssumption ==
    /\ {Cold, Hot, Pace, Warn, Critical, Calm} \subseteq Int
    /\ Pace > 0 /\ Cold < Hot /\ Cold <= Warn /\ Calm <= Warn /\ Warn <= Critical
    /\ QueueDepth \in Nat \ {0}

VARIABLES
    beats,      \* MSG_TIMER_1SEC in the sensor's queue
    temp, step, \* g_temp, g_step
    reports,    \* the controller's queue: temperatures
    mode,       \* g_ctrl_sm.current_state
    shown,      \* the state named by the last event of the machine's actions
    peak        \* the highest reading handled since the last one below Calm

thermoVars == <<beats, temp, step, reports, mode, shown, peak>>

SensorInit == beats = 0 /\ temp = Cold /\ step = Pace /\ reports = <<>>
ControllerInit == mode = "NORMAL" /\ shown = "NORMAL" /\ peak = Cold
ThermoInit == SensorInit /\ ControllerInit

SensorSubs == {"1SEC"}
ControllerSubs == {"TEMP_READING"}

Beat ==
    /\ "1SEC" \in SensorSubs /\ beats < QueueDepth
    /\ beats' = beats + 1
    /\ UNCHANGED <<temp, step, reports, mode, shown, peak>>

Turned(t, s) == IF t <= Cold THEN Pace ELSE IF t >= Hot THEN -Pace ELSE s

Reported(q, t) ==
    IF "TEMP_READING" \notin ControllerSubs THEN q
    ELSE Append(IF Len(q) = QueueDepth THEN Tail(q) ELSE q, t)

(* sensor_tick()                                                           *)
SensorTick ==
    /\ beats > 0
    /\ beats' = beats - 1
    /\ temp' = temp + step
    /\ step' = Turned(temp', step)
    /\ reports' = Reported(reports, temp')
    /\ UNCHANGED <<mode, shown, peak>>

CtrlTable == <<
    [from |-> "NORMAL", event |-> "TEMP", guard |-> "above_75", to |-> "WARNING"],
    [from |-> "WARNING", event |-> "TEMP", guard |-> "above_85", to |-> "CRITICAL"],
    [from |-> "CRITICAL", event |-> "TEMP", guard |-> "below_70", to |-> "NORMAL"]>>

GuardsOf_Swapped(t) ==
    {g \in {"above_75", "above_85", "below_70"} :
        CASE g = "above_75" -> t > Warn
          [] g = "above_85" -> t > Calm
          [] g = "below_70" -> t < Critical}
GuardsOf(t) ==
    {g \in {"above_75", "above_85", "below_70"} :
        CASE g = "above_75" -> t > Warn
          [] g = "above_85" -> t > Critical
          [] g = "below_70" -> t < Calm}

(* The actions of the rows emit an event that names the state entered.     *)
Entered(k) == IF k = 0 THEN shown ELSE CtrlTable[k].to

(* ctrl_run()                                                              *)
CtrlRun ==
    /\ reports # <<>>
    /\ reports' = Tail(reports)
    /\ LET t == Head(reports) IN
       /\ mode' = NextState(CtrlTable, mode, "TEMP", GuardsOf(t))
       /\ shown' = Entered(FirstMatch(CtrlTable, mode, "TEMP", GuardsOf(t)))
       /\ peak' = IF t < Calm \/ t > peak THEN t ELSE peak
    /\ UNCHANGED <<beats, temp, step>>

ThermoNext == Beat \/ SensorTick \/ CtrlRun

ThermoSpec == ThermoInit /\ [][ThermoNext]_thermoVars

(***************************************************************************)
(* Properties.                                                             *)
(***************************************************************************)
(* Whichever readings are lost, the controller is CRITICAL only if it has  *)
(* seen a critical temperature and none below Calm since, NORMAL only if   *)
(* it has seen no warning temperature since the last one below Calm, and   *)
(* the last event that was emitted names the state it is in.               *)
ModeFitsReadings ==
    /\ mode = "CRITICAL" => peak > Critical
    /\ mode = "NORMAL" => peak <= Warn
    /\ shown = mode
=============================================================================
