------------------------------ MODULE Gateway ------------------------------
(***************************************************************************)
(* The edge gateway of examples/gateway: fb_field_receiver polls sensors   *)
(* each second, fb_policy_engine turns readings into alerts and throttled  *)
(* telemetry, fb_north_bridge sends both to the cloud and buffers          *)
(* telemetry while its link, a state machine driven by the seconds, is     *)
(* down. Each FB has a thread and queues of its own; the bus is taken for  *)
(* what BusDispatch shows of it: NORMAL drops the oldest message of a full *)
(* queue, HIGH waits for room.                                             *)
(*                                                                         *)
(* Envelope tells what a handler is called with. fb_dispatch_loop() hands  *)
(* over the payload (FALSE); policy_run() and north_rx() take the pointer  *)
(* for the message (TRUE), so they read what stands a header (20 bytes)    *)
(* into the payload: zeros, as publishers clear their messages.            *)
(***************************************************************************)
EXTENDS Integers, Sequences, FiniteSets, StateMachine

CONSTANTS
    Sensors,        \* SENSOR_COUNT; sensors are 0 .. Sensors - 1
    Frames,         \* k_frames: per row the value of each sensor
    High, Low,      \* k_rules of each sensor
    BufferSize,     \* NORTH_BUFFER_SIZE
    GoOffline, GoReconnecting, Restored,    \* TICK_...
    TickWrap,           \* 2^32, of both tick counters
    NormalDepth,          \* EMBEDIQ_NORMAL_QUEUE_DEPTH
    HighDepth,      \* EMBEDIQ_HIGH_QUEUE_DEPTH
    Envelope,       \* what handlers are called with
    MaxPolls        \* bound: polls that publish readings

Sensor == 0 .. Sensors - 1

ASSUME GatewayAssumption ==
    /\ {Sensors, BufferSize, TickWrap, NormalDepth, HighDepth} \subseteq Nat \ {0}
    /\ Frames \in Seq([Sensor -> Int]) /\ Frames # <<>>
    /\ {High, Low} \subseteq [Sensor -> Int]
    /\ {GoOffline, GoReconnecting, Restored} \subseteq 0 .. TickWrap - 1
    /\ Envelope \in BOOLEAN /\ MaxPolls \in Nat

VARIABLES
    seconds,        \* MSG_TIMER_1SEC in the receiver's queue
    polls,          \* the receiver's g_tick; publishing polls are bounded
    readings,       \* the policy engine's queue
    active,         \* g_alert_active
    counter,        \* g_telem_counter
    seq,            \* g_telem_seq
    normal, urgent, \* the north bridge's NORMAL and HIGH queues
    northTick,      \* the north bridge's g_tick
    state,          \* g_north_sm.current_state
    conn,           \* g_conn_state, which the actions of the machine set
    buffer,         \* g_buffer
    cloud           \* everything that was sent up

receiver == <<seconds, polls>>
policy == <<readings, active, counter, seq>>
link == <<northTick, state, conn, buffer>>
gatewayVars == <<receiver, policy, normal, urgent, link, cloud>>

ReceiverInit == seconds = 0 /\ polls = 0
PolicyInit ==
    /\ readings = <<>>
    /\ active = [s \in Sensor |-> FALSE]
    /\ counter = [s \in Sensor |-> 0] /\ seq = [s \in Sensor |-> 0]
NorthInit ==
    /\ normal = <<>> /\ urgent = <<>>
    /\ northTick = 0 /\ state = "ONLINE" /\ conn = "ONLINE"
    /\ buffer = <<>> /\ cloud = <<>>
GatewayInit == ReceiverInit /\ PolicyInit /\ NorthInit

(* What each FB subscribes to, and each sub-function of the north bridge.  *)
ReceiverSubs == {"tick"}
PolicySubs == {"reading"}
NorthTimerSubs == {"tick"}
NorthRxSubs == {"telemetry", "alert"}
NorthSubs == NorthTimerSubs \cup NorthRxSubs

SECOND == [kind |-> "tick"]

(* What is left in a NORMAL queue: the oldest messages make room.          *)
Newest(q) ==
    IF Len(q) <= NormalDepth THEN q ELSE SubSeq(q, Len(q) - NormalDepth + 1, Len(q))
Deliver(q, subs, m) == IF m.kind \in subs THEN Newest(Append(q, m)) ELSE q

(* The timer publishes MSG_TIMER_1SEC.                                     *)
Second ==
    /\ seconds' = IF SECOND.kind \in ReceiverSubs /\ seconds < NormalDepth
                    THEN seconds + 1 ELSE seconds
    /\ normal' = Deliver(normal, NorthSubs, SECOND)
    /\ UNCHANGED <<polls, policy, urgent, link, cloud>>

(* field_poll(): a reading of each sensor from the scripted table.         *)
Poll ==
    /\ seconds > 0
    /\ seconds' = seconds - 1
    /\ IF polls < MaxPolls
       THEN /\ polls' = polls + 1
            /\ LET frame == Frames[(polls % Len(Frames)) + 1]
                   cycle == [i \in 1 .. Sensors |->
                            [kind |-> "reading", sensor |-> i - 1, value |-> frame[i - 1]]]
               IN  readings' = IF "reading" \in PolicySubs THEN Newest(readings \o cycle)
                               ELSE readings
       ELSE UNCHANGED <<polls, readings>>
    /\ UNCHANGED <<active, counter, seq, normal, urgent, link, cloud>>

(* What policy_run() finds in the reading it is called with.               *)
Reading(r) == IF Envelope THEN r ELSE [kind |-> "reading", sensor |-> 0, value |-> 0]

Breached(r) == r.value > High[r.sensor] \/ r.value < Low[r.sensor]
Threshold(r) == IF r.value > High[r.sensor] THEN High[r.sensor] ELSE Low[r.sensor]

Raises_Always(r) == Breached(r) # active[r.sensor] \/ Breached(r)
Raises(r) == Breached(r) # active[r.sensor]

Alert(r) == [kind |-> "alert", sensor |-> r.sensor, active |-> Breached(r),
             threshold |-> Threshold(r)]
Telemetry(r) == [kind |-> "telemetry", sensor |-> r.sensor, seq |-> seq[r.sensor]]

(* policy_run(). publish_alert() waits for room in the HIGH queue.         *)
PolicyRun ==
    /\ readings # <<>>
    /\ readings' = Tail(readings)
    /\ LET r == Reading(Head(readings)) IN
       /\ active' = [active EXCEPT ![r.sensor] = Breached(r)]
       /\ IF Raises(r)
          THEN Len(urgent) < HighDepth /\ urgent' = Append(urgent, Alert(r))
          ELSE UNCHANGED urgent
       /\ counter' = [counter EXCEPT ![r.sensor] = (@ + 1) % 2]
       /\ IF counter[r.sensor] = 1
          THEN /\ seq' = [seq EXCEPT ![r.sensor] = @ + 1]
               /\ normal' = Deliver(normal, NorthSubs, Telemetry(r))
          ELSE UNCHANGED <<seq, normal>>
    /\ UNCHANGED <<receiver, link, cloud>>

NorthTable == <<
    [from |-> "ONLINE", event |-> "1SEC", guard |-> "go_offline", to |-> "OFFLINE"],
    [from |-> "OFFLINE", event |-> "1SEC", guard |-> "go_reconnecting", to |-> "RECONNECTING"],
    [from |-> "RECONNECTING", event |-> "1SEC", guard |-> "link_restored", to |-> "ONLINE"]>>

Guards(t) ==
    {g \in {"go_offline", "go_reconnecting", "link_restored"} :
        t = CASE g = "go_offline" -> GoOffline
              [] g = "go_reconnecting" -> GoReconnecting
              [] g = "link_restored" -> Restored}

Flushed_NewestFirst(b) == Reverse(b)
(* The order in which action_link_restored() sends the buffer.             *)
Flushed(b) == b

(* north_timer(): the counter is advanced, then the machine is called.     *)
NorthTimer ==
    /\ normal # <<>> /\ Head(normal).kind \in NorthTimerSubs
    /\ normal' = Tail(normal)
    /\ northTick' = (northTick + 1) % TickWrap
    /\ LET k == FirstMatch(NorthTable, state, "1SEC", Guards(northTick')) IN
       /\ state' = NextState(NorthTable, state, "1SEC", Guards(northTick'))
       /\ conn' = IF k = 0 THEN conn ELSE NorthTable[k].to
       /\ IF k # 0 /\ NorthTable[k].guard = "link_restored"
          THEN cloud' = cloud \o Flushed(buffer) /\ buffer' = <<>>
          ELSE UNCHANGED <<cloud, buffer>>
    /\ UNCHANGED <<receiver, policy, urgent>>

Buffered(b, m) == IF Len(b) < BufferSize THEN Append(b, m) ELSE b

Online == conn = "ONLINE"

(* north_rx() with a telemetry message.                                    *)
NorthTelemetry ==
    /\ normal # <<>> /\ Head(normal).kind \in NorthRxSubs
    /\ normal' = Tail(normal)
    /\ cloud' = IF Envelope /\ Online THEN Append(cloud, Head(normal)) ELSE cloud
    /\ buffer' = IF Envelope /\ ~Online THEN Buffered(buffer, Head(normal)) ELSE buffer
    /\ UNCHANGED <<receiver, policy, urgent, northTick, state, conn>>

(* north_rx() with an alert, which is sent whatever the state of the link. *)
NorthAlert ==
    /\ urgent # <<>>
    /\ urgent' = Tail(urgent)
    /\ cloud' = IF Envelope THEN Append(cloud, Head(urgent)) ELSE cloud
    /\ UNCHANGED <<receiver, policy, normal, link>>

North == NorthTimer \/ NorthTelemetry \/ NorthAlert
GatewayNext == Second \/ Poll \/ PolicyRun \/ North

(* Seconds pass and every dispatch thread is scheduled. HIGH messages are  *)
(* received before NORMAL ones, but one of these may slip through          *)
(* (BypassBound of BusDispatch), so the order between the two is open.     *)
GatewaySpec ==
    /\ GatewayInit /\ [][GatewayNext]_gatewayVars
    /\ WF_gatewayVars(Second) /\ WF_gatewayVars(Poll) /\ WF_gatewayVars(PolicyRun)
    /\ WF_gatewayVars(NorthTimer \/ NorthTelemetry) /\ WF_gatewayVars(NorthAlert)

(***************************************************************************)
(* Properties.                                                             *)
(***************************************************************************)
(* The telemetry of sensor s in q: its numbers are from lo to below hi and *)
(* in order, none of them twice.                                           *)
IsTelemetry(m, s) == m.kind = "telemetry" /\ m.sensor = s
Ascends(q, s, lo, hi) ==
    \A i \in DOMAIN q : IsTelemetry(q[i], s) =>
        /\ q[i].seq \in lo .. hi - 1
        /\ \A j \in 1 .. i - 1 : IsTelemetry(q[j], s) => q[j].seq < q[i].seq

(* Whatever is dropped on the way, the telemetry of a sensor reaches the   *)
(* cloud in the order of its sequence numbers, none of them twice: what is *)
(* buffered during an outage is sent before anything newer.                *)
TelemetryInOrder ==
    \A s \in Sensor : Ascends(cloud \o buffer \o normal, s, 0, seq[s])

(* The alerts of sensor s in q change its status by turns from one to the  *)
(* other.                                                                  *)
AlertsIn(q, s) == {i \in DOMAIN q : q[i].kind = "alert" /\ q[i].sensor = s}
ByTurns(q, s, from, to) ==
    /\ AlertsIn(q, s) = {} => from = to
    /\ \A i \in AlertsIn(q, s) :
          /\ (\A j \in AlertsIn(q, s) : i <= j) => q[i].active # from
          /\ (\A j \in AlertsIn(q, s) : j <= i) => q[i].active = to
          /\ \A j \in AlertsIn(q, s) :
                (i < j /\ \A k \in AlertsIn(q, s) : k <= i \/ j <= k) => q[i].active # q[j].active

(* Alerts of a sensor are raised and cleared by turns, none is lost or     *)
(* repeated, and the last one says what the policy engine holds now.       *)
AlertsFollowPolicy ==
    \A s \in Sensor : ByTurns(cloud \o urgent, s, FALSE, active[s])

(* An outage ends, and then nothing is left in the buffer.                 *)
LinkComesBack == (conn # "ONLINE") ~> (conn = "ONLINE" /\ buffer = <<>>)

(***************************************************************************)
(* What the code does not keep.                                            *)
(***************************************************************************)
(* A threshold that is exceeded is reported to the cloud: not so with the  *)
(* payload that the dispatch loop hands over, as policy_run() reads zeros, *)
(* and otherwise if the queues can hold the readings.                      *)
BreachIsReported ==
    \A s \in Sensor :
        (\E i \in DOMAIN readings : readings[i].sensor = s /\ Breached(readings[i]))
            ~> (\E i \in DOMAIN cloud : cloud[i].kind = "alert" /\ cloud[i].sensor = s)

(* A cleared alert names the threshold that had been exceeded.             *)
ClearNamesThreshold ==
    \A i, j \in DOMAIN cloud :
        i < j /\ cloud[i].kind = "alert" /\ cloud[j].kind = "alert"
        /\ cloud[i].sensor = cloud[j].sensor => cloud[i].threshold = cloud[j].threshold
=============================================================================
