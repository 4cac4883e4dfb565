------------------------- MODULE BusDispatchProofs -------------------------
(* Type correctness of message delivery, the absence of lost wake-ups and  *)
(* of losses nobody is told of, for any number of FBs, publishers, queue   *)
(* depths and routes.                                                      *)
EXTENDS BusDispatch, SequenceTheorems, FiniteSetTheorems, TLAPS

(* dispatch_shutdown() has posted e's semaphore.                           *)
Posted(e) == (ctl = "post" /\ idx > e) \/ ctl = "join"

(* The token dispatch_shutdown() posted and e's thread has not consumed:   *)
(* the thread will take it to end, so no message may rely on it.           *)
Reserved(e) == IF Posted(e) /\ disp[e] \in {"wait", "scan", "handle"} THEN 1 ELSE 0

(* e's thread will still look into queue p before it sleeps, or it has     *)
(* consumed a message's token to end and gets one back from the shutdown.  *)
WillLook(e, p) ==
    \/ disp[e] = "handle"
    \/ disp[e] = "scan" /\ scanAt[e] <= p
    \/ disp[e] = "check" /\ ~Posted(e)
    \/ Stopped(e) /\ shutdown /\ ~Posted(e)

Token(e) ==
    /\ sem[e] >= Reserved(e)
    /\ \A p \in Prio : (Waiting(e, p) /\ ~WillLook(e, p) /\ ~Announced(e)) => sem[e] > Reserved(e)

FlagsInv ==
    /\ shutdown <=> ctl \in {"post", "join"}
    /\ running <=> ctl \in {"spawn", "running", "post", "join"}
    /\ notifySet <=> ctl # "boot"

ThreadsInv ==
    /\ ctl \in {"boot", "booted"} => \A e \in EP : Stopped(e)
    /\ ctl = "spawn" => \A e \in EP : Stopped(e) <=> e >= idx
    /\ ctl = "running" => \A e \in EP : ~Stopped(e)
    /\ ctl = "join" => \A e \in EP : e < idx => Stopped(e)

(* Nothing is published while embediq_engine_boot() runs.                  *)
QuietInv ==
    ctl = "boot" => /\ \A t \in Thread : at[t] = "idle"
                    /\ \A e \in EP, p \in Prio : ~Waiting(e, p)

ControlInv == FlagsInv /\ ThreadsInv /\ QuietInv

(* A dispatch thread publishes from a handler only.                        *)
HandlerInv == \A e \in EP : at[e] # "idle" => disp[e] = "handle"

(* Past a message taken ahead of a HIGH one the drain is back at HIGH.     *)
Passed(e) ==
    /\ bypass[e] \in {0, 1}
    /\ bypass[e] = 1 => /\ Waiting(e, HIGH)
                        /\ disp[e] = "handle" \/ (disp[e] = "scan" /\ scanAt[e] = HIGH)

IInv == TypeOK /\ ControlInv /\ HandlerInv /\ \A e \in EP : Passed(e) /\ Token(e)

-----------------------------------------------------------------------------
LEMMA RoutesFact == Routes \in [MsgId -> Seq(EP)]
  BY BusDispatchAssumption DEF BusDispatchAssumption

LEMMA DepthFact == Depth \in [Prio -> Nat \ {0}]
  BY BusDispatchAssumption DEF BusDispatchAssumption

QueuesOK ==
    /\ queue \in [EP -> [Prio -> Seq(Msg)]]
    /\ \A e \in EP, p \in Prio : Len(queue[e][p]) <= Depth[p]

PublishersOK ==
    /\ at \in [Thread -> Stages]
    /\ msg \in [Thread -> Msg \cup {NoMsg}]
    /\ k \in [Thread -> Nat \ {0}]
    /\ \A t \in Thread : at[t] = "idle" => k[t] = 1
    /\ \A t \in Thread : at[t] # "idle" => msg[t] \in Msg /\ k[t] <= Len(Routes[msg[t].id])
    /\ \A t \in Thread : at[t] \in {"discard", "retry"} => Lane(msg[t]) = NORMAL

CountersOK ==
    /\ sem \in [EP -> Nat]
    /\ sent \in [Thread -> Nat]
    /\ drops \in [EP -> Nat] /\ lost \in [EP -> Nat] /\ bypass \in [EP -> Nat]

DispatchersOK == disp \in [EP -> Locs] /\ scanAt \in [EP -> Prio]

FlagsOK == notifySet \in BOOLEAN /\ running \in BOOLEAN /\ shutdown \in BOOLEAN

ControllerOK ==
    /\ ctl \in {"boot", "booted", "spawn", "running", "post", "join"}
    /\ idx \in 0 .. NFB

(* TypeOK in the parts a step disturbs one at a time.                      *)
PartsOK == QueuesOK /\ PublishersOK /\ CountersOK /\ DispatchersOK /\ FlagsOK /\ ControllerOK

LEMMA TypeParts == TypeOK <=> PartsOK
  BY DEF TypeOK, PartsOK, QueuesOK, PublishersOK, CountersOK, DispatchersOK, FlagsOK,
         ControllerOK

LEMMA TypePartsNext == TypeOK' <=> PartsOK'
  BY TypeParts, PTL

(* A thread inside route_message() has a subscriber and a lane in hand.    *)
LEMMA InHand ==
  ASSUME PublishersOK, NEW t \in Thread, at[t] # "idle"
  PROVE  /\ msg[t] \in Msg
         /\ Target(t) \in EP
         /\ Lane(msg[t]) \in Prio
  <1>1. msg[t] \in Msg /\ k[t] \in Nat \ {0} /\ k[t] <= Len(Routes[msg[t].id])
    BY DEF PublishersOK
  <1>2. msg[t].id \in MsgId /\ msg[t].prio \in 0 .. 255
    BY <1>1 DEF Msg
  <1>3. Lane(msg[t]) \in Prio
    <2>1. CASE msg[t].prio > 2
      BY <2>1 DEF Lane, Prio, LOW, NORMAL
    <2>2. CASE ~(msg[t].prio > 2)
      <3>1. msg[t].prio \in 0 .. 2
        BY <1>2, <2>2
      <3> QED
        BY <2>2, <3>1 DEF Lane, Prio, LOW
    <2> QED
      BY <2>1, <2>2
  <1>4. Routes[msg[t].id] \in Seq(EP)
    BY <1>2, RoutesFact
  <1>5. k[t] \in 1 .. Len(Routes[msg[t].id])
    BY <1>1, <1>4, LenProperties
  <1>6. Routes[msg[t].id][k[t]] \in EP
    BY <1>4, <1>5, ElementOfSeq
  <1> QED
    BY <1>1, <1>3, <1>6 DEF Target

(* Enqueueing where there is room keeps the queues typed and bounded.      *)
LEMMA EnqueueOK ==
  ASSUME QueuesOK, PublishersOK, NEW t \in Thread, at[t] # "idle",
         Room(Target(t), Lane(msg[t])), Enqueue(t)
  PROVE  QueuesOK'
  <1> DEFINE e == Target(t)
             p == Lane(msg[t])
             s == queue[e][p]
  <1>1. e \in EP /\ p \in Prio /\ msg[t] \in Msg
    BY InHand
  <1>2. s \in Seq(Msg) /\ Len(s) < Depth[p] /\ Len(s) \in Nat /\ Depth[p] \in Nat
    BY <1>1, LenProperties, DepthFact DEF QueuesOK, Room
  <1> HIDE DEF e, p
  <1>3. Append(s, msg[t]) \in Seq(Msg) /\ Len(Append(s, msg[t])) = Len(s) + 1
    BY <1>1, <1>2, AppendProperties
  <1>4. queue' = [queue EXCEPT ![e][p] = Append(s, msg[t])]
    BY DEF Enqueue, e, p
  <1>5. queue' \in [EP -> [Prio -> Seq(Msg)]]
    BY <1>1, <1>3, <1>4 DEF QueuesOK
  <1>6. ASSUME NEW f \in EP, NEW r \in Prio
        PROVE  Len(queue'[f][r]) <= Depth[r]
    <2>1. CASE f = e /\ r = p
      <3>1. Len(s) + 1 <= Depth[p]
        BY <1>2
      <3> QED
        BY <1>1, <1>3, <1>4, <2>1, <3>1 DEF QueuesOK
    <2>2. CASE ~(f = e /\ r = p)
      BY <1>1, <1>4, <2>2 DEF QueuesOK
    <2> QED
      BY <2>1, <2>2
  <1> QED
    BY <1>5, <1>6 DEF QueuesOK

(* Taking the oldest message keeps them typed and bounded too.             *)
LEMMA TakeOK ==
  ASSUME QueuesOK, NEW e \in EP, NEW p \in Prio, queue[e][p] # <<>>,
         queue' = [queue EXCEPT ![e][p] = Tail(@)]
  PROVE  QueuesOK'
  <1> DEFINE s == queue[e][p]
  <1>2. s \in Seq(Msg) /\ Len(s) <= Depth[p] /\ Len(s) \in Nat /\ Depth[p] \in Nat
    BY LenProperties, DepthFact DEF QueuesOK
  <1>3. Tail(s) \in Seq(Msg) /\ Len(Tail(s)) = Len(s) - 1
    BY <1>2, HeadTailProperties
  <1>5. queue' \in [EP -> [Prio -> Seq(Msg)]]
    BY <1>3 DEF QueuesOK
  <1>6. ASSUME NEW f \in EP, NEW r \in Prio
        PROVE  Len(queue'[f][r]) <= Depth[r]
    <2>1. CASE f = e /\ r = p
      <3>1. Len(s) - 1 <= Depth[p]
        BY <1>2
      <3> QED
        BY <1>3, <2>1, <3>1 DEF QueuesOK
    <2>2. CASE ~(f = e /\ r = p)
      BY <2>2 DEF QueuesOK
    <2> QED
      BY <2>1, <2>2
  <1> QED
    BY <1>5, <1>6 DEF QueuesOK

(* The thread moves to a stage that needs nothing new of its message.      *)
LEMMA StageOK ==
  ASSUME PublishersOK, NEW t \in Thread, at[t] # "idle", NEW s \in Stages \ {"idle"},
         s \in {"discard", "retry"} => Lane(msg[t]) = NORMAL,
         at' = [at EXCEPT ![t] = s], UNCHANGED <<msg, k>>
  PROVE  PublishersOK'
  BY DEF PublishersOK

(* On to the next subscriber, or done.                                     *)
LEMMA AdvanceOK ==
  ASSUME PublishersOK, NEW t \in Thread, at[t] # "idle", Advance(t), UNCHANGED msg
  PROVE  PublishersOK'
  <1>1. msg[t] \in Msg /\ k[t] \in Nat \ {0} /\ Routes[msg[t].id] \in Seq(EP)
    BY RoutesFact DEF PublishersOK, Msg
  <1>2. Len(Routes[msg[t].id]) \in Nat
    BY <1>1, LenProperties
  <1>3. CASE k[t] < Len(Routes[msg[t].id])
    <2>1. k[t] + 1 \in Nat \ {0} /\ k[t] + 1 <= Len(Routes[msg[t].id])
      BY <1>1, <1>2, <1>3
    <2> QED
      BY <1>1, <1>3, <2>1 DEF Advance, PublishersOK, Stages
  <1>4. CASE ~(k[t] < Len(Routes[msg[t].id]))
    <2>1. at' = [at EXCEPT ![t] = "idle"] /\ k' = [k EXCEPT ![t] = 1]
      BY <1>4 DEF Advance
    <2>2. k' \in [Thread -> Nat \ {0}] /\ at' \in [Thread -> Stages]
      BY <2>1 DEF PublishersOK, Stages
    <2> QED
      BY <2>1, <2>2 DEF PublishersOK
  <1> QED
    BY <1>3, <1>4

LEMMA InitType == Init => TypeOK
  <1> SUFFICES ASSUME Init PROVE PartsOK
    BY TypeParts
  <1>1. \A p \in Prio : Depth[p] \in Nat
    BY DepthFact
  <1>2. QueuesOK
    <2>1. <<>> \in Seq(Msg) /\ Len(<<>>) = 0
      BY EmptySeq
    <2> QED
      BY <1>1, <2>1 DEF Init, QueuesOK
  <1>3. PublishersOK
    BY DEF Init, PublishersOK, Stages
  <1>4. CountersOK
    BY DEF Init, CountersOK
  <1>5. DispatchersOK
    BY DEF Init, DispatchersOK, Locs, Prio, HIGH
  <1>6. FlagsOK
    BY DEF Init, FlagsOK
  <1>7. ControllerOK
    BY BusDispatchAssumption DEF BusDispatchAssumption, Init, ControllerOK
  <1> QED
    BY <1>2, <1>3, <1>4, <1>5, <1>6, <1>7 DEF PartsOK

(* Each step of route_message() keeps the types.                           *)
LEMMA RouteType ==
  ASSUME TypeOK, NEW t \in Thread, Publish(t) \/ Route(t)
  PROVE  TypeOK'
  <1> USE DEF Stages
  <1>1. QueuesOK /\ PublishersOK /\ CountersOK /\ DispatchersOK /\ FlagsOK /\ ControllerOK
    BY TypeParts DEF PartsOK
  <1>2. UNCHANGED <<dispVars, ctlVars>>
    BY DEF Publish, Route, SendHigh, SendNormal, Discard, Retry, SendLow, Notify
  <1>3. DispatchersOK' /\ FlagsOK' /\ ControllerOK'
    <2>1. DispatchersOK'
      BY <1>1, <1>2 DEF DispatchersOK, dispVars
    <2>2. FlagsOK'
      BY <1>1, <1>2 DEF FlagsOK, ctlVars
    <2>3. ControllerOK'
      BY <1>1, <1>2 DEF ControllerOK, ctlVars
    <2> QED
      BY <2>1, <2>2, <2>3
  <1> SUFFICES QueuesOK' /\ PublishersOK' /\ CountersOK'
    BY <1>3, TypePartsNext DEF PartsOK
  <1>4. CASE Publish(t)
    <2>1. PICK m \in Emits[t] :
            /\ msg' = [msg EXCEPT ![t] = m]
            /\ at' = [at EXCEPT ![t] = IF Routes[m.id] = <<>> THEN "idle" ELSE "send"]
      BY <1>4 DEF Publish
    <2>2. m \in Msg
      BY BusDispatchAssumption DEF BusDispatchAssumption
    <2>3. k' = k /\ k[t] = 1
      BY <1>1, <1>4 DEF Publish, PublishersOK
    <2>4. Routes[m.id] # <<>> => 1 <= Len(Routes[m.id])
      <3>1. Routes[m.id] \in Seq(EP)
        BY <2>2, RoutesFact DEF Msg
      <3> QED
        BY <3>1, EmptySeq, LenProperties
    <2>5. PublishersOK'
      BY <1>1, <2>1, <2>2, <2>3, <2>4 DEF PublishersOK
    <2> QED
      BY <1>1, <1>2, <1>4, <2>5 DEF Publish, QueuesOK, CountersOK, dispVars
  <1>5. CASE SendHigh(t)
    <2>1. QueuesOK'
      BY <1>1, <1>5, EnqueueOK DEF SendHigh
    <2>2. PublishersOK'
      BY <1>1, <1>5, StageOK DEF SendHigh
    <2> QED
      BY <1>1, <1>2, <1>5, <2>1, <2>2 DEF SendHigh, CountersOK, dispVars
  <1>6. CASE SendNormal(t)
    <2>1. QueuesOK'
      <3>1. CASE Room(Target(t), NORMAL)
        BY <1>1, <1>6, <3>1, EnqueueOK DEF SendNormal
      <3>2. CASE ~Room(Target(t), NORMAL)
        BY <1>1, <1>6, <3>2 DEF SendNormal, QueuesOK
      <3> QED
        BY <3>1, <3>2
    <2>2. PublishersOK'
      BY <1>1, <1>6, StageOK DEF SendNormal
    <2> QED
      BY <1>1, <1>2, <1>6, <2>1, <2>2 DEF SendNormal, CountersOK, dispVars
  <1>7. CASE Discard(t)
    <2>1. at[t] # "idle" /\ Target(t) \in EP /\ NORMAL \in Prio
      BY <1>1, <1>7, InHand DEF Discard, NORMAL, Prio
    <2>2. QueuesOK'
      <3>1. CASE Discardable(Target(t))
        BY <1>1, <1>7, <2>1, <3>1, TakeOK DEF Discard, Discardable
      <3>2. CASE ~Discardable(Target(t))
        BY <1>1, <1>7, <3>2 DEF Discard, QueuesOK
      <3> QED
        BY <3>1, <3>2
    <2>3. PublishersOK'
      <3>1. Lane(msg[t]) = NORMAL
        BY <1>1, <1>7 DEF PublishersOK, Discard
      <3> QED
        BY <1>1, <1>7, <3>1, StageOK DEF Discard
    <2>4. CountersOK'
      <3>1. lost[Target(t)] + 1 \in Nat
        BY <1>1, <1>2, <2>1 DEF CountersOK, dispVars
      <3> QED
        BY <1>1, <1>2, <1>7, <2>1, <3>1 DEF Discard, CountersOK, dispVars
    <2> QED
      BY <2>2, <2>3, <2>4
  <1>8. CASE Retry(t)
    <2>1. at[t] # "idle" /\ Target(t) \in EP /\ Lane(msg[t]) = NORMAL
      BY <1>1, <1>8, InHand DEF Retry, PublishersOK
    <2>2. QueuesOK'
      <3>1. CASE Room(Target(t), NORMAL)
        BY <1>1, <1>8, <2>1, <3>1, EnqueueOK DEF Retry
      <3>2. CASE ~Room(Target(t), NORMAL)
        BY <1>1, <1>8, <3>2 DEF Retry, QueuesOK
      <3> QED
        BY <3>1, <3>2
    <2>3. PublishersOK'
      BY <1>1, <1>8, StageOK DEF Retry
    <2>4. CountersOK'
      <3>1. lost[Target(t)] + 1 \in Nat /\ drops[Target(t)] + 1 \in Nat
        BY <1>1, <1>2, <2>1 DEF CountersOK, dispVars
      <3> QED
        BY <1>1, <1>2, <1>8, <2>1, <3>1 DEF Retry, ReportDrop, CountersOK, dispVars
    <2> QED
      BY <2>2, <2>3, <2>4
  <1>9. CASE SendLow(t)
    <2>1. at[t] # "idle" /\ Target(t) \in EP /\ Lane(msg[t]) = LOW
      BY <1>1, <1>9, InHand DEF SendLow
    <2>2. CASE Room(Target(t), LOW)
      <3>1. QueuesOK'
        BY <1>1, <1>9, <2>1, <2>2, EnqueueOK DEF SendLow
      <3>2. PublishersOK'
        BY <1>1, <1>9, <2>2, StageOK DEF SendLow
      <3>3. CountersOK'
        BY <1>1, <1>2, <1>9, <2>2 DEF SendLow, CountersOK, dispVars
      <3> QED
        BY <3>1, <3>2, <3>3
    <2>3. CASE ~Room(Target(t), LOW)
      <3>1. QueuesOK'
        BY <1>1, <1>9, <2>3 DEF SendLow, QueuesOK
      <3>2. PublishersOK'
        BY <1>1, <1>9, <2>1, <2>3, AdvanceOK DEF SendLow
      <3>3. lost[Target(t)] + 1 \in Nat /\ drops[Target(t)] + 1 \in Nat
        BY <1>1, <1>2, <2>1 DEF CountersOK, dispVars
      <3>4. CountersOK'
        BY <1>1, <1>2, <1>9, <2>1, <2>3, <3>3 DEF SendLow, ReportDrop, CountersOK, dispVars
      <3> QED
        BY <3>1, <3>2, <3>4
    <2> QED
      BY <2>2, <2>3
  <1>10. CASE Notify(t)
    <2>1. at[t] # "idle" /\ Target(t) \in EP
      BY <1>1, <1>10, InHand DEF Notify
    <2>2. PublishersOK'
      BY <1>1, <1>10, <2>1, AdvanceOK DEF Notify
    <2> QED
      BY <1>1, <1>2, <1>10, <2>1, <2>2 DEF Notify, QueuesOK, CountersOK, dispVars
  <1> QED
    BY <1>4, <1>5, <1>6, <1>7, <1>8, <1>9, <1>10 DEF Route

(* So does each step of a dispatch thread.                                 *)
LEMMA DispatchType ==
  ASSUME TypeOK, NEW e \in EP, Dispatch(e)
  PROVE  TypeOK'
  <1>1. QueuesOK /\ PublishersOK /\ CountersOK /\ DispatchersOK /\ FlagsOK /\ ControllerOK
    BY TypeParts DEF PartsOK
  <1>2. UNCHANGED <<pubVars, ctlVars, sent, drops, lost>>
    BY DEF Dispatch, Wake, Check, Scan, Handled
  <1>3. PublishersOK' /\ FlagsOK' /\ ControllerOK'
    <2>1. PublishersOK'
      BY <1>1, <1>2 DEF pubVars, PublishersOK
    <2>2. FlagsOK'
      BY <1>1, <1>2 DEF FlagsOK, ctlVars
    <2>3. ControllerOK'
      BY <1>1, <1>2 DEF ControllerOK, ctlVars
    <2> QED
      BY <2>1, <2>2, <2>3
  <1> SUFFICES QueuesOK' /\ CountersOK' /\ DispatchersOK'
    BY <1>3, TypePartsNext DEF PartsOK
  <1>4. CASE Wake(e)
    <2>1. sem[e] - 1 \in Nat
      BY <1>1, <1>4 DEF Wake, CountersOK
    <2> QED
      BY <1>1, <1>4, <2>1 DEF Wake, QueuesOK, CountersOK, DispatchersOK, Locs
  <1>5. CASE Check(e)
    BY <1>1, <1>5 DEF Check, QueuesOK, CountersOK, DispatchersOK, Locs, Prio, HIGH
  <1>6. CASE Scan(e)
    <2>1. scanAt[e] \in Prio /\ bypass[e] + 1 \in Nat
      BY <1>1 DEF DispatchersOK, CountersOK
    <2>2. CASE queue[e][scanAt[e]] # <<>>
      <3>1. QueuesOK'
        BY <1>1, <1>6, <2>1, <2>2, TakeOK DEF Scan
      <3>2. CountersOK'
        <4>1. bypass' \in [EP -> Nat]
          BY <1>1, <1>6, <2>1, <2>2 DEF Scan, CountersOK
        <4> QED
          BY <1>1, <1>2, <1>6, <4>1 DEF Scan, CountersOK
      <3>3. DispatchersOK'
        BY <1>1, <1>6, <2>2 DEF Scan, DispatchersOK, Locs
      <3> QED
        BY <3>1, <3>2, <3>3
    <2>3. CASE ~(queue[e][scanAt[e]] # <<>>)
      <3>1. scanAt[e] < LOW => scanAt[e] + 1 \in Prio
        BY <2>1 DEF Prio, LOW
      <3>2. DispatchersOK'
        BY <1>1, <1>6, <2>3, <3>1 DEF Scan, LoopTest, DispatchersOK, Locs
      <3> QED
        BY <1>1, <1>2, <1>6, <2>3, <3>2 DEF Scan, QueuesOK, CountersOK
    <2> QED
      BY <2>2, <2>3
  <1>7. CASE Handled(e)
    BY <1>1, <1>7 DEF Handled, RestartAt, QueuesOK, CountersOK, DispatchersOK, Locs, Prio, HIGH
  <1> QED
    BY <1>4, <1>5, <1>6, <1>7 DEF Dispatch

(* And each step of the controlling thread.                                *)
LEMMA ControlType ==
  ASSUME TypeOK, Control
  PROVE  TypeOK'
  <1>1. /\ QueuesOK /\ PublishersOK /\ CountersOK /\ DispatchersOK /\ FlagsOK /\ ControllerOK
        /\ NFB \in Nat
    BY TypeParts, BusDispatchAssumption DEF PartsOK, BusDispatchAssumption
  <1>2. UNCHANGED <<queue, pubVars, sent, drops, lost, scanAt, bypass>>
    BY DEF Control, SetNotify, DispatchBoot, Spawn, StartThread, BeginShutdown, PostAll, JoinAll, dispVars
  <1>3. QueuesOK' /\ PublishersOK'
    BY <1>1, <1>2 DEF pubVars, QueuesOK, PublishersOK
  <1>4. idx < NFB => idx \in EP /\ idx + 1 \in 0 .. NFB
    BY <1>1 DEF ControllerOK, EP
  <1>5. CountersOK'
    <2>1. sem' \in [EP -> Nat]
      BY <1>1, <1>4 DEF Control, SetNotify, DispatchBoot, Spawn, StartThread, BeginShutdown, PostAll, JoinAll,
                        ShutdownTokens, CountersOK
    <2> QED
      BY <1>1, <1>2, <2>1 DEF CountersOK
  <1>6. DispatchersOK'
    <2>1. disp' \in [EP -> Locs]
      BY <1>1 DEF Control, SetNotify, DispatchBoot, Spawn, StartThread, BeginShutdown, PostAll, JoinAll,
                  dispVars, DispatchersOK, Locs
    <2> QED
      BY <1>1, <1>2, <2>1 DEF DispatchersOK
  <1>7. FlagsOK'
    BY <1>1 DEF Control, SetNotify, DispatchBoot, Spawn, StartThread, BeginShutdown, PostAll, JoinAll, FlagsOK
  <1>8. ControllerOK'
    BY <1>1, <1>4 DEF Control, SetNotify, DispatchBoot, Spawn, StartThread, BeginShutdown, PostAll, JoinAll,
                      ControllerOK
  <1> QED
    BY <1>3, <1>5, <1>6, <1>7, <1>8, TypePartsNext DEF PartsOK

LEMMA TypeStep == TypeOK /\ [Next]_vars => TypeOK'
  <1> SUFFICES ASSUME TypeOK, [Next]_vars PROVE TypeOK'
    OBVIOUS
  <1>1. CASE Next
    BY <1>1, RouteType, DispatchType, ControlType DEF Next
  <1>2. CASE UNCHANGED vars
    BY <1>2 DEF vars, dispVars, pubVars, ctlVars, TypeOK
  <1> QED
    BY <1>1, <1>2

(* Types, queue bounds and the stages of route_message(), for any number   *)
(* of FBs and publishers and whatever is published when.                   *)
THEOREM TypeCorrect == Spec => []TypeOK
  BY InitType, TypeStep, PTL DEF Spec

-----------------------------------------------------------------------------
(* No lost wake-up.                                                        *)

(* A step that leaves e's thread, semaphore and shutdown alone keeps its   *)
(* token if every message it adds, and every announcement it ends, is      *)
(* announced after it.                                                     *)
LEMMA TokenFrame ==
  ASSUME NEW e \in EP, Token(e),
         Posted(e)' = Posted(e), sem'[e] = sem[e], disp'[e] = disp[e],
         scanAt'[e] = scanAt[e], shutdown' = shutdown,
         Announced(e) => Announced(e)',
         \A p \in Prio : Waiting(e, p)' => Waiting(e, p) \/ Announced(e)'
  PROVE  Token(e)'
  <1>1. Reserved(e)' = Reserved(e)
    BY DEF Reserved
  <1>2. \A p \in Prio : WillLook(e, p)' = WillLook(e, p)
    BY DEF WillLook, Stopped
  <1> QED
    BY <1>1, <1>2 DEF Token

(* Enqueueing, discarding and retrying.                                    *)
LEMMA RouteToken ==
  ASSUME TypeOK, ControlInv, NEW e \in EP, Token(e),
         NEW t \in Thread, Publish(t) \/ Route(t)
  PROVE  Token(e)'
  <1>1. PublishersOK /\ QueuesOK /\ CountersOK
    BY TypeParts DEF PartsOK
  <1>2. UNCHANGED <<disp, scanAt, ctl, idx, shutdown>>
    BY DEF Publish, Route, SendHigh, SendNormal, Discard, Retry, SendLow, Notify, dispVars, ctlVars
  <1>3. Posted(e)' = Posted(e)
    BY <1>2 DEF Posted
  <1>4. CASE at[t] # "notify"
    <2>1. sem' = sem
      BY <1>4 DEF Publish, Route, SendHigh, SendNormal, Discard, Retry, SendLow, Notify
    <2>2. Announced(e) => Announced(e)'
      <3> SUFFICES ASSUME NEW u \in Thread, at[u] = "notify", Target(u) = e
                   PROVE  at'[u] = "notify" /\ Target(u)' = e
        BY DEF Announced
      <3>1. u # t
        BY <1>4
      <3>2. at'[u] = at[u] /\ msg'[u] = msg[u] /\ k'[u] = k[u]
        BY <1>1, <3>1 DEF PublishersOK, Publish, Route, SendHigh, SendNormal, Discard, Retry,
                          SendLow, Notify, Advance
      <3> QED
        BY <3>2 DEF Target
    <2>3. ASSUME NEW p \in Prio, Waiting(e, p)', ~Waiting(e, p)
          PROVE  Announced(e)'
      <3>1. at[t] # "idle" /\ Enqueue(t) /\ at' = [at EXCEPT ![t] = "notify"]
            /\ UNCHANGED <<msg, k>>
        <4>1. CASE Discard(t)
          <5>1. PICK f \in EP : f = Target(t) /\ at[t] # "idle"
            BY <1>1, <4>1, InHand DEF Discard
          <5>2. ~(queue' = queue)
            BY <2>3 DEF Waiting
          <5>3. Waiting(f, NORMAL) /\ queue' = [queue EXCEPT ![f][NORMAL] = Tail(@)]
            BY <4>1, <5>1, <5>2 DEF Discard, Discardable, Waiting
          <5>4. queue'[e][p] = queue[e][p] \/ (f = e /\ p = NORMAL)
            BY <1>1, <5>1, <5>3 DEF QueuesOK, NORMAL, Prio
          <5> QED
            BY <2>3, <5>3, <5>4 DEF Waiting
        <4>2. CASE ~Discard(t)
          <5>1. ~(queue' = queue)
            BY <2>3 DEF Waiting
          <5> QED
            BY <1>4, <4>2, <5>1 DEF Publish, Route, SendHigh, SendNormal, Retry, SendLow, Notify
        <4> QED
          BY <4>1, <4>2
      <3>2. Target(t) \in EP /\ Lane(msg[t]) \in Prio
        BY <1>1, <3>1, InHand
      <3>3. Target(t) = e
        <4>1. SUFFICES ASSUME Target(t) # e PROVE queue'[e][p] = queue[e][p]
          BY <2>3 DEF Waiting
        <4> QED
          BY <1>1, <3>1, <3>2, <4>1 DEF QueuesOK, Enqueue
      <3>4. at'[t] = "notify" /\ Target(t)' = e
        BY <1>1, <3>1, <3>3 DEF PublishersOK, Target
      <3> QED
        BY <3>4 DEF Announced
    <2> QED
      BY <1>2, <1>3, <2>1, <2>2, <2>3, TokenFrame
  <1>5. CASE at[t] = "notify"
    <2>1. Notify(t)
      BY <1>5 DEF Publish, Route, SendHigh, SendNormal, Discard, Retry, SendLow
    <2>2. Posts
      BY <1>5 DEF ControlInv, FlagsInv, QuietInv, Posts
    <2>3. Target(t) \in EP
      BY <1>1, <1>5, InHand
    <2>4. queue' = queue /\ sem' = [sem EXCEPT ![Target(t)] = @ + 1]
      BY <2>1, <2>2 DEF Notify
    <2>5. CASE Target(t) = e
      <3>1. Reserved(e)' = Reserved(e) /\ Reserved(e) \in {0, 1} /\ sem[e] \in Nat
        BY <1>1, <1>2, <1>3 DEF Reserved, CountersOK
      <3>2. sem'[e] = sem[e] + 1
        BY <1>1, <2>4, <2>5 DEF CountersOK
      <3>3. sem[e] >= Reserved(e)
        BY DEF Token
      <3>4. sem'[e] > Reserved(e)' /\ sem'[e] >= Reserved(e)'
        BY <3>1, <3>2, <3>3
      <3> QED
        BY <3>4 DEF Token
    <2>6. CASE Target(t) # e
      <3>1. sem'[e] = sem[e]
        BY <1>1, <2>3, <2>4, <2>6 DEF CountersOK
      <3>2. Announced(e) => Announced(e)'
        <4> SUFFICES ASSUME NEW u \in Thread, at[u] = "notify", Target(u) = e
                     PROVE  at'[u] = "notify" /\ Target(u)' = e
          BY DEF Announced
        <4>1. u # t
          BY <2>6
        <4>2. at'[u] = at[u] /\ msg'[u] = msg[u] /\ k'[u] = k[u]
          BY <1>1, <2>1, <4>1 DEF PublishersOK, Notify, Advance
        <4> QED
          BY <4>2 DEF Target
      <3>3. \A p \in Prio : Waiting(e, p)' => Waiting(e, p)
        BY <2>4 DEF Waiting
      <3> QED
        BY <1>2, <1>3, <3>1, <3>2, <3>3, TokenFrame
    <2> QED
      BY <2>5, <2>6
  <1> QED
    BY <1>4, <1>5

(* The dispatch threads.                                                   *)
LEMMA DispatchToken ==
  ASSUME TypeOK, ControlInv, NEW e \in EP, Token(e),
         NEW f \in EP, Dispatch(f)
  PROVE  Token(e)'
  <1>1. DispatchersOK /\ QueuesOK /\ CountersOK /\ ControllerOK
    BY TypeParts DEF PartsOK
  <1>2. UNCHANGED <<pubVars, ctlVars>>
    BY DEF Dispatch, Wake, Check, Scan, Handled
  <1>3. /\ Posted(e)' = Posted(e)
        /\ Announced(e)' = Announced(e)
        /\ shutdown' = shutdown
    BY <1>2 DEF Posted, Announced, Target, pubVars, ctlVars
  <1>4. CASE f # e
    <2>1. /\ sem'[e] = sem[e] /\ disp'[e] = disp[e] /\ scanAt'[e] = scanAt[e]
          /\ queue'[e] = queue[e]
      BY <1>1, <1>4 DEF DispatchersOK, QueuesOK, CountersOK, Dispatch, Wake, Check, Scan, Handled
    <2> QED
      BY <1>3, <2>1, TokenFrame DEF Waiting
  <1>5. CASE f = e /\ Wake(e)
    <2>1. sem[e] \in Nat /\ sem[e] > 0 /\ sem'[e] = sem[e] - 1
      BY <1>1, <1>5 DEF Wake, CountersOK
    <2>2. disp[e] = "wait" /\ disp'[e] = "check" /\ queue' = queue
      BY <1>1, <1>5 DEF Wake, DispatchersOK
    <2>3. Reserved(e)' = 0
      BY <2>2 DEF Reserved
    <2>4. \A p \in Prio : ~WillLook(e, p)
      BY <2>2 DEF WillLook, Stopped
    <2>5. CASE Posted(e)
      <3>1. Reserved(e) = 1
        BY <2>2, <2>5 DEF Reserved
      <3>2. ASSUME NEW p \in Prio, Waiting(e, p), ~Announced(e)
            PROVE  sem'[e] > 0
        <4>1. sem[e] > 1
          BY <2>4, <3>1, <3>2 DEF Token
        <4> QED
          BY <2>1, <4>1
      <3> QED
        BY <1>3, <2>1, <2>2, <2>3, <3>2 DEF Token, Waiting
    <2>6. CASE ~Posted(e)
      <3>1. \A p \in Prio : WillLook(e, p)'
        BY <1>3, <2>2, <2>6 DEF WillLook
      <3>2. sem'[e] >= 0
        BY <2>1
      <3> QED
        BY <2>3, <3>1, <3>2 DEF Token
    <2> QED
      BY <2>5, <2>6
  <1>6. CASE f = e /\ Check(e)
    <2>1. /\ disp[e] = "check" /\ queue' = queue /\ sem' = sem
          /\ disp'[e] = (IF shutdown THEN "exited" ELSE "scan")
          /\ scanAt'[e] = HIGH
      BY <1>1, <1>6 DEF Check, DispatchersOK
    <2>2. Posted(e) => shutdown
      BY DEF Posted, ControlInv, FlagsInv
    <2>3. Reserved(e) = 0 /\ Reserved(e)' = 0
      BY <1>3, <2>1, <2>2 DEF Reserved
    <2>4. \A p \in Prio : WillLook(e, p) => WillLook(e, p)'
      BY <1>3, <2>1 DEF WillLook, Stopped, HIGH, Prio
    <2> QED
      BY <1>3, <2>1, <2>3, <2>4 DEF Token, Waiting
  <1>7. CASE f = e /\ Scan(e)
    <2>1. disp[e] = "scan" /\ sem' = sem /\ scanAt[e] \in Prio
      BY <1>1, <1>7 DEF Scan, DispatchersOK
    <2>2. CASE queue[e][scanAt[e]] # <<>>
      <3>1. disp'[e] = "handle"
        BY <1>1, <1>7, <2>2 DEF Scan, DispatchersOK
      <3>2. \A p \in Prio : WillLook(e, p)'
        BY <3>1 DEF WillLook
      <3>3. Reserved(e)' = Reserved(e)
        BY <1>3, <2>1, <3>1 DEF Reserved
      <3> QED
        BY <2>1, <3>2, <3>3 DEF Token
    <2>3. CASE ~(queue[e][scanAt[e]] # <<>>)
      <3>1. queue' = queue
        BY <1>7, <2>3 DEF Scan
      <3>2. \/ disp'[e] = "scan" /\ scanAt'[e] = scanAt[e] + 1
            \/ disp'[e] = "wait" /\ scanAt[e] = LOW
        <4>1. running
          BY <1>1, <2>1 DEF ControllerOK, ControlInv, FlagsInv, ThreadsInv, Stopped
        <4>2. scanAt[e] < LOW \/ scanAt[e] = LOW
          BY <2>1 DEF Prio, LOW
        <4>3. CASE scanAt[e] < LOW
          BY <1>1, <1>7, <2>1, <2>3, <4>3 DEF Scan, DispatchersOK
        <4>4. CASE ~(scanAt[e] < LOW)
          BY <1>1, <1>7, <2>1, <2>3, <4>1, <4>2, <4>4 DEF Scan, LoopTest, DispatchersOK
        <4> QED
          BY <4>3, <4>4
      <3>3. Reserved(e)' = Reserved(e)
        BY <1>3, <2>1, <3>2 DEF Reserved
      <3>4. \A p \in Prio : Waiting(e, p) /\ WillLook(e, p) => WillLook(e, p)'
        <4> SUFFICES ASSUME NEW p \in Prio, Waiting(e, p), WillLook(e, p)
                     PROVE  WillLook(e, p)'
          OBVIOUS
        <4>1. scanAt[e] <= p /\ scanAt[e] # p
          BY <2>1, <2>3 DEF WillLook, Stopped, Waiting
        <4>2. scanAt[e] + 1 <= p /\ scanAt[e] # LOW
          BY <2>1, <4>1 DEF Prio, LOW
        <4> QED
          BY <3>2, <4>2 DEF WillLook
      <3> QED
        BY <1>3, <2>1, <3>1, <3>3, <3>4 DEF Token, Waiting
    <2> QED
      BY <2>2, <2>3
  <1>8. CASE f = e /\ Handled(e)
    <2>1. disp[e] = "handle" /\ disp'[e] = "scan" /\ scanAt'[e] = HIGH /\ sem' = sem
      BY <1>1, <1>8 DEF Handled, RestartAt, DispatchersOK
    <2>2. \A p \in Prio : WillLook(e, p)'
      BY <2>1 DEF WillLook, HIGH, Prio
    <2>3. Reserved(e)' = Reserved(e)
      BY <1>3, <2>1 DEF Reserved
    <2> QED
      BY <2>1, <2>2, <2>3 DEF Token
  <1> QED
    BY <1>4, <1>5, <1>6, <1>7, <1>8 DEF Dispatch

(* Boot, start, shutdown and join.                                         *)
LEMMA ControlToken ==
  ASSUME TypeOK, ControlInv, NEW e \in EP, Token(e), Control
  PROVE  Token(e)'
  <1>1. CountersOK /\ ControllerOK /\ DispatchersOK /\ NFB \in Nat /\ e \in 0 .. NFB - 1
    BY TypeParts, BusDispatchAssumption DEF PartsOK, BusDispatchAssumption, EP
  <1>2. UNCHANGED <<queue, pubVars, scanAt>>
    BY DEF Control, SetNotify, DispatchBoot, Spawn, StartThread, BeginShutdown, PostAll, JoinAll, dispVars
  <1>3. /\ Announced(e)' = Announced(e)
        /\ \A p \in Prio : Waiting(e, p)' = Waiting(e, p)
    BY <1>2 DEF Announced, Target, Waiting, pubVars
  <1>4. /\ sem[e] \in Nat /\ sem[e] >= Reserved(e)
        /\ \A p \in Prio : (Waiting(e, p) /\ ~WillLook(e, p) /\ ~Announced(e)) => sem[e] > Reserved(e)
    BY <1>1 DEF CountersOK, Token
  <1>5. ASSUME sem'[e] = sem[e], Reserved(e)' = Reserved(e),
               \A p \in Prio : WillLook(e, p) => WillLook(e, p)'
        PROVE  Token(e)'
    BY <1>3, <1>4, <1>5 DEF Token
  <1>6. CASE SetNotify
    BY <1>2, <1>5, <1>6 DEF SetNotify, Reserved, Posted, WillLook, Stopped, dispVars
  <1>7. CASE DispatchBoot
    BY <1>2, <1>5, <1>7 DEF DispatchBoot, Reserved, Posted, WillLook, Stopped, dispVars
  <1>8. CASE Spawn
    <2>1. ~Posted(e) /\ ~Posted(e)' /\ ~shutdown
      BY <1>8 DEF Spawn, StartThread, Posted, ControlInv, FlagsInv
    <2>2. Reserved(e) = 0 /\ Reserved(e)' = 0
      BY <2>1 DEF Reserved
    <2>3. CASE disp'[e] = disp[e]
      BY <1>2, <1>5, <1>8, <2>1, <2>2, <2>3 DEF Spawn, StartThread, WillLook, Stopped
    <2>4. CASE disp'[e] # disp[e]
      <3>1. idx = e
        BY <1>1, <1>8, <2>4 DEF Spawn, StartThread, DispatchersOK
      <3>2. Stopped(e)
        BY <1>1, <1>8, <3>1 DEF Spawn, StartThread, ControlInv, ThreadsInv
      <3>3. \A p \in Prio : ~WillLook(e, p)
        BY <2>1, <3>2 DEF WillLook, Stopped
      <3> QED
        BY <1>5, <1>8, <2>2, <3>3 DEF Spawn, StartThread
    <2> QED
      BY <2>3, <2>4
  <1>9. CASE BeginShutdown
    <2>1. ~Posted(e) /\ ~Posted(e)'
      BY <1>1, <1>9 DEF BeginShutdown, Posted
    <2> QED
      BY <1>2, <1>5, <1>9, <2>1 DEF BeginShutdown, Reserved, WillLook, Stopped, dispVars, ControlInv, FlagsInv
  <1>10. CASE PostAll
    <2>1. disp' = disp /\ shutdown' = shutdown
      BY <1>10 DEF PostAll, dispVars
    <2>2. CASE idx = e
      <3>1. sem'[e] = sem[e] + 1 /\ Posted(e)' /\ ~Posted(e)
        BY <1>1, <1>10, <2>2 DEF PostAll, ShutdownTokens, Posted, CountersOK
      <3>2. Reserved(e) = 0 /\ Reserved(e)' \in {0, 1}
        BY <3>1 DEF Reserved
      <3>3. sem'[e] >= Reserved(e)'
        BY <1>4, <3>1, <3>2
      <3>4. ASSUME NEW p \in Prio, Waiting(e, p), ~WillLook(e, p)', ~Announced(e)
            PROVE  sem'[e] > Reserved(e)'
        <4>1. CASE Reserved(e)' = 0
          BY <1>4, <3>1, <4>1
        <4>2. CASE Reserved(e)' = 1
          <5>1. disp[e] \in {"wait", "scan", "handle"}
            BY <2>1, <4>2 DEF Reserved
          <5>2. ~WillLook(e, p)
            BY <1>2, <2>1, <3>4, <5>1 DEF WillLook, Stopped
          <5>3. sem[e] > 0
            BY <1>4, <3>2, <3>4, <5>2
          <5> QED
            BY <1>4, <3>1, <4>2, <5>3
        <4> QED
          BY <3>2, <4>1, <4>2
      <3> QED
        BY <1>3, <3>3, <3>4 DEF Token
    <2>3. CASE idx # e
      <3>1. sem'[e] = sem[e]
        BY <1>1, <1>10, <2>3 DEF PostAll, CountersOK
      <3>2. Posted(e)' = Posted(e)
        <4>1. CASE idx < NFB
          <5>1. idx + 1 > e <=> idx > e
            BY <1>1, <2>3 DEF ControllerOK
          <5> QED
            BY <1>10, <4>1, <5>1 DEF PostAll, Posted
        <4>2. CASE ~(idx < NFB)
          <5>1. idx > e
            BY <1>1, <4>2 DEF ControllerOK
          <5> QED
            BY <1>10, <4>2, <5>1 DEF PostAll, Posted
        <4> QED
          BY <4>1, <4>2
      <3> QED
        BY <1>2, <1>5, <2>1, <3>1, <3>2 DEF Reserved, WillLook, Stopped
    <2> QED
      BY <2>2, <2>3
  <1>11. CASE JoinAll
    <2>1. CASE idx < NFB
      <3>1. Posted(e)' = Posted(e) /\ UNCHANGED <<disp, scanAt, shutdown, sem>>
        BY <1>11, <2>1 DEF JoinAll, Posted, dispVars
      <3> QED
        BY <1>5, <3>1 DEF Reserved, WillLook, Stopped
    <2>2. CASE ~(idx < NFB)
      <3>1. Posted(e) /\ UNCHANGED <<disp, sem>>
        BY <1>11, <2>2 DEF JoinAll, Posted, dispVars
      <3>2. Stopped(e)
        <4>1. e < idx
          BY <1>1, <2>2 DEF ControllerOK
        <4> QED
          BY <1>11, <4>1 DEF JoinAll, ControlInv, ThreadsInv
      <3>3. Reserved(e) = 0 /\ Reserved(e)' = 0
        BY <3>1, <3>2 DEF Reserved, Stopped
      <3>4. \A p \in Prio : ~WillLook(e, p)
        BY <3>1, <3>2 DEF WillLook, Stopped
      <3> QED
        BY <1>5, <3>1, <3>3, <3>4
    <2> QED
      BY <2>1, <2>2
  <1> QED
    BY <1>6, <1>7, <1>8, <1>9, <1>10, <1>11 DEF Control

(* The flags follow the controlling thread, and which threads exist too.   *)
LEMMA ControlStep ==
  ASSUME TypeOK, ControlInv, ~InitPublishes, Next
  PROVE  ControlInv'
  <1>1. DispatchersOK /\ ControllerOK /\ PublishersOK /\ QueuesOK
    BY TypeParts DEF PartsOK
  <1>2. CASE \E t \in Thread : Publish(t) \/ Route(t)
    <2>1. PICK t \in Thread : Publish(t) \/ Route(t)
      BY <1>2
    <2>2. UNCHANGED <<dispVars, ctlVars>>
      BY <2>1 DEF Publish, Route, SendHigh, SendNormal, Discard, Retry, SendLow, Notify
    <2>3. FlagsInv'
      BY <2>2 DEF ControlInv, FlagsInv, ctlVars
    <2>4. ThreadsInv'
      BY <2>2 DEF ControlInv, ThreadsInv, Stopped, ctlVars, dispVars
    <2>5. ctl # "boot"
      BY <2>1 DEF ControlInv, FlagsInv, QuietInv, Publish, Route, SendHigh, SendNormal, Discard,
                  Retry, SendLow, Notify
    <2> QED
      BY <2>2, <2>3, <2>4, <2>5 DEF ControlInv, QuietInv, ctlVars
  <1>3. CASE \E e \in EP : Dispatch(e)
    <2>1. PICK e \in EP : Dispatch(e)
      BY <1>3
    <2>2. UNCHANGED <<pubVars, ctlVars>>
      BY <2>1 DEF Dispatch, Wake, Check, Scan, Handled
    <2>3. ~Stopped(e) /\ \A f \in EP : f # e => (Stopped(f)' <=> Stopped(f))
      BY <1>1, <2>1 DEF Dispatch, Wake, Check, Scan, Handled, Stopped, DispatchersOK
    <2>4. FlagsInv'
      BY <2>2 DEF ControlInv, FlagsInv, ctlVars
    <2>5. ctl \notin {"boot", "booted"}
      BY <2>3 DEF ControlInv, ThreadsInv
    <2>6. ctl \in {"spawn", "running"} => ~Stopped(e)'
      <3>1. ctl \in {"spawn", "running"} => ~shutdown /\ running
        BY DEF ControlInv, FlagsInv
      <3> QED
        BY <1>1, <2>1, <3>1 DEF Dispatch, Wake, Check, Scan, Handled, LoopTest, Stopped,
                                DispatchersOK
    <2>7. ThreadsInv'
      BY <2>2, <2>3, <2>5, <2>6 DEF ControlInv, ThreadsInv, ctlVars
    <2> QED
      BY <2>2, <2>4, <2>5, <2>7 DEF ControlInv, QuietInv, ctlVars
  <1>4. CASE Control
    <2>1. UNCHANGED <<queue, pubVars>> /\ NFB \in Nat
      BY <1>4, BusDispatchAssumption DEF Control, SetNotify, DispatchBoot, Spawn, StartThread, BeginShutdown,
         PostAll, JoinAll, BusDispatchAssumption
    <2>2. FlagsInv'
      BY <1>4 DEF ControlInv, FlagsInv, Control, SetNotify, DispatchBoot, Spawn, StartThread, BeginShutdown,
                  PostAll, JoinAll
    <2>3. QuietInv'
      BY <1>4, <2>1 DEF ControlInv, QuietInv, Waiting, pubVars, Control, SetNotify, DispatchBoot,
                        Spawn, StartThread, BeginShutdown, PostAll, JoinAll
    <2>4. ThreadsInv'
      <3>1. \A e \in EP : e >= 0 /\ e < NFB
        BY <2>1 DEF EP
      <3>2. CASE Spawn
        <4>1. \A e \in EP : (e >= idx + 1 <=> e >= idx /\ e # idx) /\ (idx >= NFB => ~(e >= idx))
          BY <1>1, <2>1 DEF EP, ControllerOK
        <4>2. CASE idx < NFB
          <5>1. ctl = "spawn" /\ ctl' = "spawn" /\ idx' = idx + 1
            BY <3>2, <4>2 DEF Spawn, StartThread
          <5>2. \A e \in EP : Stopped(e)' <=> Stopped(e) /\ e # idx
            BY <1>1, <3>2, <4>2 DEF Spawn, StartThread, Stopped, DispatchersOK
          <5> QED
            BY <4>1, <5>1, <5>2 DEF ControlInv, ThreadsInv
        <4>3. CASE ~(idx < NFB)
          <5>1. ctl = "spawn" /\ ctl' = "running" /\ disp' = disp /\ idx >= NFB
            BY <1>1, <2>1, <3>2, <4>3 DEF Spawn, StartThread, ControllerOK
          <5> QED
            BY <4>1, <5>1 DEF ControlInv, ThreadsInv, Stopped
        <4> QED
          BY <4>2, <4>3
      <3>3. CASE SetNotify \/ DispatchBoot \/ BeginShutdown
        BY <3>1, <3>3 DEF ControlInv, ThreadsInv, SetNotify, DispatchBoot, BeginShutdown, Stopped,
                          dispVars
      <3>4. CASE PostAll
        <4>1. ctl = "post" /\ (ctl' = "post" \/ (ctl' = "join" /\ idx' = 0))
          BY <3>4 DEF PostAll
        <4>2. \A e \in EP : ~(e < 0)
          BY <3>1 DEF EP
        <4> QED
          BY <4>1, <4>2 DEF ThreadsInv
      <3>5. CASE JoinAll
        <4>1. \A e \in EP : (e < idx + 1 <=> e < idx \/ e = idx) /\ (~(idx < NFB) => e < idx)
          BY <1>1, <2>1 DEF EP, ControllerOK
        <4>2. disp' = disp
          BY <3>5 DEF JoinAll, dispVars
        <4>3. CASE idx < NFB
          BY <3>5, <4>1, <4>2, <4>3 DEF ControlInv, ThreadsInv, JoinAll, Joined, Stopped
        <4>4. CASE ~(idx < NFB)
          BY <3>5, <4>1, <4>2, <4>4 DEF ControlInv, ThreadsInv, JoinAll, Stopped
        <4> QED
          BY <4>3, <4>4
      <3> QED
        BY <1>4, <3>2, <3>3, <3>4, <3>5 DEF Control
    <2> QED
      BY <2>2, <2>3, <2>4 DEF ControlInv
  <1> QED
    BY <1>2, <1>3, <1>4 DEF Next

(* Only handlers publish, and a handler returns after its publish.         *)
LEMMA HandlerStep ==
  ASSUME TypeOK, ControlInv, HandlerInv, Next
  PROVE  HandlerInv'
  <1>1. DispatchersOK /\ PublishersOK /\ ControllerOK /\ NFB \in Nat
    BY TypeParts, BusDispatchAssumption DEF PartsOK, BusDispatchAssumption
  <1>2. CASE \E t \in Thread : Publish(t) \/ Route(t)
    <2>1. PICK t \in Thread : Publish(t) \/ Route(t)
      BY <1>2
    <2>2. disp' = disp
      BY <2>1 DEF Publish, Route, SendHigh, SendNormal, Discard, Retry, SendLow, Notify, dispVars
    <2>3. \A e \in EP : e # t => at'[e] = at[e]
      BY <1>1, <2>1 DEF PublishersOK, Thread, Publish, Route, SendHigh, SendNormal, Discard, Retry,
                        SendLow, Notify, Advance
    <2>4. t \in EP => disp[t] = "handle"
      BY <2>1 DEF HandlerInv, Publish, Route, SendHigh, SendNormal, Discard, Retry, SendLow, Notify
    <2> QED
      BY <2>2, <2>3, <2>4 DEF HandlerInv
  <1>3. CASE \E e \in EP : Dispatch(e)
    <2>1. PICK e \in EP : Dispatch(e)
      BY <1>3
    <2>2. at' = at /\ \A f \in EP : f # e => disp'[f] = disp[f]
      BY <1>1, <2>1 DEF Dispatch, Wake, Check, Scan, Handled, pubVars, DispatchersOK
    <2>3. at[e] = "idle"
      BY <2>1 DEF HandlerInv, Dispatch, Wake, Check, Scan, Handled
    <2> QED
      BY <2>2, <2>3 DEF HandlerInv
  <1>4. CASE Control
    <2>1. at' = at
      BY <1>4 DEF Control, SetNotify, DispatchBoot, Spawn, StartThread, BeginShutdown, PostAll, JoinAll, pubVars
    <2>2. \A e \in EP : disp[e] = "handle" => disp'[e] = "handle"
      <3>1. CASE Spawn
        BY <1>1, <3>1 DEF Spawn, StartThread, DispatchersOK, ControlInv, ThreadsInv, Stopped, ControllerOK, EP
      <3>2. CASE ~Spawn
        BY <1>4, <3>2 DEF Control, SetNotify, DispatchBoot, BeginShutdown, PostAll, JoinAll, dispVars
      <3> QED
        BY <3>1, <3>2
    <2> QED
      BY <2>1, <2>2 DEF HandlerInv
  <1> QED
    BY <1>2, <1>3, <1>4 DEF Next

(* No other thread takes a HIGH message, so one that was passed stays.     *)
LEMMA PassedStep ==
  ASSUME TypeOK, ControlInv, NEW e \in EP, Passed(e), Next
  PROVE  Passed(e)'
  <1>1. /\ QueuesOK /\ CountersOK /\ DispatchersOK /\ PublishersOK /\ ControllerOK
        /\ NFB \in Nat /\ HIGH \in Prio
    BY TypeParts, BusDispatchAssumption DEF PartsOK, BusDispatchAssumption, HIGH, Prio
  <1>2. ASSUME bypass'[e] = bypass[e], disp'[e] = disp[e], scanAt'[e] = scanAt[e],
               Waiting(e, HIGH) => Waiting(e, HIGH)'
        PROVE  Passed(e)'
    BY <1>2 DEF Passed
  <1>3. CASE \E t \in Thread : Publish(t) \/ Route(t)
    <2>1. PICK t \in Thread : Publish(t) \/ Route(t)
      BY <1>3
    <2>2. UNCHANGED dispVars
      BY <2>1 DEF Publish, Route, SendHigh, SendNormal, Discard, Retry, SendLow, Notify
    <2>3. Waiting(e, HIGH) => Waiting(e, HIGH)'
      <3>1. CASE queue' = queue
        BY <3>1 DEF Waiting
      <3>2. CASE at[t] # "idle" /\ Enqueue(t)
        <4>1. Target(t) \in EP /\ Lane(msg[t]) \in Prio /\ msg[t] \in Msg
          BY <1>1, <3>2, InHand
        <4>2. queue[Target(t)][Lane(msg[t])] \in Seq(Msg)
          BY <1>1, <4>1 DEF QueuesOK
        <4>3. Append(queue[Target(t)][Lane(msg[t])], msg[t]) # <<>>
          BY <4>1, <4>2, AppendProperties
        <4> QED
          BY <1>1, <3>2, <4>1, <4>3 DEF Enqueue, Waiting, QueuesOK
      <3>3. CASE Discard(t)
        <4>1. Target(t) \in EP /\ NORMAL \in Prio /\ NORMAL # HIGH
          BY <1>1, <3>3, InHand DEF Discard, NORMAL, HIGH, Prio
        <4>2. queue'[e][HIGH] = queue[e][HIGH]
          <5>1. \/ queue' = queue
                \/ queue' = [queue EXCEPT ![Target(t)][NORMAL] = Tail(@)]
            BY <3>3 DEF Discard
          <5> QED
            BY <1>1, <4>1, <5>1 DEF QueuesOK
        <4> QED
          BY <4>2 DEF Waiting
      <3> QED
        BY <2>1, <3>1, <3>2, <3>3 DEF Publish, Route, SendHigh, SendNormal, Retry, SendLow, Notify
    <2> QED
      BY <1>2, <2>2, <2>3 DEF dispVars
  <1>4. CASE \E f \in EP : Dispatch(f)
    <2>1. PICK f \in EP : Dispatch(f)
      BY <1>4
    <2>2. CASE f # e
      <3>1. /\ bypass'[e] = bypass[e] /\ disp'[e] = disp[e] /\ scanAt'[e] = scanAt[e]
            /\ queue'[e] = queue[e]
        BY <1>1, <2>1, <2>2 DEF DispatchersOK, QueuesOK, CountersOK, Dispatch, Wake, Check, Scan,
                                Handled
      <3> QED
        BY <1>2, <3>1 DEF Waiting
    <2>3. CASE f = e /\ (Wake(e) \/ Check(e))
      BY <1>1, <2>3 DEF Wake, Check, Passed, CountersOK
    <2>4. CASE f = e /\ Handled(e)
      BY <1>1, <2>4 DEF Handled, RestartAt, Passed, Waiting, DispatchersOK
    <2>5. CASE f = e /\ Scan(e)
      <3>1. disp[e] = "scan" /\ scanAt[e] \in Prio /\ bypass[e] \in Nat
        BY <1>1, <2>5 DEF Scan, DispatchersOK, CountersOK
      <3>2. CASE queue[e][scanAt[e]] # <<>>
        <4>1. disp'[e] = "handle"
          BY <1>1, <2>5, <3>2 DEF Scan, DispatchersOK
        <4>2. CASE scanAt[e] # HIGH /\ queue[e][HIGH] # <<>>
          <5>1. bypass[e] = 0
            BY <3>1, <4>2 DEF Passed
          <5>2. bypass'[e] = 1
            BY <1>1, <2>5, <3>2, <4>2, <5>1 DEF Scan, CountersOK
          <5>3. queue'[e][HIGH] = queue[e][HIGH]
            BY <1>1, <2>5, <3>1, <3>2, <4>2 DEF Scan, QueuesOK
          <5> QED
            BY <4>1, <4>2, <5>2, <5>3 DEF Passed, Waiting
        <4>3. CASE ~(scanAt[e] # HIGH /\ queue[e][HIGH] # <<>>)
          <5>1. bypass'[e] = 0
            BY <1>1, <2>5, <3>2, <4>3 DEF Scan, CountersOK
          <5> QED
            BY <5>1 DEF Passed
        <4> QED
          BY <4>2, <4>3
      <3>3. CASE ~(queue[e][scanAt[e]] # <<>>)
        <4>1. bypass' = bypass
          BY <2>5, <3>3 DEF Scan
        <4>2. bypass[e] = 0
          BY <3>1, <3>3 DEF Passed, Waiting
        <4> QED
          BY <4>1, <4>2 DEF Passed
      <3> QED
        BY <3>2, <3>3
    <2> QED
      BY <2>1, <2>2, <2>3, <2>4, <2>5 DEF Dispatch
  <1>5. CASE Control
    <2>1. UNCHANGED <<queue, scanAt, bypass>>
      BY <1>5 DEF Control, SetNotify, DispatchBoot, Spawn, StartThread, BeginShutdown, PostAll, JoinAll, dispVars
    <2>2. disp'[e] = disp[e] \/ bypass[e] = 0
      <3>1. CASE Spawn
        BY <1>1, <3>1 DEF Spawn, StartThread, DispatchersOK, ControlInv, ThreadsInv, Stopped, ControllerOK, EP,
                          Passed
      <3>2. CASE ~Spawn
        BY <1>5, <3>2 DEF Control, SetNotify, DispatchBoot, BeginShutdown, PostAll, JoinAll, dispVars
      <3> QED
        BY <3>1, <3>2
    <2> QED
      BY <2>1, <2>2 DEF Passed, Waiting
  <1> QED
    BY <1>3, <1>4, <1>5 DEF Next

LEMMA InitInductive == Init => IInv
  <1> SUFFICES ASSUME Init PROVE IInv
    OBVIOUS
  <1>1. TypeOK
    BY InitType
  <1>2. FlagsInv /\ ThreadsInv
    BY DEF Init, FlagsInv, ThreadsInv, Stopped
  <1>3. QuietInv /\ HandlerInv
    BY DEF Init, QuietInv, HandlerInv, Waiting, Thread
  <1>4. \A e \in EP : Passed(e) /\ Token(e)
    BY DEF Init, Passed, Token, Reserved, Posted, Waiting
  <1> QED
    BY <1>1, <1>2, <1>3, <1>4 DEF IInv, ControlInv

LEMMA Inductive == ~InitPublishes /\ IInv /\ [Next]_vars => IInv'
  <1> SUFFICES ASSUME ~InitPublishes, IInv, [Next]_vars PROVE IInv'
    OBVIOUS
  <1>1. TypeOK'
    BY TypeStep DEF IInv
  <1>2. CASE Next
    <2>1. ControlInv'
      BY <1>2, ControlStep DEF IInv
    <2>2. HandlerInv'
      BY <1>2, HandlerStep DEF IInv
    <2>3. ASSUME NEW e \in EP PROVE Passed(e)' /\ Token(e)'
      BY <1>2, PassedStep, RouteToken, DispatchToken, ControlToken DEF IInv, Next
    <2> QED
      BY <1>1, <2>1, <2>2, <2>3 DEF IInv
  <1>3. CASE UNCHANGED vars
    <2>1. FlagsInv' /\ ThreadsInv'
      BY <1>3 DEF IInv, ControlInv, FlagsInv, ThreadsInv, Stopped, vars, ctlVars, dispVars
    <2>2. QuietInv' /\ HandlerInv'
      BY <1>3 DEF IInv, ControlInv, QuietInv, HandlerInv, Waiting, vars, ctlVars, dispVars, pubVars
    <2>3. ASSUME NEW e \in EP PROVE Passed(e)'
      BY <1>3 DEF IInv, Passed, Waiting, vars, dispVars
    <2>4. ASSUME NEW e \in EP PROVE Token(e)'
      <3>1. Token(e) /\ Posted(e)' = Posted(e) /\ Announced(e)' = Announced(e)
        BY <1>3 DEF IInv, Posted, Announced, Target, vars, ctlVars, pubVars
      <3> QED
        BY <1>3, <3>1, TokenFrame DEF Waiting, vars, ctlVars, dispVars
    <2> QED
      BY <1>1, <2>1, <2>2, <2>3, <2>4 DEF IInv, ControlInv
  <1> QED
    BY <1>2, <1>3

(* As long as nobody publishes before embediq_engine_boot() has set the    *)
(* bus's notify callback, no message is ever left behind by a sleeping     *)
(* dispatch thread: through overflows, shutdowns and restarts.             *)
THEOREM NoWakeupLost ==
  ASSUME ~InitPublishes
  PROVE  Spec => []NoLostWakeup
  <1>1. IInv => NoLostWakeup
    <2> SUFFICES ASSUME IInv, NEW e \in EP, disp[e] = "wait" \/ (Stopped(e) /\ ~shutdown),
                        NEW p \in Prio, Waiting(e, p), ~Announced(e)
                 PROVE  sem[e] > 0
      BY DEF NoLostWakeup
    <2>1. ~WillLook(e, p)
      BY DEF WillLook, Stopped
    <2>2. sem[e] > Reserved(e) /\ sem[e] \in Nat /\ Reserved(e) \in {0, 1}
      BY <2>1 DEF IInv, Token, TypeOK, Reserved
    <2> QED
      BY <2>2
  <1>2. IInv /\ [Next]_vars => IInv'
    BY Inductive
  <1> QED
    BY <1>1, <1>2, InitInductive, PTL DEF Spec

(* embediq_engine_dispatch_shutdown() leaves no dispatch thread behind,    *)
(* and none in the middle of a publish.                                    *)
THEOREM ShutdownLeavesNoThread ==
  ASSUME ~InitPublishes
  PROVE  Spec => []NoThreadAfterShutdown
  <1>1. IInv => NoThreadAfterShutdown
    BY DEF IInv, ControlInv, ThreadsInv, HandlerInv, NoThreadAfterShutdown, Stopped
  <1>2. IInv /\ [Next]_vars => IInv'
    BY Inductive
  <1> QED
    BY <1>1, <1>2, InitInductive, PTL DEF Spec

(* A HIGH message in the queue is passed by one other message at most.     *)
THEOREM HighPassedOnce ==
  ASSUME ~InitPublishes
  PROVE  Spec => []BypassBound
  <1>1. IInv => BypassBound
    BY DEF IInv, Passed, BypassBound
  <1>2. IInv /\ [Next]_vars => IInv'
    BY Inductive
  <1> QED
    BY <1>1, <1>2, InitInductive, PTL DEF Spec

-----------------------------------------------------------------------------
(* Reports of losses.                                                      *)

(* Publishers in the middle of a NORMAL overflow at e.                     *)
Losing(e) == {t \in Thread : at[t] = "retry" /\ Target(t) = e}

(* What a thread has in hand is of those it publishes, so it is a writer   *)
(* of its target.                                                          *)
EmitsInv == \A t \in Thread : at[t] # "idle" => msg[t] \in Emits[t]

(* The place that a sole writer made in the NORMAL queue stays free.       *)
PlaceInv == \A t \in Thread :
    at[t] = "retry" /\ SoleWriter(Target(t)) => Room(Target(t), NORMAL)

LossInv == EmitsInv /\ PlaceInv /\ LossesReported

LEMMA ThreadsFinite == IsFiniteSet(Ext) => IsFiniteSet(Thread)
  <1> SUFFICES ASSUME IsFiniteSet(Ext) PROVE IsFiniteSet(Thread)
    OBVIOUS
  <1>1. NFB \in Nat /\ 0 \in Int /\ NFB - 1 \in Int
    BY BusDispatchAssumption DEF BusDispatchAssumption
  <1>2. IsFiniteSet(EP)
    BY <1>1, FS_Interval DEF EP
  <1> QED
    BY <1>2, FS_Union DEF Thread

(* A thread inside route_message() is one of its target's writers.         *)
LEMMA HandIsWriter ==
  ASSUME PublishersOK, EmitsInv, NEW t \in Thread, at[t] # "idle"
  PROVE  t \in Writers(Target(t))
  <1>1. msg[t] \in Emits[t] /\ msg[t] \in Msg /\ k[t] \in Nat \ {0} /\ k[t] <= Len(Routes[msg[t].id])
    BY DEF EmitsInv, PublishersOK
  <1>2. Routes[msg[t].id] \in Seq(EP)
    BY <1>1, RoutesFact DEF Msg
  <1>3. k[t] \in DOMAIN Routes[msg[t].id]
    BY <1>1, <1>2, LenProperties
  <1> QED
    BY <1>1, <1>3 DEF Writers, Target

(* Two writers are not one.                                                *)
LEMMA TwoWriters ==
  ASSUME IsFiniteSet(Thread), NEW e, NEW t \in Writers(e), NEW u \in Writers(e), t # u
  PROVE  ~SoleWriter(e)
  <1>1. IsFiniteSet(Writers(e))
    BY FS_Subset DEF Writers
  <1>2. IsFiniteSet({t}) /\ Cardinality({t}) = 1 /\ Cardinality({t} \cup {u}) = 2
    <2>1. IsFiniteSet({t}) /\ Cardinality({t}) = 1
      BY FS_Singleton
    <2>2. u \notin {t}
      OBVIOUS
    <2> QED
      BY <2>1, <2>2, FS_AddElement
  <1>3. {t} \cup {u} \in SUBSET Writers(e)
    OBVIOUS
  <1>4. 2 <= Cardinality(Writers(e)) /\ Cardinality(Writers(e)) \in Nat
    BY <1>1, <1>2, <1>3, FS_Subset, FS_CardinalityType
  <1> QED
    BY <1>4 DEF SoleWriter

(* One thread more or less in the middle of an overflow.                   *)
LEMMA LosingFinite ==
  ASSUME IsFiniteSet(Thread), NEW e
  PROVE  IsFiniteSet(Losing(e)) /\ Discarded(e) = Cardinality(Losing(e)) /\ Discarded(e) \in Nat
  <1>1. Losing(e) \in SUBSET Thread /\ Discarded(e) = Cardinality(Losing(e))
    BY DEF Losing, Discarded
  <1> QED
    BY <1>1, FS_Subset, FS_CardinalityType

(* The threads at retry, before and after a step of t's: only t comes or   *)
(* goes.                                                                   *)
LEMMA LosingFrame ==
  ASSUME PublishersOK, NEW t \in Thread, Publish(t) \/ Route(t), NEW e
  PROVE  /\ Discard(t) /\ Target(t) = e => Losing(e)' = Losing(e) \cup {t} /\ t \notin Losing(e)
         /\ Retry(t) /\ Target(t) = e => Losing(e)' = Losing(e) \ {t} /\ t \in Losing(e)
         /\ ~(Discard(t) \/ Retry(t)) \/ Target(t) # e => Losing(e)' = Losing(e)
  <1>1. \A u \in Thread : u # t => at'[u] = at[u] /\ Target(u)' = Target(u)
    <2>1. \A u \in Thread : u # t => at'[u] = at[u] /\ msg'[u] = msg[u] /\ k'[u] = k[u]
      BY DEF PublishersOK, Publish, Route, SendHigh, SendNormal, Discard, Retry, SendLow, Notify,
             Advance
    <2> QED
      BY <2>1 DEF Target
  <1>2. CASE Discard(t)
    <2>1. at[t] = "discard" /\ at'[t] = "retry" /\ Target(t)' = Target(t)
      BY <1>2 DEF PublishersOK, Discard, Target
    <2> QED
      BY <1>1, <1>2, <2>1 DEF Losing, Retry
  <1>3. CASE Retry(t)
    <2>1. at[t] = "retry" /\ at'[t] = "notify"
      BY <1>3 DEF PublishersOK, Retry
    <2> QED
      BY <1>1, <1>3, <2>1 DEF Losing, Discard
  <1>4. CASE ~(Discard(t) \/ Retry(t))
    <2>1. at[t] # "retry" /\ at'[t] # "retry"
      BY <1>4 DEF PublishersOK, Publish, Route, SendHigh, SendNormal, Discard, Retry, SendLow,
                  Notify, Advance
    <2> QED
      BY <1>1, <1>4, <2>1 DEF Losing
  <1> QED
    BY <1>2, <1>3, <1>4

LEMMA EmitsStep ==
  ASSUME PublishersOK, EmitsInv, Next
  PROVE  EmitsInv'
  <1>1. CASE \E t \in Thread : Publish(t) \/ Route(t)
    <2>1. PICK t \in Thread : Publish(t) \/ Route(t)
      BY <1>1
    <2>2. \A u \in Thread : u # t => at'[u] = at[u] /\ msg'[u] = msg[u]
      BY <2>1 DEF PublishersOK, Publish, Route, SendHigh, SendNormal, Discard, Retry, SendLow,
                  Notify, Advance
    <2>3. at'[t] # "idle" => msg'[t] \in Emits[t]
      BY <2>1 DEF EmitsInv, PublishersOK, Publish, Route, SendHigh, SendNormal, Discard, Retry,
                  SendLow, Notify, Advance
    <2> QED
      BY <2>2, <2>3 DEF EmitsInv
  <1>2. CASE (\E e \in EP : Dispatch(e)) \/ Control
    <2>1. UNCHANGED <<at, msg>>
      BY <1>2 DEF Dispatch, Wake, Check, Scan, Handled, Control, SetNotify, DispatchBoot, Spawn,
                  BeginShutdown, PostAll, JoinAll, pubVars
    <2> QED
      BY <2>1 DEF EmitsInv
  <1> QED
    BY <1>1, <1>2 DEF Next

(* Taking the oldest message of a lane shortens that lane.                 *)
LEMMA TakeShortens ==
  ASSUME QueuesOK, NEW e \in EP, NEW p \in Prio, queue[e][p] # <<>>,
         queue' = [queue EXCEPT ![e][p] = Tail(@)], NEW f \in EP
  PROVE  /\ Len(queue'[f][NORMAL]) <= Len(queue[f][NORMAL])
         /\ f = e /\ p = NORMAL => Room(e, NORMAL)'
         /\ Len(queue'[f][NORMAL]) \in Nat
  <1> DEFINE s == queue[e][p]
  <1>0. NORMAL \in Prio
    BY DEF NORMAL, Prio
  <1>1. s \in Seq(Msg) /\ Len(s) \in Nat /\ Len(s) <= Depth[p] /\ Depth[p] \in Nat
    BY LenProperties, DepthFact DEF QueuesOK
  <1>2. Len(Tail(s)) = Len(s) - 1 /\ Len(Tail(s)) \in Nat
    BY <1>1, HeadTailProperties, LenProperties
  <1>3. Len(queue[f][NORMAL]) \in Nat
    BY <1>0, LenProperties DEF QueuesOK
  <1>4. CASE f = e /\ p = NORMAL
    <2>1. queue'[f][NORMAL] = Tail(s)
      BY <1>4 DEF QueuesOK
    <2>2. Len(s) - 1 <= Len(s) /\ Len(s) - 1 < Depth[p]
      BY <1>1
    <2> HIDE DEF s
    <2> QED
      BY <1>2, <1>4, <2>1, <2>2 DEF Room, s
  <1>5. CASE ~(f = e /\ p = NORMAL)
    <2>1. queue'[f][NORMAL] = queue[f][NORMAL]
      BY <1>0, <1>5 DEF QueuesOK
    <2> QED
      BY <1>3, <1>5, <2>1
  <1> QED
    BY <1>4, <1>5

(* A sole writer makes its place by the discard, or finds it made by the   *)
(* dispatch thread, and nobody but the dispatch thread touches the queue   *)
(* before the retry.                                                       *)
LEMMA PlaceStep ==
  ASSUME IsFiniteSet(Thread), TypeOK, EmitsInv, PlaceInv, Next
  PROVE  PlaceInv'
  <1>1. QueuesOK /\ PublishersOK /\ NORMAL \in Prio
    BY TypeParts DEF PartsOK, NORMAL, Prio
  <1>2. \A e : SoleWriter(e)' = SoleWriter(e)
    BY DEF SoleWriter, Writers
  <1>3. ASSUME NEW u \in Thread, at[u] = "retry", SoleWriter(Target(u)), Target(u)' = Target(u),
               Len(queue'[Target(u)][NORMAL]) <= Len(queue[Target(u)][NORMAL]),
               Len(queue'[Target(u)][NORMAL]) \in Nat
        PROVE  Room(Target(u), NORMAL)'
    <2>1. Target(u) \in EP /\ Room(Target(u), NORMAL)
      BY <1>1, <1>3, InHand DEF PlaceInv
    <2>2. Room(Target(u), NORMAL)' = (Len(queue'[Target(u)][NORMAL]) < Depth[NORMAL])
      BY <1>3 DEF Room
    <2> DEFINE e == Target(u)
    <2>3. Len(queue'[e][NORMAL]) < Depth[NORMAL]
      <3>1. Depth[NORMAL] \in Nat /\ Len(queue[e][NORMAL]) \in Nat
        BY <1>1, <2>1, DepthFact, LenProperties DEF QueuesOK
      <3> QED
        BY <1>3, <2>1, <3>1 DEF Room
    <2> QED
      BY <2>2, <2>3
  <1>4. CASE \E t \in Thread : Publish(t) \/ Route(t)
    <2>1. PICK t \in Thread : Publish(t) \/ Route(t)
      BY <1>4
    <2>2. \A u \in Thread : u # t => at'[u] = at[u] /\ Target(u)' = Target(u)
      <3>1. \A u \in Thread : u # t => at'[u] = at[u] /\ msg'[u] = msg[u] /\ k'[u] = k[u]
        BY <1>1, <2>1 DEF PublishersOK, Publish, Route, SendHigh, SendNormal, Discard, Retry,
                          SendLow, Notify, Advance
      <3> QED
        BY <3>1 DEF Target
    <2> SUFFICES ASSUME NEW u \in Thread, at'[u] = "retry", SoleWriter(Target(u)')
                 PROVE  Room(Target(u), NORMAL)'
      BY <1>2 DEF PlaceInv, SoleWriter, Writers
    <2>3. CASE u # t
      <3>1. at[u] = "retry" /\ Target(u)' = Target(u) /\ SoleWriter(Target(u)) /\ Target(u) \in EP
        BY <1>1, <2>2, <2>3, InHand
      <3>2. at[t] # "idle" => Target(t) # Target(u)
        BY <1>1, <2>3, <3>1, HandIsWriter, TwoWriters
      <3>3. /\ Len(queue'[Target(u)][NORMAL]) <= Len(queue[Target(u)][NORMAL])
            /\ Len(queue'[Target(u)][NORMAL]) \in Nat
        <4>1. CASE queue' = queue
          <5>1. Len(queue[Target(u)][NORMAL]) \in Nat
            BY <1>1, <3>1, LenProperties DEF QueuesOK
          <5> QED
            BY <4>1, <5>1
        <4>2. CASE at[t] # "idle" /\ Enqueue(t)
          <5>1. Target(t) \in EP /\ Lane(msg[t]) \in Prio
            BY <1>1, <4>2, InHand
          <5>2. queue'[Target(u)][NORMAL] = queue[Target(u)][NORMAL]
            BY <1>1, <3>1, <3>2, <4>2, <5>1 DEF Enqueue, QueuesOK
          <5>3. Len(queue[Target(u)][NORMAL]) \in Nat
            BY <1>1, <3>1, LenProperties DEF QueuesOK
          <5> QED
            BY <5>2, <5>3
        <4>3. CASE Discard(t) /\ Discardable(Target(t))
          <5>1. Target(t) \in EP
            BY <1>1, <4>3, InHand DEF Discard
          <5> QED
            BY <1>1, <3>1, <4>3, <5>1, TakeShortens DEF Discard, Discardable
        <4> QED
          BY <2>1, <4>1, <4>2, <4>3 DEF Publish, Route, SendHigh, SendNormal, Discard, Retry,
                                        SendLow, Notify
      <3> QED
        BY <1>3, <3>1, <3>3
    <2>4. CASE u = t
      <3>1. Discard(t) /\ Target(t)' = Target(t) /\ Target(t) \in EP
        <4>1. Discard(t)
          BY <1>1, <2>1, <2>4 DEF PublishersOK, Publish, Route, SendHigh, SendNormal, Retry, SendLow,
                                  Notify, Advance
        <4> QED
          BY <1>1, <4>1, InHand DEF Discard, Target
      <3>2. CASE Discardable(Target(t))
        <4>1. Room(Target(t), NORMAL)'
          <5>1. ASSUME NEW e \in EP, e = Target(t)
                PROVE  Len(queue'[e][NORMAL]) < Depth[NORMAL]
            BY <1>1, <3>1, <3>2, <5>1, TakeShortens DEF Discard, Discardable, Room
          <5> QED
            BY <3>1, <5>1 DEF Room
        <4> QED
          BY <2>4, <4>1
      <3>3. CASE ~Discardable(Target(t))
        <4>1. queue'[Target(t)][NORMAL] = <<>> /\ Depth[NORMAL] \in Nat \ {0}
          BY <1>1, <3>1, <3>3, DepthFact DEF Discard, Discardable
        <4>2. 0 < Depth[NORMAL] /\ Len(<<>>) = 0
          BY <4>1, EmptySeq
        <4> QED
          BY <2>4, <3>1, <4>1, <4>2 DEF Room
      <3> QED
        BY <3>2, <3>3
    <2> QED
      BY <2>3, <2>4
  <1>5. CASE (\E e \in EP : Dispatch(e)) \/ Control
    <2>1. UNCHANGED pubVars
      BY <1>5 DEF Dispatch, Wake, Check, Scan, Handled, Control, SetNotify, DispatchBoot, Spawn,
                  BeginShutdown, PostAll, JoinAll
    <2>2. ASSUME NEW f \in EP
          PROVE  /\ Len(queue'[f][NORMAL]) <= Len(queue[f][NORMAL])
                 /\ Len(queue'[f][NORMAL]) \in Nat
      <3>1. CASE queue' = queue
        <4>1. Len(queue[f][NORMAL]) \in Nat
          BY <1>1, LenProperties DEF QueuesOK
        <4> QED
          BY <3>1, <4>1
      <3>2. CASE \E e \in EP : Scan(e) /\ queue[e][scanAt[e]] # <<>>
        <4>1. PICK e \in EP : Scan(e) /\ queue[e][scanAt[e]] # <<>>
          BY <3>2
        <4>2. scanAt[e] \in Prio /\ queue' = [queue EXCEPT ![e][scanAt[e]] = Tail(@)]
          BY <4>1 DEF Scan, TypeOK
        <4> QED
          BY <1>1, <4>1, <4>2, TakeShortens
      <3> QED
        BY <1>5, <3>1, <3>2 DEF Dispatch, Wake, Check, Scan, Handled, Control, SetNotify,
             DispatchBoot, Spawn, BeginShutdown, PostAll, JoinAll
    <2> SUFFICES ASSUME NEW u \in Thread, at'[u] = "retry", SoleWriter(Target(u)')
                 PROVE  Room(Target(u), NORMAL)'
      BY <1>2 DEF PlaceInv, SoleWriter, Writers
    <2>3. at[u] = "retry" /\ Target(u)' = Target(u)
      BY <2>1 DEF pubVars, Target
    <2>4. Target(u) \in EP /\ SoleWriter(Target(u))
      BY <1>1, <2>3, InHand
    <2> QED
      BY <1>3, <2>2, <2>3, <2>4
  <1> QED
    BY <1>4, <1>5 DEF Next

(* Each step keeps the books: a discard is a loss in progress, a retry     *)
(* closes it with a report, and a LOW drop is reported at once.            *)
LEMMA LossStep ==
  ASSUME IsFiniteSet(Thread), TypeOK, EmitsInv, PlaceInv, LossesReported, Next
  PROVE  LossesReported'
  <1>1. QueuesOK /\ PublishersOK /\ CountersOK
    BY TypeParts DEF PartsOK
  <1>2. \A e : SoleWriter(e)' = SoleWriter(e) /\ SoleWriter(e) \in BOOLEAN
    BY DEF SoleWriter, Writers
  <1>3. \A e \in EP : /\ lost[e] \in Nat /\ drops[e] \in Nat /\ Discarded(e) \in Nat
                      /\ lost[e] <= (IF SoleWriter(e) THEN drops[e] ELSE 2 * drops[e]) + Discarded(e)
    BY <1>1, LosingFinite DEF CountersOK, LossesReported
  <1>4. ASSUME NEW e \in EP, Losing(e)' = Losing(e), lost'[e] = lost[e], drops'[e] = drops[e]
        PROVE  lost'[e] <= (IF SoleWriter(e) THEN drops'[e] ELSE 2 * drops'[e]) + Discarded(e)'
    <2>1. Discarded(e)' = Discarded(e)
      BY <1>4 DEF Discarded, Losing
    <2> QED
      BY <1>3, <1>4, <2>1
  <1> SUFFICES ASSUME NEW e \in EP
               PROVE  lost'[e] <= (IF SoleWriter(e) THEN drops'[e] ELSE 2 * drops'[e]) + Discarded(e)'
    BY <1>2 DEF LossesReported
  <1>5. CASE \E t \in Thread : Publish(t) \/ Route(t)
    <2>1. PICK t \in Thread : Publish(t) \/ Route(t)
      BY <1>5
    <2>2. CASE Target(t) = e /\ Discard(t)
      <3>1. Losing(e)' = Losing(e) \cup {t} /\ t \notin Losing(e)
        BY <1>1, <2>1, <2>2, LosingFrame
      <3>2. Discarded(e)' = Cardinality(Losing(e)')
        BY DEF Discarded, Losing
      <3>3. Discarded(e)' = Discarded(e) + 1
        BY <3>1, <3>2, LosingFinite, FS_AddElement
      <3>4. drops' = drops /\ lost'[e] \in {lost[e], lost[e] + 1}
        BY <1>1, <2>2 DEF Discard, CountersOK
      <3> QED
        BY <1>3, <3>3, <3>4
    <2>3. CASE Target(t) = e /\ Retry(t)
      <3>1. Losing(e)' = Losing(e) \ {t} /\ t \in Losing(e)
        BY <1>1, <2>1, <2>3, LosingFrame
      <3>2. Discarded(e)' = Cardinality(Losing(e)')
        BY DEF Discarded, Losing
      <3>3. Discarded(e)' = Discarded(e) - 1
        BY <3>1, <3>2, LosingFinite, FS_RemoveElement
      <3>4. drops'[e] = drops[e] + 1 /\ lost'[e] \in {lost[e], lost[e] + 1}
        BY <1>1, <2>3 DEF Retry, ReportDrop, CountersOK
      <3>5. SoleWriter(e) => lost'[e] = lost[e]
        BY <2>3 DEF PlaceInv, Retry
      <3> QED
        BY <1>3, <3>3, <3>4, <3>5
    <2>4. CASE Target(t) # e \/ ~(Discard(t) \/ Retry(t))
      <3>1. Losing(e)' = Losing(e)
        BY <1>1, <2>1, <2>4, LosingFrame
      <3>2. CASE Target(t) = e /\ SendLow(t) /\ ~Room(e, LOW)
        <4>1. lost'[e] = lost[e] + 1 /\ drops'[e] = drops[e] + 1
          BY <1>1, <3>2 DEF SendLow, ReportDrop, CountersOK
        <4>2. Discarded(e)' = Discarded(e)
          BY <3>1 DEF Discarded, Losing
        <4> QED
          BY <1>3, <4>1, <4>2
      <3>3. CASE ~(Target(t) = e /\ SendLow(t) /\ ~Room(e, LOW))
        <4>1. lost'[e] = lost[e] /\ drops'[e] = drops[e]
          BY <1>1, <2>1, <2>4, <3>3 DEF Publish, Route, SendHigh, SendNormal, Discard, Retry, SendLow,
                                        Notify, ReportDrop, CountersOK
        <4> QED
          BY <1>4, <3>1, <4>1
      <3> QED
        BY <3>2, <3>3
    <2> QED
      BY <2>2, <2>3, <2>4
  <1>6. CASE (\E f \in EP : Dispatch(f)) \/ Control
    <2>1. UNCHANGED <<pubVars, lost, drops>>
      BY <1>6 DEF Dispatch, Wake, Check, Scan, Handled, Control, SetNotify, DispatchBoot, Spawn,
                  BeginShutdown, PostAll, JoinAll
    <2>2. Losing(e)' = Losing(e)
      BY <2>1 DEF pubVars, Losing, Target
    <2> QED
      BY <1>4, <2>1, <2>2
  <1> QED
    BY <1>5, <1>6 DEF Next

(* Every message the bus loses is told of by a QUEUE_DROP event of its own *)
(* where one thread publishes, and by one event for two losses at worst    *)
(* where several do, for any finite number of publishing threads.          *)
THEOREM LossesAreReported ==
  ASSUME IsFiniteSet(Ext)
  PROVE  Spec => []LossesReported
  <1>1. IsFiniteSet(Thread)
    BY ThreadsFinite
  <1>2. Init => LossInv
    <2> SUFFICES ASSUME Init PROVE LossInv
      OBVIOUS
    <2>1. EmitsInv /\ PlaceInv
      BY DEF Init, EmitsInv, PlaceInv
    <2>2. ASSUME NEW e \in EP
          PROVE  lost[e] <= (IF SoleWriter(e) THEN drops[e] ELSE 2 * drops[e]) + Discarded(e)
      <3>1. Losing(e) = {}
        BY DEF Init, Losing
      <3>2. Discarded(e) = 0
        BY <1>1, <3>1, LosingFinite, FS_EmptySet
      <3> QED
        BY <3>2 DEF Init
    <2> QED
      BY <2>1, <2>2 DEF LossInv, LossesReported
  <1>3. TypeOK /\ LossInv /\ [Next]_vars => LossInv'
    <2> SUFFICES ASSUME TypeOK, LossInv, [Next]_vars PROVE LossInv'
      OBVIOUS
    <2>1. CASE Next
      <3>1. EmitsInv'
        BY <2>1, TypeParts, EmitsStep DEF LossInv, PartsOK
      <3> QED
        BY <1>1, <2>1, <3>1, PlaceStep, LossStep DEF LossInv
    <2>2. CASE UNCHANGED vars
      <3>1. EmitsInv' /\ PlaceInv'
        BY <2>2 DEF LossInv, EmitsInv, PlaceInv, Room, Target, SoleWriter, Writers, vars, pubVars
      <3>2. LossesReported'
        BY <2>2 DEF LossInv, LossesReported, SoleWriter, Writers, Discarded, Target, vars, pubVars
      <3> QED
        BY <3>1, <3>2 DEF LossInv
    <2> QED
      BY <2>1, <2>2
  <1>4. LossInv => LossesReported
    BY DEF LossInv
  <1> QED
    BY <1>2, <1>3, <1>4, TypeCorrect, PTL DEF Spec
=============================================================================
