---------------------------- MODULE BusDispatch ----------------------------
(***************************************************************************)
(* Delivery of messages between Functional Blocks: route_message() of the  *)
(* bus (core/src/bus/message_bus.c) run by any publishing thread, and the  *)
(* per-FB dispatch threads with their semaphores, started by               *)
(* embediq_engine_dispatch_boot() and stopped by                           *)
(* embediq_engine_dispatch_shutdown() (core/src/registry/fb_engine.c).     *)
(*                                                                         *)
(* A publishing thread is a timer, a bridge or the main thread (Ext), or   *)
(* the dispatch thread of an FB whose handler publishes: Thread is the     *)
(* union, and FBs are numbered as in the registry. The queues are the      *)
(* atomic FIFOs that OsalQueue implements. Only FBs with subscriptions     *)
(* have a queue anybody writes to, a semaphore and a thread, so EP is the  *)
(* set of those. One action is one call into the OSAL, the smallest step   *)
(* other threads can observe.                                              *)
(***************************************************************************)
EXTENDS Integers, Sequences, FiniteSets

CONSTANTS
    NFB,            \* FBs with subscriptions
    Ext,            \* publishing threads that are no dispatch thread
    MsgId,          \* message ids
    Routes,         \* the endpoints of each id, as SubscriptionTable computes them
    Depth,          \* EMBEDIQ_HIGH/NORMAL/LOW_QUEUE_DEPTH
    Emits,          \* what each thread may publish (for an FB: from a handler)
    InitPublishes,  \* may a thread publish while embediq_engine_boot() still runs
    MaxPublish      \* bound: how many messages each thread publishes

EP == 0 .. NFB - 1
Thread == EP \cup Ext

HIGH == 0
NORMAL == 1
LOW == 2
Prio == 0 .. 2

(* A message as far as delivery looks at it; the priority byte is not      *)
(* checked before route_message() clamps it.                               *)
Msg == [id : MsgId, prio : 0 .. 255]

ASSUME BusDispatchAssumption ==
    /\ NFB \in Nat
    /\ Ext \cap EP = {}
    /\ Routes \in [MsgId -> Seq(EP)]
    /\ Depth \in [Prio -> Nat \ {0}]
    /\ Emits \in [Thread -> SUBSET Msg]
    /\ InitPublishes \in BOOLEAN
    /\ MaxPublish \in [Thread -> Nat]

VARIABLES
    queue,      \* g_ep[e].q[p]
    sem,        \* g_dispatch_args[e].sem
    disp,       \* where FB e's dispatch thread is
    scanAt,     \* its loop variable p
    at,         \* where a thread is inside route_message()
    msg,        \* the message it routes
    k,          \* the subscriber it is at
    notifySet,  \* g_notify_fn # NULL
    running,    \* g_dispatch_running
    shutdown,   \* g_dispatch_shutdown
    ctl, idx,   \* where the controlling thread is, and its loop index
    sent,       \* messages published so far (bounds the model)
    drops,      \* QUEUE_DROP events per endpoint
    lost,       \* messages really lost per endpoint (only properties read it)
    bypass      \* messages taken in a row past a waiting HIGH one (likewise)

pubVars == <<at, msg, k>>
dispVars == <<disp, scanAt, bypass>>
ctlVars == <<notifySet, running, shutdown, ctl, idx>>
vars == <<queue, sem, dispVars, pubVars, ctlVars, sent, drops, lost>>

NoMsg == [id |-> "none", prio |-> 0]

Init ==
    /\ queue = [e \in EP |-> [p \in Prio |-> <<>>]]
    /\ sem = [e \in EP |-> 0]
    /\ disp = [e \in EP |-> "none"]
    /\ scanAt = [e \in EP |-> HIGH]
    /\ at = [t \in Thread |-> "idle"]
    /\ msg = [t \in Thread |-> NoMsg]
    /\ k = [t \in Thread |-> 1]
    /\ notifySet = FALSE /\ running = FALSE /\ shutdown = FALSE
    /\ ctl = "boot" /\ idx = 0
    /\ sent = [t \in Thread |-> 0]
    /\ drops = [e \in EP |-> 0]
    /\ lost = [e \in EP |-> 0]
    /\ bypass = [e \in EP |-> 0]

-----------------------------------------------------------------------------
(* route_message()                                                         *)

(* An invalid priority counts as NORMAL.                                   *)
Lane(m) == IF m.prio > LOW THEN NORMAL ELSE m.prio

Target(t) == Routes[msg[t].id][k[t]]

Room(e, p) == Len(queue[e][p]) < Depth[p]

Enqueue(t) == queue' = [queue EXCEPT ![Target(t)][Lane(msg[t])] = Append(@, msg[t])]

(* On to the next subscriber, or back to the caller.                       *)
Advance(t) ==
    IF k[t] < Len(Routes[msg[t].id])
      THEN at' = [at EXCEPT ![t] = "send"] /\ k' = [k EXCEPT ![t] = @ + 1]
      ELSE at' = [at EXCEPT ![t] = "idle"] /\ k' = [k EXCEPT ![t] = 1]

(* embediq_obs_emit(EMBEDIQ_OBS_EVT_QUEUE_DROP, ...)                       *)
ReportDrop_Silent(e) == drops' = drops
ReportDrop(e) == drops' = [drops EXCEPT ![e] = @ + 1]

(* embediq_publish(): a message nobody subscribes to is dropped silently.  *)
(* An FB publishes from its handler, the other threads at any time.        *)
Publish(t) ==
    /\ at[t] = "idle"
    /\ t \in EP => disp[t] = "handle"
    /\ notifySet \/ InitPublishes
    /\ sent[t] < MaxPublish[t]
    /\ \E m \in Emits[t] :
         /\ msg' = [msg EXCEPT ![t] = m]
         /\ at' = [at EXCEPT ![t] = IF Routes[m.id] = <<>> THEN "idle" ELSE "send"]
    /\ sent' = [sent EXCEPT ![t] = @ + 1]
    /\ UNCHANGED <<queue, sem, dispVars, k, ctlVars, drops, lost>>

(* HIGH: block until there is space.                                       *)
SendHigh(t) ==
    /\ at[t] = "send" /\ Lane(msg[t]) = HIGH
    /\ Room(Target(t), HIGH)
    /\ Enqueue(t)
    /\ at' = [at EXCEPT ![t] = "notify"]
    /\ UNCHANGED <<sem, dispVars, msg, k, ctlVars, sent, drops, lost>>

(* NORMAL: try without blocking.                                           *)
SendNormal(t) ==
    /\ at[t] = "send" /\ Lane(msg[t]) = NORMAL
    /\ IF Room(Target(t), NORMAL)
         THEN Enqueue(t) /\ at' = [at EXCEPT ![t] = "notify"]
         ELSE at' = [at EXCEPT ![t] = "discard"] /\ UNCHANGED queue
    /\ UNCHANGED <<sem, dispVars, msg, k, ctlVars, sent, drops, lost>>

Discardable(e) == queue[e][NORMAL] # <<>>

(* NORMAL overflow, first call: receive and discard the oldest, if the     *)
(* dispatch thread has not emptied the queue meanwhile.                    *)
Discard(t) ==
    /\ at[t] = "discard"
    /\ LET e == Target(t) IN
         IF Discardable(e)
           THEN /\ queue' = [queue EXCEPT ![e][NORMAL] = Tail(@)]
                /\ lost' = [lost EXCEPT ![e] = @ + 1]
           ELSE UNCHANGED <<queue, lost>>
    /\ at' = [at EXCEPT ![t] = "retry"]
    /\ UNCHANGED <<sem, dispVars, msg, k, ctlVars, sent, drops>>

(* NORMAL overflow, second call: enqueue the new one. The result is not    *)
(* looked at: if another publisher took the place, the message is gone.    *)
Retry(t) ==
    /\ at[t] = "retry"
    /\ LET e == Target(t) IN
         /\ IF Room(e, NORMAL)
              THEN Enqueue(t) /\ UNCHANGED lost
              ELSE lost' = [lost EXCEPT ![e] = @ + 1] /\ UNCHANGED queue
         /\ ReportDrop(e)
    /\ at' = [at EXCEPT ![t] = "notify"]
    /\ UNCHANGED <<sem, dispVars, msg, k, ctlVars, sent>>

(* LOW: drop the incoming message on overflow, without a notification.     *)
SendLow(t) ==
    /\ at[t] = "send" /\ Lane(msg[t]) = LOW
    /\ LET e == Target(t) IN
         IF Room(e, LOW)
           THEN /\ Enqueue(t)
                /\ at' = [at EXCEPT ![t] = "notify"]
                /\ UNCHANGED <<k, drops, lost>>
           ELSE /\ ReportDrop(e)
                /\ lost' = [lost EXCEPT ![e] = @ + 1]
                /\ Advance(t)
                /\ UNCHANGED queue
    /\ UNCHANGED <<sem, dispVars, msg, ctlVars, sent>>

(* g_notify_fn(ep), if set: embediq_engine_notify_fb() posts the semaphore.*)
Posts_WhenRunning == notifySet /\ running
Posts == notifySet

Notify(t) ==
    /\ at[t] = "notify"
    /\ sem' = IF Posts THEN [sem EXCEPT ![Target(t)] = @ + 1] ELSE sem
    /\ Advance(t)
    /\ UNCHANGED <<queue, dispVars, msg, ctlVars, sent, drops, lost>>

Route(t) ==
    SendHigh(t) \/ SendNormal(t) \/ Discard(t) \/ Retry(t) \/ SendLow(t) \/ Notify(t)

-----------------------------------------------------------------------------
(* fb_dispatch_loop()                                                      *)

(* Where the drain loop looks first after a message.                       *)
RestartAt_Same(e) == scanAt[e]
RestartAt(e) == HIGH

(* Back at the head of the loop: while (g_dispatch_running).               *)
LoopTest == IF running THEN "wait" ELSE "exited"

(* embediq_sem_wait() returns.                                             *)
Wake(e) ==
    /\ disp[e] = "wait"
    /\ sem[e] > 0
    /\ sem' = [sem EXCEPT ![e] = @ - 1]
    /\ disp' = [disp EXCEPT ![e] = "check"]
    /\ UNCHANGED <<queue, scanAt, bypass, pubVars, ctlVars, sent, drops, lost>>

(* if (g_dispatch_shutdown) break; else start to drain.                    *)
Check(e) ==
    /\ disp[e] = "check"
    /\ disp' = [disp EXCEPT ![e] = IF shutdown THEN "exited" ELSE "scan"]
    /\ scanAt' = [scanAt EXCEPT ![e] = HIGH]
    /\ UNCHANGED <<queue, sem, bypass, pubVars, ctlVars, sent, drops, lost>>

(* One non-blocking receive of the drain loop: the first message found is  *)
(* handled; when all three queues were empty the drain ends.               *)
Scan(e) ==
    /\ disp[e] = "scan"
    /\ LET p == scanAt[e] IN
         IF queue[e][p] # <<>>
           THEN /\ queue' = [queue EXCEPT ![e][p] = Tail(@)]
                /\ disp' = [disp EXCEPT ![e] = "handle"]
                /\ bypass' = [bypass EXCEPT ![e] =
                                IF p # HIGH /\ queue[e][HIGH] # <<>> THEN @ + 1 ELSE 0]
                /\ UNCHANGED scanAt
           ELSE /\ IF p < LOW
                     THEN scanAt' = [scanAt EXCEPT ![e] = p + 1] /\ UNCHANGED disp
                     ELSE disp' = [disp EXCEPT ![e] = LoopTest] /\ UNCHANGED scanAt
                /\ UNCHANGED <<queue, bypass>>
    /\ UNCHANGED <<sem, pubVars, ctlVars, sent, drops, lost>>

(* dispatch_msg_to_fb() returns (having published what it wanted to) and   *)
(* the drain starts again with the HIGH queue.                             *)
Handled(e) ==
    /\ disp[e] = "handle"
    /\ at[e] = "idle"
    /\ disp' = [disp EXCEPT ![e] = "scan"]
    /\ scanAt' = [scanAt EXCEPT ![e] = RestartAt(e)]
    /\ UNCHANGED <<queue, sem, bypass, pubVars, ctlVars, sent, drops, lost>>

Dispatch(e) == Wake(e) \/ Check(e) \/ Scan(e) \/ Handled(e)

-----------------------------------------------------------------------------
(* The controlling thread: the end of embediq_engine_boot(), then          *)
(* dispatch_boot() and dispatch_shutdown(), as often as it likes.          *)

SetNotify ==
    /\ ctl = "boot"
    /\ notifySet' = TRUE
    /\ ctl' = "booted"
    /\ UNCHANGED <<queue, sem, dispVars, pubVars, running, shutdown, idx, sent, drops, lost>>

DispatchBoot ==
    /\ ctl = "booted"
    /\ running' = TRUE
    /\ ctl' = "spawn"
    /\ idx' = 0
    /\ UNCHANGED <<queue, sem, dispVars, pubVars, notifySet, shutdown, sent, drops, lost>>

(* embediq_osal_task_create(), which is taken to succeed: the thread waits *)
(* on its semaphore.                                                       *)
StartThread(e) == disp' = [disp EXCEPT ![e] = "wait"]

(* One iteration of the loop that creates the dispatch threads.            *)
Spawn ==
    /\ ctl = "spawn"
    /\ IF idx < NFB
         THEN /\ StartThread(idx)
              /\ idx' = idx + 1
              /\ UNCHANGED ctl
         ELSE ctl' = "running" /\ UNCHANGED <<disp, idx>>
    /\ UNCHANGED <<queue, sem, scanAt, bypass, pubVars, notifySet, running, shutdown,
                   sent, drops, lost>>

BeginShutdown ==
    /\ ctl = "running"
    /\ shutdown' = TRUE
    /\ ctl' = "post"
    /\ idx' = 0
    /\ UNCHANGED <<queue, sem, dispVars, pubVars, notifySet, running, sent, drops, lost>>

ShutdownTokens_None == 0
ShutdownTokens == 1

(* One iteration of the loop that posts every semaphore once.              *)
PostAll ==
    /\ ctl = "post"
    /\ IF idx < NFB
         THEN /\ sem' = [sem EXCEPT ![idx] = @ + ShutdownTokens]
              /\ idx' = idx + 1
              /\ UNCHANGED ctl
         ELSE ctl' = "join" /\ idx' = 0 /\ UNCHANGED sem
    /\ UNCHANGED <<queue, dispVars, pubVars, notifySet, running, shutdown, sent, drops, lost>>

Joined_NoWait(e) == TRUE
Joined(e) == disp[e] = "exited"

(* One iteration of the loop that joins every thread; at its end the flags *)
(* are cleared.                                                            *)
JoinAll ==
    /\ ctl = "join"
    /\ IF idx < NFB
         THEN /\ Joined(idx)
              /\ idx' = idx + 1
              /\ UNCHANGED <<ctl, running, shutdown>>
         ELSE /\ shutdown' = FALSE /\ running' = FALSE
              /\ ctl' = "booted"
              /\ UNCHANGED idx
    /\ UNCHANGED <<queue, sem, dispVars, pubVars, notifySet, sent, drops, lost>>

Control == SetNotify \/ DispatchBoot \/ Spawn \/ BeginShutdown \/ PostAll \/ JoinAll

Next ==
    \/ \E t \in Thread : Publish(t) \/ Route(t)
    \/ \E e \in EP : Dispatch(e)
    \/ Control

(* The OS schedules every thread that can run. Nothing obliges a thread to *)
(* publish, or the controlling thread to start or stop dispatching.        *)
Fairness ==
    /\ \A t \in Thread : WF_vars(Route(t))
    /\ \A e \in EP : WF_vars(Dispatch(e))
    /\ WF_vars(SetNotify \/ Spawn \/ PostAll \/ JoinAll)

Spec == Init /\ [][Next]_vars /\ Fairness

-----------------------------------------------------------------------------
Locs == {"none", "wait", "check", "scan", "handle", "exited"}
Stages == {"idle", "send", "discard", "retry", "notify"}

TypeOK ==
    /\ queue \in [EP -> [Prio -> Seq(Msg)]]
    /\ \A e \in EP, p \in Prio : Len(queue[e][p]) <= Depth[p]
    /\ sem \in [EP -> Nat]
    /\ disp \in [EP -> Locs]
    /\ scanAt \in [EP -> Prio]
    /\ at \in [Thread -> Stages]
    /\ msg \in [Thread -> Msg \cup {NoMsg}]
    /\ k \in [Thread -> Nat \ {0}]
    /\ \A t \in Thread : at[t] = "idle" => k[t] = 1
    /\ \A t \in Thread : at[t] # "idle" => msg[t] \in Msg /\ k[t] <= Len(Routes[msg[t].id])
    /\ \A t \in Thread : at[t] \in {"discard", "retry"} => Lane(msg[t]) = NORMAL
    /\ notifySet \in BOOLEAN /\ running \in BOOLEAN /\ shutdown \in BOOLEAN
    /\ ctl \in {"boot", "booted", "spawn", "running", "post", "join"}
    /\ idx \in 0 .. NFB
    /\ sent \in [Thread -> Nat]
    /\ drops \in [EP -> Nat] /\ lost \in [EP -> Nat] /\ bypass \in [EP -> Nat]

Waiting(e, p) == queue[e][p] # <<>>

(* A publisher has enqueued for e, or given up, and will post e's semaphore.*)
Announced(e) == \E t \in Thread : at[t] = "notify" /\ Target(t) = e

Stopped(e) == disp[e] \in {"none", "exited"}

(* No lost wake-up: a message is never left in a queue whose dispatch      *)
(* thread sleeps with no semaphore token to wake it and no publisher about *)
(* to post one. It holds across shutdown and restart too: when no dispatch *)
(* thread runs, the token of a message that is still queued waits for the  *)
(* thread the next dispatch_boot() starts.                                 *)
NoLostWakeup ==
    \A e \in EP :
        /\ disp[e] = "wait" \/ (Stopped(e) /\ ~shutdown)
        /\ \E p \in Prio : Waiting(e, p)
        => sem[e] > 0 \/ Announced(e)

(* dispatch_shutdown() returns only after every dispatch thread has ended, *)
(* none of them in the middle of a handler or of a publish.                *)
NoThreadAfterShutdown ==
    ctl \in {"boot", "booted"} => \A e \in EP : Stopped(e) /\ at[e] = "idle"

(* The drain looks at HIGH first after every message, so at most one       *)
(* message gets past a HIGH one that is already queued.                    *)
BypassBound == \A e \in EP : bypass[e] <= 1

(* Threads that may ever publish to endpoint e.                            *)
Writers(e) == {t \in Thread : \E m \in Emits[t] : \E n \in DOMAIN Routes[m.id] : Routes[m.id][n] = e}
SoleWriter(e) == Cardinality(Writers(e)) <= 1

Discarded(e) == Cardinality({t \in Thread : at[t] = "retry" /\ Target(t) = e})

(* Every message the bus loses is reported by a QUEUE_DROP event of its    *)
(* own ("observable event emitted", embediq_bus.h), a discard in progress  *)
(* excepted, for an endpoint with one publisher. Two threads overflowing a *)
(* NORMAL queue at once may lose two messages for one event, the discarded *)
(* one and the new one whose place was taken, but never more.              *)
LossesReported ==
    \A e \in EP : lost[e] <= (IF SoleWriter(e) THEN drops[e] ELSE 2 * drops[e]) + Discarded(e)

(* While dispatching runs, whatever is queued for an FB gets taken.        *)
Drained ==
    \A e \in EP, p \in Prio :
        (Waiting(e, p) /\ ctl = "running") ~> (~Waiting(e, p) \/ ctl # "running")

(* dispatch_shutdown() returns.                                            *)
ShutdownReturns == (ctl = "post") ~> (ctl = "booted")
=============================================================================
