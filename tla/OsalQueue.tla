----------------------------- MODULE OsalQueue -----------------------------
(***************************************************************************)
(* The POSIX OSAL message queue (osal/posix/embediq_osal_posix.c): a ring  *)
(* buffer of copied items with head, tail and count, one mutex and the     *)
(* condition variables not_empty and not_full.                             *)
(*                                                                         *)
(* Everything between pthread_mutex_lock and the next unlock or condition  *)
(* wait is one step, because every access to the queue is made under the   *)
(* mutex. A thread in wait[cv] sleeps in pthread_cond_wait; when it is     *)
(* woken it runs the while loop's test again in a step of its own, so      *)
(* other threads may get in between.                                       *)
(***************************************************************************)
EXTENDS Integers, Sequences, FiniteSets

CONSTANTS
    Depth,      \* capacity of the queue
    Thread,     \* threads that call queue_send and queue_recv
    Item,       \* the items
    NoItem,     \* what a slot or a receiver holds before the first item
    Calls       \* the calls each thread may make

ASSUME OsalQueueAssumption ==
    /\ Depth \in Nat \ {0}
    /\ NoItem \notin Item
    /\ \A t \in Thread : \A c \in Calls[t] :
         /\ c.op \in {"send", "recv"} => c.mode \in {"zero", "timed", "forever"}
         /\ c.op = "send" => c.item \in Item

VARIABLES
    buf,        \* the ring's slots
    head, tail, count,
    call,       \* the call each thread is in, or Idle
    wait,       \* the threads asleep on each condition variable
    out         \* the item each thread received last

vars == <<buf, head, tail, count, call, wait, out>>

Idle == [op |-> "idle"]

CV == {"not_empty", "not_full"}

(* embediq_osal_queue_create()                                             *)
Init ==
    /\ buf = [s \in 0 .. Depth - 1 |-> NoItem]
    /\ head = 0 /\ tail = 0 /\ count = 0
    /\ call = [t \in Thread |-> Idle]
    /\ wait = [cv \in CV |-> {}]
    /\ out = [t \in Thread |-> NoItem]

Awake(t) == \A cv \in CV : t \notin wait[cv]

(* pthread_cond_signal: one of the sleepers, if there are any, wakes.      *)
Signal(cv) ==
    IF wait[cv] = {} THEN wait' = wait
    ELSE \E w \in wait[cv] : wait' = [wait EXCEPT ![cv] = @ \ {w}]

Sleep(t, cv) == wait' = [wait EXCEPT ![cv] = @ \cup {t}]

Return(t) == call' = [call EXCEPT ![t] = Idle]

(* A thread enters queue_send or queue_recv.                               *)
Start(t) ==
    /\ call[t] = Idle
    /\ \E c \in Calls[t] :
         c.op \in {"send", "recv"} /\ call' = [call EXCEPT ![t] = c]
    /\ UNCHANGED <<buf, head, tail, count, wait, out>>

Full == count >= Depth

NextSlot_NoWrap(s) == IF s < Depth - 1 THEN s + 1 ELSE s
NextSlot(s) == (s + 1) % Depth

(* queue_send: the loop test and what follows it while the mutex is held.  *)
Send(t) ==
    /\ call[t].op = "send"
    /\ Awake(t)
    /\ IF Full
         THEN /\ IF call[t].mode = "zero"
                   THEN Return(t) /\ UNCHANGED wait
                   ELSE Sleep(t, "not_full") /\ UNCHANGED call
              /\ UNCHANGED <<buf, tail, count>>
         ELSE /\ buf' = [buf EXCEPT ![tail] = call[t].item]
              /\ tail' = NextSlot(tail)
              /\ count' = count + 1
              /\ Signal("not_empty")
              /\ Return(t)
    /\ UNCHANGED <<head, out>>

(* queue_recv, likewise.                                                   *)
Recv(t) ==
    /\ call[t].op = "recv"
    /\ Awake(t)
    /\ IF count = 0
         THEN /\ IF call[t].mode = "zero"
                   THEN Return(t) /\ UNCHANGED wait
                   ELSE Sleep(t, "not_empty") /\ UNCHANGED call
              /\ UNCHANGED <<head, count, out>>
         ELSE /\ out' = [out EXCEPT ![t] = buf[head]]
              /\ head' = NextSlot(head)
              /\ count' = count - 1
              /\ Signal("not_full")
              /\ Return(t)
    /\ UNCHANGED <<buf, tail>>

(* pthread_cond_timedwait returned ETIMEDOUT: the call gives up without    *)
(* looking at the queue again.                                             *)
GiveUp(t) ==
    /\ call[t].op \in {"send", "recv"} /\ call[t].mode = "timed"
    /\ ~Awake(t)
    /\ wait' = [cv \in CV |-> wait[cv] \ {t}]
    /\ Return(t)
    /\ UNCHANGED <<buf, head, tail, count, out>>

(* POSIX lets a condition wait return without a signal.                    *)
SpuriousWake(t) ==
    /\ ~Awake(t)
    /\ wait' = [cv \in CV |-> wait[cv] \ {t}]
    /\ UNCHANGED <<buf, head, tail, count, call, out>>

Next == \E t \in Thread : Start(t) \/ Send(t) \/ Recv(t) \/ GiveUp(t) \/ SpuriousWake(t)

(* A thread that is awake inside a call is scheduled until it returns or   *)
(* sleeps; deadlines, spurious wake-ups and new calls are never owed.      *)
Spec == Init /\ [][Next]_vars
             /\ \A t \in Thread : WF_vars(Send(t)) /\ WF_vars(Recv(t))

-----------------------------------------------------------------------------
(* The contents of the ring, oldest first.                                 *)
Contents == [k \in 1 .. count |-> buf[(head + k - 1) % Depth]]

(* The ring with its sleeping and waking callers is a bounded FIFO whose   *)
(* calls take effect atomically, none of which sleeps through its chance.  *)
QueueCalls == {c \in UNION {Calls[t] : t \in Thread} : c.op \in {"send", "recv"}}
Fifo == INSTANCE BoundedFifo WITH
    q <- Contents,
    Calls <- [t \in Thread |-> Calls[t] \cap QueueCalls],
    call <- [t \in Thread |-> IF call[t] \in QueueCalls THEN call[t] ELSE Idle]

FifoSpec == Fifo!Spec
=============================================================================
