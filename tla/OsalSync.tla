------------------------------ MODULE OsalSync ------------------------------
(***************************************************************************)
(* The other blocking primitives of the POSIX OSAL beside the queue:       *)
(* signals and counting semaphores (a count under a mutex, with a          *)
(* condition variable) and the mutex with its polling timed lock.          *)
(*                                                                         *)
(* To take from a counter is embediq_sem_wait() or _trywait(),             *)
(* embediq_osal_signal_wait() or _wait_timeout(), or to lock the mutex; to *)
(* give is embediq_sem_post(), embediq_osal_signal_from_isr(), or to       *)
(* unlock. As in OsalQueue, a step is what runs under the pthread mutex.   *)
(***************************************************************************)
EXTENDS OsalQueue

CONSTANTS
    Counters,   \* signals and semaphores
    Initial,    \* initial_count of each; 0 of a signal
    Limit,      \* max_count of each as its creator passed it; 0 means none
    Mutex,      \* the mutex
    NoOne,
    MaxCount    \* bound: no thread gives to a counter that stands as high

ASSUME OsalSyncAssumption ==
    /\ Mutex \notin Counters /\ NoOne \notin Thread
    /\ \A c \in Counters : Initial[c] \in Nat /\ Limit[c] \in Nat
    /\ \A t \in Thread : \A c \in Calls[t] :
         /\ c.op \in {"send", "recv", "take", "give"}
         /\ c.op \in {"take", "give"} => c.on \in Counters \cup {Mutex}
         /\ c.op = "take" => c.mode \in {"zero", "timed", "forever"}

VARIABLES
    n,          \* count of each signal and semaphore
    parked,     \* the threads asleep on the condition variable of each
    owner,      \* who holds the mutex
    expired,    \* polling threads whose deadline has passed
    used        \* bound: the primitives that are called in a behaviour

syncVars == <<n, parked, owner, expired>>
queueVars == <<buf, head, tail, count, wait, out>>
osalVars == <<vars, syncVars, used>>

(* embediq_osal_mutex_create() leaves it so.                               *)
Unowned == owner = NoOne

(* embediq_sem_create(), embediq_osal_signal_create()                      *)
SyncInit ==
    /\ n = [c \in Counters |-> Initial[c]]
    /\ parked = [c \in Counters |-> {}]
    /\ Unowned /\ expired = {}
    /\ used \in {"queue", "counters"}

Takes(t) == call[t].op = "take"
Gives(t) == call[t].op = "give"
On(t) == call[t].on

(* A mutex is unlocked by the thread that holds it, which does not lock it *)
(* again.                                                                  *)
SyncStart(t) ==
    /\ call[t] = Idle
    /\ \E c \in Calls[t] :
         /\ c.op \in {"take", "give"}
         /\ c.on = Mutex => (c.op = "give" <=> owner = t)
         /\ c.op = "give" /\ c.on # Mutex => n[c.on] < MaxCount
         /\ call' = [call EXCEPT ![t] = c]
    /\ UNCHANGED syncVars

Parked(t) == t \in UNION {parked[c] : c \in Counters}

Wake_Nobody(c) == parked' = parked
Wake(c) ==
    IF parked[c] = {} THEN parked' = parked
    ELSE \E w \in parked[c] : parked' = [parked EXCEPT ![c] = @ \ {w}]

(* The loop of the waiting calls and what follows it under the mutex.      *)
Wait(t) ==
    /\ Takes(t) /\ On(t) # Mutex /\ ~Parked(t)
    /\ IF n[On(t)] = 0
       THEN /\ IF call[t].mode = "zero"
               THEN Return(t) /\ UNCHANGED parked
               ELSE parked' = [parked EXCEPT ![On(t)] = @ \cup {t}] /\ UNCHANGED call
            /\ UNCHANGED n
       ELSE /\ n' = [n EXCEPT ![On(t)] = @ - 1]
            /\ Return(t)
            /\ UNCHANGED parked
    /\ UNCHANGED <<owner, expired>>

(* embediq_sem_create() turns no limit into UINT32_MAX; a signal has none. *)
Below(c) == Limit[c] = 0 \/ n[c] < Limit[c]

Post(t) ==
    /\ Gives(t) /\ On(t) # Mutex
    /\ IF Below(On(t))
       THEN n' = [n EXCEPT ![On(t)] = @ + 1] /\ Wake(On(t))
       ELSE UNCHANGED <<n, parked>>
    /\ Return(t)
    /\ UNCHANGED <<owner, expired>>

(* embediq_osal_signal_wait_timeout() at its deadline does not look at the *)
(* count again.                                                            *)
SyncTimeout(t) ==
    /\ Takes(t) /\ call[t].mode = "timed" /\ Parked(t)
    /\ parked' = [c \in Counters |-> parked[c] \ {t}]
    /\ Return(t)
    /\ UNCHANGED <<n, owner, expired>>

SyncSpuriousWake(t) ==
    /\ Parked(t)
    /\ parked' = [c \in Counters |-> parked[c] \ {t}]
    /\ UNCHANGED <<n, owner, expired, call>>

(* embediq_osal_mutex_lock(): pthread_mutex_lock() waits until the mutex   *)
(* is free, a trylock fails when it is not; the timed lock polls, and      *)
(* fails with the one attempt it makes after its deadline.                 *)
Lock(t) ==
    /\ Takes(t) /\ On(t) = Mutex
    /\ \/ Unowned /\ owner' = t
       \/ /\ ~Unowned
          /\ call[t].mode = "zero" \/ t \in expired
          /\ UNCHANGED owner
    /\ expired' = expired \ {t}
    /\ Return(t)
    /\ UNCHANGED <<n, parked>>

Deadline(t) ==
    /\ Takes(t) /\ On(t) = Mutex /\ call[t].mode = "timed"
    /\ t \notin expired
    /\ expired' = expired \cup {t}
    /\ UNCHANGED <<n, parked, owner, call>>

Unlock(t) ==
    /\ Gives(t) /\ On(t) = Mutex
    /\ owner' = NoOne
    /\ Return(t)
    /\ UNCHANGED <<n, parked, expired>>

SyncNext == \E t \in Thread :
    \/ SyncStart(t) \/ Wait(t) \/ Post(t) \/ SyncTimeout(t) \/ SyncSpuriousWake(t)
    \/ Lock(t) \/ Deadline(t) \/ Unlock(t)

(* Queue and counters share no state, so each has behaviours of its own.   *)
OsalNext ==
    /\ UNCHANGED used
    /\ \/ used = "queue" /\ Next /\ UNCHANGED syncVars
       \/ used = "counters" /\ SyncNext /\ UNCHANGED queueVars

OsalInit == Init /\ SyncInit

(* As in OsalQueue, a thread that is awake inside a call is scheduled.     *)
OsalSpec ==
    /\ OsalInit /\ [][OsalNext]_osalVars
    /\ \A t \in Thread :
         /\ WF_osalVars((Send(t) \/ Recv(t)) /\ UNCHANGED <<syncVars, used>>)
         /\ WF_osalVars((Wait(t) \/ Post(t) \/ Lock(t) \/ Unlock(t)) /\ UNCHANGED <<queueVars, used>>)

-----------------------------------------------------------------------------
(* Signals, semaphores and the mutex are counters whose calls take effect  *)
(* in one step, none of which sleeps through its chance, though two posts  *)
(* may meet one waiter, a waiter that is woken may find the count taken,   *)
(* and a timeout may race with a post.                                     *)
SyncCalls == {c \in UNION {Calls[t] : t \in Thread} : c.op \in {"take", "give"}}
Counted == INSTANCE Counter WITH
    Counters <- Counters \cup {Mutex},
    Initial <- [c \in Counters \cup {Mutex} |-> IF c = Mutex THEN 1 ELSE Initial[c]],
    Limit <- [c \in Counters \cup {Mutex} |-> IF c = Mutex THEN 1 ELSE Limit[c]],
    Calls <- [t \in Thread |-> Calls[t] \cap SyncCalls],
    value <- [c \in Counters \cup {Mutex} |->
                IF c = Mutex THEN IF Unowned THEN 1 ELSE 0 ELSE n[c]],
    call <- [t \in Thread |-> IF call[t] \in SyncCalls THEN call[t] ELSE Idle]

CounterSpec == Counted!Spec
=============================================================================
