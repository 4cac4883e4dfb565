----------------------------- MODULE Watchdog -----------------------------
(***************************************************************************)
(* The watchdog driver FB (fbs/drivers/fb_watchdog.c): FBs register with a *)
(* timeout and check in from their own threads, a monitor thread scans the *)
(* slots, publishes MSG_WDG_MISSED_CHECKIN for every FB that is late and   *)
(* kicks the hardware watchdog when none is.                               *)
(*                                                                         *)
(* The slots are guarded by g_mutex. A caller's critical section touches   *)
(* nothing else and is one action; the monitor keeps the mutex over a      *)
(* whole scan, in which a publish can block, so its scan is one action per *)
(* slot. Time is real time in ticks; the code sees it as a uint32_t of     *)
(* microseconds, that is modulo Wrap.                                      *)
(***************************************************************************)
EXTENDS Integers, Sequences, SequencesExt

CONSTANTS
    FB,             \* FBs that use the watchdog
    MayHang,        \* those whose thread may stop for good
    Timeout,        \* the timeouts each registers with, in ticks
    Wrap,           \* 2^32
    MaxSlots,       \* WDG_MAX_SLOTS
    Subscriber,     \* the FB that receives MSG_WDG_MISSED_CHECKIN (need not be in FB)
    Depth,          \* EMBEDIQ_HIGH_QUEUE_DEPTH
    StartTimes,     \* what the clock may show at boot
    MaxTicks        \* bound: how long the clock runs

ASSUME WatchdogAssumption ==
    /\ MayHang \subseteq FB
    /\ Timeout \in [FB -> SUBSET (Nat \ {0})]
    /\ Wrap \in Nat \ {0}
    /\ MaxSlots \in Nat
    /\ Depth \in Nat \ {0}
    /\ StartTimes \subseteq Nat
    /\ MaxTicks \in Nat

VARIABLES
    time, ticks,    \* the clock, and how far it has run (bounds the model)
    slots,          \* g_slots[0 .. g_slot_count-1]
    call,           \* what each FB's thread is doing: a call of the API, or none
    hung,           \* FBs whose thread has stopped for good
    mon,            \* where monitor_scan() is
    now,            \* its now_us
    i,              \* its loop index
    allOk,          \* its all_ok
    inbox,          \* messages in the subscriber's HIGH queue
    wdgState,       \* lifecycle state of the watchdog FB itself
    alive,          \* real time of each FB's last sign of life (only properties read it)
    nowReal,        \* real time at which now was read (likewise)
    reported        \* FBs flagged since their last sign of life (likewise)

clockVars == <<time, ticks>>
monVars == <<mon, now, i, allOk, nowReal>>
fbVars == <<call, hung, alive>>
vars == <<clockVars, slots, fbVars, monVars, inbox, wdgState, reported>>

Stamp == time % Wrap

Init ==
    /\ time \in StartTimes /\ ticks = 0
    /\ slots = <<>>
    /\ call = [f \in FB |-> "none"] /\ hung = {}
    /\ mon = "sleep" /\ now = 0 /\ i = 1 /\ allOk = TRUE
    /\ inbox = 0
    /\ wdgState = "RUNNING"
    /\ alive = [f \in FB |-> 0] /\ nowReal = 0
    /\ reported = {}

Tick ==
    /\ ticks < MaxTicks
    /\ time' = time + 1 /\ ticks' = ticks + 1
    /\ UNCHANGED <<slots, fbVars, monVars, inbox, wdgState, reported>>

-----------------------------------------------------------------------------
(* The API, called by the FBs' threads.                                    *)

Locked_Never == FALSE
Locked == mon \in {"scan", "publish"}

HasSlot(f) == {s \in DOMAIN slots : slots[s].fb = f}

(* The thread calls in and is at the mutex.                                *)
Enter(f) ==
    /\ call[f] = "none" /\ f \notin hung
    /\ \E op \in {"register", "checkin", "unregister"} : call' = [call EXCEPT ![f] = op]
    /\ UNCHANGED <<clockVars, slots, hung, alive, monVars, inbox, wdgState, reported>>

Leave(f) == call' = [call EXCEPT ![f] = "none"]

(* The slot's timestamp is taken under the mutex.                          *)
SignOfLife(f) == alive' = [alive EXCEPT ![f] = time] /\ reported' = reported \ {f}

Known(f) == HasSlot(f) # {}

HasRoom == Len(slots) < MaxSlots

(* embediq_wdg_register(): a known FB gets a new timeout and window, a new *)
(* one a slot if there is room; when there is none, nothing happens.       *)
DoRegister(f) ==
    /\ call[f] = "register" /\ ~Locked
    /\ Leave(f)
    /\ IF Known(f) \/ HasRoom
         THEN /\ \E t \in Timeout[f] :
                   LET slot == [fb |-> f, timeout |-> t, last |-> Stamp] IN
                   slots' = IF Known(f) THEN [s \in DOMAIN slots |->
                                                 IF s \in HasSlot(f) THEN slot ELSE slots[s]]
                                        ELSE Append(slots, slot)
              /\ SignOfLife(f)
         ELSE UNCHANGED <<slots, alive, reported>>
    /\ UNCHANGED <<clockVars, hung, monVars, inbox, wdgState>>

(* embediq_wdg_checkin(): an FB without a slot is ignored.                 *)
DoCheckin(f) ==
    /\ call[f] = "checkin" /\ ~Locked
    /\ Leave(f)
    /\ slots' = [s \in DOMAIN slots |->
                    IF s \in HasSlot(f) THEN [slots[s] EXCEPT !.last = Stamp] ELSE slots[s]]
    /\ IF HasSlot(f) # {} THEN SignOfLife(f) ELSE UNCHANGED <<alive, reported>>
    /\ UNCHANGED <<clockVars, hung, monVars, inbox, wdgState>>

(* embediq_wdg_unregister(): the slots behind the FB's move down.          *)
DoUnregister(f) ==
    /\ call[f] = "unregister" /\ ~Locked
    /\ Leave(f)
    /\ IF Known(f) THEN \E s \in HasSlot(f) : slots' = RemoveAt(slots, s) ELSE UNCHANGED slots
    /\ UNCHANGED <<clockVars, hung, alive, monVars, inbox, wdgState, reported>>

Hang(f) ==
    /\ f \in MayHang \ hung
    /\ call[f] = "none"
    /\ hung' = hung \cup {f}
    /\ UNCHANGED <<clockVars, slots, call, alive, monVars, inbox, wdgState, reported>>

Client(f) == DoRegister(f) \/ DoCheckin(f) \/ DoUnregister(f)

(* The subscriber's dispatch thread takes a message when it is in no call. *)
Receive ==
    /\ inbox > 0
    /\ Subscriber \in FB => call[Subscriber] = "none" /\ Subscriber \notin hung
    /\ inbox' = inbox - 1
    /\ UNCHANGED <<clockVars, slots, fbVars, monVars, wdgState, reported>>

-----------------------------------------------------------------------------
(* monitor_task() and monitor_scan()                                       *)

(* The 100 ms delay is over and the clock is read, before the mutex.       *)
ReadClock ==
    /\ mon = "sleep"
    /\ now' = Stamp /\ nowReal' = time
    /\ mon' = "lock"
    /\ UNCHANGED <<clockVars, slots, fbVars, i, allOk, inbox, wdgState, reported>>

LockSlots ==
    /\ mon = "lock"
    /\ mon' = "scan"
    /\ UNCHANGED <<clockVars, slots, fbVars, now, nowReal, i, allOk, inbox, wdgState, reported>>

(* elapsed_us > timeout_us, both uint32_t.                                 *)
Late_NoWrap(s) == now - s.last > s.timeout
Late_Early(s) == (now - s.last) % Wrap >= s.timeout
Late(s) == (now - s.last) % Wrap > s.timeout % Wrap

(* all_ok                                                                  *)
Verdict(s) == allOk /\ ~Late(s)

(* One iteration of the scan: a late FB makes the watchdog FB fault.       *)
Inspect ==
    /\ mon = "scan" /\ i <= Len(slots)
    /\ allOk' = Verdict(slots[i])
    /\ IF Late(slots[i])
         THEN /\ reported' = reported \cup {slots[i].fb}
              /\ wdgState' = "FAULT"
              /\ mon' = "publish"
              /\ UNCHANGED i
         ELSE i' = i + 1 /\ UNCHANGED <<reported, wdgState, mon>>
    /\ UNCHANGED <<clockVars, slots, fbVars, now, nowReal, inbox>>

NextSlot == i + 1

(* embediq_publish() of the HIGH message: blocks until there is room.      *)
Publish ==
    /\ mon = "publish"
    /\ inbox < Depth
    /\ inbox' = inbox + 1
    /\ i' = NextSlot
    /\ mon' = "scan"
    /\ UNCHANGED <<clockVars, slots, fbVars, now, nowReal, allOk, wdgState, reported>>

(* monitor_scan() returns, and its locals go.                              *)
Done == mon' = "sleep" /\ now' = 0 /\ nowReal' = 0 /\ i' = 1 /\ allOk' = TRUE

(* The mutex is released.                                                  *)
EndScan ==
    /\ mon = "scan" /\ i > Len(slots)
    /\ IF allOk THEN mon' = "kick" /\ UNCHANGED <<now, nowReal, i, allOk>> ELSE Done
    /\ UNCHANGED <<clockVars, slots, fbVars, inbox, wdgState, reported>>

(* hal_wdg_kick()                                                          *)
Kick ==
    /\ mon = "kick"
    /\ Done
    /\ UNCHANGED <<clockVars, slots, fbVars, inbox, wdgState, reported>>

Monitor == ReadClock \/ LockSlots \/ Inspect \/ Publish \/ EndScan \/ Kick

Next ==
    \/ Tick
    \/ \E f \in FB : Enter(f) \/ Client(f) \/ Hang(f)
    \/ Receive
    \/ Monitor

(* Time passes, and the OS runs every thread that can run; POSIX promises  *)
(* a waiter the mutex in the end because the monitor sleeps between scans. *)
Fairness ==
    /\ WF_vars(Tick)
    /\ \A f \in FB : SF_vars(Client(f))
    /\ WF_vars(Receive)
    /\ WF_vars(Monitor)

Spec == Init /\ [][Next]_vars /\ Fairness

-----------------------------------------------------------------------------
Slot == [fb : FB, timeout : UNION {Timeout[f] : f \in FB}, last : 0 .. Wrap - 1]

Flags(f) == mon = "scan" /\ mon' = "publish" /\ slots[i].fb = f

(* An FB is reported only if its window was over when the monitor read the *)
(* clock, or if it gave a sign of life between that and the lock.          *)
FalseAlarmOnlyByRace ==
    [][\A f \in FB : Flags(f) =>
          nowReal - alive[f] > slots[i].timeout \/ alive[f] > nowReal]_vars

(* "Hardware WDT kicked ONLY when ALL registered FBs have called           *)
(* embediq_wdg_checkin() within their timeout window", as of the moment    *)
(* the scan read the clock. No slot escapes the scan, although others      *)
(* register and unregister, which moves the slots, all the time.           *)
KickGate ==
    [][(mon = "kick" /\ mon' = "sleep") =>
          \A s \in DOMAIN slots : nowReal - alive[slots[s].fb] <= slots[s].timeout]_vars

(* An FB that hangs while it is registered is reported, unless the clock   *)
(* stops before its window is over.                                        *)
HangReported ==
    \A f \in FB :
        (f \in hung /\ \E s \in DOMAIN slots : slots[s].fb = f /\ ticks + slots[s].timeout < MaxTicks)
            ~> (f \in reported)
=============================================================================
