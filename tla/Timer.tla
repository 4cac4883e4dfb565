------------------------------- MODULE Timer -------------------------------
(***************************************************************************)
(* The timer driver FB (fbs/drivers/fb_timer.c) over its POSIX HAL         *)
(* (hal/posix/peripherals/hal_timer_posix.c): a thread that sleeps until   *)
(* the next multiple of the period and calls timer_callback(), which       *)
(* counts ticks and publishes the 1, 10, 100 ms and 1 s messages.          *)
(*                                                                         *)
(* The unit of time is the period. next_fire is kept as its distance from  *)
(* the present: 1 when the thread may sleep a period, 0 when it is time to *)
(* fire, less when the thread is late. A signal may end a sleep early.     *)
(***************************************************************************)
EXTENDS Integers

CONSTANTS
    Ten, Hundred, Sec,  \* ticks between the 10 ms, 100 ms and 1 s messages
    Wrap,               \* 2^32
    Has1ms,             \* timer_init() found a subscriber of MSG_TIMER_1MS
    MaxLate,            \* bound: how many periods the thread may be late
    MaxSignals          \* bound: how many sleeps a signal ends

ASSUME TimerAssumption ==
    /\ {Ten, Hundred, Sec, Wrap} \subseteq Nat \ {0}
    /\ {MaxLate, MaxSignals} \subseteq Nat
    /\ Has1ms \in BOOLEAN

VARIABLES
    running,        \* g_running and s_running
    inited,         \* s_inited
    thread,         \* where timer_thread() is
    due,            \* next_fire minus the present
    tick,           \* g_tick
    sent,           \* messages the last step has published
    signals,        \* sleeps ended early (bounds the model)
    drift,          \* callbacks minus periods since the start (only properties read it)
    since           \* ticks since the last 1 s message or the start (likewise)

timerVars == <<running, inited, thread, due, tick, sent, signals, drift, since>>

TimerInit ==
    /\ running = FALSE /\ inited = FALSE
    /\ thread = "none" /\ due = 0
    /\ tick = 0 /\ sent = {}
    /\ signals = 0 /\ drift = 0 /\ since = 0

(* hal_timer_init(), with a callback that is there.                        *)
HalInit == inited' = TRUE

(* hal_timer_start() and hal_timer_stop(): the thread reads the clock when *)
(* it starts, and looks at s_running when it has slept.                    *)
HalStart ==
    /\ running' = TRUE
    /\ thread' = "top" /\ due' = 0
HalStop ==
    /\ running' = FALSE
    /\ UNCHANGED <<inited, thread, due>>

(* timer_init(): hal_timer_init() and hal_timer_start().                   *)
Start ==
    /\ ~inited
    /\ HalInit /\ HalStart
    /\ drift' = 0 /\ sent' = {}
    /\ UNCHANGED <<tick, signals, since>>

(* timer_exit() as far as hal_timer_stop().                                *)
Stop ==
    /\ running
    /\ HalStop
    /\ sent' = {}
    /\ UNCHANGED <<tick, signals, drift, since>>

(* hal_timer_deinit(): joins the thread.                                   *)
Deinit ==
    /\ inited /\ ~running /\ thread = "done"
    /\ inited' = FALSE /\ thread' = "none" /\ sent' = {}
    /\ UNCHANGED <<running, due, tick, signals, drift, since>>

Elapse ==
    /\ due > -MaxLate
    /\ due' = due - 1
    /\ drift' = IF inited THEN drift - 1 ELSE drift
    /\ sent' = {}
    /\ UNCHANGED <<running, inited, thread, tick, signals, since>>

NextFire_FromNow == 1
(* The next deadline follows from the last one, not from the present.      *)
NextFire == due + 1

(* The head of the loop.                                                   *)
Arm ==
    /\ thread = "top"
    /\ IF running THEN thread' = "wait" /\ due' = NextFire
       ELSE thread' = "done" /\ UNCHANGED due
    /\ sent' = {}
    /\ UNCHANGED <<running, inited, tick, signals, drift, since>>

Due_AtOne(t, n) == t % n = 1 % n
Due(t, n) == t % n = 0

Messages(t) ==
    {m \in {"1MS", "10MS", "100MS", "1SEC"} :
        CASE m = "1MS" -> Has1ms [] m = "10MS" -> Due(t, Ten)
          [] m = "100MS" -> Due(t, Hundred) [] m = "1SEC" -> Due(t, Sec)}

(* The sleep is over, or is cut short by a signal; a timer that has been   *)
(* stopped meanwhile calls back no more.                                   *)
Fire ==
    /\ thread = "wait"
    /\ \/ due <= 0 /\ UNCHANGED signals
       \/ due > 0 /\ signals < MaxSignals /\ signals' = signals + 1
    /\ thread' = "top"
    /\ IF running
       THEN /\ tick' = (tick + 1) % Wrap
            /\ sent' = Messages(tick')
            /\ drift' = drift + 1
            /\ since' = IF "1SEC" \in sent' THEN 0 ELSE since + 1
       ELSE sent' = {} /\ UNCHANGED <<tick, drift, since>>
    /\ UNCHANGED <<running, inited, due>>

TimerThread == Arm \/ Fire
TimerNext == Start \/ Stop \/ Deinit \/ Elapse \/ TimerThread

(* No tick is lost and none made up: the callbacks lag real time by no     *)
(* more than the thread itself is late at the moment, and lead it only by  *)
(* the sleeps that a signal has cut short.                                 *)
NoTickLost == running => drift \in -(MaxLate + 1) .. signals

(* Seconds are Sec ticks long, but for the one in which g_tick wraps.      *)
SecondsRegular == [][since' = 0 /\ since # 0 => since + 1 = Sec \/ tick' = 0]_timerVars
=============================================================================
