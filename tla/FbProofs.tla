----------------------------- MODULE FbProofs -----------------------------
(***************************************************************************)
(* Proofs about the FBs that are built on the platform: the timer and      *)
(* telemetry services, the thermostat and the gateway. The last two share  *)
(* what the table-driven state machine does with a message. The CRC        *)
(* component is here for the induction it shares with the telemetry.       *)
(***************************************************************************)
EXTENDS Telemetry, Gateway, Thermostat, Crc, SequenceTheorems, FiniteSetTheorems,
        WellFoundedInduction, TLAPS

-----------------------------------------------------------------------------
(* The timer's tick count follows real time, for any lateness of its       *)
(* thread, any wrap of the counter and any periods, while the telemetry FB *)
(* and its publishers run beside it.                                       *)

ThreadStates == {"none", "top", "wait", "done"}

TimerTypes ==
    /\ running \in BOOLEAN /\ inited \in BOOLEAN
    /\ thread \in ThreadStates
    /\ due \in Int /\ due >= -MaxLate
    /\ drift \in Int /\ signals \in Nat

(* A callback comes once per advance of the deadline, so that the deadline *)
(* remembers what the callbacks owe; it is ahead of the clock by a period  *)
(* in a sleep and otherwise only by sleeps that were cut short.            *)
Punctual ==
    running =>
        /\ inited /\ thread \in {"top", "wait"}
        /\ thread = "top" => drift = due /\ due <= signals
        /\ thread = "wait" => drift = due - 1 /\ due <= signals + 1

TimerInv == TimerTypes /\ Punctual

(* The bounds of the instance are numbers.                                 *)
LEMMA TimerConstants == MaxLate \in Nat /\ MaxSignals \in Nat
  BY TimerAssumption DEF TimerAssumption

(* Every operation and every step of the thread keeps the timer punctual.   *)
LEMMA TimerStep == TimerInv /\ TimerNext => TimerInv'
  <1> SUFFICES ASSUME TimerInv, TimerNext PROVE TimerInv'
    OBVIOUS
  <1> USE TimerConstants DEF TimerInv, TimerTypes, Punctual, ThreadStates
  <1>1. CASE Start
    BY <1>1 DEF Start, HalInit, HalStart
  <1>2. CASE Stop
    BY <1>2 DEF Stop, HalStop
  <1>3. CASE Deinit
    BY <1>3 DEF Deinit
  <1>4. CASE Elapse
    BY <1>4 DEF Elapse
  <1>5. CASE Arm
    BY <1>5 DEF Arm, NextFire
  <1>6. CASE Fire
    <2>1. signals' \in Nat /\ signals' >= signals
      BY <1>6 DEF Fire
    <2>2. (running => due <= signals') /\ due' = due
      BY <1>6 DEF Fire
    <2>3. running \in BOOLEAN /\ running' = running /\ inited' = inited /\ thread' = "top"
      BY <1>6 DEF Fire
    <2>4. running => drift' = due
      BY <1>6 DEF Fire
    <2>5. drift' \in Int
      BY <1>6 DEF Fire
    <2> QED
      BY <2>1, <2>2, <2>3, <2>4, <2>5
  <1> QED
    BY <1>1, <1>2, <1>3, <1>4, <1>5, <1>6 DEF TimerNext, TimerThread

(* Nothing in the telemetry FB touches the timer.                          *)
LEMMA TimerOrNot == [Next]_vars => TimerNext \/ UNCHANGED timerVars
  BY DEF Next, Timed, Publish, Dispatch, OnSample, OnTimer, vars

(* And so does every step of the system.                                  *)
LEMMA TimerInductive == TimerInv /\ [Next]_vars => TimerInv'
  <1> SUFFICES ASSUME TimerInv, [Next]_vars PROVE TimerInv'
    OBVIOUS
  <1>1. CASE TimerNext
    BY <1>1, TimerStep
  <1>2. CASE UNCHANGED timerVars
    BY <1>2 DEF TimerInv, TimerTypes, Punctual, timerVars
  <1> QED
    BY <1>1, <1>2, TimerOrNot

(* The timer starts stopped, with nothing owed.                            *)
LEMMA TimerInitially == Init => TimerInv
  <1> SUFFICES ASSUME Init PROVE TimerInv
    OBVIOUS
  <1>1. /\ running = FALSE /\ inited = FALSE /\ thread = "none"
        /\ due = 0 /\ drift = 0 /\ signals = 0
    BY DEF Init, TimerInit
  <1>2. running \in BOOLEAN /\ inited \in BOOLEAN /\ (running => FALSE)
    BY <1>1, Zenon
  <1>3. thread \in ThreadStates
    BY <1>1 DEF ThreadStates
  <1>4. due \in Int /\ due >= -MaxLate /\ drift \in Int /\ signals \in Nat
    BY <1>1, TimerConstants
  <1> QED
    BY <1>2, <1>3, <1>4, Zenon DEF TimerInv, TimerTypes, Punctual

(* The callbacks of fb_timer.c's thread lag real time by no more than the  *)
(* thread itself is late, and lead it only by sleeps a signal cut short.   *)
THEOREM TicksKept == Spec => []NoTickLost
  <1>1. TimerInv => NoTickLost
    BY TimerConstants DEF TimerInv, TimerTypes, Punctual, NoTickLost
  <1> QED
    BY <1>1, TimerInitially, TimerInductive, PTL DEF Spec

-----------------------------------------------------------------------------
(* g_tick and the time since the last 1 s message agree: the wrap of the   *)
(* one is a second's end of the other.                                     *)
Counting ==
    /\ tick \in 0 .. Wrap - 1
    /\ since \in Nat /\ since = tick % Sec

(* Counting up, a remainder grows by one or starts again.                  *)
LEMMA Remainder ==
  ASSUME NEW n \in Nat, NEW d \in Nat \ {0}
  PROVE  /\ n % d \in 0 .. d - 1
         /\ (n + 1) % d = IF n % d = d - 1 THEN 0 ELSE (n % d) + 1
  <1> DEFINE q == n \div d
             r == n % d
             p == (n + 1) \div d
             t == (n + 1) % d
  <1>1. n = d * q + r /\ r \in 0 .. d - 1 /\ q \in Int
    OBVIOUS
  <1>2. n + 1 = d * p + t /\ t \in 0 .. d - 1 /\ p \in Int
    OBVIOUS
  <1> HIDE DEF q, r, p, t
  <1>3. d * p - d * q = r + 1 - t
    BY <1>1, <1>2
  <1>4. d * p - d * q = d * (p - q)
    BY <1>1, <1>2
  <1>5. p - q \in {0, 1}
    <2>1. \A k \in Int : k >= 2 => d * k >= 2 * d
      OBVIOUS
    <2>2. \A k \in Int : k <= -1 => d * k <= -d
      OBVIOUS
    <2>3. d * (p - q) <= d /\ d * (p - q) > -d
      BY <1>1, <1>2, <1>3, <1>4
    <2> QED
      BY <1>1, <1>2, <2>1, <2>2, <2>3
  <1>6. t = IF r = d - 1 THEN 0 ELSE r + 1
    BY <1>1, <1>2, <1>3, <1>4, <1>5
  <1> QED
    BY <1>1, <1>6 DEF r, t

(* A number below the divisor is its own remainder.                        *)
LEMMA Small ==
  ASSUME NEW d \in Nat \ {0}, NEW n \in 0 .. d - 1
  PROVE  n % d = n
  <1> DEFINE q == n \div d
             r == n % d
  <1>1. n = d * q + r /\ r \in 0 .. d - 1 /\ q \in Int
    OBVIOUS
  <1> HIDE DEF q, r
  <1>2. (\A k \in Int : k >= 1 => d * k >= d) /\ (\A k \in Int : k <= -1 => d * k <= -d)
    OBVIOUS
  <1>3. q = 0
    BY <1>1, <1>2
  <1> QED
    BY <1>1, <1>3 DEF r

(* The tick counter and the seconds advance together.                      *)
LEMMA CountInductive == Counting /\ [Next]_vars => Counting'
  <1> SUFFICES ASSUME Counting, [Next]_vars PROVE Counting'
    OBVIOUS
  <1>0. Sec \in Nat \ {0} /\ Wrap \in Nat \ {0}
    BY TimerAssumption DEF TimerAssumption
  <1>1. CASE UNCHANGED <<tick, since>>
    BY <1>1 DEF Counting
  <1>2. CASE Fire /\ running
    <2>1. tick' = (tick + 1) % Wrap /\ tick' \in 0 .. Wrap - 1
      BY <1>0, <1>2, Remainder DEF Fire, Counting
    <2>2. since' = IF tick' % Sec = 0 THEN 0 ELSE since + 1
      BY <1>2 DEF Fire, Messages, Due
    <2>3. tick \in Nat /\ tick % Wrap = tick
      BY <1>0, Small DEF Counting
    <2>4. tick' = 0 \/ tick' = tick + 1
      BY <1>0, <2>1, <2>3, Remainder
    <2>5. CASE tick' = 0
      BY <1>0, <2>2, <2>5, Small DEF Counting
    <2>6. CASE tick' = tick + 1
      <3>1. (tick + 1) % Sec = IF tick % Sec = Sec - 1 THEN 0 ELSE (tick % Sec) + 1
        BY <1>0, <2>3, Remainder
      <3> QED
        BY <1>0, <2>1, <2>2, <2>6, <3>1 DEF Counting
    <2> QED
      BY <2>4, <2>5, <2>6
  <1> QED
    BY <1>1, <1>2, TimerOrNot DEF TimerNext, TimerThread, Start, Stop, Deinit, Elapse, Arm, Fire, timerVars

(* A second of fb_timer.c is Sec ticks long, but for the one in which its  *)
(* 32-bit tick counter wraps around.                                       *)
THEOREM SecondsKept == Spec => SecondsRegular
  <1>0. Sec \in Nat \ {0} /\ Wrap \in Nat \ {0}
    BY TimerAssumption DEF TimerAssumption
  <1>1. Init => Counting
    BY <1>0, Small DEF Init, TimerInit, Counting
  <1>2. Counting /\ [Next]_vars => [since' = 0 /\ since # 0 => since + 1 = Sec \/ tick' = 0]_timerVars
    <2> SUFFICES ASSUME Counting, [Next]_vars, since' = 0, since # 0, tick' # 0
                 PROVE  since + 1 = Sec
      BY DEF Counting
    <2>1. Fire /\ running
      BY TimerOrNot DEF TimerNext, TimerThread, Start, Stop, Deinit, Elapse, Arm, Fire, timerVars
    <2>2. tick \in Nat /\ tick % Wrap = tick
      BY <1>0, Small DEF Counting
    <2>3. tick' = tick + 1
      <3>1. tick' = (tick + 1) % Wrap
        BY <2>1 DEF Fire
      <3>2. (tick + 1) % Wrap = IF tick % Wrap = Wrap - 1 THEN 0 ELSE (tick % Wrap) + 1
        BY <1>0, <2>2, Remainder
      <3> QED
        BY <2>2, <3>1, <3>2
    <2>4. tick % Sec = Sec - 1
      <3>1. (tick + 1) % Sec = 0
        BY <2>3, CountInductive DEF Counting
      <3>2. /\ tick % Sec \in 0 .. Sec - 1
            /\ (tick + 1) % Sec = IF tick % Sec = Sec - 1 THEN 0 ELSE (tick % Sec) + 1
        BY <1>0, <2>2, Remainder
      <3> DEFINE r == tick % Sec
      <3> HIDE DEF r
      <3>3. r \in 0 .. Sec - 1 /\ (IF r = Sec - 1 THEN 0 ELSE r + 1) = 0
        BY <3>1, <3>2 DEF r
      <3>4. r = Sec - 1
        BY <1>0, <3>3
      <3> QED
        BY <3>4 DEF r
    <2> QED
      BY <1>0, <2>4 DEF Counting
  <1> QED
    BY <1>1, <1>2, CountInductive, PTL DEF Spec, SecondsRegular

-----------------------------------------------------------------------------
(* Induction on the naturals, from their being well-founded, and what it   *)
(* gives: a function that is defined by recursion is unfolded with the      *)
(* lemma Recursion.                                                        *)

(* A set of naturals that is not empty has a least element.                *)
LEMMA LeastOf ==
  ASSUME NEW S \in SUBSET Nat, S # {}
  PROVE  \E j \in S : \A f \in S : j <= f
  <1>1. PICK j \in S : \A f \in S : <<f, j>> \notin OpToRel(<, Nat)
    BY WFMin, NatLessThanWellFounded, Zenon
  <1>2. \A f \in S : ~(f < j)
    BY <1>1, Zenon DEF OpToRel
  <1> QED
    BY <1>2

(* Induction, for a set in place of a predicate.                           *)
LEMMA Induction ==
  ASSUME NEW S, 0 \in S, \A n \in Nat : n \in S => n + 1 \in S
  PROVE  Nat \subseteq S
  <1> SUFFICES ASSUME Nat \ S # {} PROVE FALSE
    OBVIOUS
  <1>1. PICK j \in Nat \ S : \A f \in Nat \ S : j <= f
    BY LeastOf
  <1>2. j - 1 \in Nat /\ j - 1 \in S
    BY <1>1
  <1> QED
    BY <1>1, <1>2

Follows(g, n, X, base, turn) ==
    /\ g \in [0 .. n -> X] /\ g[0] = base
    /\ \A k \in 1 .. n : g[k] = turn[k][g[k - 1]]

Unrolled(f, base, turn) == f = [k \in Nat |-> IF k = 0 THEN base ELSE turn[k][f[k - 1]]]

(* A function that is defined by recursion on the naturals exists.         *)
LEMMA Recursion ==
  ASSUME NEW X, NEW base \in X, NEW turn \in [Nat -> [X -> X]]
  PROVE  \E f \in [Nat -> X] : Unrolled(f, base, turn)
  <1> DEFINE Has == {n \in Nat : \E g : Follows(g, n, X, base, turn)}
             Agree == {n \in Nat : \A m, l \in Nat : \A g, h :
                          n <= m /\ n <= l /\ Follows(g, m, X, base, turn) /\ Follows(h, l, X, base, turn)
                            => g[n] = h[n]}
  <1>1. Nat \subseteq Has
    <2>1. 0 \in Has
      <3>1. Follows([k \in 0 .. 0 |-> base], 0, X, base, turn)
        BY DEF Follows
      <3> QED
        BY <3>1
    <2>2. ASSUME NEW n \in Nat, n \in Has PROVE n + 1 \in Has
      <3> PICK g : Follows(g, n, X, base, turn)
        BY <2>2
      <3> DEFINE h == [k \in 0 .. n + 1 |-> IF k <= n THEN g[k] ELSE turn[n + 1][g[n]]]
      <3>1. g \in [0 .. n -> X] /\ g[0] = base /\ \A k \in 1 .. n : g[k] = turn[k][g[k - 1]]
        BY DEF Follows
      <3>2. h \in [0 .. n + 1 -> X]
        BY <3>1
      <3>3. h[0] = base
        BY <3>1
      <3>4. \A k \in 1 .. n + 1 : h[k] = turn[k][h[k - 1]]
        BY <3>1
      <3> HIDE DEF h
      <3>5. Follows(h, n + 1, X, base, turn)
        BY <3>2, <3>3, <3>4 DEF Follows
      <3> QED
        BY <3>5
    <2> HIDE DEF Has
    <2> QED
      BY <2>1, <2>2, Induction
  <1>2. Nat \subseteq Agree
    <2>1. 0 \in Agree
      BY DEF Follows
    <2>2. ASSUME NEW n \in Nat, n \in Agree PROVE n + 1 \in Agree
      <3> SUFFICES ASSUME NEW m \in Nat, NEW l \in Nat, NEW g, NEW h, n + 1 <= m, n + 1 <= l,
                          Follows(g, m, X, base, turn), Follows(h, l, X, base, turn)
                   PROVE  g[n + 1] = h[n + 1]
        OBVIOUS
      <3>1. g[n] = h[n]
        BY <2>2
      <3>2. n + 1 \in 1 .. m /\ n + 1 \in 1 .. l /\ (n + 1) - 1 = n
        OBVIOUS
      <3>3. g[n + 1] = turn[n + 1][g[n]] /\ h[n + 1] = turn[n + 1][h[n]]
        BY <3>2 DEF Follows
      <3> QED
        BY <3>1, <3>3
    <2> HIDE DEF Agree
    <2> QED
      BY <2>1, <2>2, Induction
  <1> DEFINE at(n) == CHOOSE g : Follows(g, n, X, base, turn)
             f == [n \in Nat |-> at(n)[n]]
  <1>3. \A n \in Nat : Follows(at(n), n, X, base, turn)
    BY <1>1
  <1> HIDE DEF at
  <1>4. f \in [Nat -> X] /\ f[0] = base
    BY <1>3 DEF Follows
  <1>5. ASSUME NEW k \in Nat, k # 0 PROVE f[k] = turn[k][f[k - 1]]
    <2>1. at(k)[k - 1] = at(k - 1)[k - 1]
      BY <1>2, <1>3, <1>5
    <2>2. at(k)[k] = turn[k][at(k)[k - 1]]
      BY <1>3, <1>5 DEF Follows
    <2> QED
      BY <1>5, <2>1, <2>2
  <1>6. Unrolled(f, base, turn)
    BY <1>4, <1>5 DEF Unrolled
  <1> HIDE DEF f
  <1> QED
    BY <1>4, <1>6

-----------------------------------------------------------------------------
(* The telemetry service: the table holds at any time the aggregates of    *)
(* the samples of the window, and a report is cut from the table.          *)

(* A sample's value is a number, its metric a natural one.                 *)
LEMMA SampleTyped ==
  ASSUME NEW s \in Sample
  PROVE  /\ MetricOf(s) \in Nat /\ ValueOf(s) \in 0 .. Inf /\ ValueOf(s) \in Int
         /\ s.type \in {"gauge", "counter", "histogram"}
  <1>1. s \in [type : {"gauge", "counter", "histogram"}, sent : Nat \X Nat, rest : Nat \X (0 .. Inf)]
    BY TelemetryAssumption DEF TelemetryAssumption
  <1>2. s.rest \in Nat \X (0 .. Inf) /\ s.type \in {"gauge", "counter", "histogram"}
    BY <1>1
  <1> QED
    BY <1>2 DEF MetricOf, ValueOf, Inf

(* The sum at some places of a sequence, step by step.                     *)
SumsUp(f, ss, S) ==
    /\ f \in [Nat -> Int] /\ f[0] = 0 /\ SumAt(ss, S) = f[Len(ss)]
    /\ \A k \in Nat \ {0} : f[k] = f[k - 1] + (IF k \in S THEN ValueOf(ss[k]) ELSE 0)
LEMMA SumIs ==
  ASSUME NEW ss \in Seq(Sample), NEW S \in SUBSET (DOMAIN ss)
  PROVE  \E f : SumsUp(f, ss, S)
  <1> DEFINE d(k) == IF k \in S THEN ValueOf(ss[k]) ELSE 0
             turn == [k \in Nat |-> [x \in Int |-> x + d(k)]]
             Body(f) == [k \in Nat |-> IF k = 0 THEN 0 ELSE f[k - 1] + d(k)]
             U == CHOOSE f : f = Body(f)
  <1>1. SumAt(ss, S) = U[Len(ss)]
    BY DEF SumAt
  <1>2. \A k \in Nat : d(k) \in Int
    <2>1. \A k \in S : ss[k] \in Sample
      BY LenProperties
    <2>2. \A s \in Sample : ValueOf(s) \in Int
      BY SampleTyped
    <2> QED
      BY <2>1, <2>2
  <1> HIDE DEF d
  <1>3. turn \in [Nat -> [Int -> Int]] /\ \A k \in Nat, x \in Int : turn[k][x] = x + d(k)
    BY <1>2
  <1> HIDE DEF turn
  <1>4. PICK f \in [Nat -> Int] : Unrolled(f, 0, turn)
    <2>1. 0 \in Int
      OBVIOUS
    <2> QED
      BY <1>3, <2>1, Recursion, Zenon
  <1>5. f = Body(f)
    <2>1. \A k \in Nat : k # 0 => turn[k][f[k - 1]] = f[k - 1] + d(k)
      BY <1>3
    <2> QED
      BY <1>4, <2>1 DEF Unrolled
  <1>6. U = Body(U)
    BY <1>5
  <1> HIDE DEF U
  <1>7. U[0] = 0 /\ \A k \in Nat \ {0} : U[k] = U[k - 1] + d(k)
    <2>1. \A k \in Nat : U[k] = IF k = 0 THEN 0 ELSE U[k - 1] + d(k)
      BY <1>6
    <2> QED
      BY <2>1
  <1>8. \A k \in Nat : U[k] \in Int
    <2> DEFINE I == {k \in Nat : U[k] \in Int}
    <2>1. \A k \in Nat : U[k] \in Int => U[k + 1] \in Int
      <3> TAKE k \in Nat
      <3>1. U[k + 1] = U[k] + d(k + 1) /\ d(k + 1) \in Int
        BY <1>2, <1>7
      <3> QED
        BY <3>1
    <2>2. 0 \in I /\ \A k \in Nat : k \in I => k + 1 \in I
      BY <1>7, <2>1
    <2>3. Nat \subseteq I
      <3> HIDE DEF I
      <3> QED
        BY <2>2, Induction
    <2> QED
      BY <2>3
  <1>9. U \in [Nat -> Int]
    BY <1>6, <1>8
  <1>10. SumsUp(U, ss, S)
    BY <1>1, <1>7, <1>9 DEF d, SumsUp
  <1> QED
    BY <1>10

(* Nothing adds up to nothing.                                             *)
LEMMA SumOfNone ==
  ASSUME NEW ss \in Seq(Sample)
  PROVE  SumAt(ss, {}) = 0
  <1> PICK f : SumsUp(f, ss, {})
    BY SumIs
  <1> DEFINE I == {k \in Nat : f[k] = 0}
  <1>1. 0 \in I /\ \A k \in Nat : k \in I => k + 1 \in I
    <2>1. \A k \in Nat \ {0} : f[k] = f[k - 1] + 0
      BY DEF SumsUp
    <2> QED
      BY <2>1 DEF SumsUp
  <1>2. Nat \subseteq I
    <2> HIDE DEF I
    <2> QED
      BY <1>1, Induction
  <1>3. Len(ss) \in Nat /\ SumAt(ss, {}) = f[Len(ss)]
    BY LenProperties DEF SumsUp
  <1> QED
    BY <1>2, <1>3

(* One sample more: it counts if its place is among those of the sum.      *)
LEMMA SumGrows ==
  ASSUME NEW ss \in Seq(Sample), NEW s \in Sample, NEW S \in SUBSET (DOMAIN ss), NEW here \in BOOLEAN
  PROVE  /\ SumAt(Append(ss, s), IF here THEN S \cup {Len(ss) + 1} ELSE S)
                = SumAt(ss, S) + (IF here THEN ValueOf(s) ELSE 0)
         /\ SumAt(ss, S) \in Int
  <1> DEFINE n == Len(ss)
             tt == Append(ss, s)
             T == IF here THEN S \cup {n + 1} ELSE S
  <1>1. /\ n \in Nat /\ tt \in Seq(Sample) /\ Len(tt) = n + 1 /\ tt[n + 1] = s
        /\ DOMAIN ss = 1 .. n /\ DOMAIN tt = 1 .. n + 1 /\ \A k \in 1 .. n : tt[k] = ss[k]
    BY AppendProperties, LenProperties
  <1> HIDE DEF n, tt
  <1>2. T \in SUBSET (DOMAIN tt) /\ \A k \in 1 .. n : k \in T <=> k \in S
    BY <1>1
  <1>3. n + 1 \in T <=> here
    BY <1>1
  <1> HIDE DEF T
  <1> PICK f : SumsUp(f, ss, S)
    BY SumIs
  <1> PICK g : SumsUp(g, tt, T)
    BY <1>1, <1>2, SumIs
  <1> DEFINE I == {k \in Nat : k <= n => f[k] = g[k]}
  <1>4. Nat \subseteq I
    <2>1. ASSUME NEW k \in Nat, k <= n => f[k] = g[k], k + 1 <= n PROVE f[k + 1] = g[k + 1]
      <3>1. k + 1 \in 1 .. n /\ k + 1 \in Nat \ {0} /\ (k + 1) - 1 = k /\ f[k] = g[k]
        BY <1>1, <2>1
      <3>2. f[k + 1] = f[k] + (IF k + 1 \in S THEN ValueOf(ss[k + 1]) ELSE 0)
        BY <3>1 DEF SumsUp
      <3>3. g[k + 1] = g[k] + (IF k + 1 \in T THEN ValueOf(tt[k + 1]) ELSE 0)
        BY <3>1 DEF SumsUp
      <3>4. (k + 1 \in T <=> k + 1 \in S) /\ tt[k + 1] = ss[k + 1]
        BY <1>1, <1>2, <3>1
      <3> QED
        BY <3>1, <3>2, <3>3, <3>4, Zenon
    <2>2. f[0] = g[0]
      BY DEF SumsUp
    <2>3. 0 \in I /\ \A k \in Nat : k \in I => k + 1 \in I
      BY <1>1, <2>1, <2>2
    <2> HIDE DEF I
    <2> QED
      BY <2>3, Induction
  <1>5. f[n] = g[n]
    BY <1>1, <1>4
  <1>6. g[n + 1] = g[n] + (IF here THEN ValueOf(s) ELSE 0)
    <2>1. n + 1 \in Nat \ {0} /\ (n + 1) - 1 = n
      BY <1>1
    <2>2. g[n + 1] = g[n] + (IF n + 1 \in T THEN ValueOf(tt[n + 1]) ELSE 0)
      BY <2>1 DEF SumsUp
    <2> QED
      BY <1>1, <1>3, <2>2
  <1>7. SumAt(tt, T) = SumAt(ss, S) + (IF here THEN ValueOf(s) ELSE 0) /\ SumAt(ss, S) \in Int
    BY <1>1, <1>5, <1>6 DEF n, SumsUp
  <1> QED
    BY <1>7 DEF n, tt, T

(* The places of a metric by what they add to, and the values seen there.  *)
OfType(id, ss, type) == {i \in Own(id, ss) : ss[i].type = type}
Observed(id, ss) == Own(id, ss) \ OfType(id, ss, "counter")
Seen(id, ss) == {ValueOf(ss[i]) : i \in Observed(id, ss)}

(* A sample that is appended is the last place of its metric.              *)
Joined(S, n, here) == IF here THEN S \cup {n + 1} ELSE S
LEMMA PlacesGrow ==
  ASSUME NEW ss \in Seq(Sample), NEW s \in Sample, NEW id
  PROVE  /\ Len(ss) \in Nat /\ Append(ss, s) \in Seq(Sample)
         /\ Own(id, ss) \in SUBSET (1 .. Len(ss)) /\ DOMAIN ss = 1 .. Len(ss)
         /\ Own(id, Append(ss, s)) = Joined(Own(id, ss), Len(ss), MetricOf(s) = id)
         /\ \A type : OfType(id, Append(ss, s), type)
                         = Joined(OfType(id, ss, type), Len(ss), MetricOf(s) = id /\ s.type = type)
         /\ Observed(id, Append(ss, s))
               = Joined(Observed(id, ss), Len(ss), MetricOf(s) = id /\ s.type # "counter")
         /\ Seen(id, Append(ss, s)) = IF MetricOf(s) = id /\ s.type # "counter"
                                         THEN Seen(id, ss) \cup {ValueOf(s)} ELSE Seen(id, ss)
         /\ \A i \in 1 .. Len(ss) : Append(ss, s)[i] = ss[i]
         /\ Append(ss, s)[Len(ss) + 1] = s
  <1> DEFINE n == Len(ss)
             tt == Append(ss, s)
  <1>1. /\ n \in Nat /\ tt \in Seq(Sample) /\ Len(tt) = n + 1 /\ tt[n + 1] = s
        /\ DOMAIN ss = 1 .. n /\ DOMAIN tt = 1 .. n + 1 /\ \A k \in 1 .. n : tt[k] = ss[k]
    BY AppendProperties, LenProperties
  <1> HIDE DEF n, tt
  <1>2. \A k \in 1 .. n + 1 : k \in 1 .. n \/ k = n + 1
    BY <1>1
  <1>2a. n + 1 \in 1 .. n + 1 /\ \A k \in 1 .. n : k \in 1 .. n + 1 /\ k # n + 1
    BY <1>1
  <1>3. Own(id, ss) \in SUBSET (1 .. n)
    BY <1>1 DEF Own
  <1>4. Own(id, tt) = Joined(Own(id, ss), n, MetricOf(s) = id)
    BY <1>1, <1>2, <1>2a DEF Own, Joined
  <1>5. ASSUME NEW type
        PROVE  OfType(id, tt, type) = Joined(OfType(id, ss, type), n, MetricOf(s) = id /\ s.type = type)
    BY <1>1, <1>2, <1>2a, <1>3, <1>4 DEF OfType, Joined
  <1>6. Observed(id, tt) = Joined(Observed(id, ss), n, MetricOf(s) = id /\ s.type # "counter")
    <2>1. n + 1 \notin Own(id, ss)
      BY <1>2a, <1>3
    <2> QED
      BY <1>4, <1>5, <2>1 DEF Observed, Joined, OfType
  <1>7. Observed(id, ss) \subseteq 1 .. n
    BY <1>3 DEF Observed
  <1>8. Seen(id, tt) = IF MetricOf(s) = id /\ s.type # "counter"
                          THEN Seen(id, ss) \cup {ValueOf(s)} ELSE Seen(id, ss)
    <2>1. CASE MetricOf(s) = id /\ s.type # "counter"
      <3>1. Observed(id, tt) = Observed(id, ss) \cup {n + 1}
        BY <1>6, <2>1 DEF Joined
      <3> QED
        BY <1>1, <1>7, <2>1, <3>1 DEF Seen
    <2>2. CASE ~(MetricOf(s) = id /\ s.type # "counter")
      <3>1. Observed(id, tt) = Observed(id, ss)
        BY <1>6, <2>2 DEF Joined
      <3> QED
        BY <1>1, <1>7, <2>2, <3>1 DEF Seen
    <2> QED
      BY <2>1, <2>2
  <1> QED
    BY <1>1, <1>3, <1>4, <1>5, <1>6, <1>8 DEF n, tt

(* The places of a metric: the first stays, the last is the new one.       *)
LEMMA EarliestIs ==
  ASSUME NEW S \in SUBSET Nat, NEW m \in S, \A k \in S : m <= k
  PROVE  Earliest(S) = m
  <1>1. \A i \in S : (\A k \in S : i <= k) => i = m
    <2> TAKE i \in S
    <2> QED
      OBVIOUS
  <1> QED
    BY <1>1 DEF Earliest

LEMMA LatestIs ==
  ASSUME NEW S \in SUBSET Nat, NEW m \in S, \A k \in S : m >= k
  PROVE  Latest(S) = m
  <1>1. \A i \in S : (\A k \in S : i >= k) => i = m
    <2> TAKE i \in S
    <2> QED
      OBVIOUS
  <1> QED
    BY <1>1 DEF Latest

(* A set of numbers up to n that is not empty has a greatest element.      *)
LEMMA GreatestOf ==
  ASSUME NEW n \in Nat, NEW S \in SUBSET (1 .. n), S # {}
  PROVE  \E m \in S : \A k \in S : m >= k
  <1> DEFINE T == {k \in Nat : n - k \in S}
  <1>1. T \in SUBSET Nat /\ T # {}
    <2> PICK k \in S : TRUE
      OBVIOUS
    <2>1. n - k \in Nat /\ n - (n - k) = k
      OBVIOUS
    <2> QED
      BY <2>1
  <1>2. PICK m \in T : \A k \in T : m <= k
    BY <1>1, LeastOf
  <1>3. \A k \in S : n - k \in T
    <2> TAKE k \in S
    <2>1. n - k \in Nat /\ n - (n - k) = k
      OBVIOUS
    <2> QED
      BY <2>1
  <1>4. \A k \in S : n - m >= k
    <2> TAKE k \in S
    <2>1. m <= n - k
      BY <1>2, <1>3
    <2> QED
      BY <2>1
  <1> QED
    BY <1>4

(* The first place stays the first, a new place is the last.               *)
LEMMA Extremes ==
  ASSUME NEW n \in Nat, NEW S \in SUBSET (1 .. n)
  PROVE  /\ S # {} => /\ Earliest(S) \in S /\ \A k \in S : Earliest(S) <= k
                      /\ Earliest(S \cup {n + 1}) = Earliest(S)
         /\ Earliest({n + 1}) = n + 1
         /\ Latest(S \cup {n + 1}) = n + 1
  <1>1. S \cup {n + 1} \in SUBSET Nat /\ \A k \in S : k \in 1 .. n
    OBVIOUS
  <1>2. ASSUME S # {}
        PROVE  /\ Earliest(S) \in S /\ \A k \in S : Earliest(S) <= k
               /\ Earliest(S \cup {n + 1}) = Earliest(S)
    <2>1. PICK m \in S : \A k \in S : m <= k
      BY <1>1, <1>2, LeastOf
    <2>2. Earliest(S) = m
      BY <1>1, <2>1, EarliestIs
    <2>3. m \in S \cup {n + 1} /\ \A k \in S \cup {n + 1} : m <= k
      BY <1>1, <2>1
    <2>4. Earliest(S \cup {n + 1}) = m
      BY <1>1, <2>3, EarliestIs
    <2> QED
      BY <2>1, <2>2, <2>4
  <1>3. Earliest({n + 1}) = n + 1
    <2>1. {n + 1} \in SUBSET Nat /\ n + 1 \in {n + 1} /\ \A k \in {n + 1} : n + 1 <= k
      OBVIOUS
    <2> QED
      BY <2>1, EarliestIs
  <1>4. Latest(S \cup {n + 1}) = n + 1
    <2>1. n + 1 \in S \cup {n + 1} /\ \A k \in S \cup {n + 1} : n + 1 >= k
      BY <1>1
    <2> QED
      BY <1>1, <2>1, LatestIs
  <1> QED
    BY <1>2, <1>3, <1>4

(* Adding to a remainder.                                                  *)
LEMMA RemainderAdds ==
  ASSUME NEW a \in Int, NEW b \in Int, NEW w \in Nat \ {0}
  PROVE  ((a % w) + b) % w = (a + b) % w /\ (a % w) \in Int
  <1> DEFINE q == a \div w
             r == a % w
             x == (r + b) \div w
             t == (r + b) % w
             y == (a + b) \div w
             u == (a + b) % w
  <1>1. a = w * q + r /\ r \in 0 .. w - 1 /\ q \in Int
    OBVIOUS
  <1>2. r \in Int
    BY <1>1
  <1>3. r + b \in Int /\ a + b \in Int
    BY <1>2
  <1> HIDE DEF q, r
  <1>4. r + b = w * x + t /\ t \in 0 .. w - 1 /\ x \in Int
    BY <1>3
  <1>5. a + b = w * y + u /\ u \in 0 .. w - 1 /\ y \in Int
    BY <1>3
  <1> HIDE DEF x, t, y, u
  <1>6. w * y - w * (q + x) = t - u
    BY <1>1, <1>4, <1>5
  <1>7. w * y - w * (q + x) = w * (y - (q + x))
    BY <1>1, <1>4, <1>5
  <1>8. y - (q + x) = 0
    <2>1. (\A k \in Int : k >= 1 => w * k >= w) /\ (\A k \in Int : k <= -1 => w * k <= -w)
      OBVIOUS
    <2>2. w * (y - (q + x)) < w /\ w * (y - (q + x)) > -w
      BY <1>4, <1>5, <1>6, <1>7
    <2> QED
      BY <1>1, <1>4, <1>5, <2>1, <2>2
  <1>9. t = u
    BY <1>4, <1>5, <1>6, <1>7, <1>8
  <1> QED
    BY <1>2, <1>9 DEF r, t, u

Slot == [id : Nat, type : {"gauge", "counter", "histogram"}, count : Nat, sum : Int,
         min : Int, max : Int, last : Int, total : Int]

(* What a slot holds of the samples of a metric.                           *)
Counts(e, id, ss) ==
    /\ e \in Slot /\ e.id = id
    /\ e.count = Cardinality(Own(id, ss))
    /\ e.sum = SumAt(ss, Observed(id, ss))
    /\ e.total = SumAt(ss, OfType(id, ss, "counter")) % TotalWrap
    /\ e.min \in Seen(id, ss) \cup {Inf} /\ \A v \in Seen(id, ss) : e.min <= v
    /\ e.max \in Seen(id, ss) \cup {-Inf} /\ \A v \in Seen(id, ss) : e.max >= v
    /\ e.last = IF OfType(id, ss, "gauge") = {} THEN 0
                ELSE ValueOf(ss[Latest(OfType(id, ss, "gauge"))])

(* A metric without samples.                                               *)
LEMMA CountsNone ==
  ASSUME NEW ss \in Seq(Sample), NEW id \in Nat, Own(id, ss) = {},
         NEW type \in {"gauge", "counter", "histogram"}
  PROVE  Counts(Fresh(id, type), id, ss)
  <1>1. Observed(id, ss) = {} /\ Seen(id, ss) = {} /\ \A ty : OfType(id, ss, ty) = {}
    BY DEF Observed, Seen, OfType
  <1>2. SumAt(ss, {}) = 0 /\ Cardinality({}) = 0
    BY SumOfNone, FS_EmptySet
  <1>3. 0 % TotalWrap = 0
    BY Small, TelemetryAssumption DEF TelemetryAssumption
  <1>4. Fresh(id, type) \in Slot
    BY DEF Fresh, Slot, Inf
  <1> QED
    BY <1>1, <1>2, <1>3, <1>4 DEF Counts, Fresh

(* A sample of another metric changes nothing.                             *)
LEMMA CountsStay ==
  ASSUME NEW ss \in Seq(Sample), NEW s \in Sample, NEW id, MetricOf(s) # id,
         NEW e, Counts(e, id, ss)
  PROVE  Counts(e, id, Append(ss, s))
  <1> DEFINE tt == Append(ss, s)
  <1>1. /\ Own(id, tt) = Own(id, ss) /\ Observed(id, tt) = Observed(id, ss) /\ Seen(id, tt) = Seen(id, ss)
        /\ \A ty : OfType(id, tt, ty) = OfType(id, ss, ty)
        /\ Len(ss) \in Nat /\ Own(id, ss) \in SUBSET (1 .. Len(ss)) /\ DOMAIN ss = 1 .. Len(ss)
        /\ \A i \in 1 .. Len(ss) : tt[i] = ss[i]
    BY PlacesGrow DEF Joined
  <1>2. \A S \in SUBSET (DOMAIN ss) : SumAt(tt, S) = SumAt(ss, S)
    <2> TAKE S \in SUBSET (DOMAIN ss)
    <2>1. /\ SumAt(tt, IF FALSE THEN S \cup {Len(ss) + 1} ELSE S) = SumAt(ss, S) + (IF FALSE THEN ValueOf(s) ELSE 0)
          /\ SumAt(ss, S) \in Int
      BY SumGrows
    <2> QED
      BY <2>1
  <1>3. SumAt(tt, Observed(id, ss)) = SumAt(ss, Observed(id, ss))
        /\ SumAt(tt, OfType(id, ss, "counter")) = SumAt(ss, OfType(id, ss, "counter"))
    BY <1>1, <1>2 DEF Observed, OfType
  <1>4. OfType(id, ss, "gauge") # {} => tt[Latest(OfType(id, ss, "gauge"))] = ss[Latest(OfType(id, ss, "gauge"))]
    <2> SUFFICES ASSUME OfType(id, ss, "gauge") # {}
                 PROVE  Latest(OfType(id, ss, "gauge")) \in 1 .. Len(ss)
      BY <1>1
    <2> DEFINE G == OfType(id, ss, "gauge")
    <2>1. G \in SUBSET (1 .. Len(ss)) /\ G # {}
      BY <1>1 DEF OfType
    <2> HIDE DEF G
    <2>2. PICK m \in G : \A k \in G : m >= k
      BY <1>1, <2>1, GreatestOf
    <2>3. Latest(G) = m
      BY <1>1, <2>1, <2>2, LatestIs
    <2> QED
      BY <2>1, <2>3 DEF G
  <1> HIDE DEF tt
  <1>5. Counts(e, id, tt)
    BY <1>1, <1>3, <1>4 DEF Counts
  <1> QED
    BY <1>5 DEF tt

(* fb_telemetry__agg_gauge(), _counter(), _histogram(): what they change.   *)
Adds(a, c, s) ==
    /\ a \in Slot /\ a.id = c.id /\ a.type = c.type /\ a.count = c.count + 1
    /\ a.sum = IF s.type = "counter" THEN c.sum ELSE c.sum + ValueOf(s)
    /\ a.min = IF s.type = "counter" THEN c.min ELSE Lesser(c.min, ValueOf(s))
    /\ a.max = IF s.type = "counter" THEN c.max ELSE Greater(c.max, ValueOf(s))
    /\ a.last = IF s.type = "gauge" THEN ValueOf(s) ELSE c.last
    /\ a.total = IF s.type = "counter" THEN (c.total + ValueOf(s)) % TotalWrap ELSE c.total
LEMMA AggregateIs ==
  ASSUME NEW s \in Sample, NEW slot, Claimed(slot, s) \in Slot
  PROVE  Adds(Aggregate(slot, s), Claimed(slot, s), s)
  <1> DEFINE c == Claimed(slot, s)
             a == Aggregate(slot, s)
             v == ValueOf(s)
             counted == s.type = "counter"
             gauged == s.type = "gauge"
  <1> SUFFICES /\ a \in Slot /\ a.id = c.id /\ a.type = c.type /\ a.count = c.count + 1
               /\ a.sum = IF counted THEN c.sum ELSE c.sum + v
               /\ a.min = IF counted THEN c.min ELSE Lesser(c.min, v)
               /\ a.max = IF counted THEN c.max ELSE Greater(c.max, v)
               /\ a.last = IF gauged THEN v ELSE c.last
               /\ a.total = IF counted THEN (c.total + v) % TotalWrap ELSE c.total
    BY DEF Adds
  <1>a. c \in Slot
    OBVIOUS
  <1>b. v \in 0 .. Inf /\ s.type \in {"gauge", "counter", "histogram"}
    BY SampleTyped
  <1> HIDE DEF c, v
  <1>c. v \in Int /\ c.min \in Int /\ c.max \in Int /\ c.sum \in Int /\ c.total \in Int /\ c.count \in Nat
    BY <1>a, <1>b DEF Slot, Inf
  <1>1. (c.total + v) % TotalWrap \in Int /\ Lesser(c.min, v) \in Int /\ Greater(c.max, v) \in Int
    <2>1. TotalWrap \in Nat \ {0} /\ c.total + v \in Int
      BY <1>c, TelemetryAssumption DEF TelemetryAssumption
    <2> QED
      BY <1>c, <2>1, RemainderAdds DEF Lesser, Greater
  <1> DEFINE e == [c EXCEPT !.count = @ + 1]
             o == [e EXCEPT !.sum = @ + v, !.min = Lesser(@, v), !.max = Greater(@, v)]
  <1>2. /\ e \in Slot /\ e.id = c.id /\ e.type = c.type /\ e.count = c.count + 1 /\ e.sum = c.sum
        /\ e.min = c.min /\ e.max = c.max /\ e.last = c.last /\ e.total = c.total
    <2>1. c.count + 1 \in Nat
      BY <1>c
    <2> QED
      BY <1>a, <2>1 DEF Slot
  <1>3. a = CASE s.type = "counter" -> [e EXCEPT !.total = (@ + v) % TotalWrap]
              [] s.type = "gauge" -> [o EXCEPT !.last = v]
              [] s.type = "histogram" -> o
    BY DEF Aggregate, c, v
  <1> HIDE DEF a, e
  <1>4. /\ o \in Slot /\ o.id = e.id /\ o.type = e.type /\ o.count = e.count /\ o.sum = e.sum + v
        /\ o.min = Lesser(e.min, v) /\ o.max = Greater(e.max, v) /\ o.last = e.last /\ o.total = e.total
    <2>1. e.sum + v \in Int /\ Lesser(e.min, v) \in Int /\ Greater(e.max, v) \in Int
      BY <1>c, <1>1, <1>2
    <2> QED
      BY <1>2, <2>1 DEF Slot
  <1> HIDE DEF o
  <1>5. CASE counted
    <2>1. a = [e EXCEPT !.total = (e.total + v) % TotalWrap] /\ (e.total + v) % TotalWrap \in Int
      BY <1>1, <1>2, <1>3, <1>5
    <2>2. ~gauged
      BY <1>5
    <2> HIDE DEF counted, gauged
    <2>3. /\ a \in Slot /\ a.id = e.id /\ a.type = e.type /\ a.count = e.count /\ a.sum = e.sum
          /\ a.min = e.min /\ a.max = e.max /\ a.last = e.last /\ a.total = (e.total + v) % TotalWrap
      BY <1>2, <2>1 DEF Slot
    <2> QED
      BY <1>2, <1>5, <2>2, <2>3
  <1>6. CASE gauged
    <2>1. a = [o EXCEPT !.last = v]
      BY <1>3, <1>6
    <2>2. ~counted
      BY <1>6
    <2> HIDE DEF counted, gauged
    <2>3. /\ a \in Slot /\ a.id = o.id /\ a.type = o.type /\ a.count = o.count /\ a.sum = o.sum
          /\ a.min = o.min /\ a.max = o.max /\ a.last = v /\ a.total = o.total
      BY <1>c, <1>4, <2>1 DEF Slot
    <2> QED
      BY <1>2, <1>4, <1>6, <2>2, <2>3
  <1>7. CASE ~counted /\ ~gauged
    <2>1. a = o
      BY <1>b, <1>3, <1>7
    <2> HIDE DEF counted, gauged
    <2> QED
      BY <1>2, <1>4, <1>7, <2>1
  <1> QED
    BY <1>5, <1>6, <1>7

(* fb_telemetry__agg_gauge(), _counter(), _histogram(): a sample is added   *)
(* to what the slot holds of its metric.                                   *)
LEMMA CountsGrow ==
  ASSUME NEW ss \in Seq(Sample), NEW s \in Sample, NEW slot,
         Counts(Claimed(slot, s), MetricOf(s), ss)
  PROVE  /\ Counts(Aggregate(slot, s), MetricOf(s), Append(ss, s))
         /\ Aggregate(slot, s).type = Claimed(slot, s).type
  <1> DEFINE tt == Append(ss, s)
             id == MetricOf(s)
             n == Len(ss)
             c == Claimed(slot, s)
             a == Aggregate(slot, s)
             v == ValueOf(s)
             counted == s.type = "counter"
             gauged == s.type = "gauge"
  <1>1. c \in Slot /\ c.id = id /\ c.count = Cardinality(Own(id, ss))
    BY DEF Counts
  <1>2. v \in 0 .. Inf /\ s.type \in {"gauge", "counter", "histogram"}
    BY SampleTyped
  <1> HIDE DEF c, v
  <1>3. v \in Int /\ 0 <= v /\ v <= Inf /\ Inf \in Int /\ c.min \in Int /\ c.max \in Int /\ c.sum \in Int
        /\ c.total \in Int /\ c.count \in Nat
    BY <1>1, <1>2 DEF Slot, Inf
  <1>4. /\ a \in Slot /\ a.id = c.id /\ a.type = c.type /\ a.count = c.count + 1
        /\ a.sum = IF counted THEN c.sum ELSE c.sum + v
        /\ a.min = IF counted THEN c.min ELSE Lesser(c.min, v)
        /\ a.max = IF counted THEN c.max ELSE Greater(c.max, v)
        /\ a.last = IF gauged THEN v ELSE c.last
        /\ a.total = IF counted THEN (c.total + v) % TotalWrap ELSE c.total
    <2>1. Claimed(slot, s) \in Slot
      BY <1>1 DEF c
    <2> QED
      BY <2>1, AggregateIs DEF Adds, c, v
  <1>5. /\ n \in Nat /\ Own(id, ss) \in SUBSET (1 .. n) /\ DOMAIN ss = 1 .. n
        /\ Own(id, tt) = Own(id, ss) \cup {n + 1}
        /\ \A ty : OfType(id, tt, ty) = Joined(OfType(id, ss, ty), n, s.type = ty)
        /\ Observed(id, tt) = Joined(Observed(id, ss), n, ~counted)
        /\ Seen(id, tt) = IF counted THEN Seen(id, ss) ELSE Seen(id, ss) \cup {v}
        /\ \A i \in 1 .. n : tt[i] = ss[i]
        /\ tt[n + 1] = s
    BY PlacesGrow DEF Joined, v
  <1> HIDE DEF a
  <1>6. a.count = Cardinality(Own(id, tt))
    <2>1. IsFiniteSet(1 .. n) /\ n + 1 \notin Own(id, ss)
      BY <1>5, FS_Interval
    <2>2. IsFiniteSet(Own(id, ss))
      BY <1>5, <2>1, FS_Subset
    <2>3. Cardinality(Own(id, ss) \cup {n + 1}) = Cardinality(Own(id, ss)) + 1
      BY <2>1, <2>2, FS_AddElement
    <2> QED
      BY <1>1, <1>4, <1>5, <2>3
  <1>7. a.sum = SumAt(tt, Observed(id, tt))
    <2>1. Observed(id, ss) \in SUBSET (DOMAIN ss) /\ (~counted) \in BOOLEAN
      BY <1>5 DEF Observed
    <2>2. SumAt(tt, IF ~counted THEN Observed(id, ss) \cup {n + 1} ELSE Observed(id, ss))
             = SumAt(ss, Observed(id, ss)) + (IF ~counted THEN v ELSE 0)
      BY <2>1, SumGrows DEF v
    <2>3. c.sum = SumAt(ss, Observed(id, ss))
      BY DEF Counts, c
    <2> QED
      BY <1>3, <1>4, <1>5, <2>2, <2>3 DEF Joined
  <1>8. a.total = SumAt(tt, OfType(id, tt, "counter")) % TotalWrap
    <2> DEFINE C == OfType(id, ss, "counter")
    <2>1. C \in SUBSET (DOMAIN ss) /\ counted \in BOOLEAN
      BY <1>5 DEF OfType
    <2>2. /\ SumAt(tt, IF counted THEN C \cup {n + 1} ELSE C) = SumAt(ss, C) + (IF counted THEN v ELSE 0)
          /\ SumAt(ss, C) \in Int
      BY <2>1, SumGrows DEF v
    <2>3. c.total = SumAt(ss, C) % TotalWrap
      BY DEF Counts, c
    <2>4. OfType(id, tt, "counter") = IF counted THEN C \cup {n + 1} ELSE C
      BY <1>5 DEF Joined
    <2> HIDE DEF C
    <2>5. ((SumAt(ss, C) % TotalWrap) + v) % TotalWrap = (SumAt(ss, C) + v) % TotalWrap
      BY <1>3, <2>2, RemainderAdds, TelemetryAssumption DEF TelemetryAssumption
    <2>6. SumAt(ss, C) + 0 = SumAt(ss, C)
      BY <2>2
    <2> HIDE DEF counted
    <2>7. CASE counted
      BY <1>4, <2>2, <2>3, <2>4, <2>5, <2>7, Zenon
    <2>8. CASE ~counted
      <3>1. a.total = c.total
        BY <1>4, <2>8, Zenon
      <3>2. SumAt(tt, OfType(id, tt, "counter")) = SumAt(ss, C)
        BY <2>2, <2>4, <2>6, <2>8, Zenon
      <3> QED
        BY <2>3, <3>1, <3>2, Zenon
    <2> QED
      BY <2>7, <2>8
  <1>9. /\ a.min \in Seen(id, tt) \cup {Inf} /\ \A w \in Seen(id, tt) : a.min <= w
        /\ a.max \in Seen(id, tt) \cup {-Inf} /\ \A w \in Seen(id, tt) : a.max >= w
    <2>1. /\ c.min \in Seen(id, ss) \cup {Inf} /\ \A w \in Seen(id, ss) : c.min <= w
          /\ c.max \in Seen(id, ss) \cup {-Inf} /\ \A w \in Seen(id, ss) : c.max >= w
      BY DEF Counts, c
    <2>2. \A w \in Seen(id, ss) : w \in Int
      <3>1. \A i \in 1 .. n : ss[i] \in Sample
        BY <1>5, LenProperties
      <3> QED
        BY <1>5, <3>1, SampleTyped DEF Seen, Observed
    <2> QED
      BY <1>3, <1>4, <1>5, <2>1, <2>2 DEF Lesser, Greater
  <1>10. a.last = IF OfType(id, tt, "gauge") = {} THEN 0 ELSE ValueOf(tt[Latest(OfType(id, tt, "gauge"))])
    <2> DEFINE G == OfType(id, ss, "gauge")
    <2>1. G \in SUBSET (1 .. n)
      BY <1>5 DEF OfType
    <2>2. OfType(id, tt, "gauge") = IF gauged THEN G \cup {n + 1} ELSE G
      BY <1>5 DEF Joined
    <2>3. c.last = IF G = {} THEN 0 ELSE ValueOf(ss[Latest(G)])
      BY DEF Counts, c
    <2> HIDE DEF G
    <2>4. CASE gauged
      <3>1. Latest(G \cup {n + 1}) = n + 1
        BY <1>5, <2>1, Extremes
      <3>2. a.last = v /\ tt[n + 1] = s
        BY <1>4, <1>5, <2>4
      <3>3. OfType(id, tt, "gauge") = G \cup {n + 1} /\ G \cup {n + 1} # {}
        BY <2>2, <2>4
      <3> QED
        BY <3>1, <3>2, <3>3, Zenon DEF v
    <2>5. CASE ~gauged
      <3>1. G # {} => Latest(G) \in 1 .. n
        <4> SUFFICES ASSUME G # {} PROVE Latest(G) \in 1 .. n
          OBVIOUS
        <4>1. PICK m \in G : \A k \in G : m >= k
          BY <1>5, <2>1, GreatestOf
        <4>2. Latest(G) = m
          BY <1>5, <2>1, <4>1, LatestIs
        <4> QED
          BY <2>1, <4>2
      <3> QED
        BY <1>4, <1>5, <2>2, <2>3, <2>5, <3>1
    <2> QED
      BY <2>4, <2>5
  <1>11. Counts(a, id, tt)
    BY <1>1, <1>4, <1>6, <1>7, <1>8, <1>9, <1>10 DEF Counts
  <1> QED
    BY <1>4, <1>11 DEF a, c

(* What a slot of a metric with samples holds: type of the first, and the  *)
(* aggregate.                                                              *)
Tallied(e, id, ss) ==
    /\ Counts(e, id, ss) /\ Own(id, ss) # {}
    /\ e.type = ss[Earliest(Own(id, ss))].type

(* The first place of a metric in a longer sequence.                       *)
LEMMA AppearsGrow ==
  ASSUME NEW ss \in Seq(Sample), NEW s \in Sample, NEW id
  PROVE  /\ Own(id, ss) # {} =>
               /\ Appears(id, ss) \in 1 .. Len(ss) /\ Appears(id, ss) \in Own(id, ss)
               /\ Appears(id, Append(ss, s)) = Appears(id, ss)
               /\ Append(ss, s)[Appears(id, ss)] = ss[Appears(id, ss)]
         /\ Own(id, ss) = {} /\ MetricOf(s) = id => Appears(id, Append(ss, s)) = Len(ss) + 1
         /\ Len(ss) \in Nat /\ Append(ss, s)[Len(ss) + 1] = s
  <1> DEFINE n == Len(ss)
             tt == Append(ss, s)
             S == Own(id, ss)
  <1>1. /\ n \in Nat /\ S \in SUBSET (1 .. n) /\ Own(id, tt) = Joined(S, n, MetricOf(s) = id)
        /\ \A i \in 1 .. n : tt[i] = ss[i]
        /\ tt[n + 1] = s
    BY PlacesGrow
  <1> HIDE DEF n, tt, S
  <1>2. ASSUME S # {} PROVE Appears(id, ss) \in S /\ Appears(id, tt) = Appears(id, ss)
    <2>1. Earliest(S) \in S /\ Earliest(S \cup {n + 1}) = Earliest(S)
      BY <1>1, <1>2, Extremes
    <2> QED
      BY <1>1, <2>1 DEF Appears, Joined, S
  <1>3. S = {} /\ MetricOf(s) = id => Appears(id, tt) = n + 1
    <2>1. {} \in SUBSET (1 .. n) /\ {} \cup {n + 1} = {n + 1}
      OBVIOUS
    <2>2. Earliest({n + 1}) = n + 1
      BY <1>1, <2>1, Extremes
    <2> QED
      BY <1>1, <2>1, <2>2 DEF Appears, Joined
  <1> QED
    BY <1>1, <1>2, <1>3 DEF n, tt, S

(* A sample of another metric leaves a slot as it is.                      *)
LEMMA TalliedStay ==
  ASSUME NEW ss \in Seq(Sample), NEW s \in Sample, NEW id, MetricOf(s) # id,
         NEW e, Tallied(e, id, ss)
  PROVE  Tallied(e, id, Append(ss, s))
  <1>1. Counts(e, id, Append(ss, s))
    BY CountsStay DEF Tallied
  <1>2. Own(id, Append(ss, s)) = Own(id, ss)
    BY PlacesGrow DEF Joined
  <1>3. Append(ss, s)[Earliest(Own(id, ss))] = ss[Earliest(Own(id, ss))]
    BY AppearsGrow DEF Tallied, Appears
  <1> QED
    BY <1>1, <1>2, <1>3 DEF Tallied

(* A sample of the slot's metric is added to it.                           *)
LEMMA TalliedGrow ==
  ASSUME NEW ss \in Seq(Sample), NEW s \in Sample, NEW slot, Tallied(slot, MetricOf(s), ss)
  PROVE  Tallied(Aggregate(slot, s), MetricOf(s), Append(ss, s))
  <1> DEFINE id == MetricOf(s)
             tt == Append(ss, s)
  <1>1. Claimed(slot, s) = slot
    BY DEF Claimed, Tallied, Counts
  <1>2. Counts(Aggregate(slot, s), id, tt) /\ Aggregate(slot, s).type = slot.type
    BY <1>1, CountsGrow DEF Tallied
  <1>3. /\ Own(id, tt) # {} /\ Appears(id, tt) = Appears(id, ss)
        /\ tt[Appears(id, ss)] = ss[Appears(id, ss)]
    BY PlacesGrow, AppearsGrow DEF Tallied, Joined
  <1> QED
    BY <1>2, <1>3 DEF Tallied, Appears

(* The first sample of a metric, in a slot of another id.                  *)
LEMMA TalliedNew ==
  ASSUME NEW ss \in Seq(Sample), NEW s \in Sample, NEW slot, slot.id # MetricOf(s),
         Own(MetricOf(s), ss) = {}
  PROVE  Tallied(Aggregate(slot, s), MetricOf(s), Append(ss, s))
  <1> DEFINE id == MetricOf(s)
             tt == Append(ss, s)
  <1>1. Claimed(slot, s) = Fresh(id, s.type)
    BY DEF Claimed
  <1>2. id \in Nat /\ s.type \in {"gauge", "counter", "histogram"}
    BY SampleTyped
  <1>3. Counts(Fresh(id, s.type), id, ss)
    BY <1>2, CountsNone
  <1>4. Counts(Aggregate(slot, s), id, tt) /\ Aggregate(slot, s).type = Fresh(id, s.type).type
    BY <1>1, <1>3, CountsGrow
  <1>5. Own(id, tt) # {} /\ tt[Appears(id, tt)] = s
    BY PlacesGrow, AppearsGrow DEF Joined
  <1> QED
    BY <1>4, <1>5 DEF Tallied, Appears, Fresh

(* build_entry(): the entry of a slot is the aggregate of its metric.      *)
LEMMA EntryIs ==
  ASSUME NEW ss \in Seq(Sample), NEW id, NEW e, Tallied(e, id, ss)
  PROVE  Entry(e) = Reference(id, ss) /\ Entry(e).id = id
  <1> DEFINE vs == Seen(id, ss)
  <1>1. \A w \in vs : w \in 0 .. Inf
    <2>1. \A i \in Observed(id, ss) : ss[i] \in Sample
      BY LenProperties DEF Observed, Own
    <2> QED
      BY <2>1, SampleTyped DEF Seen
  <1>1a. Inf \in Int /\ -Inf \in Int /\ \A w \in vs : w \in Int
    <2> HIDE DEF vs
    <2>1. Inf \in Int /\ -Inf \in Int
      BY DEF Inf
    <2>2. \A w \in vs : w \in Int
      BY <1>1, <2>1
    <2> QED
      BY <2>1, <2>2
  <1>2. e.min = CHOOSE v \in vs \cup {Inf} : \A w \in vs : v <= w
    <2>1. e.min \in vs \cup {Inf} /\ \A w \in vs : e.min <= w
      BY DEF Tallied, Counts
    <2> HIDE DEF vs
    <2>2. \A v \in vs \cup {Inf} : (\A w \in vs : v <= w) => v = e.min
      <3> SUFFICES ASSUME NEW v \in vs \cup {Inf}, \A w \in vs : v <= w PROVE v = e.min
        OBVIOUS
      <3>1. e.min \in Int /\ v \in Int /\ \A w \in vs : w \in 0 .. Inf
        BY <1>1, <1>1a, <2>1, Zenon
      <3>2. v \in vs => e.min <= v
        BY <2>1
      <3>3. e.min \in vs => v <= e.min
        OBVIOUS
      <3> QED
        BY <2>1, <3>1, <3>2, <3>3 DEF Inf
    <2> QED
      BY <2>1, <2>2
  <1>3. e.max = CHOOSE v \in vs \cup {-Inf} : \A w \in vs : v >= w
    <2>1. e.max \in vs \cup {-Inf} /\ \A w \in vs : e.max >= w
      BY DEF Tallied, Counts
    <2> HIDE DEF vs
    <2>2. \A v \in vs \cup {-Inf} : (\A w \in vs : v >= w) => v = e.max
      <3> SUFFICES ASSUME NEW v \in vs \cup {-Inf}, \A w \in vs : v >= w PROVE v = e.max
        OBVIOUS
      <3>1. e.max \in Int /\ v \in Int /\ \A w \in vs : w \in 0 .. Inf
        BY <1>1, <1>1a, <2>1, Zenon
      <3>2. v \in vs => e.max >= v
        BY <2>1
      <3>3. e.max \in vs => v >= e.max
        OBVIOUS
      <3> QED
        BY <2>1, <3>1, <3>2, <3>3 DEF Inf
    <2> QED
      BY <2>1, <2>2
  <1>4. e.type \in {"gauge", "counter", "histogram"}
    BY DEF Tallied, Counts, Slot
  <1>5. Reference(id, ss) =
          [id |-> id, type |-> e.type, count |-> Lesser(e.count, CountCap),
           values |-> CASE e.type = "counter" -> <<e.total>>
                        [] e.type = "gauge" -> <<e.sum, e.count, e.last, e.max>>
                        [] e.type = "histogram" -> <<e.sum, e.count, e.min, e.max>>]
    BY <1>2, <1>3, Zenon DEF Reference, Tallied, Counts, Seen, Observed, OfType
  <1>6. e.id = id
    BY DEF Tallied, Counts
  <1> QED
    BY <1>5, <1>6 DEF Entry

Slots == 1 .. MaxMetrics
Ids(ss) == {MetricOf(ss[i]) : i \in DOMAIN ss} \ {FreeId}

(* The first u slots hold the first metrics that appeared, in that order,  *)
(* each with its aggregate; the others are free. Metrics that are in no    *)
(* slot appeared after all of those, when the table was full.              *)
Filled(t, u, ss) ==
    /\ u \in 0 .. MaxMetrics
    /\ \A i \in 1 .. u : t[i].id # FreeId /\ Tallied(t[i], t[i].id, ss)
    /\ \A i \in Slots : i > u => t[i].id = FreeId
    /\ \A i, j \in 1 .. u : i < j => Appears(t[i].id, ss) < Appears(t[j].id, ss)
    /\ \A id \in Ids(ss) : \/ \E i \in 1 .. u : t[i].id = id
                          \/ /\ u = MaxMetrics
                             /\ \A i \in 1 .. u : Appears(t[i].id, ss) < Appears(id, ss)

(* The metrics with samples.                                               *)
LEMMA IdsAre ==
  ASSUME NEW ss, NEW id
  PROVE  id \in Ids(ss) <=> id # FreeId /\ Own(id, ss) # {}
  BY DEF Ids, Own

LEMMA IdsGrow ==
  ASSUME NEW ss \in Seq(Sample), NEW s \in Sample
  PROVE  Ids(Append(ss, s)) = Ids(ss) \cup ({MetricOf(s)} \ {FreeId})
  <1> SUFFICES ASSUME NEW id
               PROVE  id \in Ids(Append(ss, s)) <=> id \in Ids(ss) \/ (id = MetricOf(s) /\ id # FreeId)
    OBVIOUS
  <1>1. Own(id, Append(ss, s)) = Joined(Own(id, ss), Len(ss), MetricOf(s) = id)
    BY PlacesGrow
  <1> QED
    BY <1>1, IdsAre DEF Joined

(* No two slots hold the same metric.                                      *)
LEMMA SlotsDiffer ==
  ASSUME NEW ss \in Seq(Sample), NEW t, NEW u, Filled(t, u, ss),
         NEW i \in 1 .. u, NEW j \in 1 .. u, t[i].id = t[j].id
  PROVE  i = j
  <1> DEFINE S == Own(t[i].id, ss)
  <1>1. S \in SUBSET Nat /\ S # {}
    <2>1. DOMAIN ss = 1 .. Len(ss) /\ Len(ss) \in Nat
      BY LenProperties
    <2>2. S \subseteq DOMAIN ss
      BY DEF Own
    <2>3. S # {}
      BY DEF Filled, Tallied
    <2> HIDE DEF S
    <2> QED
      BY <2>1, <2>2, <2>3
  <1>2. PICK m \in S : \A f \in S : m <= f
    BY <1>1, LeastOf
  <1> HIDE DEF S
  <1>3. Earliest(S) = m
    BY <1>1, <1>2, EarliestIs
  <1>4. Appears(t[i].id, ss) \in Int /\ i \in Int /\ j \in Int
    BY <1>1, <1>2, <1>3 DEF Appears, S, Filled
  <1>5. ~(i < j) /\ ~(j < i)
    BY <1>4 DEF Filled
  <1> QED
    BY <1>4, <1>5

(* Slots whose metrics have samples: where these appear does not change.   *)
LEMMA FilledStay ==
  ASSUME NEW ss \in Seq(Sample), NEW s \in Sample, NEW t, NEW u, Filled(t, u, ss)
  PROVE  /\ \A i \in 1 .. u : /\ Appears(t[i].id, Append(ss, s)) = Appears(t[i].id, ss)
                             /\ Appears(t[i].id, ss) \in 1 .. Len(ss)
         /\ \A id \in Ids(ss) : /\ Appears(id, Append(ss, s)) = Appears(id, ss)
                               /\ Appears(id, ss) \in 1 .. Len(ss)
  <1>1. \A i \in 1 .. u : Own(t[i].id, ss) # {}
    BY DEF Filled, Tallied
  <1>2. \A i \in 1 .. u : /\ Appears(t[i].id, Append(ss, s)) = Appears(t[i].id, ss)
                         /\ Appears(t[i].id, ss) \in 1 .. Len(ss)
    BY <1>1, AppearsGrow
  <1>3. \A id \in Ids(ss) : /\ Appears(id, Append(ss, s)) = Appears(id, ss)
                           /\ Appears(id, ss) \in 1 .. Len(ss)
    BY AppearsGrow, IdsAre
  <1> QED
    BY <1>2, <1>3

(* A sample without a place: its id is the free one, or the table is full. *)
LEMMA FilledIgnored ==
  ASSUME NEW ss \in Seq(Sample), NEW s \in Sample, NEW t, NEW u, Filled(t, u, ss), NEW t2,
         \A i \in 1 .. u : t2[i] = t[i] /\ t[i].id # MetricOf(s),
         \A i \in Slots : i > u => t2[i].id = FreeId,
         MetricOf(s) = FreeId \/ u = MaxMetrics
  PROVE  Filled(t2, u, Append(ss, s))
  <1> DEFINE tt == Append(ss, s)
  <1>0. /\ \A i, j \in 1 .. u : i < j => Appears(t[i].id, ss) < Appears(t[j].id, ss)
        /\ \A id \in Ids(ss) : \/ \E i \in 1 .. u : t[i].id = id
                              \/ /\ u = MaxMetrics
                                 /\ \A i \in 1 .. u : Appears(t[i].id, ss) < Appears(id, ss)
    BY DEF Filled
  <1>a. \A i \in 1 .. u : t2[i].id = t[i].id /\ Appears(t2[i].id, tt) = Appears(t[i].id, ss)
    BY FilledStay
  <1>1. \A i \in 1 .. u : t2[i].id # FreeId /\ Tallied(t2[i], t2[i].id, tt)
    BY TalliedStay DEF Filled
  <1>2. \A i, j \in 1 .. u : i < j => Appears(t2[i].id, tt) < Appears(t2[j].id, tt)
    BY <1>0, <1>a
  <1>3. ASSUME NEW id \in Ids(tt)
        PROVE  \/ \E i \in 1 .. u : t2[i].id = id
               \/ u = MaxMetrics /\ \A i \in 1 .. u : Appears(t2[i].id, tt) < Appears(id, tt)
    <2>1. CASE id \in Ids(ss)
      <3>1. Appears(id, tt) = Appears(id, ss)
        BY <2>1, FilledStay
      <3> QED
        BY <1>0, <1>a, <2>1, <3>1
    <2>2. CASE id \notin Ids(ss)
      <3>1. id = MetricOf(s) /\ id # FreeId /\ Own(id, ss) = {}
        BY <1>3, <2>2, IdsGrow, IdsAre
      <3>2. Appears(id, tt) = Len(ss) + 1 /\ Len(ss) \in Nat
        BY <3>1, AppearsGrow
      <3>3. \A i \in 1 .. u : Appears(t2[i].id, tt) \in 1 .. Len(ss)
        BY FilledStay
      <3> QED
        BY <3>1, <3>2, <3>3
    <2> QED
      BY <2>1, <2>2
  <1> HIDE DEF tt
  <1>4. Filled(t2, u, tt)
    BY <1>1, <1>2, <1>3 DEF Filled
  <1> QED
    BY <1>4 DEF tt

(* A sample of a metric that has a slot.                                   *)
LEMMA FilledKnown ==
  ASSUME NEW ss \in Seq(Sample), NEW s \in Sample, NEW t \in [Slots -> Slot], NEW u, Filled(t, u, ss),
         NEW k \in 1 .. u, t[k].id = MetricOf(s)
  PROVE  Filled([t EXCEPT ![k] = Aggregate(t[k], s)], u, Append(ss, s))
  <1> DEFINE tt == Append(ss, s)
             t2 == [t EXCEPT ![k] = Aggregate(t[k], s)]
  <1>1. 1 .. u \subseteq Slots /\ u \in Nat /\ \A i \in Slots : i > u => i # k
    <2>1. u \in 0 .. MaxMetrics /\ MaxMetrics \in Nat
      BY TelemetryAssumption DEF TelemetryAssumption, Filled
    <2> HIDE DEF tt, t2
    <2> QED
      BY <2>1 DEF Slots
  <1>2. Tallied(Aggregate(t[k], s), MetricOf(s), tt)
    BY TalliedGrow DEF Filled
  <1>3. Aggregate(t[k], s).id = t[k].id
    BY <1>2 DEF Tallied, Counts
  <1>4. /\ \A i \in Slots : t2[i] = IF i = k THEN Aggregate(t[k], s) ELSE t[i]
        /\ \A i \in Slots : t2[i].id = t[i].id
    BY <1>3
  <1> HIDE DEF t2
  <1>5. ASSUME NEW i \in 1 .. u PROVE t2[i].id # FreeId /\ Tallied(t2[i], t2[i].id, tt)
    <2>1. CASE i = k
      BY <1>1, <1>2, <1>4, <2>1 DEF Filled
    <2>2. CASE i # k
      <3>1. t[i].id # MetricOf(s)
        BY <2>2, SlotsDiffer
      <3> QED
        BY <1>1, <1>4, <2>2, <3>1, TalliedStay DEF Filled
    <2> QED
      BY <2>1, <2>2
  <1>0. /\ \A i, j \in 1 .. u : i < j => Appears(t[i].id, ss) < Appears(t[j].id, ss)
        /\ \A id \in Ids(ss) : \/ \E i \in 1 .. u : t[i].id = id
                              \/ /\ u = MaxMetrics
                                 /\ \A i \in 1 .. u : Appears(t[i].id, ss) < Appears(id, ss)
    BY DEF Filled
  <1>a. \A i \in 1 .. u : t2[i].id = t[i].id /\ Appears(t2[i].id, tt) = Appears(t[i].id, ss)
    <2> TAKE i \in 1 .. u
    <2>1. t2[i].id = t[i].id
      BY <1>1, <1>4
    <2>2. Appears(t[i].id, tt) = Appears(t[i].id, ss)
      BY FilledStay
    <2> QED
      BY <2>1, <2>2
  <1>6. \A i, j \in 1 .. u : i < j => Appears(t2[i].id, tt) < Appears(t2[j].id, tt)
    BY <1>0, <1>a
  <1>7. ASSUME NEW id \in Ids(tt)
        PROVE  \/ \E i \in 1 .. u : t2[i].id = id
               \/ u = MaxMetrics /\ \A i \in 1 .. u : Appears(t2[i].id, tt) < Appears(id, tt)
    <2>1. id \in Ids(ss)
      <3>1. MetricOf(s) # FreeId /\ Own(MetricOf(s), ss) # {}
        BY DEF Filled, Tallied
      <3> QED
        BY <1>7, <3>1, IdsGrow, IdsAre
    <2>2. Appears(id, tt) = Appears(id, ss)
      BY <2>1, FilledStay
    <2> QED
      BY <1>0, <1>a, <2>1, <2>2
  <1> HIDE DEF tt
  <1>8. Filled(t2, u, tt)
    BY <1>1, <1>4, <1>5, <1>6, <1>7 DEF Filled
  <1> QED
    BY <1>8 DEF t2, tt

(* The first sample of a metric, while there is a free slot.               *)
LEMMA FilledNew ==
  ASSUME NEW ss \in Seq(Sample), NEW s \in Sample, NEW t \in [Slots -> Slot], NEW u, Filled(t, u, ss),
         u < MaxMetrics, MetricOf(s) # FreeId, \A i \in 1 .. u : t[i].id # MetricOf(s)
  PROVE  Filled([t EXCEPT ![u + 1] = Aggregate(t[u + 1], s)], u + 1, Append(ss, s))
  <1> DEFINE tt == Append(ss, s)
             k == u + 1
             t2 == [t EXCEPT ![k] = Aggregate(t[k], s)]
  <1>1. /\ u \in Nat /\ MaxMetrics \in Nat /\ 1 .. u \subseteq Slots /\ k \in Slots /\ k \in 0 .. MaxMetrics
        /\ \A i \in 1 .. u : i < k /\ i # k
        /\ \A i \in 1 .. k : i = k \/ i \in 1 .. u
        /\ \A i \in Slots : i > k => i > u /\ i # k
    <2>1. u \in 0 .. MaxMetrics /\ MaxMetrics \in Nat
      BY TelemetryAssumption DEF TelemetryAssumption, Filled
    <2> HIDE DEF tt, t2
    <2> QED
      BY <2>1 DEF Slots
  <1>2. Own(MetricOf(s), ss) = {}
    BY IdsAre DEF Filled
  <1>3. t[k].id # MetricOf(s)
    <2>1. k > u
      BY <1>1
    <2> QED
      BY <1>1, <2>1 DEF Filled
  <1>4. Tallied(Aggregate(t[k], s), MetricOf(s), tt)
    BY <1>2, <1>3, TalliedNew
  <1>5. Aggregate(t[k], s).id = MetricOf(s)
    BY <1>4 DEF Tallied, Counts
  <1>6. \A i \in Slots : t2[i] = IF i = k THEN Aggregate(t[k], s) ELSE t[i]
    OBVIOUS
  <1> HIDE DEF t2, k
  <1>7. t2[k].id = MetricOf(s) /\ \A i \in 1 .. u : t2[i] = t[i]
    BY <1>1, <1>5, <1>6
  <1>8. Appears(MetricOf(s), tt) = Len(ss) + 1 /\ Len(ss) \in Nat
    BY <1>2, AppearsGrow
  <1>9. \A i \in 1 .. k : t2[i].id # FreeId /\ Tallied(t2[i], t2[i].id, tt)
    <2> TAKE i \in 1 .. k
    <2>1. CASE i = k
      BY <1>1, <1>4, <1>6, <1>7, <2>1
    <2>2. CASE i \in 1 .. u
      BY <1>7, <2>2, TalliedStay DEF Filled
    <2> QED
      BY <1>1, <2>1, <2>2
  <1>10. \A i \in 1 .. u : /\ Appears(t2[i].id, tt) = Appears(t[i].id, ss)
                          /\ Appears(t[i].id, ss) \in 1 .. Len(ss)
    BY <1>7, FilledStay
  <1>11. ASSUME NEW i \in 1 .. k, NEW j \in 1 .. k, i < j
         PROVE  Appears(t2[i].id, tt) < Appears(t2[j].id, tt)
    <2>1. i \in 1 .. u
      <3>1. i # k
        BY <1>1, <1>11 DEF k
      <3> QED
        BY <1>1, <3>1
    <2>2. CASE j \in 1 .. u
      BY <1>10, <1>11, <2>1, <2>2 DEF Filled
    <2>3. CASE j = k
      BY <1>7, <1>8, <1>10, <2>1, <2>3
    <2> QED
      BY <1>1, <2>2, <2>3
  <1>12. ASSUME NEW id \in Ids(tt) PROVE \E i \in 1 .. k : t2[i].id = id
    <2>1. 1 .. u \subseteq 1 .. k /\ k \in 1 .. k
      BY <1>1 DEF k
    <2>2. CASE id \in Ids(ss)
      <3>1. PICK i \in 1 .. u : t[i].id = id
        BY <1>1, <2>2 DEF Filled
      <3> QED
        BY <1>7, <2>1, <3>1
    <2>3. CASE id = MetricOf(s)
      BY <1>7, <2>1, <2>3
    <2> QED
      BY <1>12, <2>2, <2>3, IdsGrow
  <1>13. \A i \in Slots : i > k => t2[i].id = FreeId
    BY <1>1, <1>6 DEF Filled
  <1> HIDE DEF tt
  <1>14. Filled(t2, k, tt)
    BY <1>1, <1>9, <1>11, <1>12, <1>13 DEF Filled
  <1> QED
    BY <1>14 DEF t2, tt, k

(* As many ids as places, when no two places have the same.                *)
FirstOf(f, k) == {f[i] : i \in 1 .. k}
Distinct(f, k) == \A i, j \in 1 .. k : f[i] = f[j] => i = j
LEMMA CountOf ==
  ASSUME NEW k \in Nat, NEW X, NEW f \in [1 .. k -> X], Distinct(f, k)
  PROVE  IsFiniteSet(FirstOf(f, k)) /\ Cardinality(FirstOf(f, k)) = k
  <1> DEFINE T == FirstOf(f, k)
  <1>1. f \in Surjection(1 .. k, T) /\ f \in Injection(1 .. k, T)
    BY DEF Surjection, Injection, IsInjective, FirstOf, Distinct
  <1>2. IsFiniteSet(1 .. k) /\ Cardinality(1 .. k) = k
    BY FS_Interval
  <1> HIDE DEF T
  <1>3. IsFiniteSet(T) /\ Cardinality(T) = k
    BY <1>1, <1>2, FS_Surjection
  <1> QED
    BY <1>3 DEF T

(* A window has finitely many metrics.                                     *)
LEMMA IdsFinite ==
  ASSUME NEW ss \in Seq(Sample)
  PROVE  IsFiniteSet(Ids(ss))
  <1> DEFINE n == Len(ss)
             f == [i \in 1 .. n |-> MetricOf(ss[i])]
             T == {MetricOf(ss[i]) : i \in DOMAIN ss}
  <1>1. n \in Nat /\ DOMAIN ss = 1 .. n
    BY LenProperties
  <1> HIDE DEF n
  <1>2. f \in Surjection(1 .. n, T)
    BY <1>1 DEF Surjection
  <1>3. IsFiniteSet(1 .. n)
    BY <1>1, FS_Interval
  <1> HIDE DEF f, T
  <1>4. IsFiniteSet(T)
    BY <1>2, <1>3, FS_Surjection
  <1>5. Ids(ss) \in SUBSET T
    BY DEF Ids, T
  <1> QED
    BY <1>4, <1>5, FS_Subset

(* The metrics in the slots are those that have a place by the order in    *)
(* which they appeared.                                                    *)
LEMMA KeptAre ==
  ASSUME NEW ss \in Seq(Sample), NEW t, NEW u, Filled(t, u, ss)
  PROVE  Kept(ss) = {t[i].id : i \in 1 .. u}
  <1> DEFINE Before(id) == {o \in Ids(ss) : Appears(o, ss) < Appears(id, ss)}
             At(k) == {t[i].id : i \in 1 .. k}
  <1>1. u \in Nat /\ MaxMetrics \in Nat /\ u <= MaxMetrics
    BY TelemetryAssumption DEF TelemetryAssumption, Filled
  <1>2. /\ \A i, j \in 1 .. u : i < j => Appears(t[i].id, ss) < Appears(t[j].id, ss)
        /\ \A id \in Ids(ss) : \/ \E i \in 1 .. u : t[i].id = id
                              \/ /\ u = MaxMetrics
                                 /\ \A i \in 1 .. u : Appears(t[i].id, ss) < Appears(id, ss)
        /\ \A i \in 1 .. u : t[i].id \in Ids(ss)
    BY IdsAre DEF Filled, Tallied
  <1>3. \A o \in Ids(ss) : Appears(o, ss) \in Int
    <2> TAKE o \in Ids(ss)
    <2> DEFINE S == Own(o, ss)
    <2>1. S \in SUBSET Nat /\ S # {}
      BY IdsAre, LenProperties DEF Own
    <2>2. PICK m \in S : \A f \in S : m <= f
      BY <2>1, LeastOf
    <2> HIDE DEF S
    <2>3. Earliest(S) = m
      BY <2>1, <2>2, EarliestIs
    <2> QED
      BY <2>1, <2>2, <2>3 DEF Appears, S
  <1>4. Kept(ss) = {id \in Ids(ss) : Cardinality(Before(id)) < MaxMetrics}
    BY DEF Kept, Ids
  <1>5. ASSUME NEW k \in 0 .. u PROVE IsFiniteSet(At(k)) /\ Cardinality(At(k)) = k
    <2> DEFINE f == [i \in 1 .. k |-> t[i].id]
    <2>1. k \in Nat /\ 1 .. k \subseteq 1 .. u
      BY <1>1
    <2>2. ASSUME NEW i \in 1 .. k, NEW j \in 1 .. k, f[i] = f[j] PROVE i = j
      <3>1. t[i].id = t[j].id /\ Appears(t[i].id, ss) \in Int /\ i \in Int /\ j \in Int
        BY <1>2, <1>3, <2>1, <2>2
      <3>2. ~(i < j) /\ ~(j < i)
        BY <1>2, <2>1, <3>1
      <3> QED
        BY <3>1, <3>2
    <2>3. f \in [1 .. k -> At(k)] /\ At(k) = FirstOf(f, k)
      BY DEF FirstOf
    <2> HIDE DEF f, At
    <2>4. Distinct(f, k)
      BY <2>2 DEF Distinct
    <2> QED
      BY <2>1, <2>3, <2>4, CountOf
  <1>6. \A id : IsFiniteSet(Before(id))
    BY IdsFinite, FS_Subset
  <1>7. ASSUME NEW i \in 1 .. u PROVE t[i].id \in Kept(ss)
    <2>1. ASSUME NEW o \in Before(t[i].id) PROVE o \in At(i - 1)
      <3>1. o \in Ids(ss) /\ Appears(o, ss) < Appears(t[i].id, ss)
        BY <2>1
      <3>2. Appears(o, ss) \in Int /\ Appears(t[i].id, ss) \in Int
        BY <1>2, <1>3, <3>1
      <3>3. PICK j \in 1 .. u : t[j].id = o
        BY <1>2, <3>1, <3>2
      <3>4. j \in Int /\ i \in Int /\ j # i /\ ~(i < j)
        BY <1>2, <3>1, <3>2, <3>3
      <3>5. j \in 1 .. i - 1
        BY <3>3, <3>4
      <3> QED
        BY <3>3, <3>5
    <2>2. i - 1 \in 0 .. u /\ i - 1 < MaxMetrics /\ i \in Int
      BY <1>1
    <2>3. IsFiniteSet(At(i - 1)) /\ Cardinality(At(i - 1)) = i - 1
      BY <1>5, <2>2
    <2>4. Before(t[i].id) \in SUBSET At(i - 1)
      BY <2>1
    <2> HIDE DEF Before, At
    <2>5. Cardinality(Before(t[i].id)) <= i - 1 /\ Cardinality(Before(t[i].id)) \in Nat
      BY <1>6, <2>3, <2>4, FS_Subset, FS_CardinalityType
    <2> QED
      BY <1>1, <1>2, <1>4, <2>2, <2>5
  <1>8. ASSUME NEW id \in Kept(ss), id \notin At(u) PROVE FALSE
    <2>1. u = MaxMetrics /\ \A i \in 1 .. u : Appears(t[i].id, ss) < Appears(id, ss)
      BY <1>2, <1>4, <1>8
    <2>2. At(u) \in SUBSET Before(id)
      BY <1>2, <2>1
    <2>3. u \in 0 .. u
      BY <1>1
    <2>4. Cardinality(At(u)) = u
      BY <1>5, <2>3
    <2>5. Cardinality(Before(id)) < MaxMetrics
      BY <1>4
    <2> HIDE DEF Before, At
    <2>6. Cardinality(At(u)) <= Cardinality(Before(id)) /\ Cardinality(Before(id)) \in Nat
      BY <1>6, <2>2, FS_Subset, FS_CardinalityType
    <2> QED
      BY <1>1, <2>1, <2>4, <2>5, <2>6
  <1> QED
    BY <1>7, <1>8

(* The batches of u entries, P to a batch: the batch before the last ends  *)
(* before the last entry, and every entry has a batch.                     *)
LEMMA Ceiling ==
  ASSUME NEW P \in Nat \ {0}, NEW u \in Nat
  PROVE  LET q == (u + P - 1) \div P IN
         /\ q \in Nat
         /\ \A b \in 1 .. q : (b - 1) * P < u /\ (b - 1) * P \in Nat /\ b * P = (b - 1) * P + P
         /\ \A b \in 1 .. q : b < q => b * P < u
         /\ \A k \in 1 .. u : \E b \in 1 .. q, p \in 1 .. P : k = (b - 1) * P + p
  <1> DEFINE q == (u + P - 1) \div P
             r == (u + P - 1) % P
  <1>1. u + P - 1 = P * q + r /\ r \in 0 .. P - 1 /\ q \in Int
    OBVIOUS
  <1>2. q \in Nat
    <2> HIDE DEF q, r
    <2>1. q < 0 => P * q <= -P
      <3>1. \A k \in Int : k <= -1 => P * k <= -P
        OBVIOUS
      <3> QED
        BY <1>1, <3>1
    <2> QED
      BY <1>1, <2>1
  <1> HIDE DEF q, r
  <1>3. \A a, b \in Int : a <= b => P * a <= P * b
    OBVIOUS
  <1>4. \A b \in Int : b * P = P * b /\ (b - 1) * P = P * b - P /\ P * b \in Int
    OBVIOUS
  <1>5. ASSUME NEW b \in 1 .. q
        PROVE  (b - 1) * P < u /\ (b - 1) * P \in Nat /\ b * P = (b - 1) * P + P
    <2>1. P * b <= P * q /\ P * 1 <= P * b /\ b \in Int
      BY <1>1, <1>3
    <2> QED
      BY <1>1, <1>4, <2>1
  <1>6. ASSUME NEW b \in 1 .. q, b < q PROVE b * P < u
    <2>1. b + 1 \in 1 .. q /\ b \in Int /\ (b + 1) - 1 = b
      BY <1>2, <1>6
    <2> QED
      BY <1>5, <2>1
  <1>7. ASSUME NEW k \in 1 .. u PROVE \E b \in 1 .. q, p \in 1 .. P : k = (b - 1) * P + p
    <2> DEFINE d == (k - 1) \div P
               e == (k - 1) % P
    <2>1. k - 1 = P * d + e /\ e \in 0 .. P - 1 /\ d \in Int
      OBVIOUS
    <2> HIDE DEF d, e
    <2>2. d >= 0
      <3>1. \A j \in Int : j <= -1 => P * j <= -P
        OBVIOUS
      <3> QED
        BY <2>1, <3>1
    <2>3. d + 1 <= q
      <3>1. q <= d => P * q <= P * d
        BY <1>1, <1>3, <2>1
      <3> QED
        BY <1>1, <1>4, <2>1, <3>1
    <2>4. d + 1 \in 1 .. q /\ e + 1 \in 1 .. P /\ k = ((d + 1) - 1) * P + (e + 1)
      BY <1>1, <1>4, <2>1, <2>2, <2>3
    <2> QED
      BY <2>4
  <1> QED
    BY <1>2, <1>5, <1>6, <1>7 DEF q

(* publish_batch(): the batches are the entries of the slots in use, cut   *)
(* after each PerBatch of them.                                            *)
Cut(r, u, t) ==
    LET q == (u + PerBatch - 1) \div PerBatch IN
    /\ DOMAIN r = 1 .. q /\ Len(r) = q
    /\ \A b \in 1 .. q : /\ Len(r[b]) = Lesser(b * PerBatch, u) - (b - 1) * PerBatch
                        /\ \A p \in 1 .. Len(r[b]) : r[b][p] = Entry(t[(b - 1) * PerBatch + p])
LEMMA BatchesAre ==
  ASSUME NEW ss \in Seq(Sample), NEW t \in [Slots -> Slot], NEW u, Filled(t, u, ss)
  PROVE  Cut(Batches(t), u, t)
  <1> DEFINE q == (u + PerBatch - 1) \div PerBatch
             entries == [k \in 1 .. u |-> Entry(t[k])]
             X == {Entry(t[k]) : k \in 1 .. u}
             first(b) == (b - 1) * PerBatch + 1
             end(b) == Lesser(b * PerBatch, u)
             r == [b \in 1 .. q |-> SubSeq(entries, first(b), end(b))]
  <1>1. u \in Nat /\ PerBatch \in Nat \ {0} /\ 1 .. u \subseteq Slots
    <2>1. u \in 0 .. MaxMetrics /\ MaxMetrics \in Nat /\ PerBatch \in Nat \ {0}
      BY TelemetryAssumption DEF TelemetryAssumption, Filled
    <2> QED
      BY <2>1 DEF Slots
  <1>2. /\ q \in Nat
        /\ \A b \in 1 .. q : (b - 1) * PerBatch < u /\ (b - 1) * PerBatch \in Nat
                           /\ b * PerBatch = (b - 1) * PerBatch + PerBatch
    BY <1>1, Ceiling
  <1>3. {i \in DOMAIN t : Active(t[i])} = 1 .. u
    <2>1. ASSUME NEW i \in 1 .. u PROVE Active(t[i])
      <3>1. Own(t[i].id, ss) # {} /\ Own(t[i].id, ss) \in SUBSET (1 .. Len(ss)) /\ Len(ss) \in Nat
        BY LenProperties DEF Filled, Tallied, Own
      <3>2. IsFiniteSet(Own(t[i].id, ss))
        <4>1. IsFiniteSet(1 .. Len(ss))
          BY <3>1, FS_Interval
        <4> QED
          BY <3>1, <4>1, FS_Subset
      <3>3. Cardinality(Own(t[i].id, ss)) \in Nat /\ Cardinality(Own(t[i].id, ss)) # 0
        BY <3>1, <3>2, FS_EmptySet, FS_CardinalityType
      <3> QED
        BY <3>3 DEF Active, Filled, Tallied, Counts
    <2>2. ASSUME NEW i \in Slots, i \notin 1 .. u PROVE ~Active(t[i])
      <3>1. i > u
        BY <1>1, <2>2 DEF Slots
      <3> QED
        BY <3>1 DEF Filled, Active
    <2> QED
      BY <1>1, <2>1, <2>2
  <1>4. Cardinality(1 .. u) = u
    BY <1>1, FS_Interval
  <1>5. ASSUME NEW k \in 1 .. u PROVE Nth(1 .. u, k) = k
    <2>1. \A i \in 1 .. u : Cardinality({j \in 1 .. u : j <= i}) = i
      <3> TAKE i \in 1 .. u
      <3>1. {j \in 1 .. u : j <= i} = 1 .. i /\ i \in Nat
        BY <1>1
      <3>2. Cardinality(1 .. i) = i
        BY <3>1, FS_Interval
      <3> QED
        BY <3>1, <3>2, Zenon
    <2> QED
      BY <2>1 DEF Nth
  <1>6. Batches(t) = r
    BY <1>3, <1>4, <1>5 DEF Batches
  <1>7. ASSUME NEW b \in 1 .. q
        PROVE  /\ SubSeq(entries, first(b), end(b)) \in Seq(X)
               /\ Len(SubSeq(entries, first(b), end(b))) = end(b) - (b - 1) * PerBatch
               /\ \A p \in 1 .. end(b) - (b - 1) * PerBatch :
                     SubSeq(entries, first(b), end(b))[p] = Entry(t[(b - 1) * PerBatch + p])
    <2>1. /\ first(b) \in Int /\ end(b) \in Int /\ first(b) >= 1 /\ first(b) <= end(b) /\ end(b) <= u
          /\ first(b) = (b - 1) * PerBatch + 1 /\ (b - 1) * PerBatch \in Int
      BY <1>1, <1>2 DEF Lesser
    <2>2. \A k \in 1 .. u : entries[k] = Entry(t[k]) /\ entries[k] \in X
      OBVIOUS
    <2> HIDE DEF entries, X, first, end
    <2>3. \A k \in first(b) .. end(b) : entries[k] \in X
      BY <1>1, <2>1, <2>2
    <2>4. /\ SubSeq(entries, first(b), end(b)) \in Seq(X)
          /\ Len(SubSeq(entries, first(b), end(b))) = IF first(b) <= end(b) THEN end(b) - first(b) + 1 ELSE 0
          /\ \A p \in 1 .. end(b) - first(b) + 1 : SubSeq(entries, first(b), end(b))[p] = entries[first(b) + p - 1]
      BY <2>1, <2>3, SubSeqProperties
    <2>5. ASSUME NEW p \in 1 .. end(b) - (b - 1) * PerBatch
          PROVE  SubSeq(entries, first(b), end(b))[p] = Entry(t[(b - 1) * PerBatch + p])
      <3>1. /\ p \in 1 .. end(b) - first(b) + 1 /\ first(b) + p - 1 = (b - 1) * PerBatch + p
            /\ (b - 1) * PerBatch + p \in 1 .. u
        BY <1>1, <2>1
      <3> QED
        BY <2>2, <2>4, <3>1
    <2> QED
      BY <2>1, <2>4, <2>5
  <1> HIDE DEF X, entries, first
  <1>8. r \in [1 .. q -> Seq(X)]
    BY <1>7
  <1>9. DOMAIN r = 1 .. q /\ Len(r) = q
    <2> HIDE DEF r, q
    <2>1. r \in Seq(Seq(X))
      BY <1>2, <1>8, SeqDef
    <2>2. Len(r) \in Nat /\ DOMAIN r = 1 .. Len(r) /\ DOMAIN r = 1 .. q
      BY <1>8, <2>1, LenProperties
    <2>3. \A k \in Nat : Cardinality(1 .. k) = k
      BY FS_Interval
    <2>4. Cardinality(1 .. Len(r)) = Len(r) /\ Cardinality(1 .. q) = q
      BY <1>2, <2>2, <2>3, Zenon
    <2> QED
      BY <2>2, <2>4
  <1>10. ASSUME NEW b \in 1 .. q
         PROVE  /\ Len(r[b]) = end(b) - (b - 1) * PerBatch
                /\ \A p \in 1 .. Len(r[b]) : r[b][p] = Entry(t[(b - 1) * PerBatch + p])
    <2>1. r[b] = SubSeq(entries, first(b), end(b))
      OBVIOUS
    <2> HIDE DEF r, end
    <2> QED
      BY <1>7, <2>1
  <1> HIDE DEF r
  <1>11. Cut(r, u, t)
    BY <1>9, <1>10 DEF Cut
  <1> QED
    BY <1>6, <1>11

(* ReportIsAggregate of a report and the window it closes.                 *)
Aggregates(r, ss) ==
    LET entries == {p \in (DOMAIN r) \X (1 .. PerBatch) : p[2] <= Len(r[p[1]])}
        at(p) == r[p[1]][p[2]] IN
    /\ {at(p) : p \in entries} = {Reference(id, ss) : id \in Kept(ss)}
    /\ \A p, q \in entries : at(p).id = at(q).id => p = q
    /\ \A b \in DOMAIN r : /\ Len(r[b]) \in 1 .. PerBatch
                           /\ b < Len(r) => Len(r[b]) = PerBatch

(* on_timer(): the report of a table that holds the window's aggregates.   *)
LEMMA ReportOf ==
  ASSUME NEW ss \in Seq(Sample), NEW t \in [Slots -> Slot], NEW u, Filled(t, u, ss)
  PROVE  Aggregates(Batches(t), ss)
  <1> DEFINE q == (u + PerBatch - 1) \div PerBatch
             r == Batches(t)
             E == {p \in (DOMAIN r) \X (1 .. PerBatch) : p[2] <= Len(r[p[1]])}
             at(p) == r[p[1]][p[2]]
             place(p) == (p[1] - 1) * PerBatch + p[2]
  <1>1. u \in Nat /\ PerBatch \in Nat \ {0}
    BY TelemetryAssumption DEF TelemetryAssumption, Filled
  <1>2. /\ q \in Nat
        /\ \A b \in 1 .. q : (b - 1) * PerBatch < u /\ (b - 1) * PerBatch \in Nat
                           /\ b * PerBatch = (b - 1) * PerBatch + PerBatch
        /\ \A b \in 1 .. q : b < q => b * PerBatch < u
        /\ \A k \in 1 .. u : \E b \in 1 .. q, p \in 1 .. PerBatch : k = (b - 1) * PerBatch + p
    BY <1>1, Ceiling
  <1>3. /\ DOMAIN r = 1 .. q /\ Len(r) = q
        /\ \A b \in 1 .. q : /\ Len(r[b]) = Lesser(b * PerBatch, u) - (b - 1) * PerBatch
                            /\ \A p \in 1 .. Len(r[b]) : r[b][p] = Entry(t[(b - 1) * PerBatch + p])
    BY BatchesAre DEF Cut
  <1> HIDE DEF q, r
  <1>4. ASSUME NEW b \in 1 .. q
        PROVE  Len(r[b]) \in 1 .. PerBatch /\ (b < q => Len(r[b]) = PerBatch)
    <2> DEFINE x == (b - 1) * PerBatch
               y == b * PerBatch
    <2>1. x < u /\ x \in Nat /\ y = x + PerBatch /\ (b < q => y < u) /\ Len(r[b]) = Lesser(y, u) - x
      BY <1>2, <1>3
    <2> HIDE DEF x, y
    <2> QED
      BY <1>1, <2>1 DEF Lesser
  <1>5. ASSUME NEW b \in 1 .. q, NEW p \in 1 .. PerBatch
        PROVE  p <= Len(r[b]) <=> (b - 1) * PerBatch + p \in 1 .. u
    <2> DEFINE x == (b - 1) * PerBatch
               y == b * PerBatch
    <2>1. x < u /\ x \in Nat /\ y = x + PerBatch /\ Len(r[b]) = Lesser(y, u) - x
      BY <1>2, <1>3
    <2> HIDE DEF x, y
    <2>2. p <= Len(r[b]) <=> x + p \in 1 .. u
      BY <1>1, <2>1 DEF Lesser
    <2> QED
      BY <2>2 DEF x
  <1>6. \A k \in 1 .. u : Entry(t[k]) = Reference(t[k].id, ss) /\ Entry(t[k]).id = t[k].id
    BY EntryIs DEF Filled
  <1>7. ASSUME NEW p \in E
        PROVE  /\ p[1] \in 1 .. q /\ p[2] \in 1 .. PerBatch /\ p = <<p[1], p[2]>>
               /\ place(p) \in 1 .. u
               /\ at(p) = Reference(t[place(p)].id, ss) /\ at(p).id = t[place(p)].id
    <2>1. p[1] \in 1 .. q /\ p[2] \in 1 .. PerBatch /\ p = <<p[1], p[2]>> /\ p[2] <= Len(r[p[1]])
      BY <1>3
    <2>2. p[2] \in 1 .. Len(r[p[1]]) /\ place(p) \in 1 .. u
      BY <1>4, <1>5, <2>1
    <2>3. at(p) = Entry(t[place(p)])
      BY <1>3, <2>1, <2>2
    <2> QED
      BY <1>6, <2>1, <2>2, <2>3
  <1>8. ASSUME NEW k \in 1 .. u PROVE \E p \in E : place(p) = k
    <2>1. PICK b \in 1 .. q, p \in 1 .. PerBatch : k = (b - 1) * PerBatch + p
      BY <1>2
    <2>2. p <= Len(r[b])
      BY <1>5, <2>1
    <2>3. <<b, p>> \in E /\ place(<<b, p>>) = k
      BY <1>3, <2>1, <2>2
    <2> QED
      BY <2>3
  <1>9. {at(p) : p \in E} = {Reference(id, ss) : id \in Kept(ss)}
    <2>1. Kept(ss) = {t[i].id : i \in 1 .. u}
      BY KeptAre
    <2> HIDE DEF E, at, place
    <2> QED
      BY <1>7, <1>8, <2>1
  <1>10. ASSUME NEW p \in E, NEW p2 \in E, at(p).id = at(p2).id PROVE p = p2
    <2>1. place(p) = place(p2)
      <3> HIDE DEF E, at, place
      <3>1. t[place(p)].id = t[place(p2)].id /\ place(p) \in 1 .. u /\ place(p2) \in 1 .. u
        BY <1>7, <1>10
      <3> QED
        BY <3>1, SlotsDiffer
    <2>2. /\ p[1] \in Int /\ p[2] \in 1 .. PerBatch /\ p2[1] \in Int /\ p2[2] \in 1 .. PerBatch
          /\ p = <<p[1], p[2]>> /\ p2 = <<p2[1], p2[2]>>
      BY <1>7
    <2>3. p[1] = p2[1] /\ p[2] = p2[2]
      <3> DEFINE a == p[1]
                 b == p2[1]
                 P == PerBatch
      <3>1. (a - 1) * P + p[2] = (b - 1) * P + p2[2] /\ a \in Int /\ b \in Int
        BY <2>1, <2>2
      <3> HIDE DEF a, b
      <3>2. (\A k \in Int : k >= 1 => k * P >= P) /\ (\A k \in Int : k <= -1 => k * P <= -P)
        BY <1>1
      <3>3. (a - 1) * P - (b - 1) * P = (a - b) * P /\ a - b \in Int
        BY <1>1, <3>1
      <3>4. ~(a - b >= 1) /\ ~(a - b <= -1)
        <4> DEFINE x == (a - 1) * P
                   y == (b - 1) * P
                   z == (a - b) * P
        <4>1. x \in Int /\ y \in Int /\ z \in Int
          BY <1>1, <3>1, <3>3
        <4>2. x - y = z /\ x + p[2] = y + p2[2]
          BY <3>1, <3>3
        <4>3. (a - b >= 1 => z >= P) /\ (a - b <= -1 => z <= -P)
          BY <3>2, <3>3
        <4> HIDE DEF x, y, z
        <4> QED
          BY <1>1, <2>2, <4>1, <4>2, <4>3
      <3> HIDE DEF a, b, P
      <3>5. a = b
        BY <3>1, <3>4
      <3> QED
        BY <1>1, <2>2, <3>1, <3>5 DEF a, b, P
    <2> QED
      BY <2>2, <2>3
  <1>11. Aggregates(r, ss)
    BY <1>3, <1>4, <1>9, <1>10 DEF Aggregates
  <1> QED
    BY <1>11 DEF r

TelTypes ==
    /\ inbox \in Seq(Sample \cup {TICK}) /\ handled \in Seq(Sample)
    /\ table \in [Slots -> Slot]

(* What makes the report right when the window closes: at any time the     *)
(* slots hold the aggregates of what has been handled.                     *)
TelInv == TelTypes /\ \E u \in 0 .. MaxMetrics : Filled(table, u, handled)

LEMMA TelReset ==
  ResetTable \in [Slots -> Slot] /\ Filled(ResetTable, 0, <<>>) /\ 0 \in 0 .. MaxMetrics /\ <<>> \in Seq(Sample)
  <1>1. ResetTable \in [Slots -> Slot] /\ \A i \in Slots : ResetTable[i].id = FreeId
    BY TelemetryAssumption DEF TelemetryAssumption, ResetTable, Slots, Slot, Fresh, Inf
  <1>2. Ids(<<>>) = {}
    BY DEF Ids
  <1>3. 0 \in 0 .. MaxMetrics /\ 1 .. 0 = {}
    BY TelemetryAssumption DEF TelemetryAssumption
  <1> QED
    BY <1>1, <1>2, <1>3 DEF Filled

(* No report of no window.                                                 *)
LEMMA NoneReported == Aggregates(<<>>, <<>>)
  <1> DEFINE E == {p \in (DOMAIN <<>>) \X (1 .. PerBatch) : p[2] <= Len(<<>>[p[1]])}
  <1>1. E = {} /\ DOMAIN <<>> = {}
    OBVIOUS
  <1>2. Kept(<<>>) = {}
    BY DEF Kept
  <1> QED
    BY <1>1, <1>2 DEF Aggregates

(* find_or_alloc(): the slot it finds has the id, or is the first free one *)
(* when none has it; it finds none in a full table.                        *)
LEMMA PlacesAre ==
  ASSUME table \in [Slots -> Slot], NEW id
  PROVE  /\ Places(id) = {} => \A i \in Slots : table[i].id # id /\ table[i].id # FreeId
         /\ \A i \in Places(id) :
               /\ i \in Slots
               /\ table[i].id # id =>
                     /\ table[i].id = FreeId
                     /\ \A j \in Slots : table[j].id # id /\ (table[j].id = FreeId => i <= j)
  <1> DEFINE known == {i \in DOMAIN table : table[i].id = id}
             free == {i \in DOMAIN table : table[i].id = FreeId}
             first(S) == {i \in S : \A j \in S : i <= j}
  <1>1. Places(id) = IF known # {} THEN first(known) ELSE first(free)
    BY DEF Places
  <1>2. known \in SUBSET Nat /\ free \in SUBSET Nat
    BY DEF Slots
  <1> HIDE DEF known, free
  <1>3. \A S \in SUBSET Nat : S # {} => first(S) # {}
    BY LeastOf
  <1>4. Places(id) = {} => known = {} /\ free = {}
    BY <1>1, <1>2, <1>3
  <1> QED
    BY <1>1, <1>4 DEF known, free

LEMMA AggregateTyped ==
  ASSUME NEW slot \in Slot, NEW s \in Sample
  PROVE  Aggregate(slot, s) \in Slot /\ Aggregate(slot, s).id = MetricOf(s)
  <1>1. Claimed(slot, s) \in Slot /\ Claimed(slot, s).id = MetricOf(s)
    BY SampleTyped DEF Claimed, Fresh, Slot, Inf
  <1> QED
    BY <1>1, AggregateIs DEF Adds

(* on_gauge(), on_counter(), on_histogram().                               *)
LEMMA OnSampleStep ==
  ASSUME TelInv, OnSample
  PROVE  TelInv'
  <1> DEFINE s == Head(inbox)
             id == MetricOf(s)
  <1>1. s \in Sample /\ inbox' \in Seq(Sample \cup {TICK})
    <2>1. s \in Sample \cup {TICK} /\ Tail(inbox) \in Seq(Sample \cup {TICK})
      BY HeadTailProperties DEF OnSample, TelInv, TelTypes
    <2> QED
      BY <2>1 DEF OnSample, IsSample, TICK
  <1>2. handled' = Append(handled, s) /\ handled \in Seq(Sample) /\ handled' \in Seq(Sample)
    BY <1>1, AppendProperties DEF OnSample, TelInv, TelTypes
  <1>3. table \in [Slots -> Slot]
    BY DEF TelInv, TelTypes
  <1>4. PICK u \in 0 .. MaxMetrics : Filled(table, u, handled)
    BY DEF TelInv
  <1>5. /\ u \in Nat /\ MaxMetrics \in Nat /\ u <= MaxMetrics /\ 1 .. u \subseteq Slots
        /\ \A i \in 1 .. u : table[i].id # FreeId
        /\ \A i \in Slots : i > u => table[i].id = FreeId
        /\ \A i \in Slots : i \in Int /\ (i > u \/ i \in 1 .. u)
        /\ \A i \in 1 .. u : ~(i > u)
    BY <1>4, TelemetryAssumption DEF TelemetryAssumption, Filled, Slots
  <1> HIDE DEF s
  <1>6. CASE Places(id) = {}
    <2>1. table' = table /\ \A i \in Slots : table[i].id # id /\ table[i].id # FreeId
      BY <1>3, <1>6, PlacesAre DEF OnSample, s
    <2>2. u = MaxMetrics
      <3>1. u < MaxMetrics => u + 1 \in Slots /\ u + 1 > u
        BY <1>5 DEF Slots
      <3> QED
        BY <1>5, <2>1, <3>1
    <2>3. Filled(table, u, handled')
      BY <1>1, <1>2, <1>4, <1>5, <2>1, <2>2, FilledIgnored
    <2> QED
      BY <1>1, <1>2, <1>3, <2>1, <2>3 DEF TelInv, TelTypes
  <1>7. CASE Places(id) # {}
    <2>1. PICK i \in Places(id) : table' = [table EXCEPT ![i] = Aggregate(@, s)]
      BY <1>7 DEF OnSample, s
    <2>2. /\ i \in Slots
          /\ table[i].id # id =>
               /\ table[i].id = FreeId
               /\ \A j \in Slots : table[j].id # id /\ (table[j].id = FreeId => i <= j)
      BY <1>3, PlacesAre
    <2>3. Aggregate(table[i], s) \in Slot /\ Aggregate(table[i], s).id = id
      BY <1>1, <1>3, <2>2, AggregateTyped
    <2>4. /\ table' \in [Slots -> Slot]
          /\ \A j \in Slots : table'[j] = IF j = i THEN Aggregate(table[i], s) ELSE table[j]
      BY <1>3, <2>1, <2>2, <2>3
    <2>5. \E v \in 0 .. MaxMetrics : Filled(table', v, handled')
      <3>1. CASE id = FreeId
        <4>1. i > u /\ i \notin 1 .. u
          BY <1>5, <2>2, <3>1
        <4>2. \A j \in 1 .. u : table'[j] = table[j] /\ table[j].id # id
          BY <1>5, <2>4, <3>1, <4>1
        <4>3. \A j \in Slots : j > u => table'[j].id = FreeId
          BY <1>5, <2>3, <2>4, <3>1
        <4> QED
          BY <1>1, <1>2, <1>4, <3>1, <4>2, <4>3, FilledIgnored
      <3>2. CASE id # FreeId /\ table[i].id = id
        <4>1. i \in 1 .. u
          BY <1>5, <2>2, <3>2
        <4> QED
          BY <1>1, <1>2, <1>3, <1>4, <2>1, <3>2, <4>1, FilledKnown
      <3>3. CASE id # FreeId /\ table[i].id # id
        <4>1. i > u
          BY <1>5, <2>2, <3>3
        <4>2. i = u + 1 /\ u < MaxMetrics /\ u + 1 \in 0 .. MaxMetrics
          <5>1. u + 1 \in Slots /\ u + 1 > u /\ u < MaxMetrics
            BY <1>5, <2>2, <4>1 DEF Slots
          <5>2. i <= u + 1
            BY <1>5, <2>2, <3>3, <5>1
          <5> QED
            BY <1>5, <2>2, <4>1, <5>1, <5>2
        <4>3. \A j \in 1 .. u : table[j].id # MetricOf(s)
          BY <1>5, <2>2, <3>3
        <4>4. Filled([table EXCEPT ![u + 1] = Aggregate(table[u + 1], s)], u + 1, Append(handled, s))
          BY <1>1, <1>2, <1>3, <1>4, <3>3, <4>2, <4>3, FilledNew
        <4> QED
          BY <1>2, <2>1, <4>2, <4>4
      <3> QED
        BY <3>1, <3>2, <3>3
    <2> QED
      BY <1>1, <1>2, <2>4, <2>5 DEF TelInv, TelTypes
  <1> QED
    BY <1>6, <1>7

(* The queue takes a message, dropping its oldest when it is full.         *)
LEMMA Enqueued ==
  ASSUME NEW X, NEW q \in Seq(X), NEW m \in X
  PROVE  Enqueue(q, m) \in Seq(X)
  <1>1. Len(q) = Depth => q # <<>>
    BY TelemetryAssumption DEF TelemetryAssumption
  <1>2. (IF Len(q) = Depth THEN Tail(q) ELSE q) \in Seq(X)
    BY <1>1, HeadTailProperties
  <1> QED
    BY <1>2, AppendProperties DEF Enqueue

LEMMA TelStep ==
  ASSUME TelInv, [Next]_vars
  PROVE  TelInv'
  <1>1. ASSUME Timed(TimerNext) PROVE TelInv'
    <2>1. inbox' \in Seq(Sample \cup {TICK})
      BY <1>1, Enqueued DEF Timed, TelInv, TelTypes
    <2> QED
      BY <1>1, <2>1 DEF Timed, TelInv, TelTypes
  <1>2. ASSUME Publish PROVE TelInv'
    <2>1. inbox' \in Seq(Sample \cup {TICK})
      BY <1>2, Enqueued DEF Publish, TelInv, TelTypes
    <2> QED
      BY <1>2, <2>1 DEF Publish, TelInv, TelTypes
  <1>3. ASSUME OnTimer PROVE TelInv'
    <2>1. inbox' \in Seq(Sample \cup {TICK})
      BY <1>3, HeadTailProperties DEF OnTimer, TelInv, TelTypes
    <2>2. CASE WindowOver
      <3>1. table' = ResetTable /\ handled' = <<>>
        BY <1>3, <2>2 DEF OnTimer, NextTable
      <3> QED
        BY <2>1, <3>1, TelReset DEF TelInv, TelTypes
    <2>3. CASE ~WindowOver
      BY <1>3, <2>1, <2>3 DEF OnTimer, TelInv, TelTypes
    <2> QED
      BY <2>2, <2>3
  <1>4. ASSUME UNCHANGED vars PROVE TelInv'
    BY <1>4 DEF vars, telVars, TelInv, TelTypes
  <1> QED
    BY <1>1, <1>2, <1>3, <1>4, OnSampleStep DEF Next, Dispatch

LEMMA ReportStep ==
  ASSUME TelInv, ReportIsAggregate, [Next]_vars
  PROVE  ReportIsAggregate'
  <1>1. (report' = <<>> /\ reported' = <<>>) => ReportIsAggregate'
    <2> SUFFICES ASSUME report' = <<>>, reported' = <<>> PROVE ReportIsAggregate'
      OBVIOUS
    <2>1. Aggregates(report', reported')
      BY NoneReported
    <2> QED
      BY <2>1 DEF Aggregates, ReportIsAggregate
  <1>2. CASE Timed(TimerNext) \/ Publish \/ OnSample
    BY <1>1, <1>2 DEF Timed, Publish, OnSample, NoReport
  <1>3. CASE OnTimer
    <2>1. CASE WindowOver
      <3>1. report' = Batches(table) /\ reported' = handled
        BY <1>3, <2>1 DEF OnTimer
      <3>2. Aggregates(Batches(table), handled)
        BY ReportOf DEF TelInv, TelTypes
      <3>3. Aggregates(report', reported')
        BY <3>1, <3>2
      <3> QED
        BY <3>3 DEF Aggregates, ReportIsAggregate
    <2>2. CASE ~WindowOver
      BY <1>1, <1>3, <2>2 DEF OnTimer, NoReport
    <2> QED
      BY <2>1, <2>2
  <1>4. CASE UNCHANGED vars
    <2>1. report' = report /\ reported' = reported
      BY <1>4 DEF vars, telVars
    <2> QED
      BY <2>1 DEF ReportIsAggregate
  <1> QED
    BY <1>2, <1>3, <1>4 DEF Next, Dispatch

(* At the end of a window each metric that had a place has one entry, with *)
(* the count, sum, extremes, last value or total of the samples that were  *)
(* handled in this window, and batches are full but for the last.          *)
THEOREM ReportAggregates == Spec => []ReportIsAggregate
  <1>1. Init => TelInv /\ ReportIsAggregate
    <2> SUFFICES ASSUME Init PROVE TelInv /\ ReportIsAggregate
      OBVIOUS
    <2>1. TelInv
      BY TelReset DEF Init, TelInv, TelTypes
    <2>2. Aggregates(report, reported)
      BY NoneReported DEF Init
    <2> QED
      BY <2>1, <2>2 DEF Aggregates, ReportIsAggregate
  <1>2. TelInv /\ ReportIsAggregate /\ [Next]_vars => (TelInv /\ ReportIsAggregate)'
    BY TelStep, ReportStep
  <1> QED
    BY <1>1, <1>2, PTL DEF Spec

-----------------------------------------------------------------------------
(* The CRC component. A word, read from its top bit down, is a polynomial; *)
(* the rounds of a table entry and the table look-ups of the bytes are     *)
(* steps of the long division that defines the remainder.                  *)

Words(v) == SUBSET (0 .. v.width - 1)
IsVariant(v) ==
    /\ v.width \in Nat /\ v.width >= 8 /\ v.reflected \in BOOLEAN
    /\ v.poly \in Words(v) /\ v.init \in Words(v) /\ v.xorout \in Words(v)

(* The three variants.                                                     *)
LEMMA VariantsAre == \A v \in Variants : IsVariant(v)
  <1>1. IsVariant(CRC8)
    BY DEF IsVariant, Words, CRC8
  <1>2. IsVariant(CRC16)
    BY DEF IsVariant, Words, CRC16
  <1>3. IsVariant(CRC32)
    BY DEF IsVariant, Words, CRC32
  <1> QED
    BY <1>1, <1>2, <1>3, CrcAssumption DEF CrcAssumption

(* What is in a word or a polynomial that is made of others.               *)
LEMMA InXor ==
  ASSUME NEW A, NEW B
  PROVE  \A e : e \in SymDiff(A, B) <=> (e \in A /\ e \notin B) \/ (e \notin A /\ e \in B)
  BY DEF SymDiff

LEMMA InShift ==
  ASSUME NEW S \in SUBSET Int, NEW n \in Int
  PROVE  Shift(S, n) \in SUBSET Int /\ \A e \in Int : e \in Shift(S, n) <=> e - n \in S
  BY DEF Shift

LEMMA InUp ==
  ASSUME NEW v, IsVariant(v), NEW w, NEW n \in Nat
  PROVE  /\ Up(v, w, n) \in Words(v)
         /\ \A e \in Int : e \in Up(v, w, n) <=> n <= e /\ e <= v.width - 1 /\ e - n \in w
  BY DEF Up, IsVariant, Words

LEMMA InDown ==
  ASSUME NEW v, IsVariant(v), NEW w \in Words(v), NEW n \in 0 .. v.width
  PROVE  /\ Down(w, n) \in SUBSET (0 .. v.width - 1 - n)
         /\ \A e \in Int : e \in Down(w, n) <=> e >= 0 /\ e + n \in w
  <1>1. v.width \in Nat /\ n \in Nat /\ \A e \in w : e \in 0 .. v.width - 1
    BY DEF IsVariant, Words
  <1>2. ASSUME NEW e \in Int PROVE e \in Down(w, n) <=> e >= 0 /\ e + n \in w
    <2>1. ASSUME e \in Down(w, n) PROVE e >= 0 /\ e + n \in w
      <3>1. PICK b \in w : b >= n /\ e = b - n
        BY <2>1 DEF Down
      <3> QED
        BY <1>1, <3>1
    <2>2. ASSUME e >= 0, e + n \in w PROVE e \in Down(w, n)
      <3>1. e + n >= n /\ (e + n) - n = e
        BY <1>1, <2>2
      <3> QED
        BY <2>2, <3>1 DEF Down
    <2> QED
      BY <2>1, <2>2
  <1>3. \A e \in Down(w, n) : e \in 0 .. v.width - 1 - n
    <2> SUFFICES ASSUME NEW b \in w, b >= n PROVE b - n \in 0 .. v.width - 1 - n
      BY DEF Down
    <2> QED
      BY <1>1
  <1> QED
    BY <1>2, <1>3

(* Reading a word from its other end twice is reading it.                  *)
LEMMA InPolynomial ==
  ASSUME NEW v, IsVariant(v), NEW n \in Nat, NEW w \in SUBSET (0 .. n - 1)
  PROVE  /\ AsPolynomial(v, w, n) \in SUBSET (0 .. n - 1)
         /\ \A e \in Int : e \in AsPolynomial(v, w, n) <=> IF v.reflected THEN n - 1 - e \in w ELSE e \in w
         /\ AsPolynomial(v, AsPolynomial(v, w, n), n) = w
  <1>1. CASE ~v.reflected
    BY <1>1 DEF AsPolynomial
  <1>2. CASE v.reflected
    <2>1. AsPolynomial(v, w, n) = {n - 1 - b : b \in w}
      BY <1>2 DEF AsPolynomial
    <2>2. \A e \in w : n - 1 - e \in 0 .. n - 1 /\ n - 1 - (n - 1 - e) = e
      OBVIOUS
    <2>3. \A e \in Int : e \in AsPolynomial(v, w, n) <=> n - 1 - e \in w
      <3> TAKE e \in Int
      <3>1. n - 1 - (n - 1 - e) = e
        OBVIOUS
      <3> QED
        BY <2>1, <2>2, <3>1
    <2>4. AsPolynomial(v, w, n) \in SUBSET (0 .. n - 1)
      BY <2>1, <2>2
    <2>5. AsPolynomial(v, AsPolynomial(v, w, n), n) = {n - 1 - b : b \in AsPolynomial(v, w, n)}
      BY <1>2 DEF AsPolynomial
    <2>6. AsPolynomial(v, AsPolynomial(v, w, n), n) = w
      <3>1. ASSUME NEW e \in w PROVE e \in AsPolynomial(v, AsPolynomial(v, w, n), n)
        <4>1. n - 1 - e \in AsPolynomial(v, w, n) /\ e = n - 1 - (n - 1 - e)
          BY <2>1, <2>2
        <4> QED
          BY <2>5, <4>1, Zenon
      <3>2. ASSUME NEW b \in AsPolynomial(v, w, n) PROVE n - 1 - b \in w
        <4>1. PICK e \in w : b = n - 1 - e
          BY <2>1
        <4> QED
          BY <2>2, <4>1
      <3> QED
        BY <2>5, <3>1, <3>2
    <2> QED
      BY <1>2, <2>3, <2>4, <2>6
  <1> QED
    BY <1>1, <1>2

(* Long division, step by step.                                            *)
Divides(f, P, G, w, n) ==
    /\ f \in [Nat -> SUBSET Int] /\ f[0] = P /\ Modulo(P, G, w, n) = f[n]
    /\ \A k \in Nat \ {0} : f[k] = IF w + n - k \in f[k - 1] THEN SymDiff(f[k - 1], Shift(G, n - k)) ELSE f[k - 1]
LEMMA Division ==
  ASSUME NEW P \in SUBSET Int, NEW G \in SUBSET Int, NEW w \in Int, NEW n \in Nat
  PROVE  \E f : Divides(f, P, G, w, n)
  <1> DEFINE X == SUBSET Int
             rest(k, p) == IF w + n - k \in p THEN SymDiff(p, Shift(G, n - k)) ELSE p
             turn == [k \in Nat |-> [p \in X |-> rest(k, p)]]
             Body(f) == [k \in Nat |-> IF k = 0 THEN P ELSE rest(k, f[k - 1])]
             U == CHOOSE f : f = Body(f)
  <1>1. Modulo(P, G, w, n) = U[n]
    BY DEF Modulo
  <1>2. \A k \in Nat, p \in X : rest(k, p) \in X
    <2> TAKE k \in Nat, p \in X
    <2>1. Shift(G, n - k) \in SUBSET Int
      BY InShift
    <2> QED
      BY <2>1 DEF SymDiff
  <1> HIDE DEF rest
  <1>3. turn \in [Nat -> [X -> X]] /\ \A k \in Nat, p \in X : turn[k][p] = rest(k, p)
    BY <1>2
  <1> HIDE DEF turn
  <1>4. PICK f \in [Nat -> X] : Unrolled(f, P, turn)
    <2>1. P \in X
      OBVIOUS
    <2> HIDE DEF X
    <2> QED
      BY <1>3, <2>1, Recursion, Zenon
  <1>5. f = Body(f)
    <2>1. \A k \in Nat : k # 0 => turn[k][f[k - 1]] = rest(k, f[k - 1])
      BY <1>3
    <2> QED
      BY <1>4, <2>1 DEF Unrolled
  <1>6. U = Body(U)
    BY <1>5
  <1> HIDE DEF U
  <1>7. U[0] = P /\ \A k \in Nat \ {0} : U[k] = rest(k, U[k - 1])
    <2>1. \A k \in Nat : U[k] = IF k = 0 THEN P ELSE rest(k, U[k - 1])
      BY <1>6
    <2> QED
      BY <2>1
  <1>8. \A k \in Nat : U[k] \in X
    <2> DEFINE I == {k \in Nat : U[k] \in X}
    <2>0. P \in X
      OBVIOUS
    <2> HIDE DEF X
    <2>1. \A k \in Nat : U[k] \in X => U[k + 1] \in X
      <3> TAKE k \in Nat
      <3>1. U[k + 1] = rest(k + 1, U[k])
        BY <1>7
      <3> QED
        BY <1>2, <3>1
    <2>2. 0 \in I /\ \A k \in Nat : k \in I => k + 1 \in I
      BY <1>7, <2>0, <2>1
    <2> HIDE DEF I
    <2>3. Nat \subseteq I
      BY <2>2, Induction
    <2> QED
      BY <2>3 DEF I
  <1>9. U \in [Nat -> X]
    BY <1>6, <1>8
  <1>10. Divides(U, P, G, w, n)
    BY <1>1, <1>7, <1>9 DEF rest, Divides
  <1> QED
    BY <1>10

(* The eight rounds of a table entry, step by step.                        *)
First(v, i) == IF v.reflected THEN i ELSE Up(v, i, v.width - 8)
Round(v, w) == IF v.reflected THEN RoundDown(v, w) ELSE RoundUp(v, w)
Rounds(f, v, i) ==
    /\ f \in [Nat -> Words(v)] /\ f[0] = First(v, i) /\ TableEntry(v, i) = f[8]
    /\ \A k \in Nat \ {0} : f[k] = Round(v, f[k - 1])
LEMMA EntryRounds ==
  ASSUME NEW v, IsVariant(v), NEW i \in SUBSET (0 .. 7)
  PROVE  \E f : Rounds(f, v, i)
  <1> DEFINE X == Words(v)
             base == First(v, i)
             turn == [k \in Nat |-> [w \in X |-> Round(v, w)]]
             Body(f) == [k \in Nat |-> IF k = 0 THEN base ELSE Round(v, f[k - 1])]
             U == CHOOSE f : f = Body(f)
  <1>1. TableEntry(v, i) = U[8]
    BY DEF TableEntry, First, Round
  <1>2. \A w \in X : Round(v, w) \in X
    <2> TAKE w \in X
    <2>1. 1 \in Nat /\ 1 \in 0 .. v.width
      BY DEF IsVariant
    <2>2. Up(v, w, 1) \in Words(v) /\ Down(w, 1) \in SUBSET (0 .. v.width - 1 - 1) /\ v.width \in Nat
      BY <2>1, InUp, InDown DEF IsVariant
    <2>3. Down(w, 1) \in Words(v)
      BY <2>2 DEF Words
    <2> QED
      BY <2>2, <2>3 DEF Round, RoundUp, RoundDown, SymDiff, IsVariant, Words
  <1>3. base \in X
    <2>1. v.width - 8 \in Nat /\ 0 .. 7 \subseteq 0 .. v.width - 1
      BY DEF IsVariant
    <2> QED
      BY <2>1, InUp DEF First, Words
  <1> HIDE DEF X, base
  <1>4. turn \in [Nat -> [X -> X]] /\ \A k \in Nat, w \in X : turn[k][w] = Round(v, w)
    BY <1>2
  <1> HIDE DEF turn
  <1>5. PICK f \in [Nat -> X] : Unrolled(f, base, turn)
    BY <1>3, <1>4, Recursion, Zenon
  <1>6. f = Body(f)
    <2>1. \A k \in Nat : k # 0 => turn[k][f[k - 1]] = Round(v, f[k - 1])
      BY <1>4
    <2> QED
      BY <1>5, <2>1 DEF Unrolled
  <1>7. U = Body(U)
    BY <1>6
  <1> HIDE DEF U
  <1>8. U[0] = base /\ \A k \in Nat \ {0} : U[k] = Round(v, U[k - 1])
    <2>1. \A k \in Nat : U[k] = IF k = 0 THEN base ELSE Round(v, U[k - 1])
      BY <1>7
    <2> QED
      BY <2>1
  <1>9. \A k \in Nat : U[k] \in X
    <2> DEFINE I == {k \in Nat : U[k] \in X}
    <2>1. \A k \in Nat : U[k] \in X => U[k + 1] \in X
      <3> TAKE k \in Nat
      <3>1. U[k + 1] = Round(v, U[k])
        BY <1>8
      <3> QED
        BY <1>2, <3>1
    <2>2. 0 \in I /\ \A k \in Nat : k \in I => k + 1 \in I
      BY <1>3, <1>8, <2>1
    <2> HIDE DEF I
    <2>3. Nat \subseteq I
      BY <2>2, Induction
    <2> QED
      BY <2>3 DEF I
  <1>10. U \in [Nat -> X]
    BY <1>7, <1>9
  <1>11. Rounds(U, v, i)
    BY <1>1, <1>8, <1>10 DEF Rounds, X, base
  <1> QED
    BY <1>11

(* The same rounds for polynomials, highest term first.                    *)
UpRounds(T, v, i) ==
    /\ T \in [Nat -> Words(v)] /\ T[0] = Up(v, i, v.width - 8)
    /\ \A k \in Nat \ {0} :
         T[k] = IF v.width - 1 \in T[k - 1]
                THEN SymDiff(Up(v, T[k - 1], 1), AsPolynomial(v, v.poly, v.width))
                ELSE Up(v, T[k - 1], 1)
LEMMA EntryIsUp ==
  ASSUME NEW v, IsVariant(v), NEW i \in SUBSET (0 .. 7)
  PROVE  /\ TableEntry(v, i) \in Words(v)
         /\ \E T : UpRounds(T, v, AsPolynomial(v, i, 8)) /\ T[8] = AsPolynomial(v, TableEntry(v, i), v.width)
  <1> DEFINE W == v.width
             Q(w) == AsPolynomial(v, w, W)
  <1>0. W \in Nat /\ W >= 8 /\ v.reflected \in BOOLEAN /\ Words(v) = SUBSET (0 .. W - 1) /\ v.poly \in SUBSET (0 .. W - 1)
    BY DEF IsVariant, Words
  <1>1. PICK f : Rounds(f, v, i)
    BY EntryRounds
  <1>2. f \in [Nat -> Words(v)] /\ TableEntry(v, i) = f[8]
    BY <1>1 DEF Rounds
  <1> DEFINE T == [k \in Nat |-> Q(f[k])]
  <1>3. \A w \in Words(v) : Q(w) \in Words(v) /\ \A e \in Int : e \in Q(w) <=> IF v.reflected THEN W - 1 - e \in w ELSE e \in w
    <2> TAKE w \in Words(v)
    <2>1. W \in Nat /\ w \in SUBSET (0 .. W - 1)
      BY <1>0
    <2> HIDE DEF W
    <2>2. /\ AsPolynomial(v, w, W) \in SUBSET (0 .. W - 1)
          /\ \A e \in Int : e \in AsPolynomial(v, w, W) <=> IF v.reflected THEN W - 1 - e \in w ELSE e \in w
      BY <2>1, InPolynomial
    <2> QED
      BY <1>0, <2>2, Zenon
  <1> HIDE DEF Q
  <1>4. T \in [Nat -> Words(v)]
    BY <1>2, <1>3
  <1>5. T[0] = Up(v, AsPolynomial(v, i, 8), W - 8)
    <2>1. f[0] = First(v, i) /\ T[0] = Q(f[0]) /\ f[0] \in Words(v)
      BY <1>1, <1>2 DEF Rounds
    <2>2. /\ AsPolynomial(v, i, 8) \in SUBSET (0 .. 7)
          /\ \A e \in Int : e \in AsPolynomial(v, i, 8) <=> IF v.reflected THEN 7 - e \in i ELSE e \in i
      <3> DEFINE n == 8
      <3>1. n \in Nat /\ n - 1 = 7 /\ i \in SUBSET (0 .. n - 1)
        OBVIOUS
      <3> HIDE DEF n
      <3>2. /\ AsPolynomial(v, i, n) \in SUBSET (0 .. n - 1)
            /\ \A e \in Int : e \in AsPolynomial(v, i, n) <=> IF v.reflected THEN n - 1 - e \in i ELSE e \in i
        BY <3>1, InPolynomial
      <3> QED
        BY <3>1, <3>2 DEF n
    <2>3. W - 8 \in Nat
      BY <1>0
    <2>4. \A j : /\ Up(v, j, W - 8) \in Words(v)
               /\ \A e \in Int : e \in Up(v, j, W - 8) <=> W - 8 <= e /\ e <= W - 1 /\ e - (W - 8) \in j
      BY <2>3, InUp
    <2>5. ASSUME NEW e \in Int PROVE e \in Q(f[0]) <=> e \in Up(v, AsPolynomial(v, i, 8), W - 8)
      <3>1. CASE v.reflected
        <4>1. f[0] = i
          BY <2>1, <3>1 DEF First
        <4>2. e \in Q(f[0]) <=> W - 1 - e \in i
          BY <1>3, <2>1, <3>1, <4>1
        <4>3. e - (W - 8) \in Int /\ 7 - (e - (W - 8)) = W - 1 - e
          BY <1>0
        <4>4. e - (W - 8) \in AsPolynomial(v, i, 8) <=> W - 1 - e \in i
          BY <2>2, <3>1, <4>3
        <4>5. W - 1 - e \in i => W - 8 <= e /\ e <= W - 1
          BY <1>0
        <4> QED
          BY <2>4, <4>2, <4>4, <4>5
      <3>2. CASE ~v.reflected
        <4>1. f[0] = Up(v, i, W - 8) /\ AsPolynomial(v, i, 8) = i
          BY <2>1, <3>2 DEF First, AsPolynomial
        <4> QED
          BY <1>3, <2>1, <3>2, <4>1
      <3> QED
        BY <3>1, <3>2
    <2>6. Q(f[0]) \in SUBSET Int /\ Up(v, AsPolynomial(v, i, 8), W - 8) \in SUBSET Int
      BY <1>0, <1>3, <2>1, <2>4
    <2> QED
      BY <2>1, <2>5, <2>6
  <1>6. ASSUME NEW k \in Nat \ {0}
        PROVE  T[k] = IF W - 1 \in T[k - 1] THEN SymDiff(Up(v, T[k - 1], 1), Q(v.poly)) ELSE Up(v, T[k - 1], 1)
    <2> DEFINE w == f[k - 1]
    <2>1. f[k] = Round(v, w) /\ T[k] = Q(f[k]) /\ T[k - 1] = Q(w) /\ w \in Words(v) /\ f[k] \in Words(v)
      BY <1>1, <1>2 DEF Rounds
    <2> HIDE DEF w, T
    <2>2. 1 \in Nat /\ 1 \in 0 .. v.width /\ W - 1 - (W - 1) = 0 /\ W - 1 \in Int
      BY <1>0
    <2>3. W - 1 \in Q(w) <=> IF v.reflected THEN 0 \in w ELSE W - 1 \in w
      BY <1>3, <2>1, <2>2
    <2>4. Up(v, Q(w), 1) \in Words(v) /\ \A e \in Int : e \in Up(v, Q(w), 1) <=> 1 <= e /\ e <= W - 1 /\ e - 1 \in Q(w)
      BY <2>2, InUp
    <2>5. CASE ~v.reflected
      BY <2>1, <2>5, <1>0 DEF Q, AsPolynomial, Round, RoundUp
    <2>6. CASE v.reflected
      <3>1. f[k] = IF 0 \in w THEN SymDiff(v.poly, Down(w, 1)) ELSE Down(w, 1)
        BY <2>1, <2>6 DEF Round, RoundDown
      <3>2. \A e \in Int : e \in Down(w, 1) <=> e >= 0 /\ e + 1 \in w
        BY <2>1, <2>2, InDown
      <3>3. ASSUME NEW e \in Int PROVE W - 1 - e \in Down(w, 1) <=> e \in Up(v, Q(w), 1)
        <4>1. W - 1 - e \in Int /\ (W - 1 - e) + 1 = W - 1 - (e - 1) /\ e - 1 \in Int /\ (W - 1 - e >= 0 <=> e <= W - 1)
          BY <1>0
        <4>2. W - 1 - e \in Down(w, 1) <=> W - 1 - e >= 0 /\ W - 1 - (e - 1) \in w
          BY <3>2, <4>1
        <4>3. e - 1 \in Q(w) <=> W - 1 - (e - 1) \in w
          BY <1>3, <2>1, <2>6, <4>1
        <4>4. W - 1 - (e - 1) \in w => 1 <= e
          BY <1>0, <2>1
        <4> QED
          BY <2>4, <4>1, <4>2, <4>3, <4>4
      <3>4. ASSUME NEW e \in Int PROVE e \in Q(v.poly) <=> W - 1 - e \in v.poly
        BY <1>0, <1>3, <2>6
      <3> DEFINE Z == IF 0 \in w THEN SymDiff(Up(v, Q(w), 1), Q(v.poly)) ELSE Up(v, Q(w), 1)
      <3>5. ASSUME NEW e \in Int PROVE e \in Q(f[k]) <=> e \in Z
        <4>1. e \in Q(f[k]) <=> W - 1 - e \in f[k]
          BY <1>3, <2>1, <2>6
        <4> QED
          BY <3>1, <3>3, <3>4, <4>1 DEF SymDiff
      <3>6. Q(f[k]) \in SUBSET Int /\ Q(v.poly) \in SUBSET Int /\ Up(v, Q(w), 1) \in SUBSET Int
        BY <1>0, <1>3, <2>1, <2>4
      <3>7. Z \in SUBSET Int
        BY <3>6 DEF SymDiff
      <3>8. Q(f[k]) = Z
        <4> HIDE DEF Z
        <4> QED
          BY <3>5, <3>6, <3>7
      <3> QED
        BY <2>1, <2>3, <2>6, <3>8
    <2> QED
      BY <2>5, <2>6
  <1>7. UpRounds(T, v, AsPolynomial(v, i, 8))
    BY <1>4, <1>5, <1>6 DEF UpRounds, Q
  <1>8. T[8] = AsPolynomial(v, TableEntry(v, i), v.width)
    BY <1>2 DEF Q
  <1> QED
    BY <1>2, <1>7, <1>8

(* A byte more: the division of the longer message goes as that of the     *)
(* shorter one, eight places higher, and then as the rounds of the entry.  *)
LEMMA GeneratorIs ==
  ASSUME NEW v, IsVariant(v)
  PROVE  /\ Generator(v) \in SUBSET Int /\ AsPolynomial(v, v.poly, v.width) \in Words(v)
         /\ \A e \in Int : e \in Generator(v) <=> e = v.width \/ e \in AsPolynomial(v, v.poly, v.width)
  <1>1. v.width \in Nat /\ v.poly \in SUBSET (0 .. v.width - 1)
    BY DEF IsVariant, Words
  <1>2. AsPolynomial(v, v.poly, v.width) \in SUBSET (0 .. v.width - 1)
    BY <1>1, InPolynomial
  <1> QED
    BY <1>1, <1>2 DEF Generator, Words

Longer(v, P, n, b, f, h) ==
    /\ IsVariant(v) /\ P \in SUBSET Int /\ n \in Nat /\ b \in SUBSET (0 .. 7)
    /\ Divides(f, P, Generator(v), v.width, n)
    /\ Divides(h, SymDiff(Shift(P, 8), Shift(b, v.width)), Generator(v), v.width, n + 8)
LEMMA HigherSteps ==
  ASSUME NEW v, NEW P, NEW n, NEW b, NEW f, NEW h, Longer(v, P, n, b, f, h)
  PROVE  h[n] = SymDiff(Shift(f[n], 8), Shift(b, v.width))
  <1> DEFINE W == v.width
             G == Generator(v)
             Is(k) == h[k] = SymDiff(Shift(f[k], 8), Shift(b, W))
             I == {k \in Nat : k <= n => Is(k)}
  <1>0. /\ IsVariant(v) /\ P \in SUBSET Int /\ n \in Nat /\ b \in SUBSET (0 .. 7)
        /\ Divides(f, P, Generator(v), v.width, n)
        /\ Divides(h, SymDiff(Shift(P, 8), Shift(b, v.width)), Generator(v), v.width, n + 8)
    BY DEF Longer
  <1> USE <1>0
  <1>1. W \in Nat /\ G \in SUBSET Int
    BY GeneratorIs DEF IsVariant
  <1>2. f[0] = P /\ h[0] = SymDiff(Shift(P, 8), Shift(b, W)) /\ \A k \in Nat : f[k] \in SUBSET Int /\ h[k] \in SUBSET Int
    BY DEF Divides
  <1>3. \A k \in Nat : f[k + 1] = IF W + n - (k + 1) \in f[k] THEN SymDiff(f[k], Shift(G, n - (k + 1))) ELSE f[k]
    <2> TAKE k \in Nat
    <2>1. k + 1 \in Nat \ {0} /\ (k + 1) - 1 = k
      OBVIOUS
    <2> QED
      BY <2>1 DEF Divides
  <1>4. \A k \in Nat : h[k + 1] = IF W + (n + 8) - (k + 1) \in h[k] THEN SymDiff(h[k], Shift(G, (n + 8) - (k + 1))) ELSE h[k]
    <2> TAKE k \in Nat
    <2>1. k + 1 \in Nat \ {0} /\ (k + 1) - 1 = k
      OBVIOUS
    <2> QED
      BY <2>1 DEF Divides
  <1> HIDE DEF W, G
  <1>5. ASSUME NEW k \in Nat, Is(k), k + 1 <= n PROVE Is(k + 1)
    <2> DEFINE c == W + n - (k + 1)
               d == n - (k + 1)
    <2>1. /\ c \in Int /\ d \in Nat /\ W + (n + 8) - (k + 1) = c + 8 /\ (n + 8) - (k + 1) = d + 8
          /\ c - W = d /\ \A e \in Int : (e - 8) - d = e - (d + 8)
      BY <1>1, <1>5
    <2>2. /\ f[k + 1] = IF c \in f[k] THEN SymDiff(f[k], Shift(G, d)) ELSE f[k]
          /\ h[k + 1] = IF c + 8 \in h[k] THEN SymDiff(h[k], Shift(G, d + 8)) ELSE h[k]
          /\ f[k] \in SUBSET Int /\ f[k + 1] \in SUBSET Int /\ h[k + 1] \in SUBSET Int
      BY <1>2, <1>3, <1>4, <2>1
    <2> HIDE DEF c, d
    <2>3. /\ \A e \in Int : e \in Shift(f[k], 8) <=> e - 8 \in f[k]
          /\ \A e \in Int : e \in Shift(f[k + 1], 8) <=> e - 8 \in f[k + 1]
          /\ \A e \in Int : e \in Shift(b, W) <=> e - W \in b
          /\ \A e \in Int : e \in Shift(G, d) <=> e - d \in G
          /\ \A e \in Int : e \in Shift(G, d + 8) <=> e - (d + 8) \in G
      <3>1. b \in SUBSET Int /\ 8 \in Int /\ W \in Int /\ d \in Int /\ d + 8 \in Int
        BY <1>1, <2>1
      <3> QED
        BY <1>1, <2>2, <3>1, InShift
    <2>4. \A e \in Int : e \in h[k] <=> (e - 8 \in f[k] /\ e - W \notin b) \/ (e - 8 \notin f[k] /\ e - W \in b)
      BY <1>5, <2>3, InXor
    <2>5. c + 8 \in h[k] <=> c \in f[k]
      <3>1. c + 8 \in Int /\ (c + 8) - 8 = c /\ (c + 8) - W \notin b
        BY <1>1, <2>1
      <3> QED
        BY <2>4, <3>1
    <2>6. ASSUME NEW e \in Int
          PROVE  e \in h[k + 1] <=> (e - 8 \in f[k + 1] /\ e - W \notin b) \/ (e - 8 \notin f[k + 1] /\ e - W \in b)
      <3>1. CASE c \in f[k]
        <4>1. e \in h[k + 1] <=> (e \in h[k] /\ e - (d + 8) \notin G) \/ (e \notin h[k] /\ e - (d + 8) \in G)
          BY <2>2, <2>3, <2>5, <3>1, InXor
        <4>2. e - 8 \in f[k + 1] <=> (e - 8 \in f[k] /\ e - (d + 8) \notin G) \/ (e - 8 \notin f[k] /\ e - (d + 8) \in G)
          <5>1. e - 8 \in Int
            OBVIOUS
          <5>2. e - 8 \in f[k + 1] <=> (e - 8 \in f[k] /\ e - 8 \notin Shift(G, d)) \/ (e - 8 \notin f[k] /\ e - 8 \in Shift(G, d))
            BY <2>2, <3>1, InXor
          <5>3. e - 8 \in Shift(G, d) <=> (e - 8) - d \in G
            BY <2>3, <5>1
          <5> QED
            BY <2>1, <5>2, <5>3
        <4> QED
          BY <2>4, <4>1, <4>2
      <3>2. CASE c \notin f[k]
        BY <2>2, <2>4, <2>5, <3>2
      <3> QED
        BY <3>1, <3>2
    <2>7. SymDiff(Shift(f[k + 1], 8), Shift(b, W)) \in SUBSET Int
      <3>1. b \in SUBSET Int /\ W \in Int
        BY <1>1
      <3> QED
        BY <2>2, <3>1, InShift DEF SymDiff
    <2>8. \A e \in Int : e \in h[k + 1] <=> e \in SymDiff(Shift(f[k + 1], 8), Shift(b, W))
      BY <2>3, <2>6, InXor
    <2> QED
      BY <2>2, <2>7, <2>8
  <1>6. 0 \in I /\ \A k \in Nat : k \in I => k + 1 \in I
    <2>1. Is(0)
      BY <1>2
    <2> HIDE DEF Is
    <2> QED
      BY <1>5, <2>1
  <1>7. Nat \subseteq I
    <2> HIDE DEF I
    <2> QED
      BY <1>6, Induction
  <1> QED
    BY <1>7 DEF W

OfEntry(v, R, n, b, T, P2, h) ==
    /\ IsVariant(v) /\ R \in Words(v) /\ n \in Nat /\ b \in SUBSET (0 .. 7)
    /\ UpRounds(T, v, SymDiff(Down(R, v.width - 8), b))
    /\ Divides(h, P2, Generator(v), v.width, n + 8) /\ h[n] = SymDiff(Shift(R, 8), Shift(b, v.width))
LEMMA LastSteps ==
  ASSUME NEW v, NEW R, NEW n, NEW b, NEW T, NEW P2, NEW h, OfEntry(v, R, n, b, T, P2, h)
  PROVE  h[n + 8] = SymDiff(Up(v, R, 8), T[8])
  <1> DEFINE W == v.width
             G == Generator(v)
             g == AsPolynomial(v, v.poly, v.width)
             U == Up(v, R, 8)
             Is(j) == h[n + j] = SymDiff(U, Shift(T[j], 8 - j))
             I == {j \in Nat : j <= 8 => Is(j)}
  <1>0. /\ IsVariant(v) /\ R \in Words(v) /\ n \in Nat /\ b \in SUBSET (0 .. 7)
        /\ UpRounds(T, v, SymDiff(Down(R, v.width - 8), b))
        /\ Divides(h, P2, Generator(v), v.width, n + 8) /\ h[n] = SymDiff(Shift(R, 8), Shift(b, v.width))
    BY DEF OfEntry
  <1> USE <1>0
  <1>1. /\ W \in Nat /\ W >= 8 /\ G \in SUBSET Int /\ g \in SUBSET (0 .. W - 1) /\ R \in SUBSET (0 .. W - 1)
        /\ \A e \in Int : e \in G <=> e = W \/ e \in g
    BY GeneratorIs DEF IsVariant, Words
  <1>2. \A k \in Nat : h[k] \in SUBSET Int
    BY DEF Divides
  <1>3. \A j \in Nat : h[n + j + 1] = IF W + 7 - j \in h[n + j] THEN SymDiff(h[n + j], Shift(G, 7 - j)) ELSE h[n + j]
    <2> TAKE j \in Nat
    <2>1. n + j + 1 \in Nat \ {0} /\ (n + j + 1) - 1 = n + j /\ (n + 8) - (n + j + 1) = 7 - j
          /\ W + (n + 8) - (n + j + 1) = W + 7 - j
      BY <1>1
    <2>2. \A k \in Nat \ {0} : h[k] = IF W + (n + 8) - k \in h[k - 1]
                                     THEN SymDiff(h[k - 1], Shift(G, (n + 8) - k)) ELSE h[k - 1]
      BY DEF Divides
    <2> HIDE DEF W, G
    <2> QED
      BY <2>1, <2>2
  <1>4. /\ \A j \in Nat : T[j] \in SUBSET (0 .. W - 1)
        /\ T[0] = Up(v, SymDiff(Down(R, W - 8), b), W - 8)
    BY DEF UpRounds, Words
  <1>5. \A j \in Nat : T[j + 1] = IF W - 1 \in T[j] THEN SymDiff(Up(v, T[j], 1), g) ELSE Up(v, T[j], 1)
    <2> TAKE j \in Nat
    <2>1. j + 1 \in Nat \ {0} /\ (j + 1) - 1 = j
      OBVIOUS
    <2> QED
      BY <2>1 DEF UpRounds
  <1>6. U \in SUBSET Int /\ \A e \in Int : e \in U <=> 8 <= e /\ e <= W - 1 /\ e - 8 \in R
    BY <1>1, InUp DEF Words
  <1>7. \A j \in Nat : \A e \in Int : e \in Up(v, T[j], 1) <=> 1 <= e /\ e <= W - 1 /\ e - 1 \in T[j]
    BY InUp
  <1>8. h[n] = SymDiff(Shift(R, 8), Shift(b, W))
    OBVIOUS
  <1> HIDE DEF G, g, U
  <1>9. Is(0)
    <2>1. W - 8 \in Nat /\ W - 8 \in 0 .. v.width /\ 8 \in Int /\ W \in Int /\ b \in SUBSET Int /\ T[0] \in SUBSET Int /\ R \in SUBSET Int
      BY <1>1, <1>4
    <2>2. /\ \A e \in Int : e \in Shift(R, 8) <=> e - 8 \in R
          /\ \A e \in Int : e \in Shift(b, W) <=> e - W \in b
          /\ \A e \in Int : e \in Shift(T[0], 8) <=> e - 8 \in T[0]
          /\ Shift(T[0], 8) \in SUBSET Int
      BY <2>1, InShift
    <2>3. \A e \in Int : e \in Down(R, W - 8) <=> e >= 0 /\ e + (W - 8) \in R
      BY <2>1, InDown
    <2>4. \A e \in Int : e \in T[0] <=> W - 8 <= e /\ e <= W - 1 /\ e - (W - 8) \in SymDiff(Down(R, W - 8), b)
      BY <1>4, <2>1, InUp
    <2>5. ASSUME NEW e \in Int
          PROVE  e \in SymDiff(Shift(R, 8), Shift(b, W)) <=> e \in SymDiff(U, Shift(T[0], 8))
      <3> DEFINE x == e - 8
                 y == e - W
      <3>1. /\ x \in Int /\ y \in Int /\ x - (W - 8) = y /\ y + (W - 8) = x /\ (x \in R => x >= 0 /\ x <= W - 1)
            /\ (y \in b => y >= 0 /\ y <= 7)
        BY <1>1
      <3>2. x \in T[0] <=> y >= 0 /\ y <= 7 /\ ((x \in R /\ y \notin b) \/ (x \notin R /\ y \in b))
        <4>1. x \in T[0] <=> W - 8 <= x /\ x <= W - 1 /\ y \in SymDiff(Down(R, W - 8), b)
          BY <2>4, <3>1
        <4>2. y \in Down(R, W - 8) <=> y >= 0 /\ x \in R
          BY <2>3, <3>1
        <4>3. W - 8 <= x /\ x <= W - 1 <=> y >= 0 /\ y <= 7
          BY <1>1
        <4> QED
          BY <4>1, <4>2, <4>3, InXor
      <3>3. e \in U <=> x \in R /\ y < 0
        BY <1>1, <1>6
      <3>4. x \in R => y <= 7
        BY <1>1
      <3>5. e \in SymDiff(Shift(R, 8), Shift(b, W)) <=> (x \in R /\ y \notin b) \/ (x \notin R /\ y \in b)
        BY <2>2, InXor
      <3>6. e \in SymDiff(U, Shift(T[0], 8)) <=> (e \in U /\ x \notin T[0]) \/ (e \notin U /\ x \in T[0])
        BY <2>2, InXor
      <3> HIDE DEF x, y
      <3> QED
        BY <3>1, <3>2, <3>3, <3>4, <3>5, <3>6
    <2>6. SymDiff(U, Shift(T[0], 8)) \in SUBSET Int /\ SymDiff(Shift(R, 8), Shift(b, W)) \in SUBSET Int
      BY <1>2, <1>6, <1>8, <2>2 DEF SymDiff
    <2>7. SymDiff(Shift(R, 8), Shift(b, W)) = SymDiff(U, Shift(T[0], 8))
      BY <2>5, <2>6
    <2>8. n + 0 = n /\ 8 - 0 = 8
      OBVIOUS
    <2> QED
      BY <1>8, <2>7, <2>8, Zenon
  <1>10. ASSUME NEW j \in Nat, Is(j), j + 1 <= 8 PROVE Is(j + 1)
    <2> DEFINE d == 7 - j
               hj == h[n + j]
    <2>1. d \in Nat /\ 8 - j = d + 1 /\ 8 - (j + 1) = d /\ n + (j + 1) = n + j + 1 /\ W + 7 - j = W + d /\ n + j \in Nat /\ n + j + 1 \in Nat
      BY <1>1, <1>10
    <2>2. /\ h[n + j + 1] = IF W + d \in hj THEN SymDiff(hj, Shift(G, d)) ELSE hj
          /\ hj = SymDiff(U, Shift(T[j], d + 1)) /\ h[n + j + 1] \in SUBSET Int
      BY <1>2, <1>3, <1>10, <2>1
    <2>3. T[j] \in SUBSET (0 .. W - 1) /\ T[j + 1] \in SUBSET (0 .. W - 1) /\ j + 1 \in Nat
      BY <1>4
    <2> HIDE DEF d, hj
    <2>4. /\ \A e \in Int : e \in Shift(T[j], d + 1) <=> e - (d + 1) \in T[j]
          /\ \A e \in Int : e \in Shift(T[j + 1], d) <=> e - d \in T[j + 1]
          /\ \A e \in Int : e \in Shift(G, d) <=> e - d \in G
          /\ Shift(T[j + 1], d) \in SUBSET Int
      <3>1. T[j] \in SUBSET Int /\ T[j + 1] \in SUBSET Int /\ d \in Int /\ d + 1 \in Int
        BY <1>1, <2>1, <2>3
      <3> QED
        BY <1>1, <3>1, InShift
    <2>5. \A e \in Int : e \in hj <=> (e \in U /\ e - (d + 1) \notin T[j]) \/ (e \notin U /\ e - (d + 1) \in T[j])
      BY <2>2, <2>4, InXor
    <2>6. W + d \in hj <=> W - 1 \in T[j]
      <3>1. W + d \in Int /\ W + d \notin U /\ (W + d) - (d + 1) = W - 1
        BY <1>1, <1>6, <2>1
      <3> QED
        BY <2>5, <3>1
    <2>7. ASSUME NEW e \in Int
          PROVE  e \in h[n + j + 1] <=> (e \in U /\ e - d \notin T[j + 1]) \/ (e \notin U /\ e - d \in T[j + 1])
      <3> DEFINE x == e - d
      <3>1. x \in Int /\ e - (d + 1) = x - 1
        BY <2>1
      <3>2. x \in Up(v, T[j], 1) <=> 1 <= x /\ x <= W - 1 /\ x - 1 \in T[j]
        BY <1>7, <3>1
      <3>3. e \in hj <=> (e \in U /\ x - 1 \notin T[j]) \/ (e \notin U /\ x - 1 \in T[j])
        BY <2>5, <3>1
      <3>4. e \in Shift(G, d) <=> x \in G
        BY <2>4
      <3>5. x \in G <=> x = W \/ x \in g
        BY <1>1, <3>1
      <3>6. x \in g => x <= W - 1
        <4>1. \A y \in g : y \in 0 .. W - 1
          BY <1>1
        <4> HIDE DEF x
        <4> QED
          BY <1>1, <3>1, <4>1
      <3>7. x - 1 \in T[j] => 1 <= x /\ x <= W
        BY <1>1, <2>3, <3>1
      <3> HIDE DEF x
      <3>8. CASE W - 1 \in T[j]
        <4>1. e \in h[n + j + 1] <=> (e \in hj /\ x \notin G) \/ (e \notin hj /\ x \in G)
          BY <2>2, <2>6, <3>4, <3>8, InXor
        <4>2. x \in T[j + 1] <=> (x \in Up(v, T[j], 1) /\ x \notin g) \/ (x \notin Up(v, T[j], 1) /\ x \in g)
          BY <1>5, <3>8, InXor
        <4>3. x = W => x - 1 \in T[j]
          BY <3>8
        <4>4. x \in T[j + 1] <=> (x - 1 \in T[j] /\ x \notin G) \/ (x - 1 \notin T[j] /\ x \in G)
          BY <1>1, <3>1, <3>2, <3>5, <3>6, <3>7, <4>2, <4>3
        <4> QED
          BY <3>3, <4>1, <4>4 DEF x
      <3>9. CASE W - 1 \notin T[j]
        <4>1. e \in h[n + j + 1] <=> e \in hj
          BY <2>2, <2>6, <3>9
        <4>2. x \in T[j + 1] <=> x \in Up(v, T[j], 1)
          BY <1>5, <3>9
        <4>3. x - 1 \in T[j] => x # W
          BY <1>1, <3>9
        <4>4. x \in T[j + 1] <=> x - 1 \in T[j]
          BY <1>1, <3>1, <3>2, <3>7, <4>2, <4>3
        <4> QED
          BY <3>3, <4>1, <4>4 DEF x
      <3> QED
        BY <3>8, <3>9
    <2>8. SymDiff(U, Shift(T[j + 1], d)) \in SUBSET Int
      BY <1>6, <2>4 DEF SymDiff
    <2>9. \A e \in Int : e \in h[n + j + 1] <=> e \in SymDiff(U, Shift(T[j + 1], d))
      BY <2>4, <2>7, InXor
    <2>10. h[n + j + 1] = SymDiff(U, Shift(T[j + 1], d))
      BY <2>2, <2>8, <2>9
    <2> QED
      BY <2>1, <2>10
  <1>11. 0 \in I /\ \A j \in Nat : j \in I => j + 1 \in I
    <2> HIDE DEF Is
    <2> QED
      BY <1>9, <1>10
  <1>12. Nat \subseteq I
    <2> HIDE DEF I
    <2> QED
      BY <1>11, Induction
  <1>13. Is(8)
    BY <1>12
  <1>14. Shift(T[8], 0) = T[8]
    <2>1. T[8] \in SUBSET Int
      BY <1>1, <1>4
    <2>2. Shift(T[8], 0) \in SUBSET Int /\ \A e \in Int : e \in Shift(T[8], 0) <=> e - 0 \in T[8]
      BY <2>1, InShift
    <2>3. \A e \in Int : e - 0 = e
      OBVIOUS
    <2> QED
      BY <2>1, <2>2, <2>3
  <1> QED
    BY <1>13, <1>14 DEF U

LEMMA NextByte ==
  ASSUME NEW v, IsVariant(v), NEW P \in SUBSET Int, NEW n \in Nat, NEW b \in SUBSET (0 .. 7), NEW R \in Words(v),
         R = Modulo(P, Generator(v), v.width, n), NEW T, UpRounds(T, v, SymDiff(Down(R, v.width - 8), b))
  PROVE  Modulo(SymDiff(Shift(P, 8), Shift(b, v.width)), Generator(v), v.width, n + 8) = SymDiff(Up(v, R, 8), T[8])
  <1> DEFINE P2 == SymDiff(Shift(P, 8), Shift(b, v.width))
  <1>1. v.width \in Int /\ n + 8 \in Nat /\ Generator(v) \in SUBSET Int
    BY GeneratorIs DEF IsVariant
  <1>2. P2 \in SUBSET Int
    <2>1. b \in SUBSET Int /\ 8 \in Int
      OBVIOUS
    <2> QED
      BY <1>1, <2>1, InShift DEF SymDiff
  <1>3. PICK f : Divides(f, P, Generator(v), v.width, n)
    BY <1>1, Division
  <1>4. PICK h : Divides(h, P2, Generator(v), v.width, n + 8)
    BY <1>1, <1>2, Division
  <1>5. f[n] = R /\ h[n + 8] = Modulo(P2, Generator(v), v.width, n + 8)
    BY <1>3, <1>4 DEF Divides
  <1>6. h[n] = SymDiff(Shift(f[n], 8), Shift(b, v.width))
    <2>1. Longer(v, P, n, b, f, h)
      BY <1>3, <1>4 DEF Longer
    <2> QED
      BY <2>1, HigherSteps
  <1>7. h[n + 8] = SymDiff(Up(v, R, 8), T[8])
    <2> HIDE DEF P2
    <2>1. OfEntry(v, R, n, b, T, P2, h)
      BY <1>4, <1>5, <1>6 DEF OfEntry
    <2> QED
      BY <2>1, LastSteps
  <1> QED
    BY <1>5, <1>7

(* One byte of embediq_crcN_update(), with the whole table stored.         *)
Next8(v, w, p) == IF v.reflected THEN FeedDown(v, w, p) ELSE FeedUp(v, w, p)
LEMMA Indexes ==
  /\ \A n : Bits(n) \in SUBSET (0 .. 7)
  /\ \A i : Number(i) \in Nat /\ Number(i) < TableSize
  BY DEF Bits, Number, TableSize

LEMMA ByteMirror ==
  ASSUME NEW v, IsVariant(v), NEW i \in SUBSET (0 .. 7)
  PROVE  /\ AsPolynomial(v, i, 8) \in SUBSET (0 .. 7)
         /\ \A e \in Int : e \in AsPolynomial(v, i, 8) <=> IF v.reflected THEN 7 - e \in i ELSE e \in i
  <1> DEFINE n == 8
  <1>1. n \in Nat /\ n - 1 = 7 /\ i \in SUBSET (0 .. n - 1)
    OBVIOUS
  <1> HIDE DEF n
  <1>2. /\ AsPolynomial(v, i, n) \in SUBSET (0 .. n - 1)
        /\ \A e \in Int : e \in AsPolynomial(v, i, n) <=> IF v.reflected THEN n - 1 - e \in i ELSE e \in i
    BY <1>1, InPolynomial
  <1> QED
    BY <1>1, <1>2 DEF n

LEMMA WordMirror ==
  ASSUME NEW v, IsVariant(v), NEW w \in Words(v)
  PROVE  /\ AsPolynomial(v, w, v.width) \in Words(v)
         /\ \A e \in Int : e \in AsPolynomial(v, w, v.width) <=> IF v.reflected THEN v.width - 1 - e \in w ELSE e \in w
         /\ AsPolynomial(v, AsPolynomial(v, w, v.width), v.width) = w
  <1> DEFINE n == v.width
  <1>1. n \in Nat /\ w \in SUBSET (0 .. n - 1)
    BY DEF IsVariant, Words
  <1> HIDE DEF n
  <1>2. /\ AsPolynomial(v, w, n) \in SUBSET (0 .. n - 1)
        /\ \A e \in Int : e \in AsPolynomial(v, w, n) <=> IF v.reflected THEN n - 1 - e \in w ELSE e \in w
        /\ AsPolynomial(v, AsPolynomial(v, w, n), n) = w
    BY <1>1, InPolynomial
  <1> QED
    BY <1>2 DEF n, Words

LEMMA FeedIs ==
  ASSUME NEW v, IsVariant(v), NEW w \in Words(v), NEW p, filled[v] \in Nat, filled[v] >= TableSize
  PROVE  /\ Next8(v, w, p) \in Words(v)
         /\ \E T : /\ UpRounds(T, v, SymDiff(Down(AsPolynomial(v, w, v.width), v.width - 8), AsPolynomial(v, Bits(p), 8)))
                   /\ AsPolynomial(v, Next8(v, w, p), v.width) = SymDiff(Up(v, AsPolynomial(v, w, v.width), 8), T[8])
  <1> DEFINE W == v.width
             q == Bits(p)
             b == AsPolynomial(v, q, 8)
             R == AsPolynomial(v, w, W)
             i == IF v.reflected THEN SymDiff(w, q) \cap 0 .. 7 ELSE SymDiff(Down(w, W - 8), q)
             entry == TableEntry(v, i)
             high == IF v.reflected THEN Down(w, 8) ELSE Up(v, w, 8)
  <1>1. /\ W \in Nat /\ W >= 8 /\ W - 8 \in Nat /\ W - 8 \in 0 .. W /\ 8 \in Nat /\ 8 \in 0 .. W
        /\ Words(v) = SUBSET (0 .. W - 1)
    BY DEF IsVariant, Words
  <1>2. q \in SUBSET (0 .. 7)
    BY Indexes
  <1>3. /\ b \in SUBSET (0 .. 7)
        /\ \A e \in Int : e \in b <=> IF v.reflected THEN 7 - e \in q ELSE e \in q
    BY <1>2, ByteMirror
  <1>4. /\ R \in Words(v)
        /\ \A e \in Int : e \in R <=> IF v.reflected THEN W - 1 - e \in w ELSE e \in w
    BY WordMirror
  <1>5. /\ Down(w, W - 8) \in SUBSET (0 .. 7) /\ \A e \in Int : e \in Down(w, W - 8) <=> e >= 0 /\ e + (W - 8) \in w
        /\ \A e \in Int : e \in Down(R, W - 8) <=> e >= 0 /\ e + (W - 8) \in R
        /\ Down(R, W - 8) \in SUBSET (0 .. 7)
    <2>1. W - 1 - (W - 8) = 7
      BY <1>1
    <2>2. \A x \in Words(v) : /\ Down(x, W - 8) \in SUBSET (0 .. W - 1 - (W - 8))
                              /\ \A e \in Int : e \in Down(x, W - 8) <=> e >= 0 /\ e + (W - 8) \in x
      BY <1>1, InDown
    <2> QED
      BY <1>4, <2>1, <2>2
  <1>6. /\ Down(w, 8) \in SUBSET (0 .. W - 1) /\ \A e \in Int : e \in Down(w, 8) <=> e >= 0 /\ e + 8 \in w
    <2>1. Down(w, 8) \in SUBSET (0 .. W - 1 - 8) /\ \A e \in Int : e \in Down(w, 8) <=> e >= 0 /\ e + 8 \in w
      BY <1>1, InDown
    <2> QED
      BY <1>1, <2>1
  <1>7. /\ Up(v, w, 8) \in Words(v) /\ Up(v, R, 8) \in Words(v)
        /\ \A e \in Int : e \in Up(v, R, 8) <=> 8 <= e /\ e <= W - 1 /\ e - 8 \in R
    BY <1>1, InUp
  <1>8. i \in SUBSET (0 .. 7)
    BY <1>2, <1>5 DEF SymDiff
  <1>9. Next8(v, w, p) = SymDiff(high, entry)
    <2>1. LookUp(v, i) = entry
      BY Indexes DEF LookUp, TableSize
    <2> QED
      BY <2>1 DEF Next8, FeedUp, FeedDown
  <1>10. /\ entry \in Words(v)
         /\ \E T : UpRounds(T, v, AsPolynomial(v, i, 8)) /\ T[8] = AsPolynomial(v, entry, W)
    BY <1>8, EntryIsUp
  <1>11. /\ AsPolynomial(v, i, 8) \in SUBSET (0 .. 7)
         /\ \A e \in Int : e \in AsPolynomial(v, i, 8) <=> IF v.reflected THEN 7 - e \in i ELSE e \in i
    BY <1>8, ByteMirror
  <1>12. Next8(v, w, p) \in Words(v)
    BY <1>1, <1>6, <1>7, <1>9, <1>10 DEF SymDiff
  <1>13. /\ \A e \in Int : e \in AsPolynomial(v, SymDiff(high, entry), W) <=>
                IF v.reflected THEN W - 1 - e \in SymDiff(high, entry) ELSE e \in SymDiff(high, entry)
         /\ AsPolynomial(v, SymDiff(high, entry), W) \in Words(v)
    BY <1>9, <1>12, WordMirror
  <1>14. /\ \A e \in Int : e \in AsPolynomial(v, entry, W) <=> IF v.reflected THEN W - 1 - e \in entry ELSE e \in entry
         /\ AsPolynomial(v, entry, W) \in Words(v)
    BY <1>10, WordMirror
  <1>15. AsPolynomial(v, i, 8) = SymDiff(Down(R, W - 8), b)
    <2>1. CASE v.reflected
      <3>1. ASSUME NEW e \in Int PROVE e \in AsPolynomial(v, i, 8) <=> e \in SymDiff(Down(R, W - 8), b)
        <4>1. e \in AsPolynomial(v, i, 8) <=> 7 - e \in SymDiff(w, q) /\ 7 - e >= 0 /\ 7 - e <= 7
          BY <1>11, <2>1
        <4>2. 7 - e \in SymDiff(w, q) <=> (7 - e \in w /\ 7 - e \notin q) \/ (7 - e \notin w /\ 7 - e \in q)
          BY InXor
        <4>3. e \in Down(R, W - 8) <=> e >= 0 /\ 7 - e \in w
          <5>1. e + (W - 8) \in Int /\ W - 1 - (e + (W - 8)) = 7 - e
            BY <1>1
          <5> QED
            BY <1>4, <1>5, <2>1, <5>1
        <4>4. e \in b <=> 7 - e \in q
          BY <1>3, <2>1
        <4>5. (7 - e \in w => 7 - e >= 0) /\ (7 - e \in q => 7 - e >= 0 /\ 7 - e <= 7)
          BY <1>1, <1>2
        <4>6. 7 - e <= 7 <=> e >= 0
          OBVIOUS
        <4>7. e \in SymDiff(Down(R, W - 8), b) <=> (e \in Down(R, W - 8) /\ e \notin b) \/ (e \notin Down(R, W - 8) /\ e \in b)
          BY InXor
        <4> HIDE DEF b, q, R, i
        <4> QED
          BY <4>1, <4>2, <4>3, <4>4, <4>5, <4>6, <4>7
      <3>2. SymDiff(Down(R, W - 8), b) \in SUBSET (0 .. 7)
        BY <1>3, <1>5 DEF SymDiff
      <3> HIDE DEF R, b, i
      <3> QED
        BY <1>11, <3>1, <3>2
    <2>2. CASE ~v.reflected
      BY <2>2 DEF AsPolynomial
    <2> QED
      BY <2>1, <2>2
  <1>16. AsPolynomial(v, SymDiff(high, entry), W) = SymDiff(Up(v, R, 8), AsPolynomial(v, entry, W))
    <2>1. CASE v.reflected
      <3>1. ASSUME NEW e \in Int
            PROVE  e \in AsPolynomial(v, SymDiff(high, entry), W) <=> e \in SymDiff(Up(v, R, 8), AsPolynomial(v, entry, W))
        <4> DEFINE x == W - 1 - e
        <4>1. x \in Int /\ x + 8 = W - 1 - (e - 8) /\ e - 8 \in Int
          BY <1>1
        <4>2. e \in AsPolynomial(v, SymDiff(high, entry), W) <=> (x \in Down(w, 8) /\ x \notin entry) \/ (x \notin Down(w, 8) /\ x \in entry)
          <5>1. high = Down(w, 8)
            BY <2>1
          <5> HIDE DEF high, entry
          <5>2. x \in SymDiff(Down(w, 8), entry) <=> (x \in Down(w, 8) /\ x \notin entry) \/ (x \notin Down(w, 8) /\ x \in entry)
            <6> DEFINE low == Down(w, 8)
            <6> HIDE DEF low, x
            <6>1. x \in SymDiff(low, entry) <=> (x \in low /\ x \notin entry) \/ (x \notin low /\ x \in entry)
              BY InXor
            <6> QED
              BY <6>1 DEF low
          <5>3. e \in AsPolynomial(v, SymDiff(high, entry), W) <=> W - 1 - e \in SymDiff(high, entry)
            BY <1>13, <2>1, Zenon
          <5> QED
            BY <5>1, <5>2, <5>3
        <4>3. x \in Down(w, 8) <=> x >= 0 /\ x + 8 \in w
          BY <1>6, <4>1
        <4>4. e - 8 \in R <=> x + 8 \in w
          BY <1>4, <2>1, <4>1
        <4>5. x + 8 \in w => x + 8 <= W - 1
          BY <1>1, <4>1
        <4>6. e \in AsPolynomial(v, entry, W) <=> x \in entry
          BY <1>14, <2>1
        <4>7. (x >= 0 <=> e <= W - 1) /\ (x + 8 <= W - 1 <=> 8 <= e)
          BY <1>1
        <4>8. e \in Up(v, R, 8) <=> 8 <= e /\ e <= W - 1 /\ e - 8 \in R
          BY <1>7
        <4>9. e \in SymDiff(Up(v, R, 8), AsPolynomial(v, entry, W)) <=>
                (e \in Up(v, R, 8) /\ e \notin AsPolynomial(v, entry, W)) \/ (e \notin Up(v, R, 8) /\ e \in AsPolynomial(v, entry, W))
          BY InXor
        <4> HIDE DEF x, R, entry, high
        <4> QED
          BY <4>2, <4>3, <4>4, <4>5, <4>6, <4>7, <4>8, <4>9
      <3>2. SymDiff(Up(v, R, 8), AsPolynomial(v, entry, W)) \in Words(v)
        BY <1>1, <1>7, <1>14 DEF SymDiff
      <3> HIDE DEF R, entry, high
      <3> DEFINE A == AsPolynomial(v, SymDiff(high, entry), W)
                 B == SymDiff(Up(v, R, 8), AsPolynomial(v, entry, W))
      <3>3. A \in SUBSET Int /\ B \in SUBSET Int /\ \A e \in Int : e \in A <=> e \in B
        <4>1. A \in Words(v) /\ B \in Words(v) /\ \A e \in Int : e \in A <=> e \in B
          BY <1>13, <3>1, <3>2
        <4> HIDE DEF A, B
        <4> QED
          BY <1>1, <4>1
      <3>4. A = B
        <4> HIDE DEF A, B
        <4> QED
          BY <3>3
      <3> QED
        BY <3>4
    <2>2. CASE ~v.reflected
      BY <2>2 DEF AsPolynomial
    <2> QED
      BY <2>1, <2>2
  <1> HIDE DEF i, entry, high
  <1>17. PICK T : UpRounds(T, v, AsPolynomial(v, i, 8)) /\ T[8] = AsPolynomial(v, entry, W)
    BY <1>10
  <1> QED
    BY <1>9, <1>12, <1>15, <1>16, <1>17

(* A message that is a byte longer is the shorter one eight places higher, *)
(* and that byte.                                                          *)
Piece(v, m, n) == Shift(AsPolynomial(v, Bits(m[n]), 8), v.width + 8 * (Len(m) - n))
Pieces(v, m) == UNION {Piece(v, m, n) : n \in DOMAIN m}
Preset(v, m) == Shift(AsPolynomial(v, v.init, v.width), 8 * Len(m))
Splits(v, m, n) ==
    /\ Dividend(v, m) = SymDiff(Pieces(v, m), Preset(v, m))
    /\ Pieces(v, m) \in SUBSET Int /\ Preset(v, m) \in SUBSET Int
    /\ \A e \in Int : e \in Pieces(v, m) <=>
         \E i \in 1 .. n : e - (v.width + 8 * (n - i)) \in AsPolynomial(v, Bits(m[i]), 8)
    /\ \A e \in Int : e \in Preset(v, m) <=> e - 8 * n \in AsPolynomial(v, v.init, v.width)
LEMMA PiecesAre ==
  ASSUME NEW v, IsVariant(v), NEW m \in Seq(Byte)
  PROVE  Splits(v, m, Len(m))
  <1>1. v.width \in Int /\ Len(m) \in Nat /\ DOMAIN m = 1 .. Len(m) /\ v.init \in Words(v) /\ Words(v) \in SUBSET (SUBSET Int)
    BY DEF IsVariant, Words
  <1>2. \A n \in 1 .. Len(m) : /\ Piece(v, m, n) \in SUBSET Int
                               /\ \A e \in Int : e \in Piece(v, m, n) <=>
                                    e - (v.width + 8 * (Len(m) - n)) \in AsPolynomial(v, Bits(m[n]), 8)
    <2> TAKE n \in 1 .. Len(m)
    <2>1. AsPolynomial(v, Bits(m[n]), 8) \in SUBSET Int
      BY Indexes, ByteMirror
    <2>2. v.width + 8 * (Len(m) - n) \in Int
      BY <1>1
    <2> QED
      BY <2>1, <2>2, InShift DEF Piece
  <1>3. /\ Preset(v, m) \in SUBSET Int
        /\ \A e \in Int : e \in Preset(v, m) <=> e - 8 * Len(m) \in AsPolynomial(v, v.init, v.width)
    <2>1. AsPolynomial(v, v.init, v.width) \in SUBSET Int /\ 8 * Len(m) \in Int
      BY <1>1, WordMirror
    <2> QED
      BY <2>1, InShift DEF Preset
  <1>4. Pieces(v, m) \in SUBSET Int /\ \A e : e \in Pieces(v, m) <=> \E n \in 1 .. Len(m) : e \in Piece(v, m, n)
    <2>1. \A e : e \in Pieces(v, m) <=> \E n \in 1 .. Len(m) : e \in Piece(v, m, n)
      <3>1. Pieces(v, m) = UNION {Piece(v, m, n) : n \in 1 .. Len(m)}
        BY <1>1 DEF Pieces
      <3> QED
        BY <3>1, Zenon
    <2>2. \A e : e \in Pieces(v, m) => e \in Int
      BY <1>2, <2>1
    <2> QED
      BY <2>1, <2>2
  <1>5. Dividend(v, m) = SymDiff(Pieces(v, m), Preset(v, m))
    BY DEF Dividend, Pieces, Piece, Preset
  <1> QED
    BY <1>2, <1>3, <1>4, <1>5 DEF Splits

LEMMA DividendGrows ==
  ASSUME NEW v, IsVariant(v), NEW m \in Seq(Byte), NEW p \in Byte
  PROVE  Dividend(v, Append(m, p)) = SymDiff(Shift(Dividend(v, m), 8), Shift(AsPolynomial(v, Bits(p), 8), v.width))
  <1> DEFINE W == v.width
             L == Len(m)
             l == Append(m, p)
             b == AsPolynomial(v, Bits(p), 8)
             B(n) == AsPolynomial(v, Bits(m[n]), 8)
             D == Dividend(v, m)
             J == AsPolynomial(v, v.init, W)
  <1>1. W \in Nat /\ L \in Nat /\ l \in Seq(Byte) /\ Len(l) = L + 1 /\ l[L + 1] = p /\ \A n \in 1 .. L : l[n] = m[n]
    BY DEF IsVariant
  <1>2. b \in SUBSET (0 .. 7) /\ \A n : B(n) \in SUBSET (0 .. 7)
    BY Indexes, ByteMirror
  <1>3. /\ D = SymDiff(Pieces(v, m), Preset(v, m)) /\ Pieces(v, m) \in SUBSET Int /\ Preset(v, m) \in SUBSET Int
        /\ \A e \in Int : e \in Pieces(v, m) <=> \E n \in 1 .. L : e - (W + 8 * (L - n)) \in B(n)
        /\ \A e \in Int : e \in Preset(v, m) <=> e - 8 * L \in J
    BY PiecesAre DEF Splits
  <1>4. Splits(v, l, L + 1)
    <2> HIDE DEF l
    <2> QED
      BY <1>1, PiecesAre
  <1> HIDE DEF W, L, l, b, D, J
  <1>5. ASSUME NEW e \in Int PROVE e \in Pieces(v, l) <=> e - 8 \in Pieces(v, m) \/ e - W \in b
    <2>1. \A n \in 1 .. L : e - (W + 8 * ((L + 1) - n)) = (e - 8) - (W + 8 * (L - n)) /\ AsPolynomial(v, Bits(l[n]), 8) = B(n)
      BY <1>1
    <2>2. e - (W + 8 * ((L + 1) - (L + 1))) = e - W /\ AsPolynomial(v, Bits(l[L + 1]), 8) = b
      BY <1>1 DEF b
    <2>3. e - 8 \in Pieces(v, m) <=> \E n \in 1 .. L : (e - 8) - (W + 8 * (L - n)) \in B(n)
      <3>1. e - 8 \in Int
        OBVIOUS
      <3> HIDE DEF B
      <3> QED
        BY <1>3, <3>1
    <2> DEFINE Z(n) == e - (W + 8 * ((L + 1) - n)) \in AsPolynomial(v, Bits(l[n]), 8)
               Y(n) == (e - 8) - (W + 8 * (L - n)) \in B(n)
    <2>4. (\A n \in 1 .. L : Z(n) <=> Y(n)) /\ (Z(L + 1) <=> e - W \in b)
      BY <2>1, <2>2
    <2>5. e \in Pieces(v, l) <=> \E n \in 1 .. L + 1 : Z(n)
      <3>1. W = v.width
        BY DEF W
      <3>2. \A x \in Int : x \in Pieces(v, l) <=>
               \E n \in 1 .. L + 1 : x - (W + 8 * ((L + 1) - n)) \in AsPolynomial(v, Bits(l[n]), 8)
        BY <1>4, <3>1, Zenon DEF Splits
      <3> QED
        BY <3>2, Zenon
    <2>6. e - 8 \in Pieces(v, m) <=> \E n \in 1 .. L : Y(n)
      BY <2>3
    <2>7. \A n : n \in 1 .. L + 1 <=> n \in 1 .. L \/ n = L + 1
      BY <1>1
    <2> HIDE DEF Z, Y
    <2> QED
      BY <2>4, <2>5, <2>6, <2>7
  <1>6. ASSUME NEW e \in Int, e - 8 \in Pieces(v, m) PROVE e - W \notin b
    <2>1. PICK n \in 1 .. L : (e - 8) - (W + 8 * (L - n)) \in B(n)
      <3>1. e - 8 \in Int
        OBVIOUS
      <3> HIDE DEF B
      <3> QED
        BY <1>3, <1>6, <3>1
    <2>2. \A x \in B(n) : x >= 0
      BY <1>2
    <2>3. (e - 8) - (W + 8 * (L - n)) >= 0
      BY <2>1, <2>2
    <2>4. e - W >= 8
      BY <1>1, <2>3
    <2> QED
      BY <1>1, <1>2, <2>4
  <1>7. D \in SUBSET Int /\ Dividend(v, l) \in SUBSET Int
    BY <1>3, <1>4 DEF SymDiff, Splits
  <1>8. /\ Shift(D, 8) \in SUBSET Int /\ \A e \in Int : e \in Shift(D, 8) <=> e - 8 \in D
        /\ Shift(b, W) \in SUBSET Int /\ \A e \in Int : e \in Shift(b, W) <=> e - W \in b
    <2>1. b \in SUBSET Int /\ W \in Int /\ 8 \in Int
      BY <1>1, <1>2
    <2> QED
      BY <1>7, <2>1, InShift
  <1>9. ASSUME NEW e \in Int PROVE e \in Dividend(v, l) <=> e \in SymDiff(Shift(D, 8), Shift(b, W))
    <2>1. e - 8 \in Int /\ e - 8 * (L + 1) = (e - 8) - 8 * L
      BY <1>1
    <2>2. e \in Preset(v, l) <=> e - 8 \in Preset(v, m)
      <3>1. e \in Preset(v, l) <=> e - 8 * (L + 1) \in J
        BY <1>4 DEF Splits, J, W
      <3>2. e - 8 \in Preset(v, m) <=> (e - 8) - 8 * L \in J
        BY <1>3, <2>1
      <3> QED
        BY <2>1, <3>1, <3>2
    <2>3. e \in Dividend(v, l) <=> (e \in Pieces(v, l) /\ e \notin Preset(v, l)) \/ (e \notin Pieces(v, l) /\ e \in Preset(v, l))
      BY <1>4, InXor DEF Splits
    <2>4. e - 8 \in D <=> (e - 8 \in Pieces(v, m) /\ e - 8 \notin Preset(v, m)) \/ (e - 8 \notin Pieces(v, m) /\ e - 8 \in Preset(v, m))
      BY <1>3, InXor
    <2>5. e \in SymDiff(Shift(D, 8), Shift(b, W)) <=> (e - 8 \in D /\ e - W \notin b) \/ (e - 8 \notin D /\ e - W \in b)
      <3> DEFINE X == Shift(D, 8)
                 Y == Shift(b, W)
      <3>1. e \in SymDiff(X, Y) <=> (e \in X /\ e \notin Y) \/ (e \notin X /\ e \in Y)
        <4> HIDE DEF X, Y
        <4> QED
          BY InXor
      <3>2. (e \in X <=> e - 8 \in D) /\ (e \in Y <=> e - W \in b)
        BY <1>8
      <3> QED
        BY <3>1, <3>2
    <2> QED
      BY <1>5, <1>6, <2>2, <2>3, <2>4, <2>5
  <1>10. SymDiff(Shift(D, 8), Shift(b, W)) \in SUBSET Int
    BY <1>8 DEF SymDiff
  <1>11. Dividend(v, l) = SymDiff(Shift(D, 8), Shift(b, W))
    BY <1>7, <1>9, <1>10
  <1> QED
    BY <1>11 DEF W, l, b, D

LEMMA NothingFed ==
  ASSUME NEW v, IsVariant(v)
  PROVE  AsPolynomial(v, v.init, v.width) = Modulo(Dividend(v, <<>>), Generator(v), v.width, 0)
  <1> DEFINE J == AsPolynomial(v, v.init, v.width)
  <1>1. J \in SUBSET Int /\ v.width \in Int
    BY WordMirror DEF IsVariant, Words
  <1>2. Dividend(v, <<>>) = J
    <2>1. <<>> \in Seq(Byte) /\ Len(<<>>) = 0 /\ 8 * 0 = 0
      OBVIOUS
    <2>2. /\ Dividend(v, <<>>) = SymDiff(Pieces(v, <<>>), Preset(v, <<>>))
          /\ Pieces(v, <<>>) \in SUBSET Int /\ Preset(v, <<>>) \in SUBSET Int
          /\ \A e \in Int : e \notin Pieces(v, <<>>)
          /\ \A e \in Int : e \in Preset(v, <<>>) <=> e - 0 \in J
      <3>1. Splits(v, <<>>, 0)
        BY <2>1, PiecesAre
      <3> QED
        BY <2>1, <3>1 DEF Splits
    <2>3. \A e \in Int : e - 0 = e
      OBVIOUS
    <2>4. Pieces(v, <<>>) = {} /\ Preset(v, <<>>) = J
      BY <1>1, <2>2, <2>3
    <2> QED
      BY <2>2, <2>4 DEF SymDiff
  <1>3. \E f : Divides(f, J, Generator(v), v.width, 0)
    BY <1>1, GeneratorIs, Division
  <1> QED
    BY <1>2, <1>3 DEF Divides

(* What an accumulator is worth: the remainder of what was fed so far.     *)
Runs(v, w, m) ==
    /\ w \in Words(v)
    /\ AsPolynomial(v, w, v.width) = Modulo(Dividend(v, m), Generator(v), v.width, 8 * Len(m))
LEMMA OneMore ==
  ASSUME NEW v, IsVariant(v), NEW m \in Seq(Byte), NEW w, Runs(v, w, m), NEW p \in Byte,
         filled[v] \in Nat, filled[v] >= TableSize
  PROVE  Runs(v, Next8(v, w, p), Append(m, p))
  <1> DEFINE R == AsPolynomial(v, w, v.width)
             b == AsPolynomial(v, Bits(p), 8)
             D == Dividend(v, m)
             n == 8 * Len(m)
  <1>1. w \in Words(v) /\ R \in Words(v) /\ b \in SUBSET (0 .. 7) /\ n \in Nat
    <2>1. w \in Words(v)
      BY DEF Runs
    <2> QED
      BY <2>1, WordMirror, ByteMirror, Indexes
  <1>2. R = Modulo(D, Generator(v), v.width, n)
    BY DEF Runs
  <1>3. D \in SUBSET Int
    <2>1. Splits(v, m, Len(m))
      BY PiecesAre
    <2> QED
      BY <2>1 DEF Splits, SymDiff
  <1>4. /\ Next8(v, w, p) \in Words(v)
        /\ \E T : /\ UpRounds(T, v, SymDiff(Down(R, v.width - 8), b))
                  /\ AsPolynomial(v, Next8(v, w, p), v.width) = SymDiff(Up(v, R, 8), T[8])
    BY <1>1, FeedIs
  <1> HIDE DEF R, b, D, n
  <1>5. PICK T : /\ UpRounds(T, v, SymDiff(Down(R, v.width - 8), b))
                 /\ AsPolynomial(v, Next8(v, w, p), v.width) = SymDiff(Up(v, R, 8), T[8])
    BY <1>4
  <1>6. Modulo(SymDiff(Shift(D, 8), Shift(b, v.width)), Generator(v), v.width, n + 8) = SymDiff(Up(v, R, 8), T[8])
    BY <1>1, <1>2, <1>3, <1>5, NextByte
  <1>7. Dividend(v, Append(m, p)) = SymDiff(Shift(D, 8), Shift(b, v.width)) /\ 8 * Len(Append(m, p)) = n + 8
    BY DividendGrows DEF D, b, n
  <1> QED
    BY <1>4, <1>5, <1>6, <1>7 DEF Runs

LEMMA Ends ==
  ASSUME NEW v, IsVariant(v), NEW m, NEW w, Runs(v, w, m)
  PROVE  SymDiff(w, v.xorout) = CrcOf(v, m)
  BY WordMirror DEF Runs, CrcOf

-----------------------------------------------------------------------------
(* The inductive invariant: a flag is set only on a whole table, bytes are *)
(* fed only after a set flag, and every accumulator in use is what the     *)
(* definition asks for.                                                    *)
CrcTypes ==
    /\ ready \in [Variants -> BOOLEAN] /\ filled \in [Variants -> Nat]
    /\ doing \in [Caller -> {"idle", "build", "open", "bytes", "done"}]
    /\ variant \in [Caller -> Variants] /\ pos \in [Caller -> Nat]
    /\ acc \in [Caller -> SUBSET Nat] /\ eaten \in [Caller -> Seq(Byte)]
WholeWhenReady == \A v \in Variants : ready[v] => filled[v] >= TableSize
ReadyWhenFed == \A t \in Caller : doing[t] = "bytes" => ready[variant[t]]
AccIsRemainder == \A t \in Caller : doing[t] \in {"build", "open", "bytes"} => Runs(variant[t], acc[t], eaten[t])
CrcInv == CrcTypes /\ WholeWhenReady /\ ReadyWhenFed /\ AccIsRemainder /\ DigestIsCrc

LEMMA CrcStarts == CrcInit => CrcInv
  BY DEF CrcInit, CrcInv, CrcTypes, WholeWhenReady, ReadyWhenFed, AccIsRemainder, DigestIsCrc

LEMMA WordsAreSets ==
  \A v : IsVariant(v) => \A w \in Words(v) : w \in SUBSET Nat
  BY DEF IsVariant, Words

LEMMA OpenKeeps ==
  ASSUME CrcInv, NEW t \in Caller, Open(t)
  PROVE  CrcInv'
  <1>1. PICK v \in Variants : /\ variant' = [variant EXCEPT ![t] = v]
                              /\ acc' = [acc EXCEPT ![t] = v.init]
                              /\ doing' = [doing EXCEPT ![t] = IF ready[v] THEN "open" ELSE "build"]
                              /\ eaten' = [eaten EXCEPT ![t] = <<>>]
                              /\ UNCHANGED <<ready, filled, pos>>
    BY DEF Open, IfReady, Move
  <1>2. IsVariant(v) /\ v.init \in Words(v) /\ v.init \in SUBSET Nat
    BY VariantsAre, WordsAreSets DEF IsVariant
  <1>3. CrcTypes'
    BY <1>1, <1>2 DEF CrcInv, CrcTypes
  <1>4. Runs(v, v.init, <<>>)
    BY <1>2, NothingFed DEF Runs
  <1>5. AccIsRemainder'
    BY <1>1, <1>4 DEF CrcInv, CrcTypes, AccIsRemainder
  <1>6. WholeWhenReady' /\ ReadyWhenFed' /\ DigestIsCrc'
    BY <1>1 DEF CrcInv, CrcTypes, WholeWhenReady, ReadyWhenFed, DigestIsCrc
  <1> QED
    BY <1>3, <1>5, <1>6 DEF CrcInv

LEMMA BuildKeeps ==
  ASSUME CrcInv, NEW t \in Caller, Build(t)
  PROVE  CrcInv'
  <1> DEFINE v == variant[t]
             n == pos[t] + Stride
  <1>1. v \in Variants /\ n \in Nat /\ n % TableSize \in Nat
    BY CrcAssumption DEF CrcInv, CrcTypes, CrcAssumption, TableSize
  <1>2. /\ doing[t] = "build" /\ UNCHANGED <<variant, acc, eaten>>
        /\ filled' = [filled EXCEPT ![v] = IF @ > n THEN @ ELSE n]
        /\ ready' = [ready EXCEPT ![v] = @ \/ n = TableSize]
        /\ pos' = [pos EXCEPT ![t] = n % TableSize]
        /\ doing' = [doing EXCEPT ![t] = IF n = TableSize THEN "open" ELSE "build"]
    BY DEF Build, Move, Published, CrcInv, CrcTypes
  <1> HIDE DEF v, n
  <1>3. CrcTypes'
    BY <1>1, <1>2 DEF CrcInv, CrcTypes
  <1>4. WholeWhenReady'
    BY <1>1, <1>2 DEF CrcInv, CrcTypes, WholeWhenReady, TableSize
  <1>5. ReadyWhenFed' /\ AccIsRemainder' /\ DigestIsCrc'
    BY <1>1, <1>2 DEF CrcInv, CrcTypes, ReadyWhenFed, AccIsRemainder, DigestIsCrc
  <1> QED
    BY <1>3, <1>4, <1>5 DEF CrcInv

LEMMA FeedKeeps ==
  ASSUME CrcInv, NEW t \in Caller, Feed(t)
  PROVE  CrcInv'
  <1> DEFINE v == variant[t]
  <1>1. PICK p \in Byte : /\ acc' = [acc EXCEPT ![t] = Next8(v, @, p)]
                          /\ eaten' = [eaten EXCEPT ![t] = Append(@, p)]
                          /\ doing[t] = "bytes" /\ UNCHANGED <<ready, filled, doing, variant, pos>>
    BY DEF Feed, Next8
  <1>2. v \in Variants /\ IsVariant(v) /\ filled[v] \in Nat /\ filled[v] >= TableSize /\ eaten[t] \in Seq(Byte)
        /\ Runs(v, acc[t], eaten[t])
    BY <1>1, VariantsAre DEF CrcInv, CrcTypes, WholeWhenReady, ReadyWhenFed, AccIsRemainder
  <1>3. Runs(v, Next8(v, acc[t], p), Append(eaten[t], p))
    BY <1>2, OneMore
  <1>4. Next8(v, acc[t], p) \in SUBSET Nat
    BY <1>2, <1>3, WordsAreSets DEF Runs
  <1> HIDE DEF v
  <1>5. CrcTypes'
    BY <1>1, <1>2, <1>4 DEF CrcInv, CrcTypes
  <1>6. AccIsRemainder'
    BY <1>1, <1>3 DEF CrcInv, CrcTypes, AccIsRemainder, v
  <1>7. WholeWhenReady' /\ ReadyWhenFed' /\ DigestIsCrc'
    BY <1>1 DEF CrcInv, CrcTypes, WholeWhenReady, ReadyWhenFed, DigestIsCrc
  <1> QED
    BY <1>5, <1>6, <1>7 DEF CrcInv

LEMMA FinalKeeps ==
  ASSUME CrcInv, NEW t \in Caller, Final(t)
  PROVE  CrcInv'
  <1> DEFINE v == variant[t]
  <1>1. /\ doing[t] = "open" /\ acc' = [acc EXCEPT ![t] = SymDiff(@, v.xorout)]
        /\ doing' = [doing EXCEPT ![t] = "done"] /\ UNCHANGED <<ready, filled, variant, pos, eaten>>
    BY DEF Final, Move
  <1>2. v \in Variants /\ IsVariant(v) /\ Runs(v, acc[t], eaten[t])
    BY <1>1, VariantsAre DEF CrcInv, CrcTypes, AccIsRemainder
  <1>3. SymDiff(acc[t], v.xorout) = CrcOf(v, eaten[t])
    BY <1>2, Ends
  <1>4. SymDiff(acc[t], v.xorout) \in SUBSET Nat
    BY <1>2, WordsAreSets DEF Runs, IsVariant, SymDiff
  <1> HIDE DEF v
  <1>5. CrcTypes'
    BY <1>1, <1>4 DEF CrcInv, CrcTypes
  <1>6. DigestIsCrc'
    BY <1>1, <1>3 DEF CrcInv, CrcTypes, DigestIsCrc, v
  <1>7. WholeWhenReady' /\ ReadyWhenFed' /\ AccIsRemainder'
    BY <1>1 DEF CrcInv, CrcTypes, WholeWhenReady, ReadyWhenFed, AccIsRemainder
  <1> QED
    BY <1>5, <1>6, <1>7 DEF CrcInv

LEMMA CallsKeep ==
  ASSUME CrcInv, NEW t \in Caller, Update(t) \/ EndUpdate(t) \/ Again(t)
  PROVE  CrcInv'
  <1>1. /\ UNCHANGED <<ready, filled, variant, pos, acc, eaten>>
        /\ \E where : /\ doing' = [doing EXCEPT ![t] = where]
                      /\ \/ doing[t] \in {"open", "bytes"} /\ where \in {"build", "open"}
                         \/ doing[t] = "open" /\ where = "bytes" /\ ready[variant[t]]
                         \/ where = "idle"
    BY DEF Update, EndUpdate, Again, IfReady, Move
  <1> QED
    BY <1>1 DEF CrcInv, CrcTypes, WholeWhenReady, ReadyWhenFed, AccIsRemainder, DigestIsCrc

LEMMA CrcKeeps == CrcInv /\ [CrcNext]_crcVars => CrcInv'
  <1> SUFFICES ASSUME CrcInv, [CrcNext]_crcVars PROVE CrcInv'
    OBVIOUS
  <1>1. CASE CrcNext
    BY <1>1, OpenKeeps, BuildKeeps, FeedKeeps, FinalKeeps, CallsKeep DEF CrcNext
  <1>2. CASE UNCHANGED crcVars
    BY <1>2 DEF crcVars, CrcInv, CrcTypes, WholeWhenReady, ReadyWhenFed, AccIsRemainder, DigestIsCrc
  <1> QED
    BY <1>1, <1>2

(* Every digest of embediq_crcN_final() is the CRC of what was fed, for    *)
(* any number of callers, any messages and any interleaving of the calls   *)
(* with the building of the tables.                                        *)
THEOREM DigestsAre == CrcSpec => []DigestIsCrc
  <1>1. CrcInv => DigestIsCrc
    BY DEF CrcInv
  <1> QED
    BY CrcStarts, CrcKeeps, <1>1, PTL DEF CrcSpec

-----------------------------------------------------------------------------
(* The state machine: the row that is taken                                *)

(* The row a machine takes: the first of its table that fits.              *)
Fits(r, s, event, holds) == r.from = s /\ r.event = event /\ r.guard \in holds \cup {"always"}

(* embediq_sm_process() takes the first row that fits, if there is one.    *)
LEMMA FirstIs ==
  ASSUME NEW rows, NEW n \in Nat, Len(rows) = n, NEW s, NEW event, NEW holds, NEW k,
         k = FirstMatch(rows, s, event, holds)
  PROVE  \/ k = 0 /\ \A i \in 1 .. n : ~Fits(rows[i], s, event, holds)
         \/ /\ k \in 1 .. n /\ Fits(rows[k], s, event, holds)
            /\ \A i \in 1 .. k - 1 : ~Fits(rows[i], s, event, holds)
  <1> DEFINE I == {i \in 1 .. n : Fits(rows[i], s, event, holds)}
  <1>1. k = IF I # {} THEN Min(I) ELSE 0
    BY DEF FirstMatch, SelectInSeq, Fits
  <1>2. I \in SUBSET Nat
    OBVIOUS
  <1>3. CASE I = {}
    BY <1>1, <1>3
  <1>4. CASE I # {}
    <2>1. \E i \in I : \A f \in I : i <= f
      BY <1>2, <1>4, LeastOf
    <2>2. k \in I /\ \A f \in I : k <= f
      <3> HIDE DEF I
      <3> QED
        BY <1>1, <1>4, <2>1, Zenon DEF Min
    <2>3. \A i \in 1 .. k - 1 : i \notin I /\ i \in 1 .. n
      BY <2>2
    <2> QED
      BY <2>2, <2>3
  <1> QED
    BY <1>3, <1>4

-----------------------------------------------------------------------------
(* The thermostat                                                          *)

Modes == {"NORMAL", "WARNING", "CRITICAL"}

ThermoInv ==
    /\ temp \in Int /\ step \in Int /\ reports \in Seq(Int) /\ peak \in Int
    /\ mode \in Modes
    /\ ModeFitsReadings

(* The table of the controller, for one reading.                           *)
LEMMA Controlling ==
  ASSUME NEW m \in Modes, NEW t \in Int, NEW k, k = FirstMatch(CtrlTable, m, "TEMP", GuardsOf(t))
  PROVE  /\ m = "NORMAL" => k = IF t > Warn THEN 1 ELSE 0
         /\ m = "WARNING" => k = IF t > Critical THEN 2 ELSE 0
         /\ m = "CRITICAL" => k = IF t < Calm THEN 3 ELSE 0
  <1> DEFINE G == GuardsOf(t)
  <1>1. /\ "above_75" \in G <=> t > Warn
        /\ "above_85" \in G <=> t > Critical
        /\ "below_70" \in G <=> t < Calm
    BY DEF GuardsOf
  <1> HIDE DEF G
  <1>2. /\ Fits(CtrlTable[1], m, "TEMP", G) <=> m = "NORMAL" /\ t > Warn
        /\ Fits(CtrlTable[2], m, "TEMP", G) <=> m = "WARNING" /\ t > Critical
        /\ Fits(CtrlTable[3], m, "TEMP", G) <=> m = "CRITICAL" /\ t < Calm
    BY <1>1 DEF Fits, CtrlTable
  <1>3. Len(CtrlTable) = 3
    BY DEF CtrlTable
  <1>4. \/ k = 0 /\ \A i \in 1 .. 3 : ~Fits(CtrlTable[i], m, "TEMP", G)
        \/ k \in 1 .. 3 /\ Fits(CtrlTable[k], m, "TEMP", G)
    <2>1. k = FirstMatch(CtrlTable, m, "TEMP", G)
      BY DEF G
    <2>2. 3 \in Nat
      OBVIOUS
    <2> QED
      BY <1>3, <2>1, <2>2, FirstIs, Zenon
  <1> QED
    BY <1>2, <1>4

(* ctrl_run() and s_ctrl_table: whichever readings are lost, the mode of   *)
(* the thermostat is what the readings since the last low one call for.    *)
THEOREM ModeFits == ThermoSpec => []ModeFitsReadings
  <1>0. {Cold, Hot, Pace, Warn, Critical, Calm} \subseteq Int /\ Cold <= Warn /\ Calm <= Warn /\ Warn <= Critical
    BY ThermostatAssumption DEF ThermostatAssumption
  <1>1. ThermoInit => ThermoInv
    BY <1>0, EmptySeq DEF ThermoInit, SensorInit, ControllerInit, ThermoInv, Modes, ModeFitsReadings
  <1>2. ThermoInv /\ [ThermoNext]_thermoVars => ThermoInv'
    <2> SUFFICES ASSUME ThermoInv, [ThermoNext]_thermoVars PROVE ThermoInv'
      OBVIOUS
    <2>1. CASE Beat
      BY <2>1 DEF Beat, ThermoInv, ModeFitsReadings
    <2>2. CASE SensorTick
      <3>1. temp' \in Int /\ step' \in Int
        BY <1>0, <2>2 DEF SensorTick, ThermoInv, Turned
      <3>2. reports' \in Seq(Int)
        <4> DEFINE q == IF Len(reports) = QueueDepth THEN Tail(reports) ELSE reports
        <4>1. QueueDepth \in Nat \ {0} /\ reports \in Seq(Int)
          BY ThermostatAssumption DEF ThermostatAssumption, ThermoInv
        <4>2. q \in Seq(Int)
          BY <4>1
        <4> HIDE DEF q
        <4>3. reports' = Append(q, temp') \/ reports' = reports
          BY <2>2 DEF SensorTick, Reported, q
        <4>4. Append(q, temp') \in Seq(Int)
          BY <3>1, <4>2, AppendProperties
        <4> QED
          BY <4>1, <4>3, <4>4, Zenon
      <3> QED
        BY <2>2, <3>1, <3>2 DEF SensorTick, ThermoInv, ModeFitsReadings
    <2>3. CASE CtrlRun
      <3> DEFINE t == Head(reports)
      <3>1. t \in Int /\ reports' \in Seq(Int)
        BY <2>3 DEF CtrlRun, ThermoInv
      <3> PICK k : k = FirstMatch(CtrlTable, mode, "TEMP", GuardsOf(t))
        OBVIOUS
      <3>2. /\ mode' = IF k = 0 THEN mode ELSE CtrlTable[k].to
            /\ shown' = IF k = 0 THEN shown ELSE CtrlTable[k].to
            /\ peak' = IF t < Calm \/ t > peak THEN t ELSE peak
            /\ UNCHANGED <<temp, step>>
        BY <2>3 DEF CtrlRun, NextState, Entered
      <3> HIDE DEF t
      <3>3. /\ mode = "NORMAL" => k = IF t > Warn THEN 1 ELSE 0
            /\ mode = "WARNING" => k = IF t > Critical THEN 2 ELSE 0
            /\ mode = "CRITICAL" => k = IF t < Calm THEN 3 ELSE 0
        BY <3>1, Controlling DEF ThermoInv
      <3>4. /\ mode' = CASE mode = "NORMAL" -> IF t > Warn THEN "WARNING" ELSE mode
                        [] mode = "WARNING" -> IF t > Critical THEN "CRITICAL" ELSE mode
                        [] mode = "CRITICAL" -> IF t < Calm THEN "NORMAL" ELSE mode
            /\ shown' = mode'
        BY <3>2, <3>3 DEF ThermoInv, Modes, ModeFitsReadings, CtrlTable
      <3> QED
        BY <1>0, <3>1, <3>2, <3>4 DEF ThermoInv, Modes, ModeFitsReadings
    <2>4. CASE UNCHANGED thermoVars
      BY <2>4 DEF thermoVars, ThermoInv, ModeFitsReadings
    <2> QED
      BY <2>1, <2>2, <2>3, <2>4 DEF ThermoNext
  <1>3. ThermoInv => ModeFitsReadings
    BY DEF ThermoInv
  <1> QED
    BY <1>1, <1>2, <1>3, PTL DEF ThermoSpec

-----------------------------------------------------------------------------
(* The gateway                                                             *)

TelemetryMsg == [kind : {"telemetry"}, sensor : Sensor, seq : Nat]
AlertMsg == [kind : {"alert"}, sensor : Sensor, active : BOOLEAN, threshold : Int]
ReadingMsg == [kind : {"reading"}, sensor : Sensor, value : Int]
TickMsg == [kind : {"tick"}]

(* What is where; the buffer is empty while the link is up, as the row     *)
(* that brings it up flushes it.                                           *)
GatewayTypes ==
    /\ polls \in Nat /\ readings \in Seq(ReadingMsg)
    /\ active \in [Sensor -> BOOLEAN] /\ counter \in [Sensor -> 0 .. 1]
    /\ seq \in [Sensor -> Nat]
    /\ normal \in Seq(TickMsg \cup TelemetryMsg) /\ urgent \in Seq(AlertMsg)
    /\ state = conn /\ buffer \in Seq(TelemetryMsg)
    /\ cloud \in Seq(TelemetryMsg \cup AlertMsg)
    /\ Online => buffer = <<>>

(* The telemetry of sensor s in r comes from places of q that are in the   *)
(* same order.                                                             *)
ComesFrom(r, q, s, f) ==
    \A i \in 1 .. Len(r) : IsTelemetry(r[i], s) =>
        /\ f[i] \in 1 .. Len(q) /\ r[i] = q[f[i]]
        /\ \A j \in 1 .. i - 1 : IsTelemetry(r[j], s) => f[j] < f[i]

(* Then it ascends in r if it does in q.                                   *)
LEMMA Thinned ==
  ASSUME NEW S, NEW q \in Seq(S), NEW r \in Seq(S),
         NEW s, NEW lo, NEW hi, Ascends(q, s, lo, hi), NEW f, ComesFrom(r, q, s, f)
  PROVE  Ascends(r, s, lo, hi)
  <1> DEFINE n == Len(q)
             k == Len(r)
  <1>0. n \in Nat /\ k \in Nat /\ DOMAIN q = 1 .. n /\ DOMAIN r = 1 .. k
    OBVIOUS
  <1>5. \A i \in 1 .. k : IsTelemetry(r[i], s) =>
            /\ f[i] \in 1 .. n /\ r[i] = q[f[i]]
            /\ \A j \in 1 .. i - 1 : IsTelemetry(r[j], s) => f[j] < f[i]
    BY DEF ComesFrom
  <1> HIDE DEF n, k
  <1> SUFFICES ASSUME NEW i \in 1 .. k, IsTelemetry(r[i], s)
               PROVE  /\ r[i].seq \in lo .. hi - 1
                      /\ \A j \in 1 .. i - 1 : IsTelemetry(r[j], s) => r[j].seq < r[i].seq
    BY <1>0 DEF Ascends
  <1>1. f[i] \in 1 .. n /\ r[i] = q[f[i]] /\ IsTelemetry(q[f[i]], s)
    BY <1>5
  <1>2. r[i].seq \in lo .. hi - 1
    BY <1>0, <1>1 DEF Ascends
  <1>3. ASSUME NEW j \in 1 .. i - 1, IsTelemetry(r[j], s) PROVE r[j].seq < r[i].seq
    <2>1. j \in 1 .. k
      BY <1>0
    <2>2. f[j] \in 1 .. n /\ r[j] = q[f[j]] /\ f[j] < f[i]
      BY <1>3, <1>5, <2>1
    <2>3. f[j] \in 1 .. f[i] - 1
      BY <1>0, <1>1, <2>2
    <2> QED
      BY <1>0, <1>1, <1>3, <2>2, <2>3 DEF Ascends
  <1> QED
    BY <1>2, <1>3

(* The next message of a sensor joins at the end.                          *)
LEMMA Joins ==
  ASSUME NEW S, NEW q \in Seq(S), NEW m \in S, NEW s, NEW hi \in Nat, Ascends(q, s, 0, hi)
  PROVE  /\ IsTelemetry(m, s) /\ m.seq = hi => Ascends(Append(q, m), s, 0, hi + 1)
         /\ ~IsTelemetry(m, s) => Ascends(Append(q, m), s, 0, hi)
  <1> DEFINE r == Append(q, m)
             n == Len(q)
  <1>1. /\ n \in Nat /\ DOMAIN r = 1 .. n + 1 /\ r[n + 1] = m /\ DOMAIN q = 1 .. n
        /\ \A i \in 1 .. n : r[i] = q[i]
    BY AppendProperties
  <1>2. \A i \in 1 .. n : IsTelemetry(q[i], s) => q[i].seq \in 0 .. hi - 1
    BY <1>1 DEF Ascends
  <1> HIDE DEF r, n
  <1>3. ASSUME NEW i \in 1 .. n, IsTelemetry(r[i], s)
        PROVE  /\ r[i].seq \in 0 .. hi - 1
               /\ \A j \in 1 .. i - 1 : IsTelemetry(r[j], s) => r[j].seq < r[i].seq
    <2>1. \A j \in 1 .. i - 1 : j \in 1 .. n
      BY <1>1
    <2> QED
      BY <1>1, <1>3, <2>1 DEF Ascends
  <1>4. ASSUME IsTelemetry(m, s), m.seq = hi PROVE Ascends(r, s, 0, hi + 1)
    <2> SUFFICES ASSUME NEW i \in 1 .. n + 1, IsTelemetry(r[i], s)
                 PROVE  /\ r[i].seq \in 0 .. (hi + 1) - 1
                        /\ \A j \in 1 .. i - 1 : IsTelemetry(r[j], s) => r[j].seq < r[i].seq
      BY <1>1 DEF Ascends
    <2>1. CASE i \in 1 .. n
      BY <1>3, <2>1
    <2>2. CASE i = n + 1
      BY <1>1, <1>2, <1>4, <2>2
    <2> QED
      BY <1>1, <2>1, <2>2
  <1>5. ASSUME ~IsTelemetry(m, s) PROVE Ascends(r, s, 0, hi)
    <2> SUFFICES ASSUME NEW i \in 1 .. n + 1, IsTelemetry(r[i], s)
                 PROVE  /\ r[i].seq \in 0 .. hi - 1
                        /\ \A j \in 1 .. i - 1 : IsTelemetry(r[j], s) => r[j].seq < r[i].seq
      BY <1>1 DEF Ascends
    <2>1. i # n + 1
      BY <1>1, <1>5
    <2> QED
      BY <1>1, <1>3, <2>1
  <1> QED
    BY <1>4, <1>5 DEF r

(* The oldest messages make room.                                          *)
LEMMA NewestIs ==
  ASSUME NEW S, NEW q \in Seq(S)
  PROVE  /\ Newest(q) \in Seq(S) /\ Len(Newest(q)) <= Len(q)
         /\ \A i \in 1 .. Len(Newest(q)) : Newest(q)[i] = q[i + (Len(q) - Len(Newest(q)))]
  <1>1. NormalDepth \in Nat \ {0}
    BY GatewayAssumption DEF GatewayAssumption
  <1>2. CASE Len(q) <= NormalDepth
    BY <1>2 DEF Newest
  <1>3. CASE ~(Len(q) <= NormalDepth)
    <2> DEFINE r == SubSeq(q, Len(q) - NormalDepth + 1, Len(q))
    <2>1. r \in Seq(S) /\ Len(r) = NormalDepth
      BY <1>1, <1>3, SubSeqProperties
    <2>2. \A i \in 1 .. NormalDepth : r[i] = q[(Len(q) - NormalDepth + 1) + i - 1]
      BY <1>1, <1>3, SubSeqProperties
    <2>3. Newest(q) = r
      BY <1>3 DEF Newest
    <2> HIDE DEF r
    <2> QED
      BY <1>1, <1>3, <2>1, <2>2, <2>3
  <1> QED
    BY <1>2, <1>3

(* Two ways to the same sequence.                                          *)
LEMMA Rebracketed ==
  ASSUME NEW S, NEW a \in Seq(S), NEW q \in Seq(S)
  PROVE  /\ \A m \in S : a \o Append(q, m) = Append(a \o q, m)
         /\ \A b \in Seq(S) : (a \o b) \o q = a \o (b \o q)
         /\ q # <<>> => Append(a, Head(q)) \o Tail(q) = a \o q
         /\ a \o <<>> = a
  <1>1. ASSUME NEW m \in S PROVE a \o Append(q, m) = Append(a \o q, m)
    <2>1. /\ a \o Append(q, m) \in Seq(S) /\ Append(a \o q, m) \in Seq(S)
          /\ Len(a \o Append(q, m)) = Len(Append(a \o q, m))
      BY AppendProperties, ConcatProperties
    <2> DEFINE x == a \o Append(q, m)
               y == Append(a \o q, m)
    <2>2. ASSUME NEW i \in 1 .. Len(a) + Len(q) + 1 PROVE x[i] = y[i]
      <3>1. /\ Append(q, m) \in Seq(S) /\ Len(Append(q, m)) = Len(q) + 1
            /\ \A j \in 1 .. Len(q) : Append(q, m)[j] = q[j]
            /\ Append(q, m)[Len(q) + 1] = m
        BY AppendProperties
      <3>2. /\ a \o q \in Seq(S) /\ Len(a \o q) = Len(a) + Len(q)
            /\ \A j \in 1 .. Len(a) + Len(q) :
                 (a \o q)[j] = IF j <= Len(a) THEN a[j] ELSE q[j - Len(a)]
        BY ConcatProperties
      <3>3. x[i] = IF i <= Len(a) THEN a[i] ELSE Append(q, m)[i - Len(a)]
        BY <3>1, ConcatProperties
      <3>4. y[i] = IF i <= Len(a \o q) THEN (a \o q)[i] ELSE m
        <4> DEFINE z == a \o q
        <4>1. z \in Seq(S) /\ Len(z) = Len(a) + Len(q)
          BY <3>2
        <4> HIDE DEF z
        <4>2. \A j \in 1 .. Len(z) : Append(z, m)[j] = z[j]
          BY <4>1, AppendProperties
        <4>3. Append(z, m)[Len(z) + 1] = m
          BY <4>1, AppendProperties
        <4>4. Append(z, m)[i] = IF i <= Len(z) THEN z[i] ELSE m
          BY <4>1, <4>2, <4>3
        <4> QED
          BY <4>4 DEF z
      <3> HIDE DEF x, y
      <3>5. CASE i = Len(a) + Len(q) + 1
        <4>1. i - Len(a) = Len(q) + 1 /\ ~(i <= Len(a)) /\ ~(i <= Len(a) + Len(q))
          BY <3>5
        <4> QED
          BY <3>1, <3>2, <3>3, <3>4, <4>1
      <3>6. CASE i # Len(a) + Len(q) + 1
        <4>1. i \in 1 .. Len(a) + Len(q) /\ (~(i <= Len(a)) => i - Len(a) \in 1 .. Len(q))
          BY <3>6
        <4> QED
          BY <3>1, <3>2, <3>3, <3>4, <4>1
      <3> QED
        BY <3>5, <3>6
    <2>3. Len(a \o Append(q, m)) = Len(a) + Len(q) + 1
      BY AppendProperties, ConcatProperties
    <2>4. \A i \in 1 .. Len(a \o Append(q, m)) : (a \o Append(q, m))[i] = Append(a \o q, m)[i]
      BY <2>2, <2>3
    <2> QED
      BY <2>1, <2>4, SeqEqual
  <1>2. ASSUME NEW b \in Seq(S) PROVE (a \o b) \o q = a \o (b \o q)
    BY ConcatAssociative
  <1>3. ASSUME q # <<>> PROVE Append(a, Head(q)) \o Tail(q) = a \o q
    <2>1. Tail(q) \in Seq(S) /\ Append(a, Head(q)) \in Seq(S)
      BY <1>3
    <2>2. Len(Append(a, Head(q)) \o Tail(q)) = Len(a \o q)
      BY <1>3, <2>1, ConcatProperties
    <2>3. \A i \in 1 .. Len(a \o q) : (Append(a, Head(q)) \o Tail(q))[i] = (a \o q)[i]
      BY <1>3, <2>1, ConcatProperties
    <2> QED
      BY <2>1, <2>2, <2>3, SeqEqual, ConcatProperties
  <1> QED
    BY <1>1, <1>2, <1>3, ConcatEmptySeq

(* The oldest of what is still under way may be dropped.                   *)
LEMMA OldestDropped ==
  ASSUME NEW S, NEW a \in Seq(S), NEW q \in Seq(S), NEW s, NEW hi,
         Ascends(a \o q, s, 0, hi)
  PROVE  /\ Ascends(a \o Newest(q), s, 0, hi)
         /\ q # <<>> => Ascends(a \o Tail(q), s, 0, hi)
  <1>0. Ascends(a \o q, s, 0, hi)
    OBVIOUS
  <1>1. ASSUME NEW t \in Seq(S), Len(t) <= Len(q),
               \A i \in 1 .. Len(t) : t[i] = q[i + (Len(q) - Len(t))]
        PROVE  Ascends(a \o t, s, 0, hi)
    <2> DEFINE n == Len(a)
               d == Len(q) - Len(t)
               f == [i \in 1 .. n + Len(t) |-> IF i <= n THEN i ELSE i + d]
    <2>1. /\ n \in Nat /\ d \in Nat /\ Len(t) \in Nat /\ Len(q) \in Nat
          /\ DOMAIN (a \o q) = 1 .. n + Len(q) /\ DOMAIN (a \o t) = 1 .. n + Len(t)
      BY <1>1, ConcatProperties
    <2>2. ASSUME NEW i \in 1 .. n + Len(t)
          PROVE  f[i] \in 1 .. n + Len(q) /\ (a \o t)[i] = (a \o q)[f[i]]
      <3>1. CASE i <= n
        BY <1>1, <2>1, <3>1, ConcatProperties
      <3>2. CASE ~(i <= n)
        <4>1. f[i] = i + d /\ i + d \in 1 .. n + Len(q) /\ ~(i + d <= n)
          BY <2>1, <3>2
        <4>2. (a \o t)[i] = t[i - n]
          BY <2>1, <3>2, ConcatProperties
        <4>3. (a \o q)[i + d] = q[(i + d) - n]
          BY <4>1, ConcatProperties
        <4>4. i - n \in 1 .. Len(t) /\ (i - n) + d = (i + d) - n
          BY <2>1, <3>2
        <4>5. t[i - n] = q[(i - n) + d]
          BY <1>1, <4>4
        <4> QED
          BY <4>1, <4>2, <4>3, <4>4, <4>5, Zenon
      <3> QED
        BY <3>1, <3>2
    <2>3. \A i \in 1 .. n + Len(t) : \A j \in 1 .. i - 1 : f[j] < f[i]
      BY <2>1
    <2>4. n + Len(q) \in Nat /\ n + Len(t) \in Nat
      BY <2>1
    <2> HIDE DEF f, n
    <2>5. \A i \in 1 .. n + Len(t) : IsTelemetry((a \o t)[i], s) =>
             /\ f[i] \in 1 .. n + Len(q) /\ (a \o t)[i] = (a \o q)[f[i]]
             /\ \A j \in 1 .. i - 1 : IsTelemetry((a \o t)[j], s) => f[j] < f[i]
      BY <2>2, <2>3, Zenon
    <2>6. ComesFrom(a \o t, a \o q, s, f)
      BY <2>5, ConcatProperties DEF ComesFrom, n
    <2> QED
      BY <1>0, <2>6, Thinned, ConcatProperties
  <1>2. Ascends(a \o Newest(q), s, 0, hi)
    BY <1>1, NewestIs
  <1>3. ASSUME q # <<>> PROVE Ascends(a \o Tail(q), s, 0, hi)
    <2>1. Tail(q) \in Seq(S) /\ Len(Tail(q)) = Len(q) - 1
          /\ \A i \in 1 .. Len(q) - 1 : Tail(q)[i] = q[i + 1]
      BY <1>3
    <2>2. Len(q) - (Len(q) - 1) = 1 /\ Len(q) - 1 <= Len(q)
      OBVIOUS
    <2> QED
      BY <1>1, <2>1, <2>2
  <1> QED
    BY <1>2, <1>3

(* A message that is no telemetry may go before others.                    *)
LEMMA Overtakes ==
  ASSUME NEW S, NEW a \in Seq(S), NEW q \in Seq(S), NEW m \in S, NEW s, NEW hi,
         Ascends(a \o q, s, 0, hi), ~IsTelemetry(m, s)
  PROVE  Ascends(Append(a, m) \o q, s, 0, hi)
  <1> DEFINE n == Len(a)
             f == [i \in 1 .. n + 1 + Len(q) |-> IF i <= n THEN i ELSE i - 1]
  <1>1. /\ n \in Nat /\ Len(q) \in Nat /\ DOMAIN (a \o q) = 1 .. n + Len(q)
        /\ Append(a, m) \in Seq(S) /\ DOMAIN (Append(a, m) \o q) = 1 .. n + 1 + Len(q)
    BY ConcatProperties, AppendProperties
  <1>2. ASSUME NEW i \in 1 .. n + 1 + Len(q), i # n + 1
        PROVE  f[i] \in 1 .. n + Len(q) /\ (Append(a, m) \o q)[i] = (a \o q)[f[i]]
    BY <1>1, <1>2, ConcatProperties, AppendProperties
  <1>3. (Append(a, m) \o q)[n + 1] = m
    BY <1>1, ConcatProperties, AppendProperties
  <1>4. \A i \in 1 .. n + 1 + Len(q) : i # n + 1 =>
           \A j \in 1 .. i - 1 : j # n + 1 => f[j] < f[i]
    BY <1>1
  <1>5. n + Len(q) \in Nat /\ n + 1 + Len(q) \in Nat
    BY <1>1
  <1> HIDE DEF f, n
  <1>6. \A i \in 1 .. n + 1 + Len(q) : \A j \in 1 .. i - 1 : j \in 1 .. n + 1 + Len(q)
    BY <1>1
  <1>7. \A i \in 1 .. n + 1 + Len(q) : IsTelemetry((Append(a, m) \o q)[i], s) =>
            /\ f[i] \in 1 .. n + Len(q) /\ (Append(a, m) \o q)[i] = (a \o q)[f[i]]
            /\ \A j \in 1 .. i - 1 : IsTelemetry((Append(a, m) \o q)[j], s) => f[j] < f[i]
    BY <1>2, <1>3, <1>4
  <1>8. ComesFrom(Append(a, m) \o q, a \o q, s, f)
    BY <1>7, ConcatProperties, AppendProperties DEF ComesFrom, n
  <1> QED
    BY <1>1, <1>8, Thinned, ConcatProperties

(* The parameters, sequence by sequence.                                   *)
LEMMA GatewayConstants ==
    /\ 0 \in Sensor /\ Sensors \in Nat \ {0} /\ MaxPolls \in Nat
    /\ \A f \in DOMAIN Frames : Frames[f] \in [Sensor -> Int]
    /\ Len(Frames) \in Nat \ {0} /\ DOMAIN Frames = 1 .. Len(Frames)
    /\ High \in [Sensor -> Int] /\ Low \in [Sensor -> Int]
  BY GatewayAssumption DEF GatewayAssumption, Sensor

(* What the policy engine reads is a reading.                              *)
LEMMA ReadingIs ==
  ASSUME NEW r \in ReadingMsg
  PROVE  /\ Reading(r) \in ReadingMsg /\ Reading(r).sensor \in Sensor
         /\ Breached(Reading(r)) \in BOOLEAN
         /\ Alert(Reading(r)) \in AlertMsg
         /\ seq \in [Sensor -> Nat] => Telemetry(Reading(r)) \in TelemetryMsg
  <1>1. Reading(r) \in ReadingMsg
    BY GatewayConstants DEF Reading, ReadingMsg
  <1> DEFINE x == Reading(r)
  <1> HIDE DEF x
  <1>2. x \in ReadingMsg => x.sensor \in Sensor /\ x.value \in Int
    BY DEF ReadingMsg
  <1>3. x \in ReadingMsg => Threshold(x) \in Int
    BY <1>2, GatewayConstants DEF Threshold
  <1>4. x \in ReadingMsg => Alert(x) \in AlertMsg
    BY <1>2, <1>3 DEF Alert, AlertMsg, Breached
  <1>5. x \in ReadingMsg /\ seq \in [Sensor -> Nat] => Telemetry(x) \in TelemetryMsg
    BY <1>2 DEF Telemetry, TelemetryMsg
  <1>6. Breached(x) \in BOOLEAN
    BY DEF Breached
  <1> QED
    BY <1>1, <1>2, <1>4, <1>5, <1>6 DEF x

(* What is delivered joins the queue, and the oldest make room.            *)
LEMMA Delivered ==
  ASSUME NEW S, NEW q \in Seq(S), NEW m \in S, NEW subs
  PROVE  Deliver(q, subs, m) \in Seq(S)
  BY NewestIs, AppendProperties DEF Deliver

(* A machine that is copied into conn is in the state that conn shows, and *)
(* nothing is buffered when it goes online.                                *)
LEMMA LinkMoves ==
  ASSUME GatewayTypes, NorthTimer
  PROVE  /\ state' = conn' /\ (conn' = "ONLINE" => buffer' = <<>>)
         /\ \/ cloud' = cloud \o buffer /\ buffer' = <<>>
            \/ UNCHANGED <<cloud, buffer>>
  <1> PICK k : k = FirstMatch(NorthTable, state, "1SEC", Guards(northTick'))
    OBVIOUS
  <1>1. /\ state' = IF k = 0 THEN state ELSE NorthTable[k].to
        /\ conn' = IF k = 0 THEN conn ELSE NorthTable[k].to
        /\ IF k # 0 /\ NorthTable[k].guard = "link_restored"
           THEN cloud' = cloud \o Flushed(buffer) /\ buffer' = <<>>
           ELSE UNCHANGED <<cloud, buffer>>
    BY DEF NorthTimer, NextState
  <1>2. k = 0 \/ k \in 1 .. 3
    <2>1. Len(NorthTable) = 3 /\ 3 \in Nat
      BY DEF NorthTable
    <2> PICK s : s = state
      OBVIOUS
    <2> PICK G : G = Guards(northTick')
      OBVIOUS
    <2>2. k = FirstMatch(NorthTable, s, "1SEC", G)
      OBVIOUS
    <2> QED
      BY <2>1, <2>2, FirstIs, Zenon
  <1>3. k # 0 => (NorthTable[k].to = "ONLINE" => NorthTable[k].guard = "link_restored")
    BY <1>2 DEF NorthTable
  <1> QED
    BY <1>1, <1>3 DEF Flushed, GatewayTypes, Online

(* The types hold at the start.                                            *)
LEMMA GatewayInitTyped == GatewayInit => GatewayTypes
  BY EmptySeq DEF GatewayInit, ReceiverInit, PolicyInit, NorthInit, GatewayTypes, Online

(* Every step keeps the types.                                             *)
LEMMA GatewayTyped == GatewayTypes /\ [GatewayNext]_gatewayVars => GatewayTypes'
  <1> SUFFICES ASSUME GatewayTypes, [GatewayNext]_gatewayVars PROVE GatewayTypes'
    OBVIOUS
  <1> USE DEF GatewayTypes, Online
  <1>1. CASE Second
    <2>1. SECOND \in TickMsg
      BY DEF SECOND, TickMsg
    <2>2. normal' \in Seq(TickMsg \cup TelemetryMsg)
      <3> DEFINE S == TickMsg \cup TelemetryMsg
      <3> HIDE DEF S
      <3>1. S = TickMsg \cup TelemetryMsg => SECOND \in S
        BY <2>1
      <3>2. S = TickMsg \cup TelemetryMsg
        BY DEF S
      <3>3. Deliver(normal, NorthSubs, SECOND) \in Seq(S)
        BY <3>1, <3>2, Delivered
      <3> QED
        BY <1>1, <3>2, <3>3 DEF Second
    <2> QED
      BY <1>1, <2>2 DEF Second, policy, link
  <1>2. CASE Poll
    <2>1. readings' \in Seq(ReadingMsg) /\ polls' \in Nat
      <3>1. CASE polls < MaxPolls
        <4> DEFINE n == (polls % Len(Frames)) + 1
        <4>1. n \in 1 .. Len(Frames)
          BY GatewayConstants
        <4> HIDE DEF n
        <4> PICK frame : frame = Frames[n]
          OBVIOUS
        <4>2. frame \in [Sensor -> Int]
          BY <4>1, GatewayConstants
        <4> DEFINE cycle == [i \in 1 .. Sensors |->
                       [kind |-> "reading", sensor |-> i - 1, value |-> frame[i - 1]]]
        <4>3. cycle \in Seq(ReadingMsg)
          <5>1. \A i \in 1 .. Sensors : i - 1 \in Sensor
            BY GatewayConstants DEF Sensor
          <5>2. \A i \in 1 .. Sensors : cycle[i] \in ReadingMsg
            BY <4>2, <5>1 DEF ReadingMsg
          <5> HIDE DEF cycle
          <5>3. cycle = [i \in 1 .. Sensors |-> cycle[i]]
            BY DEF cycle
          <5>4. cycle \in [1 .. Sensors -> ReadingMsg]
            BY <5>2, <5>3
          <5>5. Sensors \in Nat
            BY GatewayConstants
          <5>6. [1 .. Sensors -> ReadingMsg] \in {[1 .. z -> ReadingMsg] : z \in Nat}
            BY <5>5, Zenon
          <5>7. cycle \in UNION {[1 .. z -> ReadingMsg] : z \in Nat}
            BY <5>4, <5>6, Zenon
          <5> QED
            BY <5>7, SeqDef, Zenon
        <4>4. readings' = Newest(readings \o cycle) \/ readings' = readings
          BY <1>2, <3>1 DEF Poll, n
        <4> HIDE DEF cycle
        <4>5. readings \o cycle \in Seq(ReadingMsg)
          BY <4>3, ConcatProperties
        <4>6. polls' = polls + 1
          BY <1>2, <3>1 DEF Poll
        <4>7. Newest(readings \o cycle) \in Seq(ReadingMsg)
          BY <4>5, NewestIs, Zenon
        <4> QED
          BY <4>4, <4>6, <4>7
      <3> QED
        BY <1>2, <3>1 DEF Poll
    <2> QED
      BY <1>2, <2>1 DEF Poll, link
  <1>3. CASE PolicyRun
    <2> PICK r : r = Reading(Head(readings))
      OBVIOUS
    <2>1. /\ r.sensor \in Sensor /\ Breached(r) \in BOOLEAN
          /\ Alert(r) \in AlertMsg /\ Telemetry(r) \in TelemetryMsg
      <3>1. Head(readings) \in ReadingMsg
        BY <1>3 DEF PolicyRun
      <3> QED
        BY <3>1, ReadingIs
    <2>2. /\ readings' = Tail(readings) /\ readings # <<>>
          /\ active' = [active EXCEPT ![r.sensor] = Breached(r)]
          /\ urgent' = Append(urgent, Alert(r)) \/ urgent' = urgent
          /\ counter' = [counter EXCEPT ![r.sensor] = (@ + 1) % 2]
          /\ \/ /\ seq' = [seq EXCEPT ![r.sensor] = @ + 1]
                /\ normal' = Deliver(normal, NorthSubs, Telemetry(r))
             \/ UNCHANGED <<seq, normal>>
          /\ UNCHANGED <<receiver, link, cloud>>
      BY <1>3 DEF PolicyRun
    <2>3. Deliver(normal, NorthSubs, Telemetry(r)) \in Seq(TickMsg \cup TelemetryMsg)
      BY <2>1, Delivered
    <2>4. Append(urgent, Alert(r)) \in Seq(AlertMsg)
      BY <2>1, AppendProperties
    <2>5. active' \in [Sensor -> BOOLEAN] /\ counter' \in [Sensor -> 0 .. 1] /\ seq' \in [Sensor -> Nat]
      <3>1. active' \in [Sensor -> BOOLEAN]
        BY <2>1, <2>2, Zenon
      <3>2. counter' \in [Sensor -> 0 .. 1]
        <4>1. (counter[r.sensor] + 1) % 2 \in 0 .. 1
          <5>1. counter[r.sensor] \in 0 .. 1
            BY <2>1, Zenon
          <5>2. \A c \in 0 .. 1 : (c + 1) % 2 \in 0 .. 1
            OBVIOUS
          <5> QED
            BY <5>1, <5>2, Zenon
        <4>2. counter' = [counter EXCEPT ![r.sensor] = (counter[r.sensor] + 1) % 2]
          BY <2>2, Zenon
        <4> QED
          BY <2>1, <4>1, <4>2, Zenon
      <3>3. seq' \in [Sensor -> Nat]
        BY <2>1, <2>2
      <3> QED
        BY <3>1, <3>2, <3>3
    <2>6. normal' \in Seq(TickMsg \cup TelemetryMsg) /\ urgent' \in Seq(AlertMsg)
      BY <2>2, <2>3, <2>4, Zenon
    <2> QED
      BY <2>2, <2>5, <2>6 DEF receiver, link
  <1>4. CASE NorthTimer
    <2>1. cloud' \in Seq(TelemetryMsg \cup AlertMsg) /\ buffer' \in Seq(TelemetryMsg)
      <3>1. buffer \in Seq(TelemetryMsg \cup AlertMsg)
        BY SeqMonotonic
      <3>2. cloud \o buffer \in Seq(TelemetryMsg \cup AlertMsg)
        BY <3>1, ConcatProperties
      <3>3. <<>> \in Seq(TelemetryMsg)
        BY EmptySeq
      <3> QED
        BY <1>4, <3>2, <3>3, LinkMoves
    <2>2. Tail(normal) \in Seq(TickMsg \cup TelemetryMsg)
      BY <1>4 DEF NorthTimer
    <2> QED
      BY <1>4, <2>1, <2>2, LinkMoves DEF NorthTimer, receiver, policy
  <1>5. CASE NorthTelemetry
    <2>1. Head(normal) \in TelemetryMsg /\ Tail(normal) \in Seq(TickMsg \cup TelemetryMsg)
      BY <1>5 DEF NorthTelemetry, NorthRxSubs, TickMsg
    <2>2. /\ Append(cloud, Head(normal)) \in Seq(TelemetryMsg \cup AlertMsg)
          /\ Append(buffer, Head(normal)) \in Seq(TelemetryMsg)
      BY <2>1, AppendProperties
    <2>3. /\ cloud' = Append(cloud, Head(normal)) \/ cloud' = cloud
          /\ buffer' = Append(buffer, Head(normal)) \/ buffer' = buffer
          /\ Online => buffer' = buffer
          /\ normal' = Tail(normal) /\ UNCHANGED <<receiver, policy, urgent, northTick, state, conn>>
      BY <1>5 DEF NorthTelemetry, Buffered
    <2> QED
      BY <2>1, <2>2, <2>3 DEF receiver, policy
  <1>6. CASE NorthAlert
    <2>1. Head(urgent) \in AlertMsg /\ Tail(urgent) \in Seq(AlertMsg)
      BY <1>6 DEF NorthAlert
    <2>2. Append(cloud, Head(urgent)) \in Seq(TelemetryMsg \cup AlertMsg)
      BY <2>1, AppendProperties
    <2> QED
      BY <1>6, <2>1, <2>2 DEF NorthAlert, receiver, policy, link
  <1>7. CASE UNCHANGED gatewayVars
    BY <1>7 DEF gatewayVars, receiver, policy, link
  <1> QED
    BY <1>1, <1>2, <1>3, <1>4, <1>5, <1>6, <1>7 DEF GatewayNext, North

GatewayMsg == TickMsg \cup TelemetryMsg \cup AlertMsg

(* The telemetry of every FB is on its way in one line.                    *)
LEMMA LineTyped ==
  ASSUME GatewayTypes
  PROVE  /\ cloud \in Seq(GatewayMsg) /\ buffer \in Seq(GatewayMsg) /\ normal \in Seq(GatewayMsg)
         /\ cloud \o buffer \in Seq(GatewayMsg)
  <1>1. /\ TelemetryMsg \cup AlertMsg \subseteq GatewayMsg /\ TelemetryMsg \subseteq GatewayMsg
        /\ TickMsg \cup TelemetryMsg \subseteq GatewayMsg
    BY DEF GatewayMsg
  <1>2. cloud \in Seq(GatewayMsg) /\ buffer \in Seq(GatewayMsg) /\ normal \in Seq(GatewayMsg)
    BY <1>1, SeqMonotonic, Zenon DEF GatewayTypes
  <1> QED
    BY <1>2, ConcatProperties

(* The receiver's line after a message was delivered to it.                *)
LEMMA LineGrows ==
  ASSUME NEW S, NEW a \in Seq(S), NEW q \in Seq(S), NEW m \in S, NEW subs,
         NEW s, NEW hi \in Nat, Ascends(a \o q, s, 0, hi)
  PROVE  /\ IsTelemetry(m, s) /\ m.seq = hi => Ascends(a \o Deliver(q, subs, m), s, 0, hi + 1)
         /\ ~IsTelemetry(m, s) => Ascends(a \o Deliver(q, subs, m), s, 0, hi)
  <1>1. a \o q \in Seq(S) /\ Append(q, m) \in Seq(S)
    BY ConcatProperties, AppendProperties
  <1>2. a \o Append(q, m) = Append(a \o q, m)
    BY Rebracketed
  <1>3. Ascends(a \o q, s, 0, hi + 1)
    <2>1. \A v \in 0 .. hi - 1 : v \in 0 .. (hi + 1) - 1
      OBVIOUS
    <2>2. Ascends(a \o q, s, 0, hi)
      OBVIOUS
    <2> QED
      BY <2>1, <2>2, Zenon DEF Ascends
  <1>4. ASSUME NEW n, Ascends(a \o q, s, 0, n), Ascends(Append(a \o q, m), s, 0, n)
        PROVE  Ascends(a \o Deliver(q, subs, m), s, 0, n)
    <2>1. Ascends(a \o Append(q, m), s, 0, n)
      BY <1>2, <1>4, Zenon
    <2>2. Ascends(a \o Newest(Append(q, m)), s, 0, n)
      BY <1>1, <2>1, OldestDropped, Zenon
    <2> QED
      BY <1>4, <2>2 DEF Deliver
  <1>5. /\ IsTelemetry(m, s) /\ m.seq = hi => Ascends(Append(a \o q, m), s, 0, hi + 1)
        /\ ~IsTelemetry(m, s) => Ascends(Append(a \o q, m), s, 0, hi)
    BY <1>1, Joins, Zenon
  <1> QED
    BY <1>3, <1>4, <1>5, Zenon

(* publish_telemetry(), action_link_restored() and north_rx(): whatever is *)
(* dropped on the way, telemetry reaches the cloud in order, none twice.   *)
THEOREM OrderKept == GatewaySpec => []TelemetryInOrder
  <1> DEFINE Inv == GatewayTypes /\ TelemetryInOrder
  <1>1. GatewayInit => Inv
    <2> SUFFICES ASSUME GatewayInit PROVE Inv
      OBVIOUS
    <2>1. GatewayTypes
      BY GatewayInitTyped
    <2>2. cloud \o buffer \o normal = <<>>
      BY EmptySeq, ConcatEmptySeq DEF GatewayInit, NorthInit
    <2>3. TelemetryInOrder
      BY <2>2 DEF TelemetryInOrder, Ascends
    <2> QED
      BY <2>1, <2>3
  <1>2. Inv /\ [GatewayNext]_gatewayVars => Inv'
    <2> SUFFICES ASSUME GatewayTypes, TelemetryInOrder, [GatewayNext]_gatewayVars,
                        GatewayTypes', NEW s \in Sensor
                 PROVE  Ascends(cloud' \o buffer' \o normal', s, 0, seq'[s])
      BY GatewayTyped DEF TelemetryInOrder
    <2> DEFINE L == cloud \o buffer
    <2>1. Ascends(L \o normal, s, 0, seq[s]) /\ seq[s] \in Nat
      BY DEF TelemetryInOrder, GatewayTypes
    <2>2. /\ cloud \in Seq(GatewayMsg) /\ buffer \in Seq(GatewayMsg) /\ normal \in Seq(GatewayMsg)
          /\ L \in Seq(GatewayMsg)
      BY LineTyped
    <2>3. L' = cloud' \o buffer'
      OBVIOUS
    <2>4. \A subs : \A m \in GatewayMsg :
            /\ IsTelemetry(m, s) /\ m.seq = seq[s] =>
                  Ascends(L \o Deliver(normal, subs, m), s, 0, seq[s] + 1)
            /\ ~IsTelemetry(m, s) => Ascends(L \o Deliver(normal, subs, m), s, 0, seq[s])
      <3> HIDE DEF L
      <3> QED
        BY <2>1, <2>2, LineGrows, Zenon
    <2>5. normal # <<>> => Ascends(L \o Tail(normal), s, 0, seq[s])
      <3> HIDE DEF L
      <3> QED
        BY <2>1, <2>2, OldestDropped, Zenon
    <2> SUFFICES Ascends(L' \o normal', s, 0, seq'[s])
      BY <2>3
    <2>6. CASE Second
      <3>1. SECOND \in GatewayMsg /\ ~IsTelemetry(SECOND, s)
        BY DEF SECOND, GatewayMsg, TickMsg, IsTelemetry
      <3>2. L' = L /\ seq' = seq /\ normal' = Deliver(normal, NorthSubs, SECOND)
        BY <2>6 DEF Second, policy, link
      <3> HIDE DEF L
      <3> QED
        BY <2>4, <3>1, <3>2
    <2>7. CASE Poll
      <3>1. L' = L /\ seq' = seq /\ normal' = normal
        BY <2>7 DEF Poll, link
      <3> HIDE DEF L
      <3> QED
        BY <2>1, <3>1
    <2>8. CASE PolicyRun
      <3> PICK r : r = Reading(Head(readings))
        OBVIOUS
      <3>1. r.sensor \in Sensor /\ Telemetry(r) \in GatewayMsg
        <4>1. Head(readings) \in ReadingMsg
          BY <2>8 DEF PolicyRun, GatewayTypes
        <4> QED
          BY <4>1, ReadingIs DEF GatewayTypes, GatewayMsg
      <3>2. /\ L' = L
            /\ \/ /\ seq' = [seq EXCEPT ![r.sensor] = @ + 1]
                  /\ normal' = Deliver(normal, NorthSubs, Telemetry(r))
               \/ UNCHANGED <<seq, normal>>
        BY <2>8 DEF PolicyRun, link
      <3>3. /\ IsTelemetry(Telemetry(r), s) <=> r.sensor = s
            /\ Telemetry(r).seq = seq[r.sensor]
        BY DEF IsTelemetry, Telemetry
      <3>4. seq' = [seq EXCEPT ![r.sensor] = @ + 1] =>
              seq'[s] = IF r.sensor = s THEN seq[s] + 1 ELSE seq[s]
        BY DEF GatewayTypes
      <3> HIDE DEF L
      <3> QED
        BY <2>1, <2>4, <3>1, <3>2, <3>3, <3>4
    <2>9. CASE NorthTimer
      <3>1. normal # <<>> /\ normal' = Tail(normal) /\ seq' = seq
        BY <2>9 DEF NorthTimer, policy
      <3>2. L' = L
        <4>1. cloud \o buffer \in Seq(GatewayMsg) /\ (cloud \o buffer) \o <<>> = cloud \o buffer
          BY <2>2, ConcatEmptySeq
        <4> QED
          BY <2>9, <4>1, LinkMoves
      <3> HIDE DEF L
      <3> QED
        BY <2>5, <3>1, <3>2
    <2>10. CASE NorthTelemetry
      <3>1. /\ normal # <<>> /\ normal' = Tail(normal) /\ seq' = seq
            /\ \/ cloud' = cloud /\ buffer' = buffer
               \/ cloud' = Append(cloud, Head(normal)) /\ buffer' = buffer /\ buffer = <<>>
               \/ cloud' = cloud /\ buffer' = Append(buffer, Head(normal))
        BY <2>10 DEF NorthTelemetry, policy, Buffered, GatewayTypes
      <3>2. Head(normal) \in GatewayMsg
        BY <2>2, <3>1
      <3>3. L' = L \/ L' = Append(L, Head(normal))
        <4>1. cloud \o Append(buffer, Head(normal)) = Append(cloud \o buffer, Head(normal))
          <5>1. \A m \in GatewayMsg : cloud \o Append(buffer, m) = Append(cloud \o buffer, m)
            BY <2>2, Rebracketed
          <5> QED
            BY <3>2, <5>1, Zenon
        <4>2. buffer = <<>> => Append(cloud, Head(normal)) \o buffer = Append(cloud \o buffer, Head(normal))
          <5>1. /\ Append(cloud, Head(normal)) \in Seq(GatewayMsg)
                /\ Append(cloud, Head(normal)) \o <<>> = Append(cloud, Head(normal))
                /\ cloud \o <<>> = cloud
            BY <2>2, <3>2, AppendProperties, ConcatEmptySeq
          <5> QED
            BY <5>1
        <4> QED
          BY <3>1, <4>1, <4>2
      <3> HIDE DEF L
      <3>4. Append(L, Head(normal)) \o Tail(normal) = L \o normal
        BY <2>2, <3>1, Rebracketed, Zenon
      <3> QED
        BY <2>1, <2>5, <3>1, <3>3, <3>4
    <2>11. CASE NorthAlert
      <3>1. /\ urgent # <<>> /\ buffer' = buffer /\ normal' = normal /\ seq' = seq
            /\ cloud' = cloud \/ cloud' = Append(cloud, Head(urgent))
        BY <2>11 DEF NorthAlert, policy, link
      <3>2. Head(urgent) \in GatewayMsg /\ ~IsTelemetry(Head(urgent), s)
        <4>1. Head(urgent) \in AlertMsg
          BY <3>1 DEF GatewayTypes
        <4>2. \A m \in AlertMsg : m \in GatewayMsg /\ m.kind = "alert"
          BY DEF GatewayMsg, AlertMsg
        <4> QED
          BY <4>1, <4>2 DEF IsTelemetry
      <3> PICK m : m = Head(urgent)
        OBVIOUS
      <3>3. Append(cloud, m) \in Seq(GatewayMsg) /\ buffer \o normal \in Seq(GatewayMsg)
        BY <2>2, <3>2, AppendProperties, ConcatProperties
      <3>4. /\ (cloud \o buffer) \o normal = cloud \o (buffer \o normal)
            /\ (Append(cloud, m) \o buffer) \o normal = Append(cloud, m) \o (buffer \o normal)
        <4>1. \A b \in Seq(GatewayMsg) : (cloud \o b) \o normal = cloud \o (b \o normal)
          BY <2>2, Rebracketed
        <4>2. \A b \in Seq(GatewayMsg) : (Append(cloud, m) \o b) \o normal = Append(cloud, m) \o (b \o normal)
          BY <2>2, <3>3, Rebracketed
        <4> QED
          BY <2>2, <4>1, <4>2
      <3>5. Ascends(Append(cloud, m) \o (buffer \o normal), s, 0, seq[s])
        BY <2>1, <2>2, <3>2, <3>3, <3>4, Overtakes
      <3> QED
        BY <2>1, <3>1, <3>4, <3>5
    <2>12. CASE UNCHANGED gatewayVars
      BY <2>1, <2>12 DEF gatewayVars, policy, link
    <2> QED
      BY <2>6, <2>7, <2>8, <2>9, <2>10, <2>11, <2>12 DEF GatewayNext, North
  <1> QED
    BY <1>1, <1>2, PTL DEF GatewaySpec

(* The alerts of sensor s are the same in q and in r, in the same order.   *)
SameAlerts(r, q, s, f) ==
    /\ \A i \in 1 .. Len(q) :
          /\ f[i] \in 1 .. Len(r) /\ r[f[i]] = q[i]
          /\ \A j \in 1 .. Len(q) : i < j <=> f[i] < f[j]
    /\ \A j \in AlertsIn(r, s) : \E i \in 1 .. Len(q) : j = f[i]

(* Then they come by turns in r if they do in q.                           *)
LEMMA TurnsCarried ==
  ASSUME NEW S, NEW q \in Seq(S), NEW r \in Seq(S), NEW s, NEW from, NEW to,
         ByTurns(q, s, from, to), NEW f, SameAlerts(r, q, s, f)
  PROVE  ByTurns(r, s, from, to)
  <1> DEFINE n == Len(q)
             A == AlertsIn(q, s)
             B == AlertsIn(r, s)
  <1>1. n \in Nat /\ Len(r) \in Nat /\ DOMAIN q = 1 .. n /\ DOMAIN r = 1 .. Len(r)
    OBVIOUS
  <1>2. A \subseteq 1 .. n /\ B \subseteq 1 .. Len(r)
    BY <1>1 DEF AlertsIn
  <1>3. /\ \A i \in 1 .. n : f[i] \in 1 .. Len(r) /\ r[f[i]] = q[i]
        /\ \A i, j \in 1 .. n : i < j <=> f[i] < f[j]
    BY DEF SameAlerts
  <1>4. \A i \in A : f[i] \in B /\ r[f[i]].active = q[i].active
    BY <1>1, <1>2, <1>3 DEF AlertsIn
  <1>5. \A j \in B : \E i \in A : j = f[i] /\ r[j].active = q[i].active
    <2> TAKE j \in B
    <2>1. PICK i \in 1 .. n : j = f[i]
      BY DEF SameAlerts
    <2>2. i \in A
      BY <1>1, <1>3, <2>1 DEF AlertsIn
    <2> QED
      BY <1>4, <2>1, <2>2
  <1>6. /\ A = {} => from = to
        /\ \A i \in A :
              /\ (\A j \in A : i <= j) => q[i].active # from
              /\ (\A j \in A : j <= i) => q[i].active = to
              /\ \A j \in A : (i < j /\ \A k \in A : k <= i \/ j <= k) => q[i].active # q[j].active
    BY DEF ByTurns
  <1>7. \A i, j \in A : i < j <=> f[i] < f[j]
    BY <1>2, <1>3
  <1>8. \A i, j \in A : i <= j <=> f[i] <= f[j]
    <2> TAKE i, j \in A
    <2>1. /\ i \in Nat /\ j \in Nat /\ f[i] \in Nat /\ f[j] \in Nat
          /\ (j < i <=> f[j] < f[i])
      BY <1>1, <1>2, <1>3, <1>7
    <2> QED
      BY <2>1
  <1> HIDE DEF n, A, B
  <1>9. B = {} => from = to
    BY <1>4, <1>6
  <1>10. ASSUME NEW b \in B PROVE
            /\ (\A j \in B : b <= j) => r[b].active # from
            /\ (\A j \in B : j <= b) => r[b].active = to
            /\ \A j \in B : (b < j /\ \A k \in B : k <= b \/ j <= k) => r[b].active # r[j].active
    <2>1. PICK i \in A : b = f[i] /\ r[b].active = q[i].active
      BY <1>5
    <2>2. (\A j \in B : b <= j) => r[b].active # from
      BY <1>4, <1>6, <1>8, <2>1
    <2>3. (\A j \in B : j <= b) => r[b].active = to
      BY <1>4, <1>6, <1>8, <2>1
    <2>4. ASSUME NEW c \in B, b < c, \A k \in B : k <= b \/ c <= k PROVE r[b].active # r[c].active
      <3>1. PICK j \in A : c = f[j] /\ r[c].active = q[j].active
        BY <1>5
      <3>2. i < j
        BY <1>7, <2>1, <2>4, <3>1
      <3>3. \A k \in A : k <= i \/ j <= k
        BY <1>4, <1>8, <2>1, <2>4, <3>1
      <3> QED
        BY <1>6, <2>1, <3>1, <3>2, <3>3
    <2> QED
      BY <2>2, <2>3, <2>4
  <1> QED
    BY <1>9, <1>10 DEF ByTurns, B

(* An alert joins at the end: of another sensor, or with the other status. *)
LEMMA TurnTaken ==
  ASSUME NEW S, NEW q \in Seq(S), NEW m \in S, NEW s, NEW from \in BOOLEAN, NEW to \in BOOLEAN,
         ByTurns(q, s, from, to), m.kind = "alert"
  PROVE  /\ m.sensor # s => ByTurns(Append(q, m), s, from, to)
         /\ m.sensor = s /\ m.active # to => ByTurns(Append(q, m), s, from, m.active)
  <1> DEFINE r == Append(q, m)
             n == Len(q)
             A == AlertsIn(q, s)
  <1>1. /\ n \in Nat /\ DOMAIN r = 1 .. n + 1 /\ r[n + 1] = m /\ DOMAIN q = 1 .. n
        /\ \A i \in 1 .. n : r[i] = q[i]
    BY AppendProperties
  <1> HIDE DEF r, n
  <1>2. A \subseteq 1 .. n /\ \A i \in A : r[i] = q[i]
    BY <1>1 DEF AlertsIn
  <1>3. AlertsIn(r, s) = IF m.sensor = s THEN A \cup {n + 1} ELSE A
    BY <1>1 DEF AlertsIn
  <1>4. /\ A = {} => from = to
        /\ \A i \in A :
              /\ (\A j \in A : i <= j) => q[i].active # from
              /\ (\A j \in A : j <= i) => q[i].active = to
              /\ \A j \in A : (i < j /\ \A k \in A : k <= i \/ j <= k) => q[i].active # q[j].active
    BY DEF ByTurns
  <1> HIDE DEF A
  <1>5. ASSUME m.sensor # s PROVE ByTurns(r, s, from, to)
    BY <1>2, <1>3, <1>4, <1>5 DEF ByTurns
  <1>6. ASSUME m.sensor = s, m.active # to PROVE ByTurns(r, s, from, m.active)
    <2> DEFINE B == A \cup {n + 1}
    <2>1. AlertsIn(r, s) = B
      BY <1>3, <1>6
    <2>2. ASSUME NEW i \in B PROVE
            /\ (\A j \in B : i <= j) => r[i].active # from
            /\ (\A j \in B : j <= i) => r[i].active = m.active
            /\ \A j \in B : (i < j /\ \A k \in B : k <= i \/ j <= k) => r[i].active # r[j].active
      <3>1. CASE i = n + 1
        <4>1. (\A j \in B : i <= j) => A = {}
          BY <1>1, <1>2, <3>1
        <4>2. \A j \in B : ~(i < j)
          BY <1>1, <1>2, <3>1
        <4> QED
          BY <1>1, <1>4, <1>6, <3>1, <4>1, <4>2
      <3>2. CASE i \in A
        <4>1. (\A j \in B : i <= j) => r[i].active # from
          BY <1>2, <1>4, <3>2
        <4>2. ~(\A j \in B : j <= i)
          BY <1>1, <1>2, <3>2
        <4>3. ASSUME NEW j \in B, i < j, \A k \in B : k <= i \/ j <= k
              PROVE  r[i].active # r[j].active
          <5>1. CASE j \in A
            BY <1>2, <1>4, <3>2, <4>3, <5>1
          <5>2. CASE j = n + 1
            <6>1. \A k \in A : k <= i
              BY <1>1, <1>2, <4>3, <5>2
            <6> QED
              BY <1>1, <1>2, <1>4, <1>6, <3>2, <5>2, <6>1
          <5> QED
            BY <5>1, <5>2
        <4> QED
          BY <4>1, <4>2, <4>3
      <3> QED
        BY <3>1, <3>2
    <2>3. B # {}
      OBVIOUS
    <2> HIDE DEF B
    <2> QED
      BY <2>1, <2>2, <2>3 DEF ByTurns
  <1> QED
    BY <1>5, <1>6 DEF r

(* Messages that are no alerts do not disturb the turns.                   *)
LEMMA TurnsIgnore ==
  ASSUME NEW S, NEW a \in Seq(S), NEW b \in Seq(S), NEW q \in Seq(S), NEW s, NEW from, NEW to,
         ByTurns(a \o q, s, from, to), \A i \in DOMAIN b : b[i].kind # "alert"
  PROVE  ByTurns((a \o b) \o q, s, from, to)
  <1> DEFINE n == Len(a)
             d == Len(b)
             k == Len(q)
             x == a \o q
             y == (a \o b) \o q
             f == [i \in 1 .. n + k |-> IF i <= n THEN i ELSE i + d]
  <1>1. /\ n \in Nat /\ d \in Nat /\ k \in Nat /\ DOMAIN b = 1 .. d
        /\ x \in Seq(S) /\ Len(x) = n + k /\ a \o b \in Seq(S) /\ Len(a \o b) = n + d
        /\ y \in Seq(S) /\ Len(y) = (n + d) + k /\ DOMAIN y = 1 .. (n + d) + k
    BY ConcatProperties
  <1>2. \A i \in 1 .. n + k : x[i] = IF i <= n THEN a[i] ELSE q[i - n]
    BY ConcatProperties
  <1>3. /\ \A i \in 1 .. n + d : (a \o b)[i] = IF i <= n THEN a[i] ELSE b[i - n]
        /\ \A i \in 1 .. (n + d) + k : y[i] = IF i <= n + d THEN (a \o b)[i] ELSE q[i - (n + d)]
    BY <1>1, ConcatProperties
  <1> HIDE DEF n, d, k, x, y
  <1>4. ASSUME NEW i \in 1 .. n + k PROVE f[i] \in 1 .. (n + d) + k /\ y[f[i]] = x[i]
    <2>1. CASE i <= n
      <3>1. f[i] = i /\ i \in 1 .. (n + d) + k /\ i \in 1 .. n + d /\ i <= n + d
        BY <1>1, <2>1
      <3>2. y[i] = (a \o b)[i]
        BY <1>3, <3>1
      <3>3. (a \o b)[i] = a[i] /\ x[i] = a[i]
        BY <1>2, <1>3, <2>1, <3>1
      <3> HIDE DEF f
      <3> QED
        BY <3>1, <3>2, <3>3
    <2>2. CASE ~(i <= n)
      <3>1. /\ f[i] = i + d /\ i + d \in 1 .. (n + d) + k /\ ~(i + d <= n + d)
            /\ (i + d) - (n + d) = i - n
        BY <1>1, <2>2
      <3>2. y[i + d] = q[(i + d) - (n + d)]
        BY <1>3, <3>1
      <3> QED
        BY <1>2, <2>2, <3>1, <3>2
    <2> QED
      BY <2>1, <2>2
  <1>5. \A i, j \in 1 .. n + k : i < j <=> f[i] < f[j]
    BY <1>1
  <1>6. ASSUME NEW j \in AlertsIn(y, s) PROVE \E i \in 1 .. n + k : j = f[i]
    <2>1. j \in 1 .. (n + d) + k /\ y[j].kind = "alert"
      BY <1>1 DEF AlertsIn
    <2>2. CASE j <= n
      <3>1. j \in 1 .. n + k /\ f[j] = j
        BY <1>1, <2>1, <2>2
      <3> QED
        BY <3>1
    <2>3. CASE ~(j <= n) /\ j <= n + d
      <3>1. y[j] = b[j - n] /\ j - n \in 1 .. d
        <4>1. j \in 1 .. n + d /\ j - n \in 1 .. d
          BY <1>1, <2>1, <2>3
        <4>2. y[j] = (a \o b)[j]
          BY <1>3, <2>1, <2>3
        <4> QED
          BY <1>3, <2>3, <4>1, <4>2
      <3> QED
        BY <1>1, <2>1, <3>1
    <2>4. CASE ~(j <= n + d)
      <3>1. j - d \in 1 .. n + k /\ f[j - d] = j
        BY <1>1, <2>1, <2>4
      <3> QED
        BY <3>1
    <2> QED
      BY <1>1, <2>1, <2>2, <2>3, <2>4
  <1> HIDE DEF f
  <1>7. SameAlerts(y, x, s, f)
    BY <1>1, <1>4, <1>5, <1>6 DEF SameAlerts
  <1>8. ByTurns(x, s, from, to)
    BY DEF x
  <1>9. ByTurns(y, s, from, to)
    BY <1>1, <1>7, <1>8, TurnsCarried
  <1> QED
    BY <1>9 DEF y

(* policy_run() called with the message and north_rx(): alerts of a sensor *)
(* reach the cloud by turns, none lost or repeated, and the last one says  *)
(* what the policy engine holds.                                           *)
THEOREM AlertsByTurns ==
  ASSUME Envelope
  PROVE  GatewaySpec => []AlertsFollowPolicy
  <1> DEFINE Inv == GatewayTypes /\ AlertsFollowPolicy
  <1>1. GatewayInit => Inv
    <2> SUFFICES ASSUME GatewayInit PROVE Inv
      OBVIOUS
    <2>1. GatewayTypes
      BY GatewayInitTyped
    <2>2. cloud \o urgent = <<>> /\ \A s \in Sensor : active[s] = FALSE
      BY EmptySeq, ConcatEmptySeq DEF GatewayInit, NorthInit, PolicyInit
    <2>3. AlertsFollowPolicy
      BY <2>2 DEF AlertsFollowPolicy, ByTurns, AlertsIn
    <2> QED
      BY <2>1, <2>3
  <1>2. Inv /\ [GatewayNext]_gatewayVars => Inv'
    <2> SUFFICES ASSUME GatewayTypes, AlertsFollowPolicy, [GatewayNext]_gatewayVars,
                        GatewayTypes', NEW s \in Sensor
                 PROVE  ByTurns(cloud' \o urgent', s, FALSE, active'[s])
      BY GatewayTyped DEF AlertsFollowPolicy
    <2>1. ByTurns(cloud \o urgent, s, FALSE, active[s]) /\ active[s] \in BOOLEAN
      BY DEF AlertsFollowPolicy, GatewayTypes
    <2>2. /\ cloud \in Seq(GatewayMsg) /\ urgent \in Seq(GatewayMsg) /\ buffer \in Seq(GatewayMsg)
          /\ cloud \o urgent \in Seq(GatewayMsg)
      <3>1. urgent \in Seq(GatewayMsg)
        BY SeqMonotonic DEF GatewayMsg, GatewayTypes
      <3> QED
        BY <3>1, LineTyped, ConcatProperties
    <2>3. \A b \in Seq(GatewayMsg) : (\A i \in DOMAIN b : b[i].kind # "alert") =>
            ByTurns((cloud \o b) \o urgent, s, FALSE, active[s])
      BY <2>1, <2>2, TurnsIgnore, Zenon
    <2>4. ASSUME UNCHANGED <<cloud, urgent, active>>
          PROVE  ByTurns(cloud' \o urgent', s, FALSE, active'[s])
      BY <2>1, <2>4
    <2>5. CASE PolicyRun
      <3> PICK r : r = Reading(Head(readings))
        OBVIOUS
      <3>1. r.sensor \in Sensor /\ Alert(r) \in GatewayMsg /\ Breached(r) \in BOOLEAN
        <4>1. Head(readings) \in ReadingMsg
          BY <2>5 DEF PolicyRun, GatewayTypes
        <4> QED
          BY <4>1, ReadingIs DEF GatewayMsg
      <3>2. /\ active' = [active EXCEPT ![r.sensor] = Breached(r)] /\ cloud' = cloud
            /\ IF Breached(r) # active[r.sensor] THEN urgent' = Append(urgent, Alert(r))
               ELSE urgent' = urgent
        BY <2>5 DEF PolicyRun, Raises
      <3>3. active'[s] = IF r.sensor = s THEN Breached(r) ELSE active[s]
        BY <3>2 DEF GatewayTypes
      <3>4. CASE Breached(r) = active[r.sensor]
        BY <2>1, <3>2, <3>3, <3>4
      <3>5. CASE Breached(r) # active[r.sensor]
        <4> PICK m \in GatewayMsg : m = Alert(r)
          BY <3>1
        <4>1. m.kind = "alert" /\ m.sensor = r.sensor /\ m.active = Breached(r)
          BY DEF Alert
        <4>2. cloud' \o urgent' = Append(cloud \o urgent, m)
          <5>1. \A x \in GatewayMsg : cloud \o Append(urgent, x) = Append(cloud \o urgent, x)
            BY <2>2, Rebracketed
          <5> QED
            BY <3>2, <3>5, <5>1
        <4> PICK z \in Seq(GatewayMsg) : z = cloud \o urgent
          BY <2>2
        <4>3. /\ m.sensor # s => ByTurns(Append(z, m), s, FALSE, active[s])
              /\ m.sensor = s /\ m.active # active[s] => ByTurns(Append(z, m), s, FALSE, m.active)
          BY <2>1, <4>1, TurnTaken
        <4> QED
          BY <3>3, <3>5, <4>1, <4>2, <4>3
      <3> QED
        BY <3>4, <3>5
    <2>6. CASE NorthTimer
      <3>1. /\ active' = active /\ urgent' = urgent
            /\ cloud' = cloud \o buffer \/ cloud' = cloud
        BY <2>6, LinkMoves DEF NorthTimer, policy
      <3>2. \A i \in DOMAIN buffer : buffer[i].kind # "alert"
        <4>1. buffer \in Seq(TelemetryMsg) /\ \A m \in TelemetryMsg : m.kind = "telemetry"
          BY DEF GatewayTypes, TelemetryMsg
        <4> QED
          BY <4>1
      <3> QED
        BY <2>1, <2>2, <2>3, <3>1, <3>2
    <2>7. CASE NorthTelemetry
      <3> PICK m : m = Head(normal)
        OBVIOUS
      <3>1. /\ active' = active /\ urgent' = urgent
            /\ cloud' = Append(cloud, m) \/ cloud' = cloud
        BY <2>7 DEF NorthTelemetry, policy
      <3>2. m \in GatewayMsg /\ m.kind # "alert"
        BY <2>7 DEF NorthTelemetry, GatewayTypes, TelemetryMsg, TickMsg, GatewayMsg
      <3>3. /\ <<m>> \in Seq(GatewayMsg) /\ DOMAIN <<m>> = 1 .. 1 /\ <<m>>[1] = m
            /\ cloud \o <<m>> = Append(cloud, m)
        BY <2>2, <3>2, AppendIsConcat
      <3>4. \A i \in DOMAIN <<m>> : <<m>>[i].kind # "alert"
        BY <3>2, <3>3
      <3> QED
        BY <2>1, <2>3, <3>1, <3>3, <3>4
    <2>8. CASE NorthAlert
      <3>1. /\ active' = active /\ urgent # <<>> /\ urgent' = Tail(urgent)
            /\ cloud' = Append(cloud, Head(urgent))
        BY <2>8 DEF NorthAlert, policy
      <3>2. Append(cloud, Head(urgent)) \o Tail(urgent) = cloud \o urgent
        BY <2>2, <3>1, Rebracketed, Zenon
      <3> QED
        BY <2>1, <3>1, <3>2
    <2>9. CASE Second \/ Poll \/ UNCHANGED gatewayVars
      <3>1. UNCHANGED <<cloud, urgent, active>>
        BY <2>9 DEF Second, Poll, gatewayVars, policy
      <3> QED
        BY <2>4, <3>1
    <2> QED
      BY <2>5, <2>6, <2>7, <2>8, <2>9 DEF GatewayNext, North
  <1> QED
    BY <1>1, <1>2, PTL DEF GatewaySpec
=============================================================================
