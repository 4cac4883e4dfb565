--------------------------- MODULE WatchdogProofs ---------------------------
(* The watchdog driver for any number of FBs, slots and timeouts and any   *)
(* boot time: no slot escapes the scan, whatever registers and unregisters *)
(* meanwhile, and the difference of two wrapped stamps is what it is       *)
(* compared as.                                                            *)
EXTENDS Watchdog, SequenceTheorems, TLAPS

(* Real time since the last sign of life of the FB of a slot, at the       *)
(* moment the monitor read the clock; negative if it came after that.      *)
Elapsed(s) == nowReal - alive[s.fb]

(* All the code can tell from 32 bits: an FB that has been silent for the  *)
(* whole range of the clock looks fresh again.                             *)
Fresh(s) == Elapsed(s) <= s.timeout \/ Elapsed(s) >= Wrap

Stamped(s) ==
    /\ s.last = alive[s.fb] % Wrap
    /\ time - ticks <= alive[s.fb]

ClockInv ==
    /\ time \in Nat /\ ticks \in 0 .. MaxTicks /\ ticks <= time
    /\ alive \in [FB -> Nat] /\ \A f \in FB : alive[f] <= time
    /\ nowReal \in Nat /\ nowReal <= time
    /\ mon \in {"sleep", "lock", "scan", "publish", "kick"}
    /\ mon # "sleep" => now = nowReal % Wrap

(* An FB has one slot, whose stamp is its last sign of life.               *)
SlotsInv ==
    /\ slots \in Seq(Slot)
    /\ \A p, q \in 1 .. Len(slots) : slots[p].fb = slots[q].fb => p = q
    /\ \A p \in 1 .. Len(slots) : Stamped(slots[p])

(* The scan has looked at every slot before its index, and the slots stay  *)
(* where they are until it is over; after it, what joins is fresh.         *)
ScanInv ==
    /\ i \in Nat \ {0} /\ allOk \in BOOLEAN
    /\ mon \in {"sleep", "lock"} => i = 1
    /\ mon = "scan" /\ allOk => \A p \in 1 .. Len(slots) : p < i => Fresh(slots[p])
    /\ mon = "publish" => ~allOk
    /\ mon = "kick" => \A p \in 1 .. Len(slots) : Fresh(slots[p])

WdgInv == ClockInv /\ SlotsInv /\ ScanInv

-----------------------------------------------------------------------------
(* Arithmetic modulo the range of the clock.                               *)

(* Quotient and remainder.                                                 *)
LEMMA Division ==
  ASSUME NEW w \in Nat \ {0}, NEW a \in Int
  PROVE  (a % w) \in 0 .. w - 1 /\ a = w * (a \div w) + (a % w) /\ a \div w \in Int
  OBVIOUS

(* There is no other remainder.                                            *)
LEMMA OneRemainder ==
  ASSUME NEW w \in Nat \ {0}, NEW q \in Int, NEW r \in 0 .. w - 1
  PROVE  (w * q + r) % w = r
  OBVIOUS

(* The difference of two wrapped stamps is the wrapped difference: what    *)
(* the uint32_t subtraction of monitor_scan() computes.                    *)
LEMMA WrappedDifference ==
  ASSUME NEW w \in Nat \ {0}, NEW a \in Nat, NEW b \in Nat
  PROVE  ((a % w) - (b % w)) % w = (a - b) % w
  <1> DEFINE x == a \div w
             y == b \div w
             r == a % w
             s == b % w
             z == (r - s) \div w
             t == (r - s) % w
  <1>1. x \in Int /\ y \in Int /\ r \in Int /\ s \in Int /\ a = w * x + r /\ b = w * y + s
    BY Division
  <1>2. z \in Int /\ t \in 0 .. w - 1 /\ r - s = w * z + t
    BY <1>1, Division
  <1> HIDE DEF x, y, r, s, z, t
  <1>3. a - b = w * (x - y + z) + t
    BY <1>1, <1>2
  <1>4. (w * (x - y + z) + t) % w = t
    BY <1>1, <1>2, OneRemainder
  <1> QED
    BY <1>3, <1>4 DEF r, s, t

(* A number below the range is not changed, a larger one gets smaller.     *)
LEMMA SmallRemainder ==
  ASSUME NEW w \in Nat \ {0}, NEW a \in Nat
  PROVE  (a % w) \in Nat /\ (a % w) <= a /\ (a < w => a % w = a)
  OBVIOUS

-----------------------------------------------------------------------------
(* What the comparison of the scan means.                                  *)

(* The constants.                                                          *)
LEMMA Constants == Wrap \in Nat \ {0} /\ \A s \in Slot : s.fb \in FB /\ s.timeout \in Nat
  BY WatchdogAssumption DEF WatchdogAssumption, Slot

(* What the scan computes for a slot.                                      *)
LEMMA LateMeans ==
  ASSUME ClockInv, mon # "sleep", NEW s \in Slot, Stamped(s)
  PROVE  /\ Late(s) <=> (Elapsed(s) % Wrap) > (s.timeout % Wrap)
         /\ Elapsed(s) \in Int
  <1>1. alive[s.fb] \in Nat /\ nowReal \in Nat /\ now = nowReal % Wrap
    BY Constants DEF ClockInv
  <1>2. (now - s.last) % Wrap = Elapsed(s) % Wrap
    <2> DEFINE b == alive[s.fb]
    <2>1. b \in Nat /\ s.last = b % Wrap
      BY <1>1 DEF Stamped
    <2> HIDE DEF b
    <2>2. ((nowReal % Wrap) - (b % Wrap)) % Wrap = (nowReal - b) % Wrap
      BY <1>1, <2>1, Constants, WrappedDifference
    <2> QED
      BY <1>1, <2>1, <2>2 DEF Elapsed, b
  <1> QED
    BY <1>1, <1>2 DEF Late, Elapsed

(* A slot that passes the comparison is fresh.                             *)
LEMMA PassesIsFresh ==
  ASSUME ClockInv, mon # "sleep", NEW s \in Slot, Stamped(s), ~Late(s)
  PROVE  Fresh(s)
  <1> DEFINE e == Elapsed(s)
             m == s.timeout
  <1>1. e \in Int /\ m \in Nat /\ ~((e % Wrap) > (m % Wrap))
    BY LateMeans, Constants
  <1>2. (m % Wrap) \in Nat /\ (m % Wrap) <= m
    BY <1>1, Constants, SmallRemainder
  <1> HIDE DEF e, m
  <1>3. CASE e < 0
    <2>1. e <= m
      BY <1>1, <1>3
    <2> QED
      BY <2>1 DEF Fresh, e, m
  <1>4. CASE e \in Nat /\ e < Wrap
    <2>1. e % Wrap = e
      BY <1>4, Constants, SmallRemainder
    <2>2. e <= m
      BY <1>1, <1>2, <1>4, <2>1
    <2> QED
      BY <2>2 DEF Fresh, e, m
  <1>5. CASE e >= Wrap
    BY <1>5 DEF Fresh, e
  <1> QED
    BY <1>1, <1>3, <1>4, <1>5, Constants

(* A slot that does not pass it is late, or it came after the clock was    *)
(* read.                                                                   *)
LEMMA LateIsLate ==
  ASSUME ClockInv, mon # "sleep", NEW s \in Slot, Stamped(s), Late(s), s.timeout < Wrap
  PROVE  Elapsed(s) > s.timeout \/ alive[s.fb] > nowReal
  <1> DEFINE e == Elapsed(s)
             m == s.timeout
  <1>1. e \in Int /\ m \in Nat /\ m < Wrap /\ (e % Wrap) > (m % Wrap)
    BY LateMeans, Constants
  <1>2. e < 0 => alive[s.fb] > nowReal
    BY Constants DEF Elapsed, ClockInv
  <1> HIDE DEF e, m
  <1>3. m % Wrap = m
    BY <1>1, Constants, SmallRemainder
  <1>4. CASE e \in Nat
    <2>1. (e % Wrap) \in Nat /\ (e % Wrap) <= e
      BY <1>4, Constants, SmallRemainder
    <2>2. e > m
      BY <1>1, <1>3, <1>4, <2>1
    <2> QED
      BY <2>2 DEF e, m
  <1> QED
    BY <1>1, <1>2, <1>4

-----------------------------------------------------------------------------
(* One lemma per kind of action.                                           *)

(* The slots are a sequence.                                               *)
LEMMA SlotsAre ==
  ASSUME SlotsInv
  PROVE  /\ Len(slots) \in Nat /\ DOMAIN slots = 1 .. Len(slots)
         /\ \A p \in 1 .. Len(slots) : slots[p] \in Slot /\ slots[p].fb \in FB
  <1>1. Len(slots) \in Nat /\ DOMAIN slots = 1 .. Len(slots)
    BY LenProperties DEF SlotsInv
  <1>2. \A p \in 1 .. Len(slots) : slots[p] \in Slot
    BY ElementOfSeq DEF SlotsInv
  <1> QED
    BY <1>1, <1>2, Constants

(* While no scan is under way an FB may give a sign of life: its slot, if  *)
(* it has one then, is stamped with it, and the other slots may move but   *)
(* do not change.                                                          *)
LEMMA CallKeeps ==
  ASSUME WdgInv, ~Locked, UNCHANGED <<clockVars, monVars>>, NEW f \in FB,
         alive' \in {alive, [alive EXCEPT ![f] = time]},
         slots' \in Seq(Slot),
         \A p, q \in 1 .. Len(slots') : slots'[p].fb = slots'[q].fb => p = q,
         \A p \in 1 .. Len(slots') :
             \/ slots'[p].fb = f /\ slots'[p].last = Stamp /\ alive' = [alive EXCEPT ![f] = time]
             \/ /\ \E q \in 1 .. Len(slots) : slots'[p] = slots[q]
                /\ slots'[p].fb = f => alive' = alive
  PROVE  WdgInv'
  <1>1. /\ UNCHANGED <<time, ticks, mon, now, i, allOk, nowReal>>
        /\ mon \in {"sleep", "lock", "kick"}
        /\ time \in Nat /\ ticks \in 0 .. MaxTicks /\ nowReal \in Nat /\ nowReal <= time
        /\ alive \in [FB -> Nat]
    BY DEF clockVars, monVars, Locked, WdgInv, ClockInv
  <1>2. ClockInv'
    BY <1>1 DEF WdgInv, ClockInv
  <1>3. Len(slots') \in Nat /\ \A p \in 1 .. Len(slots') : slots'[p] \in Slot
    BY LenProperties, ElementOfSeq
  <1>4. ASSUME NEW p \in 1 .. Len(slots')
        PROVE  /\ Stamped(slots[p])'
               /\ mon = "kick" => Fresh(slots[p])'
    <2> DEFINE s == slots'[p]
    <2>0. s \in Slot /\ s.fb \in FB /\ s.timeout \in Nat
      BY <1>3, Constants
    <2>1. CASE s.fb = f /\ s.last = Stamp /\ alive' = [alive EXCEPT ![f] = time]
      <3>1. alive'[s.fb] = time
        BY <1>1, <2>1
      <3> QED
        BY <1>1, <2>0, <2>1, <3>1 DEF Stamped, Stamp, Fresh, Elapsed
    <2>2. CASE (\E q \in 1 .. Len(slots) : s = slots[q]) /\ (s.fb = f => alive' = alive)
      <3>1. PICK q \in 1 .. Len(slots) : s = slots[q]
        BY <2>2
      <3>2. alive'[s.fb] = alive[s.fb]
        BY <1>1, <2>0, <2>2
      <3>3. Stamped(s) /\ (mon = "kick" => Fresh(s))
        BY <3>1 DEF WdgInv, SlotsInv, ScanInv
      <3> QED
        BY <1>1, <3>2, <3>3 DEF Stamped, Fresh, Elapsed
    <2> QED
      BY <2>1, <2>2
  <1>5. SlotsInv'
    BY <1>3, <1>4 DEF SlotsInv
  <1>6. ScanInv'
    BY <1>1, <1>4 DEF WdgInv, ScanInv
  <1> QED
    BY <1>2, <1>5, <1>6 DEF WdgInv

(* A sequence of slots of the same FBs, in the same places.                *)
LEMMA InPlace ==
  ASSUME SlotsInv, NEW u \in [1 .. Len(slots) -> Slot],
         \A p \in 1 .. Len(slots) : u[p].fb = slots[p].fb
  PROVE  /\ u \in Seq(Slot) /\ Len(u) = Len(slots)
         /\ \A p, q \in 1 .. Len(slots) : u[p].fb = u[q].fb => p = q
  <1>1. Len(slots) \in Nat
    BY SlotsAre
  <1>2. u \in Seq(Slot)
    BY <1>1, SeqDef
  <1>3. Len(u) = Len(slots)
    BY <1>1
  <1> QED
    BY <1>2, <1>3 DEF SlotsInv

(* embediq_wdg_checkin().                                                  *)
LEMMA CheckinKeeps ==
  ASSUME WdgInv, NEW f \in FB, DoCheckin(f)
  PROVE  WdgInv'
  <1>1. SlotsInv /\ Len(slots) \in Nat /\ DOMAIN slots = 1 .. Len(slots)
        /\ \A p \in 1 .. Len(slots) : slots[p] \in Slot
    BY SlotsAre DEF WdgInv
  <1>2. ~Locked /\ UNCHANGED <<clockVars, monVars>>
    BY DEF DoCheckin
  <1>3. Stamp \in 0 .. Wrap - 1
    BY Constants, Division DEF Stamp, WdgInv, ClockInv
  <1>4. slots' \in [1 .. Len(slots) -> Slot]
        /\ \A p \in 1 .. Len(slots) :
             /\ slots'[p].fb = slots[p].fb
             /\ slots[p].fb = f => slots'[p].last = Stamp
             /\ slots[p].fb # f => slots'[p] = slots[p]
    <2>1. slots' = [p \in 1 .. Len(slots) |->
                      IF p \in HasSlot(f) THEN [slots[p] EXCEPT !.last = Stamp] ELSE slots[p]]
      BY <1>1 DEF DoCheckin
    <2>2. ASSUME NEW s \in Slot
          PROVE  LET t == [s EXCEPT !.last = Stamp] IN t \in Slot /\ t.fb = s.fb /\ t.last = Stamp
      BY <1>3 DEF Slot
    <2>3. \A p \in 1 .. Len(slots) : p \in HasSlot(f) <=> slots[p].fb = f
      BY <1>1 DEF HasSlot
    <2> QED
      BY <1>1, <2>1, <2>2, <2>3
  <1>5. /\ slots' \in Seq(Slot) /\ Len(slots') = Len(slots)
        /\ \A p, q \in 1 .. Len(slots') : slots'[p].fb = slots'[q].fb => p = q
    BY <1>1, <1>4, InPlace
  <1>6. CASE HasSlot(f) # {}
    <2>1. alive' = [alive EXCEPT ![f] = time]
      BY <1>6 DEF DoCheckin, SignOfLife
    <2> QED
      BY <1>2, <1>4, <1>5, <2>1, CallKeeps
  <1>7. CASE HasSlot(f) = {}
    <2>1. alive' = alive
      BY <1>7 DEF DoCheckin
    <2>2. \A p \in 1 .. Len(slots) : slots[p].fb # f
      BY <1>1, <1>7 DEF HasSlot
    <2> QED
      BY <1>2, <1>4, <1>5, <2>1, <2>2, CallKeeps
  <1> QED
    BY <1>6, <1>7

(* embediq_wdg_register().                                                 *)
LEMMA RegisterKeeps ==
  ASSUME WdgInv, NEW f \in FB, DoRegister(f)
  PROVE  WdgInv'
  <1>1. SlotsInv /\ Len(slots) \in Nat /\ DOMAIN slots = 1 .. Len(slots)
        /\ \A p \in 1 .. Len(slots) : slots[p] \in Slot
    BY SlotsAre DEF WdgInv
  <1>2. ~Locked /\ UNCHANGED <<clockVars, monVars>>
    BY DEF DoRegister
  <1>3. Stamp \in 0 .. Wrap - 1
    BY Constants, Division DEF Stamp, WdgInv, ClockInv
  <1>4. CASE Known(f) \/ HasRoom
    <2>1. PICK t \in Timeout[f] :
            slots' = IF Known(f) THEN [p \in DOMAIN slots |->
                                IF p \in HasSlot(f) THEN [fb |-> f, timeout |-> t, last |-> Stamp] ELSE slots[p]]
                                 ELSE Append(slots, [fb |-> f, timeout |-> t, last |-> Stamp])
      BY <1>4 DEF DoRegister
    <2> DEFINE e == [fb |-> f, timeout |-> t, last |-> Stamp]
    <2>2. e \in Slot /\ e.fb = f /\ e.last = Stamp
      BY <1>3 DEF Slot
    <2>3. alive' = [alive EXCEPT ![f] = time]
      BY <1>4 DEF DoRegister, SignOfLife
    <2> HIDE DEF e
    <2>4. CASE Known(f)
      <3>1. slots' = [p \in 1 .. Len(slots) |-> IF p \in HasSlot(f) THEN e ELSE slots[p]]
        BY <1>1, <2>1, <2>4 DEF e
      <3>2. \A p \in 1 .. Len(slots) : p \in HasSlot(f) <=> slots[p].fb = f
        BY <1>1 DEF HasSlot
      <3>3. /\ slots' \in [1 .. Len(slots) -> Slot]
            /\ \A p \in 1 .. Len(slots) :
                 /\ slots'[p].fb = slots[p].fb
                 /\ slots[p].fb = f => slots'[p].last = Stamp
                 /\ slots[p].fb # f => slots'[p] = slots[p]
        BY <1>1, <2>2, <3>1, <3>2
      <3>4. /\ slots' \in Seq(Slot) /\ Len(slots') = Len(slots)
            /\ \A p, q \in 1 .. Len(slots') : slots'[p].fb = slots'[q].fb => p = q
        BY <1>1, <3>3, InPlace
      <3> QED
        BY <1>2, <2>3, <3>3, <3>4, CallKeeps
    <2>5. CASE ~Known(f)
      <3>1. slots' = Append(slots, e)
        BY <2>1, <2>5 DEF e
      <3>2. /\ slots' \in Seq(Slot) /\ Len(slots') = Len(slots) + 1
            /\ \A p \in 1 .. Len(slots) : slots'[p] = slots[p]
            /\ slots'[Len(slots) + 1] = e
        BY <1>1, <2>2, <3>1, AppendProperties DEF SlotsInv
      <3>3. \A p \in 1 .. Len(slots) : slots[p].fb # f
        BY <1>1, <2>5 DEF Known, HasSlot
      <3>4. \A p, q \in 1 .. Len(slots) : slots[p].fb = slots[q].fb => p = q
        BY <1>1 DEF SlotsInv
      <3>5. \A p, q \in 1 .. Len(slots') : slots'[p].fb = slots'[q].fb => p = q
        BY <1>1, <2>2, <3>2, <3>3, <3>4
      <3>6. \A p \in 1 .. Len(slots') :
              \/ slots'[p].fb = f /\ slots'[p].last = Stamp
              \/ slots'[p].fb # f /\ \E q \in 1 .. Len(slots) : slots'[p] = slots[q]
        BY <1>1, <2>2, <3>2, <3>3
      <3> QED
        BY <1>2, <2>3, <3>2, <3>5, <3>6, CallKeeps
    <2> QED
      BY <2>4, <2>5
  <1>5. CASE ~(Known(f) \/ HasRoom)
    <2>1. UNCHANGED <<slots, alive>>
      BY <1>5 DEF DoRegister
    <2>2. \A p, q \in 1 .. Len(slots) : slots[p].fb = slots[q].fb => p = q
      BY <1>1 DEF SlotsInv
    <2> QED
      BY <1>1, <1>2, <2>1, <2>2, CallKeeps DEF SlotsInv
  <1> QED
    BY <1>4, <1>5

(* What removal from a sequence gives.                                     *)
LEMMA Removing ==
  ASSUME NEW S, NEW s \in Seq(S), NEW k \in 1 .. Len(s)
  PROVE  /\ RemoveAt(s, k) \in Seq(S)
         /\ Len(RemoveAt(s, k)) = Len(s) - 1
         /\ \A p \in 1 .. Len(s) - 1 : RemoveAt(s, k)[p] = IF p < k THEN s[p] ELSE s[p + 1]
  <1> DEFINE n == Len(s)
             u == SubSeq(s, 1, k - 1)
             v == SubSeq(s, k + 1, n)
  <1>1. n \in Nat /\ \A p \in 1 .. n : s[p] \in S
    BY LenProperties, ElementOfSeq
  <1>2. u \in Seq(S) /\ Len(u) = k - 1 /\ \A p \in 1 .. k - 1 : u[p] = s[p]
    <2>1. k - 1 \in Int /\ \A p \in 1 .. k - 1 : s[p] \in S
      BY <1>1
    <2>2. u \in Seq(S) /\ \A p \in 1 .. (k - 1) - 1 + 1 : u[p] = s[1 + p - 1]
      BY <2>1, SubSeqProperties
    <2>3. Len(u) = IF 1 <= k - 1 THEN (k - 1) - 1 + 1 ELSE 0
      BY <2>1, SubSeqProperties
    <2> HIDE DEF u
    <2>4. k \in Nat \ {0}
      BY <1>1
    <2>5. Len(u) = k - 1
      BY <2>3, <2>4
    <2>6. \A p \in 1 .. k - 1 : p \in 1 .. (k - 1) - 1 + 1 /\ 1 + p - 1 = p
      BY <2>4
    <2> QED
      BY <2>2, <2>5, <2>6
  <1>3. v \in Seq(S) /\ Len(v) = n - k /\ \A p \in 1 .. n - k : v[p] = s[k + p]
    <2>1. k + 1 \in Int /\ n \in Int /\ \A p \in k + 1 .. n : s[p] \in S
      BY <1>1
    <2>2. v \in Seq(S) /\ \A p \in 1 .. n - (k + 1) + 1 : v[p] = s[k + 1 + p - 1]
      BY <2>1, SubSeqProperties
    <2>3. Len(v) = IF k + 1 <= n THEN n - (k + 1) + 1 ELSE 0
      BY <2>1, SubSeqProperties
    <2> HIDE DEF v
    <2>4. k \in Nat \ {0} /\ k <= n
      BY <1>1
    <2>5. Len(v) = n - k
      BY <1>1, <2>3, <2>4
    <2>6. \A p \in 1 .. n - k : p \in 1 .. n - (k + 1) + 1 /\ k + 1 + p - 1 = k + p
      BY <1>1, <2>4
    <2> QED
      BY <2>2, <2>5, <2>6
  <1>4. RemoveAt(s, k) = u \o v
    BY DEF RemoveAt
  <1> HIDE DEF u, v
  <1>5. /\ u \o v \in Seq(S) /\ Len(u \o v) = Len(u) + Len(v)
        /\ \A p \in 1 .. Len(u) + Len(v) : (u \o v)[p] = IF p <= Len(u) THEN u[p] ELSE v[p - Len(u)]
    BY <1>2, <1>3, ConcatProperties
  <1> DEFINE r == RemoveAt(s, k)
  <1> HIDE DEF r
  <1>6. r \in Seq(S) /\ Len(r) = n - 1
    BY <1>1, <1>2, <1>3, <1>4, <1>5 DEF r
  <1>7. ASSUME NEW p \in 1 .. n - 1 PROVE r[p] = IF p < k THEN s[p] ELSE s[p + 1]
    <2>1. r[p] = IF p <= k - 1 THEN u[p] ELSE v[p - (k - 1)]
      BY <1>1, <1>2, <1>3, <1>4, <1>5 DEF r
    <2>2. CASE p < k
      BY <1>1, <1>2, <2>1, <2>2
    <2>3. CASE ~(p < k)
      <3>1. p - (k - 1) \in 1 .. n - k /\ k + (p - (k - 1)) = p + 1
        BY <1>1, <2>3
      <3>2. r[p] = v[p - (k - 1)]
        BY <1>1, <2>1, <2>3
      <3>3. v[p - (k - 1)] = s[k + (p - (k - 1))]
        BY <1>3, <3>1
      <3> QED
        BY <2>3, <3>1, <3>2, <3>3
    <2> QED
      BY <2>2, <2>3
  <1> QED
    BY <1>6, <1>7 DEF r

(* embediq_wdg_unregister().                                               *)
LEMMA UnregisterKeeps ==
  ASSUME WdgInv, NEW f \in FB, DoUnregister(f)
  PROVE  WdgInv'
  <1>1. SlotsInv /\ Len(slots) \in Nat /\ DOMAIN slots = 1 .. Len(slots)
        /\ \A p \in 1 .. Len(slots) : slots[p] \in Slot
    BY SlotsAre DEF WdgInv
  <1>2. ~Locked /\ UNCHANGED <<clockVars, monVars, alive>>
    BY DEF DoUnregister
  <1>3. \A p, q \in 1 .. Len(slots) : slots[p].fb = slots[q].fb => p = q
    BY <1>1 DEF SlotsInv
  <1>4. CASE Known(f)
    <2>1. PICK k \in 1 .. Len(slots) : slots' = RemoveAt(slots, k)
      BY <1>1, <1>4 DEF DoUnregister, HasSlot
    <2>2. /\ slots' \in Seq(Slot) /\ Len(slots') = Len(slots) - 1
          /\ \A p \in 1 .. Len(slots) - 1 : slots'[p] = IF p < k THEN slots[p] ELSE slots[p + 1]
      BY <1>1, <2>1, Removing DEF SlotsInv
    <2>3. \A p, q \in 1 .. Len(slots') : slots'[p].fb = slots'[q].fb => p = q
      <3> SUFFICES ASSUME NEW p \in 1 .. Len(slots) - 1, NEW q \in 1 .. Len(slots) - 1,
                          slots'[p].fb = slots'[q].fb
                   PROVE  p = q
        BY <2>2
      <3> DEFINE P == IF p < k THEN p ELSE p + 1
                 Q == IF q < k THEN q ELSE q + 1
      <3>1. P \in 1 .. Len(slots) /\ Q \in 1 .. Len(slots) /\ slots[P].fb = slots[Q].fb
        BY <1>1, <2>2
      <3>2. P = Q
        BY <1>3, <3>1
      <3> QED
        BY <1>1, <3>2
    <2>4. \A p \in 1 .. Len(slots') : \E q \in 1 .. Len(slots) : slots'[p] = slots[q]
      BY <1>1, <2>2
    <2> QED
      BY <1>2, <2>2, <2>3, <2>4, CallKeeps
  <1>5. CASE ~Known(f)
    <2>1. UNCHANGED slots
      BY <1>5 DEF DoUnregister
    <2> QED
      BY <1>1, <1>2, <1>3, <2>1, CallKeeps DEF SlotsInv
  <1> QED
    BY <1>4, <1>5

(* Steps that leave slots, signs of life and monitor alone; time may pass. *)
LEMMA AsideKeeps ==
  ASSUME WdgInv, UNCHANGED <<slots, alive, monVars>>,
         \/ UNCHANGED clockVars
         \/ ticks < MaxTicks /\ time' = time + 1 /\ ticks' = ticks + 1
  PROVE  WdgInv'
  <1>1. UNCHANGED <<slots, alive, mon, now, i, allOk, nowReal>>
    BY DEF monVars
  <1>2. /\ time \in Nat /\ ticks \in 0 .. MaxTicks /\ ticks <= time /\ MaxTicks \in Nat
        /\ alive \in [FB -> Nat] /\ nowReal \in Nat /\ nowReal <= time
    BY WatchdogAssumption DEF WatchdogAssumption, WdgInv, ClockInv
  <1>3. /\ time' \in Nat /\ ticks' \in 0 .. MaxTicks /\ ticks' <= time' /\ time <= time'
        /\ time' - ticks' = time - ticks
    BY <1>2 DEF clockVars
  <1>4. ClockInv'
    BY <1>1, <1>2, <1>3 DEF WdgInv, ClockInv
  <1>5. \A s : Stamped(s)' <=> Stamped(s)
    BY <1>1, <1>3 DEF Stamped
  <1>6. \A s : Fresh(s)' <=> Fresh(s)
    BY <1>1 DEF Fresh, Elapsed
  <1> QED
    BY <1>1, <1>4, <1>5, <1>6 DEF WdgInv, SlotsInv, ScanInv

(* A step of the monitor leaves the slots and their stamps alone.          *)
LEMMA MonitorLeavesSlots ==
  ASSUME SlotsInv, UNCHANGED <<clockVars, slots, fbVars>>
  PROVE  SlotsInv'
  BY DEF SlotsInv, Stamped, clockVars, fbVars

(* The clock is read before the scan.                                      *)
LEMMA ReadClockKeeps ==
  ASSUME WdgInv, ReadClock
  PROVE  WdgInv'
  <1>1. /\ SlotsInv'
        /\ UNCHANGED <<time, ticks, slots, alive, i, allOk>>
        /\ mon = "sleep" /\ mon' = "lock" /\ now' = time % Wrap /\ nowReal' = time
    BY MonitorLeavesSlots DEF WdgInv, ReadClock, clockVars, fbVars, Stamp
  <1>2. ClockInv' /\ ScanInv'
    BY <1>1 DEF WdgInv, ClockInv, ScanInv
  <1> QED
    BY <1>1, <1>2 DEF WdgInv

(* One slot is looked at, and the ones before it do not change.            *)
LEMMA InspectKeeps ==
  ASSUME WdgInv, Inspect
  PROVE  WdgInv'
  <1>1. /\ SlotsInv'
        /\ UNCHANGED <<time, ticks, slots, alive, now, nowReal>>
        /\ mon = "scan" /\ i <= Len(slots) /\ allOk' = Verdict(slots[i])
        /\ mon' = IF Late(slots[i]) THEN "publish" ELSE "scan"
        /\ i' = IF Late(slots[i]) THEN i ELSE i + 1
    BY MonitorLeavesSlots DEF WdgInv, Inspect, clockVars, fbVars
  <1>2. ClockInv'
    BY <1>1 DEF WdgInv, ClockInv
  <1>3. i \in 1 .. Len(slots) /\ Len(slots) \in Nat /\ slots[i] \in Slot /\ Stamped(slots[i])
    BY <1>1, SlotsAre DEF WdgInv, ScanInv, SlotsInv
  <1>4. ~Late(slots[i]) => Fresh(slots[i])
    BY <1>1, <1>3, PassesIsFresh DEF WdgInv
  <1>5. \A s : Fresh(s)' <=> Fresh(s)
    BY <1>1 DEF Fresh, Elapsed
  <1>6. allOk' <=> allOk /\ ~Late(slots[i])
    BY <1>1 DEF Verdict
  <1>7. allOk' \in BOOLEAN
    BY <1>1, Zenon DEF Verdict
  <1>8. mon' = "scan" /\ allOk' => \A p \in 1 .. Len(slots) : p < i' => Fresh(slots[p])
    BY <1>1, <1>3, <1>4, <1>6 DEF WdgInv, ScanInv
  <1>9. ScanInv'
    BY <1>1, <1>3, <1>5, <1>6, <1>7, <1>8 DEF ScanInv
  <1> QED
    BY <1>1, <1>2, <1>9 DEF WdgInv

(* The rest of the scan, and the kick.                                     *)
LEMMA ScanKeeps ==
  ASSUME WdgInv, LockSlots \/ Publish \/ EndScan \/ Kick
  PROVE  WdgInv'
  <1>1. SlotsInv' /\ UNCHANGED <<time, ticks, slots, alive>>
    BY MonitorLeavesSlots DEF WdgInv, LockSlots, Publish, EndScan, Kick, clockVars, fbVars
  <1>2. i \in Nat \ {0} /\ Len(slots) \in Nat
    BY SlotsAre DEF WdgInv, ScanInv
  <1>3. CASE Done /\ mon \in {"scan", "kick"}
    BY <1>1, <1>3 DEF Done, WdgInv, ClockInv, ScanInv
  <1>4. CASE ~Done \/ mon \notin {"scan", "kick"}
    <2>1. UNCHANGED <<now, nowReal, allOk>>
      BY <1>4 DEF LockSlots, Publish, EndScan, Kick
    <2>2. \/ mon = "lock" /\ mon' = "scan" /\ UNCHANGED i
          \/ mon = "publish" /\ mon' = "scan" /\ i' = i + 1
          \/ mon = "scan" /\ mon' = "kick" /\ i > Len(slots) /\ allOk /\ UNCHANGED i
      BY <1>4 DEF LockSlots, Publish, EndScan, Kick, NextSlot
    <2>3. ClockInv'
      BY <1>1, <2>1, <2>2 DEF WdgInv, ClockInv
    <2>4. \A s : Fresh(s)' <=> Fresh(s)
      BY <1>1, <2>1 DEF Fresh, Elapsed
    <2>5. ScanInv'
      <3>1. CASE mon = "lock"
        BY <1>1, <1>2, <2>1, <2>2, <3>1 DEF WdgInv, ScanInv
      <3>2. CASE mon = "publish"
        BY <1>1, <1>2, <2>1, <2>2, <3>2 DEF WdgInv, ScanInv
      <3>3. CASE mon = "scan"
        <4>1. mon' = "kick" /\ UNCHANGED i /\ \A p \in 1 .. Len(slots) : Fresh(slots[p])
          BY <1>2, <2>2, <3>3 DEF WdgInv, ScanInv
        <4> QED
          BY <1>1, <2>1, <2>4, <4>1 DEF WdgInv, ScanInv
      <3> QED
        BY <2>2, <3>1, <3>2, <3>3
    <2> QED
      BY <1>1, <2>3, <2>5 DEF WdgInv
  <1> QED
    BY <1>1, <1>3, <1>4 DEF WdgInv

-----------------------------------------------------------------------------
(* The driver.                                                             *)

(* The invariant holds initially and every step preserves it.              *)
THEOREM WdgInvariant == Spec => []WdgInv
  <1>1. Init => WdgInv
    <2> SUFFICES ASSUME Init PROVE WdgInv
      OBVIOUS
    <2>1. ClockInv
      BY WatchdogAssumption DEF WatchdogAssumption, Init, ClockInv
    <2>2. SlotsInv
      BY EmptySeq DEF Init, SlotsInv
    <2>3. ScanInv
      BY DEF Init, ScanInv
    <2> QED
      BY <2>1, <2>2, <2>3 DEF WdgInv
  <1>2. WdgInv /\ [Next]_vars => WdgInv'
    <2> SUFFICES ASSUME WdgInv, [Next]_vars PROVE WdgInv'
      OBVIOUS
    <2>1. CASE Tick
      BY <2>1, AsideKeeps DEF Tick, fbVars
    <2>2. ASSUME NEW f \in FB, Enter(f) \/ Hang(f) PROVE WdgInv'
      BY <2>2, AsideKeeps DEF Enter, Hang
    <2>3. ASSUME NEW f \in FB, Client(f) PROVE WdgInv'
      BY <2>3, RegisterKeeps, CheckinKeeps, UnregisterKeeps DEF Client
    <2>4. CASE Receive
      BY <2>4, AsideKeeps DEF Receive, fbVars
    <2>5. CASE Monitor
      BY <2>5, ReadClockKeeps, InspectKeeps, ScanKeeps DEF Monitor
    <2>6. CASE UNCHANGED vars
      BY <2>6, AsideKeeps DEF vars, fbVars
    <2> QED
      BY <2>1, <2>2, <2>3, <2>4, <2>5, <2>6 DEF Next
  <1> QED
    BY <1>1, <1>2, PTL DEF Spec

(* Timeouts below the range of the clock: an FB is flagged only if its     *)
(* window was over, or if it checked in after the monitor read the clock.  *)
(* The wrap-around of the microsecond clock flags nobody.                  *)
THEOREM AlarmsAreTrue ==
  ASSUME \A f \in FB : \A t \in Timeout[f] : t < Wrap
  PROVE  Spec => FalseAlarmOnlyByRace
  <1>1. WdgInv /\ [Next]_vars =>
          [\A f \in FB : Flags(f) => nowReal - alive[f] > slots[i].timeout \/ alive[f] > nowReal]_vars
    <2> SUFFICES ASSUME WdgInv, [Next]_vars, NEW f \in FB, Flags(f)
                 PROVE  nowReal - alive[f] > slots[i].timeout \/ alive[f] > nowReal
      OBVIOUS
    <2>1. mon = "scan" /\ mon' = "publish" /\ slots[i].fb = f
      BY DEF Flags
    <2>2. Inspect
      BY <2>1 DEF Next, Tick, Enter, Hang, Client, DoRegister, DoCheckin, DoUnregister, Receive,
                  Monitor, ReadClock, LockSlots, Publish, EndScan, Kick, Done, vars, monVars
    <2>3. i <= Len(slots) /\ Late(slots[i])
      BY <2>1, <2>2 DEF Inspect
    <2>4. i \in 1 .. Len(slots) /\ slots[i] \in Slot /\ Stamped(slots[i])
      BY <2>3, SlotsAre DEF WdgInv, ScanInv, SlotsInv
    <2>5. slots[i].timeout < Wrap
      BY <2>4, WatchdogAssumption DEF Slot, WatchdogAssumption
    <2> QED
      BY <2>1, <2>3, <2>4, <2>5, LateIsLate DEF WdgInv, Elapsed
  <1> QED
    BY <1>1, WdgInvariant, PTL DEF Spec, FalseAlarmOnlyByRace

(* What the 32-bit clock allows, however long it runs: when the hardware   *)
(* watchdog is kicked, every registered FB had been within its window when *)
(* the scan read the clock, or silent for the whole range of the clock.    *)
THEOREM KickedWhenFresh ==
  Spec => [][(mon = "kick" /\ mon' = "sleep") => \A s \in DOMAIN slots : Fresh(slots[s])]_vars
  <1>1. WdgInv /\ [Next]_vars =>
          [(mon = "kick" /\ mon' = "sleep") => \A s \in DOMAIN slots : Fresh(slots[s])]_vars
    BY SlotsAre DEF WdgInv, ScanInv
  <1> QED
    BY <1>1, WdgInvariant, PTL DEF Spec

(* While the clock has not run once through its range, that is what the    *)
(* documentation promises: the watchdog is kicked only if all registered   *)
(* FBs have checked in within their windows.                               *)
THEOREM KickGated ==
  ASSUME MaxTicks < Wrap
  PROVE  Spec => KickGate
  <1>1. WdgInv /\ [Next]_vars =>
          [(mon = "kick" /\ mon' = "sleep") =>
              \A s \in DOMAIN slots : nowReal - alive[slots[s].fb] <= slots[s].timeout]_vars
    <2> SUFFICES ASSUME WdgInv, mon = "kick", NEW s \in DOMAIN slots
                 PROVE  nowReal - alive[slots[s].fb] <= slots[s].timeout
      OBVIOUS
    <2>1. slots[s] \in Slot /\ Fresh(slots[s]) /\ Stamped(slots[s])
      BY SlotsAre DEF WdgInv, ScanInv, SlotsInv
    <2>2. Elapsed(slots[s]) < Wrap
      <3>1. /\ nowReal \in Nat /\ time \in Nat /\ ticks \in Nat /\ nowReal <= time /\ ticks < Wrap
            /\ alive[slots[s].fb] \in Nat /\ time - ticks <= alive[slots[s].fb]
        BY <2>1, Constants, WatchdogAssumption DEF WatchdogAssumption, WdgInv, ClockInv, Stamped
      <3> QED
        BY <3>1, Constants DEF Elapsed
    <2>3. Elapsed(slots[s]) \in Int
      BY <2>1, LateMeans DEF WdgInv
    <2> QED
      BY <2>1, <2>2, <2>3, Constants DEF Fresh, Elapsed
  <1> QED
    BY <1>1, WdgInvariant, PTL DEF Spec, KickGate
=============================================================================
