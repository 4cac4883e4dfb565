----------------------------- MODULE CoreProofs -----------------------------
(* Three parts of the core library that share no state, for all values of  *)
(* their constants. The subscription table: the insertion sort leaves it   *)
(* ordered, the binary search and the walk of route_message() find exactly *)
(* the entries of the published id, and its copies go to exactly those who *)
(* subscribed. The platform libraries: they are torn down in the reverse   *)
(* of the order they were set up in. The Observatory: its ring holds the   *)
(* latest events, it tells what it has lost, and what it captures can be   *)
(* replayed.                                                               *)
EXTENDS SubscriptionTable, Platform, Observatory, SequenceTheorems, FiniteSetTheorems,
        TLAPS

-----------------------------------------------------------------------------
(* The subscription table                                                  *)

CollectInv == pc = "collect" => i \in 0 .. NFB /\ j \in Nat \ {0}

(* The entries in front of the current one are in order.                   *)
OuterInv ==
    pc = "outer" =>
        /\ i >= 2
        /\ \A m, n \in 1 .. Len(subs) : (m < n /\ n < i) => subs[m].msg <= subs[n].msg

(* While the key travels forward, the gap it left is at j + 1: around the  *)
(* gap the entries are in order, and those behind it exceed the key.       *)
ShiftInv ==
    pc = "shift" =>
        /\ i \in 2 .. Len(subs)
        /\ j \in 0 .. i - 1
        /\ key \in Entry
        /\ \A m, n \in 1 .. i : (m < n /\ m # j + 1 /\ n # j + 1) => subs[m].msg <= subs[n].msg
        /\ \A n \in j + 2 .. i : subs[n].msg > key.msg

SortInv == CollectInv /\ OuterInv /\ ShiftInv

SearchInv ==
    pc = "search" =>
        /\ lo \in 1 .. Len(subs) + 1
        /\ hi \in 0 .. Len(subs)
        /\ \A m \in 1 .. lo - 1 : subs[m].msg < target
        /\ \A m \in hi + 1 .. Len(subs) : subs[m].msg >= target
        /\ found = 0 => \A m \in hi + 1 .. Len(subs) : subs[m].msg > target
        /\ found # 0 => found = hi + 1 /\ found <= Len(subs) /\ subs[found].msg = target
        /\ delivered = <<>>

WalkInv ==
    pc = "walk" =>
        /\ walk \in found .. Len(subs) + 1
        /\ \A m \in found .. walk - 1 : subs[m].msg = target
        /\ delivered = [k \in 1 .. walk - found |-> subs[found + k - 1].ep]

IInv == TypeOK /\ SortInv /\ SortedAfterBoot /\ SearchInv /\ FirstHit /\ WalkInv
               /\ NoFalseMiss /\ WalkCovers

(* A table of entries, read at any place.                                  *)
LEMMA TableTyping ==
    ASSUME NEW s \in Seq(Entry)
    PROVE  /\ Len(s) \in Nat
           /\ DOMAIN s = 1 .. Len(s)
           /\ \A m \in 1 .. Len(s) : s[m] \in Entry /\ s[m].msg \in Nat /\ s[m].ep \in EP
<1>1. \A m \in 1 .. Len(s) : s[m] \in Entry
  BY ElementOfSeq
<1> QED
  BY <1>1, LenProperties DEF Entry

(* The invariant holds initially and every iteration of every loop keeps   *)
(* it. Each step of the proof is one action.                               *)
LEMMA Inductive == ASSUME IInv, [Next]_vars PROVE IInv'
<1> USE SubscriptionTableAssumption DEF IInv, SubscriptionTableAssumption
<1>0. /\ Len(subs) \in Nat
      /\ DOMAIN subs = 1 .. Len(subs)
      /\ \A m \in 1 .. Len(subs) : subs[m] \in Entry /\ subs[m].msg \in Nat /\ subs[m].ep \in EP
  BY TableTyping DEF TypeOK
<1>t. /\ i \in Nat /\ j \in Nat /\ target \in Nat /\ lo \in Nat /\ hi \in Nat
      /\ found \in Nat /\ walk \in Nat
  BY DEF TypeOK
<1>1. CASE Collect
  <2>1. subs' \in Seq(Entry)
    <3>1. CASE i < NFB /\ j <= Len(subscriptions[i]) /\ Len(subs) < MaxSubs
      <4>1. subs' = Append(subs, [msg |-> subscriptions[i][j], ep |-> i])
        BY <1>1, <3>1 DEF Collect
      <4>2. subscriptions[i] \in Seq(MsgId) /\ i \in EP /\ j \in Nat \ {0}
        BY <1>1, <3>1 DEF Collect, TypeOK, SortInv, CollectInv, OuterInv, ShiftInv, EP
      <4>3. subscriptions[i][j] \in MsgId
        BY <4>2, <3>1, ElementOfSeq, LenProperties
      <4>4. [msg |-> subscriptions[i][j], ep |-> i] \in Entry
        BY <4>2, <4>3 DEF Entry
      <4> QED
        BY <4>1, <4>4, AppendProperties DEF TypeOK
    <3>2. CASE ~(i < NFB /\ j <= Len(subscriptions[i]) /\ Len(subs) < MaxSubs)
      BY <1>1, <3>2 DEF Collect, TypeOK
    <3> QED
      BY <3>1, <3>2
  <2>2. TypeOK'
    BY <1>1, <2>1 DEF Collect, TypeOK, Locs, FirstKey, SortInv, CollectInv, OuterInv, ShiftInv
  <2>3. SortInv'
    BY <1>1, <2>1 DEF Collect, TypeOK, FirstKey, SortInv, CollectInv, OuterInv, ShiftInv
  <2> QED
    BY <1>1, <2>2, <2>3 DEF Collect, SortedAfterBoot, SearchInv, FirstHit, WalkInv,
                            NoFalseMiss, WalkCovers
<1>2. CASE SortOuter
  <2>1. TypeOK'
    BY <1>2 DEF SortOuter, TypeOK, Locs, SortInv, CollectInv, OuterInv, ShiftInv
  <2>2. SortInv'
    BY <1>0, <1>t, <1>2 DEF SortOuter, SortInv, CollectInv, OuterInv, ShiftInv
  <2>3. SortedAfterBoot'
    BY <1>0, <1>t, <1>2 DEF SortOuter, SortInv, OuterInv, SortedAfterBoot, OrderedById
  <2> QED
    BY <1>2, <2>1, <2>2, <2>3 DEF SortOuter, SearchInv, FirstHit, WalkInv, NoFalseMiss, WalkCovers
<1>3. CASE SortShift
  <2>0. pc = "shift" /\ key \in Entry /\ key.msg \in Nat /\ i \in 2 .. Len(subs) /\ j \in 0 .. i - 1
    BY <1>3 DEF SortShift, SortInv, CollectInv, OuterInv, ShiftInv, Entry
  <2>1. subs' \in Seq(Entry) /\ Len(subs') = Len(subs)
    <3>1. \E e \in Entry : subs' = [subs EXCEPT ![j + 1] = e]
      BY <1>0, <1>t, <1>3, <2>0 DEF SortShift, MustShift
    <3>2. j + 1 \in 1 .. Len(subs)
      BY <1>0, <2>0
    <3> QED
      BY <3>1, <3>2, ExceptSeq DEF TypeOK
  <2>2. TypeOK'
    BY <1>3, <2>1 DEF SortShift, TypeOK, Locs, MustShift, SortInv, CollectInv, OuterInv, ShiftInv
  <2>3. ASSUME MustShift PROVE SortInv'
    <3>1. /\ subs' = [subs EXCEPT ![j + 1] = subs[j]]
          /\ j' = j - 1 /\ UNCHANGED <<i, key, pc>>
      BY <1>3, <2>3 DEF SortShift
    <3>2. j >= 1 /\ subs[j].msg > key.msg
      BY <2>3 DEF MustShift
    <3>3. \A m \in 1 .. Len(subs) : subs'[m] = IF m = j + 1 THEN subs[j] ELSE subs[m]
      BY <1>0, <2>0, <3>1
    <3>4. ASSUME NEW m \in 1 .. i, NEW n \in 1 .. i, m < n, m # j, n # j
          PROVE  subs'[m].msg <= subs'[n].msg
      <4>1. \A x, y \in 1 .. i : (x < y /\ x # j + 1 /\ y # j + 1) => subs[x].msg <= subs[y].msg
        BY <2>0 DEF SortInv, ShiftInv
      <4> DEFINE x == IF m = j + 1 THEN j ELSE m
                 y == IF n = j + 1 THEN j ELSE n
      <4>2. /\ x \in 1 .. i /\ y \in 1 .. i /\ x < y /\ x # j + 1 /\ y # j + 1
            /\ m \in 1 .. Len(subs) /\ n \in 1 .. Len(subs)
        BY <2>0, <3>2, <3>4
      <4>3. subs'[m] = subs[x] /\ subs'[n] = subs[y]
        BY <3>3, <4>2
      <4> HIDE DEF x, y
      <4>4. subs[x].msg <= subs[y].msg
        BY <4>1, <4>2
      <4> QED
        BY <4>3, <4>4, Zenon
    <3>5. \A n \in j + 1 .. i : subs'[n].msg > key.msg
      BY <1>0, <2>0, <3>2, <3>3 DEF SortInv, CollectInv, OuterInv, ShiftInv
    <3>6. /\ pc' = "shift" /\ i' = i /\ key' = key
          /\ j' \in 0 .. i - 1 /\ j' + 1 = j /\ j' + 2 = j + 1
      BY <2>0, <3>1, <3>2
    <3>7. \A m, n \in 1 .. i' : (m < n /\ m # j' + 1 /\ n # j' + 1) => subs'[m].msg <= subs'[n].msg
      BY <3>4, <3>6
    <3>8. \A n \in j' + 2 .. i' : subs'[n].msg > key'.msg
      BY <3>5, <3>6
    <3>9. i' \in 2 .. Len(subs') /\ j' \in 0 .. i' - 1 /\ key' \in Entry
      BY <3>6, <2>0, <2>1
    <3> QED
      BY <3>6, <3>7, <3>8, <3>9 DEF SortInv, CollectInv, OuterInv, ShiftInv
  <2>4. ASSUME ~MustShift PROVE SortInv'
    <3>1. /\ subs' = [subs EXCEPT ![j + 1] = key]
          /\ i' = i + 1 /\ pc' = "outer"
      BY <1>3, <2>4 DEF SortShift
    <3>2. j = 0 \/ subs[j].msg <= key.msg
      BY <1>0, <2>0, <2>4 DEF MustShift
    <3>3. \A m \in 1 .. j : subs[m].msg <= key.msg
      BY <1>0, <2>0, <3>2 DEF SortInv, CollectInv, OuterInv, ShiftInv
    <3>4. \A m \in 1 .. Len(subs) : subs'[m] = IF m = j + 1 THEN key ELSE subs[m]
      BY <1>0, <2>0, <3>1
    <3>5. \A m, n \in 1 .. i : m < n => subs'[m].msg <= subs'[n].msg
      <4> SUFFICES ASSUME NEW m \in 1 .. i, NEW n \in 1 .. i, m < n
                   PROVE  subs'[m].msg <= subs'[n].msg
        OBVIOUS
      <4>1. \A x, y \in 1 .. i : (x < y /\ x # j + 1 /\ y # j + 1) => subs[x].msg <= subs[y].msg
        BY <2>0 DEF SortInv, ShiftInv
      <4>2. \A x \in j + 2 .. i : subs[x].msg > key.msg
        BY <2>0 DEF SortInv, ShiftInv
      <4>3. m \in 1 .. Len(subs) /\ n \in 1 .. Len(subs)
        BY <2>0
      <4>4. CASE n = j + 1
        <5>1. m \in 1 .. j /\ m # j + 1
          BY <2>0, <4>4
        <5>2. subs'[m] = subs[m] /\ subs'[n] = key
          BY <3>4, <4>3, <4>4, <5>1
        <5> QED
          BY <3>3, <5>1, <5>2, Zenon
      <4>5. CASE m = j + 1
        <5>1. n \in j + 2 .. i /\ subs'[m] = key /\ subs'[n] = subs[n]
          BY <2>0, <3>4, <4>3, <4>5
        <5>2. subs[n].msg \in Nat /\ subs[n].msg > key.msg
          BY <1>0, <4>2, <4>3, <5>1
        <5>3. key.msg <= subs[n].msg
          BY <2>0, <5>2
        <5> QED
          BY <5>1, <5>3, Zenon
      <4>6. CASE m # j + 1 /\ n # j + 1
        BY <3>4, <4>1, <4>3, <4>6
      <4> QED
        BY <4>4, <4>5, <4>6
    <3>6. DOMAIN subs' = 1 .. Len(subs) /\ i' - 1 = i /\ i' \in Nat /\ i' >= 2
      BY <2>0, <2>1, <3>1, TableTyping
    <3>7. \A m, n \in DOMAIN subs' : (m < n /\ n < i') => subs'[m].msg <= subs'[n].msg
      <4> SUFFICES ASSUME NEW m \in 1 .. Len(subs), NEW n \in 1 .. Len(subs), m < n, n < i'
                   PROVE  subs'[m].msg <= subs'[n].msg
        BY <3>6
      <4>1. m \in 1 .. i /\ n \in 1 .. i
        BY <2>0, <3>1
      <4> QED
        BY <3>5, <4>1
    <3> QED
      BY <2>1, <3>1, <3>6, <3>7 DEF SortInv, CollectInv, OuterInv, ShiftInv
  <2> QED
    BY <1>3, <2>2, <2>3, <2>4 DEF SortShift, SortedAfterBoot, SearchInv, FirstHit, WalkInv,
                                  NoFalseMiss, WalkCovers
<1>4. CASE SearchStart
  <2>1. TypeOK'
    BY <1>4 DEF SearchStart, TypeOK, Locs
  <2>2. SearchInv'
    BY <1>4 DEF SearchStart, TypeOK, SearchInv
  <2> QED
    BY <1>4, <2>1, <2>2 DEF SearchStart, SortInv, CollectInv, OuterInv, ShiftInv, SortedAfterBoot, FirstHit, WalkInv,
                            NoFalseMiss, WalkCovers
<1>5. CASE SearchStep
  <2>0. pc = "search" /\ UNCHANGED <<subs, target, delivered, i, j, key>>
    BY <1>5 DEF SearchStep
  <2>1. CASE Searching
    <3>1. /\ Mid \in lo .. hi /\ Mid \in DOMAIN subs
          /\ subs[Mid].msg \in Nat
      <4>1. lo <= hi /\ lo \in 1 .. Len(subs) + 1 /\ hi \in 0 .. Len(subs)
        BY <2>0, <2>1 DEF Searching, SearchInv
      <4>2. Mid \in lo .. hi
        BY <1>t, <4>1 DEF Mid
      <4> QED
        BY <1>0, <1>t, <4>1, <4>2
    <3>2. \A m, n \in DOMAIN subs : m < n => subs[m].msg <= subs[n].msg
      BY <2>0 DEF SortedAfterBoot, OrderedById
    <3>4. pc' = "search" /\ walk' = walk
      BY <1>5, <2>1 DEF SearchStep
    <3>5. lo' \in Nat /\ hi' \in Nat /\ found' \in Nat
      BY <1>0, <1>t, <1>5, <2>1, <3>1 DEF SearchStep, OnHit, OnLess, OnGreater
    <3>6. TypeOK'
      BY <1>5, <3>4, <3>5 DEF SearchStep, TypeOK, Locs
    <3>7. SearchInv'
      <4>1. CASE subs[Mid].msg = target /\ OnHit
        BY <1>0, <1>t, <4>1, <2>0, <3>1, <3>2, <3>4 DEF OnHit, SearchInv
      <4>2. CASE subs[Mid].msg < target /\ OnLess
        <5>1. lo' = Mid + 1 /\ hi' = hi /\ found' = found
          BY <4>2 DEF OnLess
        <5>2. \A m \in 1 .. lo' - 1 : subs[m].msg < target
          <6> SUFFICES ASSUME NEW m \in 1 .. Mid PROVE subs[m].msg < target
            BY <1>t, <3>1, <5>1
          <6>1. subs[m].msg <= subs[Mid].msg /\ subs[m].msg \in Nat
            BY <1>0, <3>1, <3>2
          <6> QED
            BY <1>t, <3>1, <4>2, <6>1
        <5> QED
          BY <1>0, <1>t, <2>0, <3>1, <3>4, <5>1, <5>2 DEF SearchInv
      <4>3. CASE subs[Mid].msg > target /\ OnGreater
        <5>1. hi' = Mid - 1 /\ lo' = lo /\ found' = found
          BY <4>3 DEF OnGreater
        <5>2. \A m \in hi' + 1 .. Len(subs) : subs[m].msg > target
          <6> SUFFICES ASSUME NEW m \in Mid .. Len(subs) PROVE subs[m].msg > target
            BY <1>t, <3>1, <5>1
          <6>1. subs[Mid].msg <= subs[m].msg /\ subs[Mid].msg \in Nat /\ subs[m].msg \in Nat
            BY <1>0, <3>1, <3>2
          <6> QED
            BY <1>t, <3>1, <4>3, <6>1
        <5>3. found = 0
          BY <1>0, <1>t, <2>0, <3>1, <3>2, <4>3 DEF SearchInv
        <5> QED
          BY <1>0, <1>t, <2>0, <3>1, <3>4, <5>1, <5>2, <5>3 DEF SearchInv
      <4> QED
        BY <1>5, <2>1, <4>1, <4>2, <4>3 DEF SearchStep
    <3> QED
      BY <2>0, <3>4, <3>6, <3>7 DEF SortInv, CollectInv, OuterInv, ShiftInv, SortedAfterBoot, OrderedById, FirstHit, WalkInv, NoFalseMiss,
                              WalkCovers
  <2>2. CASE ~Searching
    <3>1. /\ walk' = found /\ UNCHANGED <<lo, hi, found>>
          /\ pc' = IF found = 0 THEN "routed" ELSE "walk"
      BY <1>5, <2>2 DEF SearchStep
    <3>2. lo > hi
      BY <2>0, <2>2 DEF Searching, TypeOK
    <3>3. TypeOK'
      BY <1>5, <3>1 DEF SearchStep, TypeOK, Locs
    <3>4. FirstHit' /\ NoFalseMiss'
      BY <1>0, <1>t, <2>0, <3>1, <3>2 DEF FirstHit, NoFalseMiss, SearchInv
    <3>5. WalkInv' /\ WalkCovers'
      BY <2>0, <3>1 DEF WalkInv, WalkCovers, SearchInv, TypeOK
    <3> QED
      BY <2>0, <3>1, <3>3, <3>4, <3>5 DEF SortInv, CollectInv, OuterInv, ShiftInv, SortedAfterBoot, OrderedById, SearchInv
  <2> QED
    BY <2>1, <2>2
<1>6. CASE WalkStep
  <2>0. pc = "walk" /\ UNCHANGED <<subs, target, found, lo, hi, i, j, key>>
    BY <1>6 DEF WalkStep
  <2>1. CASE InRun
    <3>1. delivered' = Append(delivered, subs[walk].ep) /\ walk' = walk + 1 /\ pc' = "walk"
      BY <1>6, <2>0, <2>1 DEF WalkStep
    <3>2. walk \in DOMAIN subs /\ subs[walk].ep \in EP /\ subs[walk].msg = target
      BY <1>0, <1>t, <2>0, <2>1 DEF InRun, WalkInv, FirstHit
    <3>3. TypeOK'
      <4>1. delivered' \in Seq(EP)
        BY <3>1, <3>2 DEF TypeOK
      <4> QED
        BY <1>6, <4>1, <3>1, <1>t DEF WalkStep, TypeOK, Locs
    <3>4. delivered' = [k \in 1 .. walk' - found |-> subs[found + k - 1].ep]
      BY <2>0, <3>1, <3>2 DEF WalkInv, TypeOK, FirstHit
    <3>5. WalkInv'
      BY <2>0, <3>1, <3>2, <3>4 DEF WalkInv, TypeOK, FirstHit
    <3> QED
      BY <2>0, <3>1, <3>3, <3>5 DEF SortInv, CollectInv, OuterInv, ShiftInv, SortedAfterBoot, OrderedById, SearchInv, FirstHit,
                                    NoFalseMiss, WalkCovers
  <2>2. CASE ~InRun
    <3>1. pc' = "routed" /\ UNCHANGED <<walk, delivered>>
      BY <1>6, <2>2 DEF WalkStep
    <3>2. \A m \in DOMAIN subs : m >= walk => subs[m].msg # target
      <4> SUFFICES ASSUME NEW m \in DOMAIN subs, m >= walk PROVE subs[m].msg # target
        OBVIOUS
      <4>1. walk \in DOMAIN subs /\ subs[walk].msg # target
        BY <2>0, <2>2 DEF InRun, WalkInv, FirstHit, TypeOK
      <4>2. subs[found].msg <= subs[walk].msg /\ subs[walk].msg <= subs[m].msg
        <5>1. \A x, y \in 1 .. Len(subs) : x <= y => subs[x].msg <= subs[y].msg
          BY <1>0, <2>0 DEF SortedAfterBoot, OrderedById
        <5> QED
          BY <1>0, <1>t, <2>0, <4>1, <5>1 DEF WalkInv, FirstHit
      <4> QED
        BY <1>0, <1>t, <2>0, <4>1, <4>2 DEF FirstHit
    <3>3. TypeOK'
      BY <1>6, <3>1 DEF WalkStep, TypeOK, Locs
    <3>4. WalkCovers'
      BY <2>0, <3>1, <3>2 DEF WalkCovers, WalkInv, FirstHit, TypeOK
    <3> QED
      BY <2>0, <3>1, <3>3, <3>4 DEF SortInv, CollectInv, OuterInv, ShiftInv, SortedAfterBoot, OrderedById, SearchInv, FirstHit,
                                    WalkInv, NoFalseMiss, TypeOK
  <2> QED
    BY <2>1, <2>2
<1>7. CASE UNCHANGED vars
  BY <1>7 DEF vars, TypeOK, SortInv, CollectInv, OuterInv, ShiftInv, SortedAfterBoot, OrderedById, SearchInv, FirstHit, WalkInv,
              NoFalseMiss, WalkCovers
<1> QED
  BY <1>1, <1>2, <1>3, <1>4, <1>5, <1>6, <1>7 DEF Next

(* The invariant before anything is registered.                            *)
LEMMA Initial == Init => IInv
BY SubscriptionTableAssumption
   DEF SubscriptionTableAssumption, Init, IInv, TypeOK, Locs, Entry, NoKey, SortInv, CollectInv, OuterInv, ShiftInv, SortedAfterBoot, SearchInv, FirstHit,
       WalkInv, NoFalseMiss, WalkCovers

(* message_bus_boot(): whatever the FBs declare, the table is ordered by   *)
(* message id when sub_sort() returns, so the binary search may rely on it.*)
THEOREM SortCorrect == Spec => []SortedAfterBoot
<1>1. IInv => SortedAfterBoot
  BY DEF IInv
<1> QED
  BY Initial, Inductive, <1>1, PTL DEF Spec

(* sub_first(): the index it hands to route_message() is the first entry   *)
(* of the id, and "not found" is returned only when no FB subscribes, for  *)
(* a table of any size.                                                    *)
THEOREM SearchCorrect == Spec => []SearchExact
<1>1. IInv => SearchExact
  BY DEF IInv, SearchExact
<1> QED
  BY Initial, Inductive, <1>1, PTL DEF Spec

(* route_message(): the copies go to every entry of the id, in table       *)
(* order, and to no other.                                                 *)
THEOREM RouteCorrect == Spec => []WalkCovers
<1>1. IInv => WalkCovers
  BY DEF IInv
<1> QED
  BY Initial, Inductive, <1>1, PTL DEF Spec

(* The entry of a declared subscription.                                   *)
EntryAt(p) == [msg |-> subscriptions[p[1]][p[2]], ep |-> p[1]]

(* While the table is filled, it holds those collected so far in their     *)
(* order, and when it is full the others come after them.                  *)
Collected == {p \in Places : p[1] < i \/ (p[1] = i /\ p[2] < j)}
Gathered(f) ==
    /\ f \in [1 .. Len(subs) -> Collected]
    /\ \A n \in 1 .. Len(subs) : subs[n] = EntryAt(f[n])
    /\ \A m, n \in 1 .. Len(subs) : m < n => Earlier(f[m], f[n])
    /\ Len(subs) <= MaxSubs
    /\ \A p \in Collected :
          \/ \E n \in 1 .. Len(subs) : p = f[n]
          \/ Len(subs) = MaxSubs /\ \A n \in 1 .. Len(subs) : Earlier(f[n], p)

(* Then it holds every kept one once, the travelling key in its gap, and   *)
(* those of one id stay in the order of registration.                      *)
Current == IF pc = "shift" THEN [subs EXCEPT ![j + 1] = key] ELSE subs
Settled(t, f) ==
    /\ f \in [1 .. Len(t) -> Kept]
    /\ \A p \in Kept : \E n \in 1 .. Len(t) : p = f[n]
    /\ \A m, n \in 1 .. Len(t) : f[m] = f[n] => m = n
    /\ \A n \in 1 .. Len(t) : t[n] = EntryAt(f[n])
    /\ \A m, n \in 1 .. Len(t) : m < n /\ t[m].msg = t[n].msg => Earlier(f[m], f[n])

StableInv ==
    /\ pc = "collect" => \E f : Gathered(f)
    /\ pc # "collect" => \E f : Settled(Current, f)
    /\ pc = "routed" => IF found = 0 THEN delivered = <<>>
                        ELSE found \in 1 .. Len(subs) /\ walk \in found .. Len(subs) + 1

(* A place is the number of an FB and of one of its subscriptions.         *)
LEMMA PlacesAre ==
  ASSUME TypeOK
  PROVE  /\ \A p \in Places : p = <<p[1], p[2]>> /\ p[1] \in EP /\ p[2] \in DOMAIN subscriptions[p[1]]
         /\ \A p \in Places : p[1] \in Nat /\ p[2] \in Nat
         /\ \A e \in EP : \A s \in DOMAIN subscriptions[e] : <<e, s>> \in Places
         /\ \A e \in EP : subscriptions[e] \in Seq(MsgId)
  <1>1. \A e \in EP : subscriptions[e] \in Seq(MsgId) /\ DOMAIN subscriptions[e] \subseteq Nat
    BY SubscriptionTableAssumption DEF SubscriptionTableAssumption, TypeOK
  <1>2. EP \subseteq Nat
    BY SubscriptionTableAssumption DEF SubscriptionTableAssumption, EP
  <1>3. \A p \in Places : \E e \in EP : \E s \in DOMAIN subscriptions[e] : p = <<e, s>>
    BY DEF Places
  <1>4. \A p \in Places : p = <<p[1], p[2]>> /\ p[1] \in EP /\ p[2] \in DOMAIN subscriptions[p[1]]
    BY <1>3
  <1>5. \A e \in EP : \A s \in DOMAIN subscriptions[e] : <<e, s>> \in Places
    BY DEF Places
  <1> QED
    BY <1>1, <1>2, <1>4, <1>5

(* There are finitely many.                                                *)
LEMMA PlacesFinite ==
  ASSUME TypeOK
  PROVE  IsFiniteSet(Places)
  <1> DEFINE Of(e) == {<<e, s>> : s \in DOMAIN subscriptions[e]}
             All == {Of(e) : e \in EP}
  <1>1. ASSUME NEW e \in EP PROVE IsFiniteSet(Of(e))
    <2> PICK n \in Nat : DOMAIN subscriptions[e] = 1 .. n
      BY PlacesAre, LenProperties
    <2> DEFINE g == [s \in 1 .. n |-> <<e, s>>]
    <2>1. IsFiniteSet(1 .. n)
      BY FS_Interval
    <2>2. g \in Surjection(1 .. n, Of(e))
      BY DEF Surjection
    <2> QED
      BY <2>1, <2>2, FS_Surjection
  <1>2. IsFiniteSet(EP)
    BY FS_Interval, SubscriptionTableAssumption DEF EP, SubscriptionTableAssumption
  <1>3. IsFiniteSet(All)
    <2> DEFINE g == [e \in EP |-> Of(e)]
    <2>1. g \in Surjection(EP, All)
      BY DEF Surjection
    <2> QED
      BY <1>2, <2>1, FS_Surjection
  <1>4. \A T \in All : IsFiniteSet(T)
    BY <1>1
  <1>5. IsFiniteSet(UNION All)
    <2> HIDE DEF All
    <2> QED
      BY <1>3, <1>4, FS_UNION
  <1> QED
    BY <1>5 DEF Places

InOrder(f, n) == \A k, m \in 1 .. n : k < m => Earlier(f[k], f[m])
Initials(f, k) == {f[m] : m \in 1 .. k}
Pairs(P) == \A p \in P : p[1] \in Nat /\ p[2] \in Nat

(* Places in ascending order are as many as their numbers.                 *)
LEMMA Ascending ==
  ASSUME NEW n \in Nat, NEW P, NEW f \in [1 .. n -> P],
         Pairs(P), InOrder(f, n)
  PROVE  /\ \A k, m \in 1 .. n : f[k] = f[m] => k = m
         /\ \A k, m \in 1 .. n : Earlier(f[k], f[m]) => k < m
         /\ \A k \in 0 .. n : /\ IsFiniteSet(Initials(f, k))
                              /\ Cardinality(Initials(f, k)) = k
  <1>1. \A p, q \in P : ~(Earlier(p, q) /\ Earlier(q, p)) /\ ~Earlier(p, p)
    BY DEF Earlier, Pairs
  <1>2. \A k, m \in 1 .. n : f[k] = f[m] => k = m
    <2> SUFFICES ASSUME NEW k \in 1 .. n, NEW m \in 1 .. n, f[k] = f[m], k # m PROVE FALSE
      OBVIOUS
    <2>1. k < m \/ m < k
      OBVIOUS
    <2> QED
      BY <1>1, <2>1 DEF InOrder
  <1>3. \A k, m \in 1 .. n : Earlier(f[k], f[m]) => k < m
    <2> SUFFICES ASSUME NEW k \in 1 .. n, NEW m \in 1 .. n, Earlier(f[k], f[m]), ~(k < m) PROVE FALSE
      OBVIOUS
    <2>1. k = m \/ m < k
      OBVIOUS
    <2> QED
      BY <1>1, <2>1 DEF InOrder
  <1>4. ASSUME NEW k \in 0 .. n
        PROVE  IsFiniteSet(Initials(f, k)) /\ Cardinality(Initials(f, k)) = k
    <2> DEFINE T == {f[m] : m \in 1 .. k}
               g == [m \in 1 .. k |-> f[m]]
    <2>1. IsFiniteSet(1 .. k) /\ Cardinality(1 .. k) = k
      BY FS_Interval
    <2>2. \A m \in 1 .. k : m \in 1 .. n
      OBVIOUS
    <2>3. g \in Surjection(1 .. k, T)
      BY DEF Surjection
    <2>4. g \in Injection(1 .. k, T)
      BY <1>2, <2>2, <2>3 DEF Injection, IsInjective, Surjection
    <2> HIDE DEF T, g
    <2>5. IsFiniteSet(T) /\ Cardinality(T) = k
      BY <2>1, <2>3, <2>4, FS_Surjection
    <2> QED
      BY <2>5 DEF T, Initials
  <1> QED
    BY <1>2, <1>3, <1>4

(* The rank of the k-th of them is k.                                      *)
LEMMA RankIs ==
  ASSUME NEW n \in Nat, NEW P, NEW f \in [1 .. n -> P],
         Pairs(P), InOrder(f, n),
         \A p \in P : \E k \in 1 .. n : p = f[k]
  PROVE  Cardinality(P) = n /\ \A k \in 1 .. n : Rank(f[k], P) = k
  <1>1. \A k \in 0 .. n : Cardinality(Initials(f, k)) = k
    BY Ascending
  <1>2. P = Initials(f, n)
    BY DEF Initials
  <1>3. ASSUME NEW k \in 1 .. n PROVE Rank(f[k], P) = k
    <2>1. \A m \in 1 .. n : (f[m] = f[k] \/ Earlier(f[m], f[k])) <=> m \in 1 .. k
      <3> TAKE m \in 1 .. n
      <3>1. f[m] = f[k] => m = k
        BY Ascending
      <3>2. Earlier(f[m], f[k]) => m < k
        BY Ascending
      <3>3. m < k => Earlier(f[m], f[k])
        BY DEF InOrder
      <3>4. m \in 1 .. k <=> m = k \/ m < k
        OBVIOUS
      <3> QED
        BY <3>1, <3>2, <3>3, <3>4
    <2>2. {q \in P : q = f[k] \/ Earlier(q, f[k])} = Initials(f, k)
      <3>1. \A m \in 1 .. k : m \in 1 .. n
        OBVIOUS
      <3> QED
        BY <1>2, <2>1, <3>1 DEF Initials
    <2>3. k \in 0 .. n
      OBVIOUS
    <2> QED
      BY <1>1, <2>2, <2>3, Zenon DEF Rank
  <1> QED
    BY <1>1, <1>2, <1>3

(* The places that are kept are those the full or complete table holds.    *)
LEMMA KeptAre ==
  ASSUME TypeOK, NEW f, Gathered(f), Collected = Places
  PROVE  /\ f \in [1 .. Len(subs) -> Kept]
         /\ \A p \in Kept : \E n \in 1 .. Len(subs) : p = f[n]
  <1> DEFINE c == Len(subs)
             T == {f[m] : m \in 1 .. c}
             Upto(p) == {q \in Places : q = p \/ Earlier(q, p)}
  <1>1. c \in Nat /\ MaxSubs \in Nat /\ c <= MaxSubs /\ f \in [1 .. c -> Places]
    BY SubscriptionTableAssumption DEF Gathered, TypeOK, SubscriptionTableAssumption
  <1>2. Pairs(Places)
    BY PlacesAre DEF Pairs
  <1>3. InOrder(f, c)
    BY DEF Gathered, InOrder
  <1>4. \A p \in Places :
          \/ \E n \in 1 .. c : p = f[n]
          \/ c = MaxSubs /\ \A n \in 1 .. c : Earlier(f[n], p)
    BY DEF Gathered
  <1> HIDE DEF c
  <1>5. IsFiniteSet(T) /\ Cardinality(T) = c
    <2>1. c \in 0 .. c
      BY <1>1
    <2>2. \A k \in 0 .. c : IsFiniteSet(Initials(f, k)) /\ Cardinality(Initials(f, k)) = k
      BY <1>1, <1>2, <1>3, Ascending, Zenon
    <2> QED
      BY <2>1, <2>2, Zenon DEF Initials
  <1>6. \A p, q \in Places : ~(Earlier(p, q) /\ Earlier(q, p)) /\ ~Earlier(p, p)
    BY <1>2 DEF Earlier, Pairs
  <1>7. ASSUME NEW p \in T PROVE p \in Kept
    <2>1. p \in Places /\ \E k \in 1 .. c : p = f[k]
      BY <1>1
    <2>2. Upto(p) \subseteq T
      <3> SUFFICES ASSUME NEW q \in Places, Earlier(q, p), q \notin T PROVE FALSE
        BY <2>1
      <3>1. Earlier(p, q)
        BY <1>4, <2>1
      <3> QED
        BY <1>6, <2>1, <3>1
    <2>3. Cardinality(Upto(p)) \in Nat /\ Cardinality(Upto(p)) <= c
      <3> HIDE DEF T, Upto
      <3> QED
        BY <1>5, <2>2, FS_Subset, FS_CardinalityType
    <2> QED
      BY <1>1, <2>1, <2>3 DEF Kept, Rank
  <1>8. ASSUME NEW p \in Places, p \notin T PROVE p \notin Kept
    <2>1. c = MaxSubs /\ \A n \in 1 .. c : Earlier(f[n], p)
      BY <1>4, <1>8
    <2>2. T \cup {p} \subseteq Upto(p)
      BY <1>1, <2>1
    <2>3. IsFiniteSet(Upto(p))
      BY PlacesFinite, FS_Subset
    <2>4. Cardinality(T \cup {p}) = c + 1
      <3> HIDE DEF T
      <3> QED
        BY <1>5, <1>8, FS_AddElement
    <2>5. Cardinality(Upto(p)) \in Nat /\ c + 1 <= Cardinality(Upto(p))
      <3> HIDE DEF T, Upto
      <3> QED
        BY <2>2, <2>3, <2>4, FS_Subset, FS_CardinalityType
    <2>6. Rank(p, Places) = Cardinality(Upto(p))
      BY DEF Rank
    <2> HIDE DEF Upto
    <2> QED
      BY <1>1, <2>1, <2>5, <2>6 DEF Kept
  <1>9. Kept = T
    BY <1>1, <1>7, <1>8 DEF Kept
  <1> QED
    BY <1>1, <1>9 DEF c

(* message_bus_boot(): a subscription joins the table, or the loop goes on *)
(* to the next FB, or it is done and what it has left out had no room.     *)
LEMMA CollectKeeps ==
  ASSUME IInv, StableInv, Collect
  PROVE  StableInv'
  <1>0. /\ TypeOK /\ pc = "collect" /\ i \in 0 .. NFB /\ j \in Nat \ {0} /\ NFB \in Nat
        /\ Len(subs) \in Nat /\ MaxSubs \in Nat
    BY SubscriptionTableAssumption, TableTyping
       DEF Collect, IInv, SortInv, CollectInv, TypeOK, SubscriptionTableAssumption
  <1> PICK f : Gathered(f)
    BY <1>0 DEF StableInv
  <1>1. /\ f \in [1 .. Len(subs) -> Collected]
        /\ \A n \in 1 .. Len(subs) : subs[n] = EntryAt(f[n])
        /\ \A m, n \in 1 .. Len(subs) : m < n => Earlier(f[m], f[n])
        /\ Len(subs) <= MaxSubs
        /\ \A p \in Collected :
              \/ \E n \in 1 .. Len(subs) : p = f[n]
              \/ Len(subs) = MaxSubs /\ \A n \in 1 .. Len(subs) : Earlier(f[n], p)
    BY DEF Gathered
  <1>2. Places' = Places /\ \A p : EntryAt(p)' = EntryAt(p)
    BY DEF Collect, Places, EntryAt
  <1>3. \A p \in Places : p = <<p[1], p[2]>> /\ p[1] \in 0 .. NFB - 1 /\ p[2] \in Nat \ {0}
    <2> SUFFICES ASSUME NEW p \in Places
                 PROVE  p = <<p[1], p[2]>> /\ p[1] \in 0 .. NFB - 1 /\ p[2] \in Nat \ {0}
      OBVIOUS
    <2>1. p = <<p[1], p[2]>> /\ p[1] \in EP /\ p[2] \in DOMAIN subscriptions[p[1]]
      BY <1>0, PlacesAre
    <2>2. subscriptions[p[1]] \in Seq(MsgId)
      BY <1>0, <2>1, PlacesAre
    <2> QED
      BY <2>1, <2>2, LenProperties DEF EP
  <1>4. CASE i < NFB /\ j <= Len(subscriptions[i]) /\ Len(subs) < MaxSubs
    <2> DEFINE c == Len(subs)
    <2> PICK g : g = [n \in 1 .. c + 1 |-> IF n <= c THEN f[n] ELSE <<i, j>>]
      OBVIOUS
    <2>1. /\ subs' = Append(subs, [msg |-> subscriptions[i][j], ep |-> i])
          /\ j' = j + 1 /\ i' = i /\ pc' = pc /\ subscriptions' = subscriptions
      BY <1>0, <1>4 DEF Collect
    <2>2. <<i, j>> \in Places
      <3>1. i \in EP /\ subscriptions[i] \in Seq(MsgId)
        BY <1>0, <1>4, PlacesAre DEF EP
      <3>2. j \in DOMAIN subscriptions[i]
        BY <1>0, <1>4, <3>1, LenProperties
      <3> QED
        BY <1>0, <3>1, <3>2, PlacesAre
    <2>3. /\ Len(subs') = c + 1 /\ subs'[c + 1] = [msg |-> subscriptions[i][j], ep |-> i]
          /\ \A n \in 1 .. c : subs'[n] = subs[n]
      <3>1. subs \in Seq(Entry) /\ [msg |-> subscriptions[i][j], ep |-> i] \in Entry
        <4>1. subs \in Seq(Entry) /\ i \in EP
          BY <1>0, <1>4 DEF TypeOK, EP
        <4>2. subscriptions[i] \in Seq(MsgId) /\ j \in 1 .. Len(subscriptions[i])
          BY <1>0, <1>4, <4>1, PlacesAre, LenProperties
        <4>3. subscriptions[i][j] \in MsgId /\ MsgId \subseteq Nat
          BY <4>2, ElementOfSeq, SubscriptionTableAssumption DEF SubscriptionTableAssumption
        <4> QED
          BY <4>1, <4>3 DEF Entry
      <3> QED
        BY <2>1, <3>1, AppendProperties
    <2>4. Collected' = Collected \cup {<<i, j>>}
      <3>1. \A p \in Places : (p[1] < i \/ (p[1] = i /\ p[2] < j + 1)) <=>
                              (p[1] < i \/ (p[1] = i /\ p[2] < j)) \/ p = <<i, j>>
        BY <1>0, <1>3
      <3> QED
        BY <1>2, <2>1, <2>2, <3>1 DEF Collected
    <2>5. \A p \in Collected : Earlier(p, <<i, j>>)
      BY DEF Collected, Earlier
    <2>6. \A p \in Collected : \E n \in 1 .. c : p = f[n]
      BY <1>0, <1>1, <1>4
    <2>7. g \in [1 .. c + 1 -> Collected'] /\ g[c + 1] = <<i, j>> /\ \A n \in 1 .. c : g[n] = f[n]
      BY <1>0, <1>1, <2>4
    <2> HIDE DEF c
    <2>8. c \in Nat /\ c + 1 <= MaxSubs /\ \A n \in 1 .. c + 1 : n # c + 1 => n \in 1 .. c
      BY <1>0, <1>4 DEF c
    <2>9. \A n \in 1 .. c + 1 : subs'[n] = EntryAt(g[n])'
      <3>1. EntryAt(<<i, j>>) = [msg |-> subscriptions[i][j], ep |-> i]
        BY DEF EntryAt
      <3> QED
        BY <1>1, <1>2, <2>3, <2>7, <2>8, <3>1 DEF c
    <2>10. \A m, n \in 1 .. c + 1 : m < n => Earlier(g[m], g[n])
      <3> SUFFICES ASSUME NEW m \in 1 .. c + 1, NEW n \in 1 .. c + 1, m < n PROVE Earlier(g[m], g[n])
        OBVIOUS
      <3>1. m \in 1 .. c /\ f[m] \in Collected /\ g[m] = f[m]
        BY <1>1, <2>7, <2>8 DEF c
      <3>2. CASE n = c + 1
        BY <2>5, <2>7, <3>1, <3>2
      <3>3. CASE n # c + 1
        BY <1>1, <2>7, <2>8, <3>1, <3>3 DEF c
      <3> QED
        BY <3>2, <3>3
    <2>11. \A p \in Collected' : \E n \in 1 .. c + 1 : p = g[n]
      <3>1. c + 1 \in 1 .. c + 1 /\ \A n \in 1 .. c : n \in 1 .. c + 1
        BY <2>8
      <3> QED
        BY <2>4, <2>6, <2>7, <3>1
    <2>12. Gathered(g)'
      BY <2>3, <2>7, <2>8, <2>9, <2>10, <2>11, <1>0 DEF Gathered, Collect, Earlier
    <2> QED
      BY <1>0, <2>1, <2>12 DEF StableInv
  <1>5. CASE i < NFB /\ ~(j <= Len(subscriptions[i]) /\ Len(subs) < MaxSubs)
    <2>1. /\ subs' = subs /\ j' = 1 /\ i' = i + 1 /\ pc' = pc /\ subscriptions' = subscriptions
      BY <1>0, <1>5 DEF Collect
    <2>2. Collected \subseteq Collected'
      BY <1>0, <1>2, <1>3, <2>1 DEF Collected
    <2>3. ASSUME NEW p \in Collected', p \notin Collected
          PROVE  Len(subs) = MaxSubs /\ \A n \in 1 .. Len(subs) : Earlier(f[n], p)
      <3>1. p \in Places /\ p[1] = i /\ ~(p[2] < j)
        BY <1>0, <1>2, <1>3, <2>1, <2>3 DEF Collected
      <3>2. p[2] <= Len(subscriptions[i])
        <4>1. p[2] \in DOMAIN subscriptions[i] /\ subscriptions[i] \in Seq(MsgId)
          BY <1>0, <3>1, PlacesAre
        <4> QED
          BY <4>1, LenProperties
      <3>3. Len(subs) = MaxSubs
        BY <1>0, <1>1, <1>3, <1>5, <3>1, <3>2, PlacesAre
      <3>4. \A q \in Collected : Earlier(q, p)
        BY <1>0, <1>3, <3>1 DEF Collected, Earlier
      <3> QED
        BY <1>1, <3>3, <3>4
    <2>4. f \in [1 .. Len(subs) -> Collected']
      BY <1>1, <2>2
    <2>5. \A p \in Collected' :
              \/ \E n \in 1 .. Len(subs) : p = f[n]
              \/ Len(subs) = MaxSubs /\ \A n \in 1 .. Len(subs) : Earlier(f[n], p)
      BY <1>1, <2>3
    <2>6. Gathered(f)'
      BY <1>1, <1>2, <2>1, <2>4, <2>5 DEF Gathered, Earlier
    <2> QED
      BY <1>0, <2>1, <2>6 DEF StableInv
  <1>6. CASE ~(i < NFB)
    <2>1. pc' = "outer" /\ subs' = subs /\ subscriptions' = subscriptions
      BY <1>0, <1>6 DEF Collect
    <2>2. Collected = Places
      BY <1>0, <1>3, <1>6 DEF Collected
    <2>3. /\ f \in [1 .. Len(subs) -> Kept]
          /\ \A p \in Kept : \E n \in 1 .. Len(subs) : p = f[n]
      BY <1>0, <2>2, KeptAre
    <2>4. \A m, n \in 1 .. Len(subs) : f[m] = f[n] => m = n
      <3> DEFINE c == Len(subs)
      <3>1. c \in Nat /\ f \in [1 .. c -> Places] /\ InOrder(f, c) /\ Pairs(Places)
        BY <1>0, <1>1, <2>2, PlacesAre DEF InOrder, Pairs
      <3> HIDE DEF c
      <3>2. \A k, m \in 1 .. c : f[k] = f[m] => k = m
        BY <3>1, Ascending
      <3> QED
        BY <3>2 DEF c
    <2>5. Kept' = Kept
      BY <1>2 DEF Kept, Rank, Earlier
    <2>6. Settled(subs, f)
      BY <1>1, <2>3, <2>4 DEF Settled
    <2>7. Settled(subs, f)'
      BY <1>2, <2>1, <2>5, <2>6 DEF Settled, Earlier
    <2>8. Current' = subs'
      BY <2>1 DEF Current
    <2> QED
      BY <2>1, <2>7, <2>8 DEF StableInv
  <1> QED
    BY <1>4, <1>5, <1>6

Swap(t, a) == [t EXCEPT ![a] = t[a + 1], ![a + 1] = t[a]]

(* Two neighbours with different ids may change places.                    *)
LEMMA SwapKeeps ==
  ASSUME NEW t \in Seq(Entry), NEW f, Settled(t, f),
         NEW a \in 1 .. Len(t), a + 1 \in 1 .. Len(t), t[a].msg # t[a + 1].msg
  PROVE  Settled(Swap(t, a), Swap(f, a))
  <1> DEFINE c == Len(t)
             u == Swap(t, a)
             g == Swap(f, a)
             To(n) == IF n = a THEN a + 1 ELSE IF n = a + 1 THEN a ELSE n
  <1>1. c \in Nat /\ t \in [1 .. c -> Entry] /\ a \in 1 .. c /\ a + 1 \in 1 .. c
    BY LenProperties
  <1>2. /\ f \in [1 .. c -> Kept]
        /\ \A p \in Kept : \E n \in 1 .. c : p = f[n]
        /\ \A m, n \in 1 .. c : f[m] = f[n] => m = n
        /\ \A n \in 1 .. c : t[n] = EntryAt(f[n])
        /\ \A m, n \in 1 .. c : m < n /\ t[m].msg = t[n].msg => Earlier(f[m], f[n])
    BY DEF Settled
  <1>3. u \in Seq(Entry) /\ Len(u) = c
    <2>1. u \in [1 .. c -> Entry]
      BY <1>1 DEF Swap
    <2> HIDE DEF u
    <2>2. u \in Seq(Entry)
      BY <1>1, <2>1, SeqDef
    <2> QED
      BY <1>1, <2>1, <2>2, LenProperties
  <1>4. \A n \in 1 .. c : To(n) \in 1 .. c /\ To(To(n)) = n /\ u[n] = t[To(n)] /\ g[n] = f[To(n)]
    BY <1>1, <1>2 DEF Swap
  <1>5. g \in [1 .. c -> Kept]
    BY <1>1, <1>2 DEF Swap
  <1>6. \A m, n \in 1 .. c : m < n /\ ~(m = a /\ n = a + 1) => To(m) < To(n)
    BY <1>1
  <1>7. u[a] = t[a + 1] /\ u[a + 1] = t[a] /\ t[a].msg # t[a + 1].msg
    BY <1>1, <1>4
  <1> HIDE DEF c, u, g, To
  <1>8. \A p \in Kept : \E n \in 1 .. c : p = g[n]
    <2> SUFFICES ASSUME NEW p \in Kept PROVE \E n \in 1 .. c : p = g[n]
      OBVIOUS
    <2> PICK n \in 1 .. c : p = f[n]
      BY <1>2
    <2>1. To(n) \in 1 .. c /\ p = g[To(n)]
      BY <1>4
    <2> QED
      BY <2>1
  <1>9. \A m, n \in 1 .. c : g[m] = g[n] => m = n
    <2> SUFFICES ASSUME NEW m \in 1 .. c, NEW n \in 1 .. c, g[m] = g[n] PROVE m = n
      OBVIOUS
    <2>1. To(m) = To(n)
      BY <1>2, <1>4
    <2> QED
      BY <1>4, <2>1
  <1>10. \A n \in 1 .. c : u[n] = EntryAt(g[n])
    BY <1>2, <1>4
  <1>11. \A m, n \in 1 .. c : m < n /\ u[m].msg = u[n].msg => Earlier(g[m], g[n])
    <2> SUFFICES ASSUME NEW m \in 1 .. c, NEW n \in 1 .. c, m < n, u[m].msg = u[n].msg
                 PROVE  Earlier(g[m], g[n])
      OBVIOUS
    <2>1. To(m) < To(n) /\ To(m) \in 1 .. c /\ To(n) \in 1 .. c
      BY <1>4, <1>6, <1>7
    <2>2. t[To(m)].msg = t[To(n)].msg
      BY <1>4
    <2> QED
      BY <1>2, <1>4, <2>1, <2>2
  <1>12. Len(u) = c /\ Settled(u, g)
    BY <1>3, <1>5, <1>8, <1>9, <1>10, <1>11 DEF Settled
  <1> QED
    BY <1>12 DEF u, g

(* A step that leaves the declared subscriptions and the table as it will  *)
(* be alone.                                                               *)
LEMMA TableStays ==
  ASSUME StableInv, subscriptions' = subscriptions, pc # "collect", pc' # "collect",
         Current' = Current,
         (pc = "routed" => IF found = 0 THEN delivered = <<>>
                           ELSE found \in 1 .. Len(subs) /\ walk \in found .. Len(subs) + 1)'
  PROVE  StableInv'
  <1> PICK f : Settled(Current, f)
    BY DEF StableInv
  <1> PICK t : t = Current
    OBVIOUS
  <1>1. Kept' = Kept
    BY DEF Kept, Rank, Earlier, Places
  <1>2. Settled(t, f)'
    BY <1>1 DEF Settled, Earlier, EntryAt
  <1> QED
    BY <1>2 DEF StableInv

(* sub_sort(): the key travels forward past entries of larger ids only.    *)
LEMMA SortKeeps ==
  ASSUME IInv, StableInv, SortOuter \/ SortShift
  PROVE  StableInv'
  <1>0. /\ subs \in Seq(Entry) /\ Len(subs) \in Nat /\ i \in Nat /\ j \in Nat
        /\ pc = "shift" => i \in 2 .. Len(subs) /\ j \in 0 .. i - 1 /\ key \in Entry
        /\ pc = "outer" => i >= 2
    BY TableTyping DEF IInv, TypeOK, SortInv, OuterInv, ShiftInv
  <1>d. subs \in [1 .. Len(subs) -> Entry]
    BY <1>0, LenProperties
  <1>1. CASE SortOuter
    <2>1. pc = "outer" /\ pc' \in {"shift", "ready"} /\ subs' = subs /\ subscriptions' = subscriptions
      BY <1>1 DEF SortOuter
    <2>2. Current' = Current
      <3>1. CASE i <= Len(subs)
        <4>1. pc' = "shift" /\ key' = subs[i] /\ j' + 1 = i
          BY <1>0, <1>1, <3>1 DEF SortOuter
        <4> QED
          BY <1>0, <1>d, <2>1, <4>1 DEF Current
      <3>2. CASE ~(i <= Len(subs))
        BY <1>1, <2>1, <3>2 DEF SortOuter, Current
      <3> QED
        BY <3>1, <3>2
    <2> QED
      BY <2>1, <2>2, TableStays
  <1>2. CASE SortShift /\ ~MustShift
    <2>1. /\ pc = "shift" /\ pc' = "outer" /\ subs' = [subs EXCEPT ![j + 1] = key]
          /\ subscriptions' = subscriptions
      BY <1>2 DEF SortShift
    <2>2. Current' = Current
      BY <2>1 DEF Current
    <2> QED
      BY <2>1, <2>2, TableStays
  <1>3. CASE SortShift /\ MustShift
    <2>1. /\ pc = "shift" /\ pc' = "shift" /\ subs' = [subs EXCEPT ![j + 1] = subs[j]]
          /\ j' = j - 1 /\ key' = key /\ subscriptions' = subscriptions
          /\ j >= 1 /\ subs[j].msg > key.msg
      BY <1>3 DEF SortShift, MustShift
    <2>2. j \in 1 .. Len(subs) /\ j + 1 \in 1 .. Len(subs) /\ key \in Entry
      BY <1>0, <2>1
    <2>3. Current = [subs EXCEPT ![j + 1] = key] /\ Current' = [subs' EXCEPT ![j] = key]
      <3>1. Current' = [subs' EXCEPT ![j' + 1] = key'] /\ j' + 1 = j
        BY <1>0, <2>1 DEF Current
      <3> QED
        BY <2>1, <3>1 DEF Current
    <2>4. /\ Current \in [1 .. Len(subs) -> Entry]
          /\ Current[j] = subs[j] /\ Current[j + 1] = key
      BY <1>d, <2>2, <2>3
    <2>5. Current' = Swap(Current, j)
      BY <1>d, <2>1, <2>2, <2>3, <2>4 DEF Swap
    <2>6. Current \in Seq(Entry) /\ Len(Current) = Len(subs)
      BY <1>0, <2>4, SeqDef, LenProperties
    <2>7. Current[j].msg # Current[j + 1].msg
      BY <2>1, <2>2, <2>4, <1>d DEF Entry
    <2> PICK f : Settled(Current, f)
      BY <2>1 DEF StableInv
    <2> PICK g : g = Swap(f, j)
      OBVIOUS
    <2>8. Settled(Swap(Current, j), g)
      BY <2>2, <2>6, <2>7, SwapKeeps
    <2> PICK t : t = Swap(Current, j)
      OBVIOUS
    <2>9. Kept' = Kept
      BY <2>1 DEF Kept, Rank, Earlier, Places
    <2>10. Settled(t, g)'
      BY <2>1, <2>8, <2>9 DEF Settled, Earlier, EntryAt
    <2> QED
      BY <2>1, <2>5, <2>10 DEF StableInv
  <1> QED
    BY <1>1, <1>2, <1>3

(* Every step keeps the table together with its declarations.              *)
LEMMA StableInductive == ASSUME IInv, StableInv, [Next]_vars PROVE StableInv'
  <1>1. CASE Collect
    BY <1>1, CollectKeeps
  <1>2. CASE SortOuter \/ SortShift
    BY <1>2, SortKeeps
  <1>3. CASE SearchStart
    <2>1. pc # "collect" /\ pc' = "search" /\ subscriptions' = subscriptions /\ Current' = Current
      BY <1>3 DEF SearchStart, Current
    <2> QED
      BY <2>1, TableStays
  <1>4. CASE SearchStep
    <2>1. /\ pc = "search" /\ pc' \in {"search", "routed", "walk"} /\ subscriptions' = subscriptions
          /\ Current' = Current
      BY <1>4 DEF SearchStep, Current
    <2>2. pc' = "routed" => found' = 0 /\ delivered' = <<>>
      BY <1>4 DEF SearchStep, IInv, SearchInv
    <2> QED
      BY <2>1, <2>2, TableStays
  <1>5. CASE WalkStep
    <2>1. /\ pc = "walk" /\ pc' \in {"walk", "routed"} /\ subscriptions' = subscriptions
          /\ Current' = Current /\ subs' = subs /\ found' = found
      BY <1>5 DEF WalkStep, Current
    <2>2. pc' = "routed" => walk' = walk
      BY <1>5 DEF WalkStep
    <2>3. found \in 1 .. Len(subs) /\ found # 0 /\ walk \in found .. Len(subs) + 1
      BY <2>1, TableTyping DEF IInv, TypeOK, FirstHit, WalkInv
    <2> QED
      BY <2>1, <2>2, <2>3, TableStays
  <1>6. CASE UNCHANGED vars
    <2>1. /\ subscriptions' = subscriptions /\ subs' = subs /\ pc' = pc /\ i' = i /\ j' = j
          /\ key' = key /\ found' = found /\ walk' = walk /\ delivered' = delivered
      BY <1>6 DEF vars
    <2>2. CASE pc = "collect"
      <3> PICK f : Gathered(f)
        BY <2>2 DEF StableInv
      <3>1. Collected' = Collected
        BY <2>1 DEF Collected, Places
      <3>2. Gathered(f)'
        BY <2>1, <3>1 DEF Gathered, Earlier, EntryAt
      <3> QED
        BY <2>1, <2>2, <3>2 DEF StableInv
    <2>3. CASE pc # "collect"
      <3>1. Current' = Current
        BY <2>1 DEF Current
      <3>2. (pc = "routed" => IF found = 0 THEN delivered = <<>>
                              ELSE found \in 1 .. Len(subs) /\ walk \in found .. Len(subs) + 1)'
        BY <2>1 DEF StableInv
      <3> QED
        BY <2>1, <2>3, <3>1, <3>2, TableStays
    <2> QED
      BY <2>2, <2>3
  <1> QED
    BY <1>1, <1>2, <1>3, <1>4, <1>5, <1>6 DEF Next

(* A table that is settled and a walk that covers the entries of the id:   *)
(* the copies went to the subscribers of the id in registration order.     *)
LEMMA Routed == ASSUME IInv, StableInv PROVE RoutesExactly
  <1> SUFFICES ASSUME pc = "routed"
               PROVE  /\ Len(delivered) = Cardinality(Hits(target))
                      /\ \A p \in Hits(target) : delivered[Rank(p, Hits(target))] = p[1]
    BY DEF RoutesExactly
  <1> DEFINE H == Hits(target)
             n == walk - found
             c == Len(subs)
  <1>0. /\ TypeOK /\ c \in Nat /\ DOMAIN subs = 1 .. c /\ found \in Nat /\ walk \in Nat
    BY TableTyping DEF IInv, TypeOK
  <1> PICK f : Settled(subs, f)
    BY DEF StableInv, Current
  <1>1. /\ f \in [1 .. c -> Kept]
        /\ \A p \in Kept : \E m \in 1 .. c : p = f[m]
        /\ \A m \in 1 .. c : subs[m] = EntryAt(f[m])
        /\ \A k, m \in 1 .. c : k < m /\ subs[k].msg = subs[m].msg => Earlier(f[k], f[m])
    BY DEF Settled
  <1> HIDE DEF c
  <1>2. \A m \in 1 .. c : f[m] \in H <=> subs[m].msg = target
    <2> TAKE m \in 1 .. c
    <2>1. f[m] \in Kept /\ subs[m] = EntryAt(f[m])
      BY <1>1
    <2>2. subs[m].msg = subscriptions[f[m][1]][f[m][2]]
      BY <2>1 DEF EntryAt
    <2> QED
      BY <2>1, <2>2 DEF Hits
  <1>3. \A p \in H : \E m \in 1 .. c : p = f[m] /\ subs[m].msg = target
    BY <1>1, <1>2 DEF Hits
  <1>4. CASE found = 0
    <2>1. delivered = <<>> /\ \A m \in 1 .. c : subs[m].msg # target
      BY <1>0, <1>4 DEF IInv, NoFalseMiss, StableInv
    <2>2. H = {}
      BY <1>3, <2>1
    <2> QED
      BY <2>1, <2>2, FS_EmptySet
  <1>5. CASE found # 0
    <2>1. /\ found \in 1 .. c /\ walk \in found .. c + 1
          /\ \A m \in 1 .. c : subs[m].msg = target <=> m \in found .. walk - 1
          /\ delivered = [k \in 1 .. n |-> subs[found + k - 1].ep]
      BY <1>0, <1>5 DEF IInv, WalkCovers, StableInv, c
    <2> DEFINE g == [k \in 1 .. n |-> f[found + k - 1]]
    <2>2. n \in Nat /\ \A k \in 1 .. n : found + k - 1 \in found .. walk - 1 /\ found + k - 1 \in 1 .. c
      BY <1>0, <2>1
    <2>3. \A m \in found .. walk - 1 : m - found + 1 \in 1 .. n /\ found + (m - found + 1) - 1 = m
      BY <1>0, <2>1
    <2> HIDE DEF n
    <2>4. g \in [1 .. n -> H]
      BY <1>2, <2>1, <2>2
    <2>5. InOrder(g, n)
      <3> SUFFICES ASSUME NEW k \in 1 .. n, NEW m \in 1 .. n, k < m PROVE Earlier(g[k], g[m])
        BY DEF InOrder
      <3>1. found + k - 1 < found + m - 1
        BY <1>0, <2>2
      <3>2. subs[found + k - 1].msg = subs[found + m - 1].msg
        BY <2>1, <2>2
      <3> QED
        BY <1>1, <2>2, <3>1, <3>2
    <2>6. \A p \in H : \E k \in 1 .. n : p = g[k]
      <3> SUFFICES ASSUME NEW p \in H PROVE \E k \in 1 .. n : p = g[k]
        OBVIOUS
      <3> PICK m \in 1 .. c : p = f[m] /\ subs[m].msg = target
        BY <1>3
      <3>1. m - found + 1 \in 1 .. n /\ p = g[m - found + 1]
        BY <2>1, <2>3
      <3> QED
        BY <3>1
    <2>7. \A k \in 1 .. n : delivered[k] = g[k][1]
      <3> TAKE k \in 1 .. n
      <3>1. delivered[k] = subs[found + k - 1].ep /\ found + k - 1 \in 1 .. c /\ g[k] = f[found + k - 1]
        BY <2>1, <2>2
      <3>2. subs[found + k - 1].ep = f[found + k - 1][1]
        <4>1. \A p : EntryAt(p).ep = p[1]
          BY DEF EntryAt
        <4> QED
          BY <1>1, <3>1, <4>1, Zenon
      <3> QED
        BY <3>1, <3>2
    <2>8. Len(delivered) = n
      <3>1. delivered \in Seq(EP) /\ DOMAIN delivered = 1 .. n
        BY <1>0, <2>1 DEF TypeOK
      <3> QED
        BY <2>2, <3>1, LenProperties
    <2>9. Pairs(H)
      <3>1. \A p \in H : p \in Places
        BY DEF Hits, Kept
      <3> QED
        BY <1>0, <3>1, PlacesAre DEF Pairs
    <2> HIDE DEF g, H
    <2>10. Cardinality(H) = n /\ \A k \in 1 .. n : Rank(g[k], H) = k
      BY <2>2, <2>4, <2>5, <2>6, <2>9, RankIs
    <2> QED
      BY <2>6, <2>7, <2>8, <2>10 DEF H
  <1> QED
    BY <1>4, <1>5

(* Before anything is collected.                                           *)
LEMMA StableInitial == Init => StableInv
  <1> SUFFICES ASSUME Init PROVE StableInv
    OBVIOUS
  <1>0. /\ TypeOK /\ pc = "collect" /\ i = 0 /\ j = 1 /\ subs = <<>> /\ Len(subs) = 0
        /\ MaxSubs \in Nat
    BY Initial, SubscriptionTableAssumption DEF IInv, Init, SubscriptionTableAssumption
  <1>1. Collected = {}
    <2> SUFFICES ASSUME NEW p \in Collected PROVE FALSE
      OBVIOUS
    <2>1. p \in Places /\ (p[1] < 0 \/ (p[1] = 0 /\ p[2] < 1))
      BY <1>0 DEF Collected
    <2>2. p[1] \in EP /\ p[2] \in DOMAIN subscriptions[p[1]] /\ subscriptions[p[1]] \in Seq(MsgId)
      BY <1>0, <2>1, PlacesAre
    <2>3. p[1] \in Nat /\ p[2] \in Nat \ {0}
      BY <2>2, LenProperties, SubscriptionTableAssumption DEF EP, SubscriptionTableAssumption
    <2> QED
      BY <2>1, <2>3
  <1> PICK f : f = [n \in 1 .. 0 |-> 0]
    OBVIOUS
  <1>2. Gathered(f)
    BY <1>0, <1>1 DEF Gathered
  <1> QED
    BY <1>0, <1>2 DEF StableInv

(* message_bus_boot(), sub_sort() and route_message() together: a message  *)
(* goes to exactly the endpoints that declared its id and found room in    *)
(* the table, as often as they declared it and in registration order, for  *)
(* any number of FBs, any declarations and a table of any size.            *)
THEOREM RoutedExactly == Spec => []RoutesExactly
<1>1. Init => IInv /\ StableInv
  BY Initial, StableInitial
<1>2. IInv /\ StableInv /\ [Next]_vars => (IInv /\ StableInv)'
  BY Inductive, StableInductive
<1>3. IInv /\ StableInv => RoutesExactly
  BY Routed
<1> QED
  BY <1>1, <1>2, <1>3, PTL DEF Spec

-----------------------------------------------------------------------------
(* The library registry                                                    *)

Library == [init : InitFn, deinit : DeinitFn \cup {Null}]

(* A library is in the registry once, and those in it are those somebody   *)
(* was told OK for.                                                        *)
RegistryInv ==
    /\ libs \in Seq(Library)
    /\ \A m, n \in DOMAIN libs : libs[m].init = libs[n].init => m = n
    /\ \A a \in agreed : \E n \in DOMAIN libs : libs[n].init = a.init /\ libs[n].deinit = a.deinit
    /\ \A n \in DOMAIN libs : \E a \in agreed : a.init = libs[n].init /\ a.deinit = libs[n].deinit

(* The libraries that were initialised are the first of the registry.      *)
SetupInv ==
    /\ phase \in {"before", "init", "up", "deinit", "down"} /\ next \in Nat
    /\ inited \in Seq(InitFn) /\ Len(inited) <= Len(libs)
    /\ \A n \in 1 .. Len(inited) : inited[n] = libs[n].init
    /\ phase = "before" => inited = <<>>
    /\ phase = "init" => next = Len(inited) + 1
    /\ phase \in {"up", "deinit", "down"} =>
          \A a \in agreed : a.early => \E n \in 1 .. Len(inited) : inited[n] = a.init

(* Those behind next were torn down, the last first.                       *)
TeardownInv ==
    /\ torn \in Seq(InitFn)
    /\ phase \in {"before", "init", "up"} => torn = <<>>
    /\ phase = "down" => next = 0
    /\ phase \in {"deinit", "down"} =>
          /\ next <= Len(libs)
          /\ \A m \in 1 .. Len(torn) :
                \E p \in next + 1 .. Len(libs) : libs[p].init = torn[m] /\ libs[p].deinit # Null
          /\ \A p \in next + 1 .. Len(inited) :
                libs[p].deinit # Null => \E m \in 1 .. Len(torn) : torn[m] = libs[p].init
          /\ \A m, n \in 1 .. Len(torn), p, q \in 1 .. Len(libs) :
                (m < n /\ libs[p].init = torn[m] /\ libs[q].init = torn[n]) => q < p

LibInv == RegistryInv /\ SetupInv /\ TeardownInv

(* A declaration adds a library that is new, if there is room.             *)
LEMMA DeclareStep ==
  ASSUME LibInv, NEW f \in InitFn \cup {Null}, NEW d \in DeinitFn \cup {Null}, Declare(f, d)
  PROVE  LibInv'
  <1>1. UNCHANGED <<phase, next, inited, torn>>
    BY DEF Declare
  <1>2. CASE ~Ok(f, d)
    <2>1. libs' = libs /\ agreed' = agreed
      BY <1>2 DEF Declare
    <2> QED
      BY <1>1, <2>1 DEF LibInv, RegistryInv, SetupInv, TeardownInv
  <1>3. CASE Ok(f, d) /\ Known(f) # {}
    <2> DEFINE a == [init |-> f, deinit |-> d, early |-> phase \in {"before", "init"}]
    <2>1. libs' = libs /\ agreed' = agreed \cup {a}
      BY <1>3 DEF Declare
    <2>2. \E n \in DOMAIN libs : libs[n].init = f /\ libs[n].deinit = d
      BY <1>3 DEF Ok, Known
    <2>3. a.init = f /\ a.deinit = d /\ (a.early => phase \in {"before", "init"})
      OBVIOUS
    <2> HIDE DEF a
    <2>4. RegistryInv'
      BY <2>1, <2>2, <2>3 DEF LibInv, RegistryInv
    <2>5. SetupInv' /\ TeardownInv'
      BY <1>1, <2>1, <2>3 DEF LibInv, SetupInv, TeardownInv
    <2> QED
      BY <2>4, <2>5 DEF LibInv
  <1>4. CASE Ok(f, d) /\ Known(f) = {}
    <2> DEFINE a == [init |-> f, deinit |-> d, early |-> phase \in {"before", "init"}]
               e == [init |-> f, deinit |-> d]
    <2>1. libs' = Append(libs, e) /\ agreed' = agreed \cup {a}
      BY <1>4 DEF Declare
    <2>2. e \in Library /\ e.init = f /\ e.deinit = d
      BY <1>4 DEF Ok, Library
    <2>3. a.init = f /\ a.deinit = d /\ (a.early => phase \in {"before", "init"})
      OBVIOUS
    <2> HIDE DEF a, e
    <2>4. libs \in Seq(Library)
      BY DEF LibInv, RegistryInv
    <2>5. /\ libs' \in Seq(Library) /\ Len(libs') = Len(libs) + 1 /\ libs'[Len(libs) + 1] = e
          /\ \A n \in 1 .. Len(libs) : libs'[n] = libs[n]
      BY <2>1, <2>2, <2>4, AppendProperties
    <2>6. \A n \in 1 .. Len(libs) : libs[n].init # f
      BY <1>4, <2>4 DEF Known
    <2>7. Len(libs) \in Nat /\ DOMAIN libs = 1 .. Len(libs) /\ DOMAIN libs' = 1 .. Len(libs) + 1
      BY <2>4, <2>5
    <2>8. RegistryInv'
      BY <2>1, <2>2, <2>3, <2>5, <2>6, <2>7 DEF LibInv, RegistryInv
    <2>9. SetupInv'
      BY <1>1, <2>1, <2>3, <2>5, <2>7 DEF LibInv, SetupInv
    <2>10. TeardownInv'
      <3>1. SUFFICES ASSUME phase \in {"deinit", "down"}
                     PROVE  TeardownInv'
        BY <1>1 DEF LibInv, SetupInv, TeardownInv
      <3>2. \A m \in 1 .. Len(torn) :
              \E p \in next + 1 .. Len(libs) : libs[p].init = torn[m] /\ libs[p].deinit # Null
        BY <3>1 DEF LibInv, TeardownInv
      <3>3. next \in Nat /\ next <= Len(libs) /\ Len(inited) \in Nat /\ Len(inited) <= Len(libs)
        BY <3>1 DEF LibInv, SetupInv, TeardownInv
      <3>4. \A m \in 1 .. Len(torn) : torn[m] # f
        BY <2>6, <2>7, <3>2, <3>3
      <3>5. ASSUME NEW m \in 1 .. Len(torn)
            PROVE  \E p \in next + 1 .. Len(libs') : libs'[p].init = torn[m] /\ libs'[p].deinit # Null
        <4>1. PICK p \in next + 1 .. Len(libs) : libs[p].init = torn[m] /\ libs[p].deinit # Null
          BY <3>2
        <4>2. p \in next + 1 .. Len(libs') /\ libs'[p] = libs[p]
          BY <2>5, <2>7, <3>3
        <4> QED
          BY <4>1, <4>2, Zenon
      <3>6. \A p \in next + 1 .. Len(inited) : libs'[p] = libs[p]
        BY <2>5, <2>7, <3>3
      <3>7. \A m \in 1 .. Len(torn), p \in 1 .. Len(libs') :
              libs'[p].init = torn[m] => p \in 1 .. Len(libs) /\ libs[p].init = torn[m]
        BY <2>2, <2>5, <2>7, <3>4
      <3>8. /\ torn \in Seq(InitFn)
            /\ phase = "down" => next = 0
            /\ \A p \in next + 1 .. Len(inited) :
                  libs'[p].deinit # Null => \E m \in 1 .. Len(torn) : torn[m] = libs'[p].init
        BY <3>1, <3>6 DEF LibInv, TeardownInv
      <3>9. \A m, n \in 1 .. Len(torn), p, q \in 1 .. Len(libs') :
              (m < n /\ libs'[p].init = torn[m] /\ libs'[q].init = torn[n]) => q < p
        BY <3>1, <3>7 DEF LibInv, TeardownInv
      <3>10. next <= Len(libs')
        BY <2>5, <2>7, <3>3
      <3> QED
        BY <1>1, <3>1, <3>5, <3>8, <3>9, <3>10 DEF TeardownInv
    <2> QED
      BY <2>8, <2>9, <2>10 DEF LibInv
  <1> QED
    BY <1>2, <1>3, <1>4

(* The loop of embediq_platform_lib_init_all().                            *)
LEMMA InitAllStep ==
  ASSUME LibInv, InitAll
  PROVE  LibInv'
  <1>1. libs' = libs /\ agreed' = agreed /\ torn' = torn /\ RegistryInv'
    BY DEF InitAll, LibInv, RegistryInv
  <1>2. CASE phase = "before"
    BY <1>1, <1>2 DEF InitAll, LibInv, SetupInv, TeardownInv
  <1>3. CASE phase = "init" /\ next <= Len(libs)
    <2>1. inited' = Append(inited, libs[next].init) /\ next' = next + 1 /\ phase' = phase
      BY <1>3 DEF InitAll
    <2>2. libs \in Seq(Library) /\ inited \in Seq(InitFn) /\ next = Len(inited) + 1
      BY <1>3 DEF LibInv, RegistryInv, SetupInv
    <2>3. libs[next] \in Library /\ libs[next].init \in InitFn
      <3>1. libs[next] \in Library
        BY <1>3, <2>2, Len(libs) \in Nat
      <3> QED
        BY <3>1 DEF Library
    <2>4. /\ inited' \in Seq(InitFn) /\ Len(inited') = Len(inited) + 1
          /\ inited'[Len(inited) + 1] = libs[next].init
          /\ \A n \in 1 .. Len(inited) : inited'[n] = inited[n]
      BY <2>1, <2>2, <2>3, AppendProperties
    <2>5. SetupInv'
      BY <1>1, <1>3, <2>1, <2>2, <2>4 DEF LibInv, SetupInv
    <2>6. TeardownInv'
      BY <1>1, <1>3, <2>1 DEF LibInv, TeardownInv
    <2> QED
      BY <1>1, <2>5, <2>6 DEF LibInv
  <1>4. CASE phase = "init" /\ ~(next <= Len(libs))
    <2>1. phase' = "up" /\ next' = next /\ inited' = inited
      BY <1>4 DEF InitAll
    <2>2. libs \in Seq(Library) /\ inited \in Seq(InitFn) /\ Len(inited) = Len(libs)
      BY <1>4 DEF LibInv, RegistryInv, SetupInv
    <2>3. SetupInv'
      BY <1>1, <2>1, <2>2 DEF LibInv, RegistryInv, SetupInv
    <2>4. TeardownInv'
      BY <1>1, <1>4, <2>1 DEF LibInv, TeardownInv
    <2> QED
      BY <1>1, <2>3, <2>4 DEF LibInv
  <1> QED
    BY <1>2, <1>3, <1>4 DEF InitAll

(* The loop of embediq_platform_lib_deinit_all().                          *)
LEMMA DeinitAllStep ==
  ASSUME LibInv, DeinitAll
  PROVE  LibInv'
  <1>1. libs' = libs /\ agreed' = agreed /\ inited' = inited /\ RegistryInv'
    BY DEF DeinitAll, LibInv, RegistryInv
  <1>2. CASE phase = "up"
    <2>1. phase' = "deinit" /\ next' = Len(libs) /\ torn' = torn
      BY <1>2 DEF DeinitAll
    <2>2. libs \in Seq(Library)
      BY DEF LibInv, RegistryInv
    <2> QED
      BY <1>1, <1>2, <2>1, <2>2 DEF LibInv, SetupInv, TeardownInv
  <1>3. CASE phase = "deinit" /\ next > 0
    <2>1. next' = next - 1 /\ phase' = phase
          /\ torn' = IF libs[next].deinit # Null THEN Append(torn, libs[next].init) ELSE torn
      BY <1>3 DEF DeinitAll
    <2>2. libs \in Seq(Library) /\ torn \in Seq(InitFn) /\ next \in 1 .. Len(libs)
      BY <1>3 DEF LibInv, RegistryInv, SetupInv, TeardownInv
    <2>3. libs[next] \in Library /\ libs[next].init \in InitFn
      <3>1. libs[next] \in Library
        BY <2>2
      <3> QED
        BY <3>1 DEF Library
    <2>4. SetupInv'
      BY <1>1, <1>3, <2>1, <2>2 DEF LibInv, SetupInv
    <2>5. CASE libs[next].deinit # Null
      <3>1. /\ torn' \in Seq(InitFn) /\ Len(torn') = Len(torn) + 1
            /\ torn'[Len(torn) + 1] = libs[next].init
            /\ \A n \in 1 .. Len(torn) : torn'[n] = torn[n]
        BY <2>1, <2>2, <2>3, <2>5, AppendProperties
      <3>2. \A m \in 1 .. Len(torn'), p \in 1 .. Len(libs) :
              libs[p].init = torn'[m] => p >= next /\ (m <= Len(torn) => p > next) /\ (m = Len(torn') => p = next)
        BY <1>3, <2>2, <3>1 DEF LibInv, RegistryInv, TeardownInv
      <3>3. \A m \in 1 .. Len(torn') :
              \E p \in next' + 1 .. Len(libs) : libs[p].init = torn'[m] /\ libs[p].deinit # Null
        BY <1>3, <2>1, <2>2, <2>5, <3>1 DEF LibInv, TeardownInv
      <3>4. ASSUME NEW p \in next' + 1 .. Len(inited), libs[p].deinit # Null
            PROVE  \E m \in 1 .. Len(torn') : torn'[m] = libs[p].init
        <4>1. Len(torn) \in Nat /\ Len(inited) \in Nat
          BY <2>2 DEF LibInv, SetupInv
        <4>2. CASE p = next
          BY <3>1, <4>1, <4>2
        <4>3. CASE p # next
          BY <1>3, <2>1, <2>2, <3>1, <3>4, <4>1, <4>3 DEF LibInv, TeardownInv
        <4> QED
          BY <4>2, <4>3
      <3>5. \A m, n \in 1 .. Len(torn'), p, q \in 1 .. Len(libs) :
              (m < n /\ libs[p].init = torn'[m] /\ libs[q].init = torn'[n]) => q < p
        <4> SUFFICES ASSUME NEW m \in 1 .. Len(torn'), NEW n \in 1 .. Len(torn'),
                            NEW p \in 1 .. Len(libs), NEW q \in 1 .. Len(libs),
                            m < n, libs[p].init = torn'[m], libs[q].init = torn'[n]
                     PROVE  q < p
          OBVIOUS
        <4>1. Len(torn) \in Nat
          BY <2>2
        <4>2. CASE n = Len(torn')
          BY <2>2, <3>1, <3>2, <4>1, <4>2
        <4>3. CASE n # Len(torn')
          <5>1. m \in 1 .. Len(torn) /\ n \in 1 .. Len(torn) /\ torn'[m] = torn[m] /\ torn'[n] = torn[n]
            BY <3>1, <4>1, <4>3
          <5> QED
            BY <1>3, <5>1 DEF LibInv, TeardownInv
        <4> QED
          BY <4>2, <4>3
      <3>6. TeardownInv'
        BY <1>1, <1>3, <2>1, <2>2, <3>1, <3>3, <3>4, <3>5 DEF TeardownInv
      <3> QED
        BY <1>1, <2>4, <3>6 DEF LibInv
    <2>6. CASE libs[next].deinit = Null
      <3>1. torn' = torn
        BY <2>1, <2>6
      <3>2. TeardownInv'
        BY <1>1, <1>3, <2>1, <2>2, <2>6, <3>1 DEF LibInv, SetupInv, TeardownInv
      <3> QED
        BY <1>1, <2>4, <3>2 DEF LibInv
    <2> QED
      BY <2>5, <2>6
  <1>4. CASE phase = "deinit" /\ ~(next > 0)
    <2>1. phase' = "down" /\ next' = next /\ torn' = torn
      BY <1>4 DEF DeinitAll
    <2> QED
      BY <1>1, <1>4, <2>1 DEF LibInv, SetupInv, TeardownInv
  <1> QED
    BY <1>2, <1>3, <1>4 DEF DeinitAll

(* An empty registry.                                                      *)
LEMMA ResetStep ==
  ASSUME LibInv, Reset
  PROVE  LibInv'
  BY DEF Reset, LibInv, RegistryInv, SetupInv, TeardownInv

(* The invariant of the registry.                                          *)
THEOREM RegistryInvariant == LibSpec => []LibInv
  <1>1. LibInit => LibInv
    BY DEF LibInit, LibInv, RegistryInv, SetupInv, TeardownInv
  <1>2. LibInv /\ [LibNext]_libVars => LibInv'
    <2>1. ASSUME LibInv, UNCHANGED libVars
          PROVE  LibInv'
      BY <2>1 DEF libVars, LibInv, RegistryInv, SetupInv, TeardownInv
    <2> QED
      BY <2>1, DeclareStep, InitAllStep, DeinitAllStep, ResetStep DEF LibNext
  <1> QED
    BY <1>1, <1>2, PTL DEF LibSpec

(* embediq_platform_lib_*(): however often, when and by whom libraries are  *)
(* declared, who was told OK in time is initialised once, and torn down in *)
(* the opposite order.                                                     *)
THEOREM TeardownIsMirrored == LibSpec => []TeardownMirrorsSetup
  <1>1. ASSUME LibInv
        PROVE  TeardownMirrorsSetup
    <2>1. libs \in Seq(Library) /\ inited \in Seq(InitFn) /\ torn \in Seq(InitFn)
      BY <1>1 DEF LibInv, RegistryInv, SetupInv, TeardownInv
    <2>2. IsInjective(inited)
      BY <1>1, <2>1 DEF LibInv, RegistryInv, SetupInv, IsInjective
    <2>3. \A a, b \in agreed : a.init = b.init => a.deinit = b.deinit
      BY <1>1 DEF LibInv, RegistryInv
    <2>4. phase \in {"up", "deinit", "down"} => \A a \in agreed : a.early => a.init \in ToSet(inited)
      BY <1>1, <2>1 DEF LibInv, SetupInv, ToSet
    <2>5. ASSUME phase = "down", NEW k \in 1 .. Len(inited)
          PROVE  inited[k] \in ToSet(torn) <=> TornDown(inited[k])
      <3>1. k \in 1 .. Len(libs) /\ libs[k].init = inited[k] /\ k \in DOMAIN libs
        BY <1>1, <2>1 DEF LibInv, SetupInv
      <3>2. TornDown(inited[k]) <=> libs[k].deinit # Null
        BY <1>1, <3>1 DEF LibInv, RegistryInv, TornDown
      <3>3. inited[k] \in ToSet(torn) <=> libs[k].deinit # Null
        <4>1. ToSet(torn) = {torn[m] : m \in 1 .. Len(torn)} /\ next = 0 /\ Len(inited) \in Nat
          BY <1>1, <2>1, <2>5 DEF LibInv, TeardownInv, ToSet
        <4>2. ASSUME NEW m \in 1 .. Len(torn), torn[m] = inited[k]
              PROVE  libs[k].deinit # Null
          <5>1. PICK p \in next + 1 .. Len(libs) : libs[p].init = torn[m] /\ libs[p].deinit # Null
            BY <1>1, <2>5 DEF LibInv, TeardownInv
          <5>2. p = k
            BY <1>1, <2>1, <3>1, <4>1, <4>2, <5>1 DEF LibInv, RegistryInv
          <5> QED
            BY <5>1, <5>2
        <4>3. libs[k].deinit # Null => \E m \in 1 .. Len(torn) : torn[m] = inited[k]
          BY <1>1, <2>5, <3>1, <4>1 DEF LibInv, TeardownInv
        <4> QED
          BY <4>1, <4>2, <4>3
      <3> QED
        BY <3>2, <3>3
    <2>6. ASSUME phase = "down", NEW m \in DOMAIN torn, NEW n \in DOMAIN torn,
                 NEW k \in DOMAIN inited, NEW l \in DOMAIN inited,
                 torn[m] = inited[k], torn[n] = inited[l]
          PROVE  m < n <=> l < k
      <3>1. /\ k \in 1 .. Len(libs) /\ libs[k].init = torn[m]
            /\ l \in 1 .. Len(libs) /\ libs[l].init = torn[n]
            /\ m \in 1 .. Len(torn) /\ n \in 1 .. Len(torn)
        BY <1>1, <2>1, <2>6 DEF LibInv, SetupInv
      <3>2. m < n => l < k
        BY <1>1, <2>6, <3>1 DEF LibInv, TeardownInv
      <3>3. n < m => k < l
        BY <1>1, <2>6, <3>1 DEF LibInv, TeardownInv
      <3>4. m = n => k = l
        BY <1>1, <2>1, <3>1 DEF LibInv, RegistryInv
      <3> QED
        BY <3>1, <3>2, <3>3, <3>4
    <2>7. phase = "down" => MirrorsSetup
      <3>1. \A f \in ToSet(inited) : \E k \in 1 .. Len(inited) : f = inited[k]
        BY <2>1 DEF ToSet
      <3> QED
        BY <2>5, <2>6, <3>1 DEF MirrorsSetup
    <2> QED
      BY <2>2, <2>3, <2>4, <2>7 DEF TeardownMirrorsSetup
  <1> QED
    BY <1>1, RegistryInvariant, PTL

-----------------------------------------------------------------------------
(* The Observatory: its ring                                               *)

(* A ring that holds the events before number s, as many as it can.        *)
RingOK(r, s) ==
    /\ DOMAIN r.slots = 0 .. Depth - 1
    /\ r.head \in 0 .. Depth - 1 /\ r.count \in 0 .. Depth
    /\ \A n \in 0 .. r.count - 1 : r.slots[(r.head + n) % Depth].seq = s - r.count + n

RingInv == seq \in Nat /\ RingOK(ring, seq)

(* One event at most waits to be reported as lost.                         *)
LossInv ==
    /\ overflow \in {0, 1} /\ dropped \in Nat /\ reported \in Nat
    /\ reported + overflow <= dropped
    /\ dropped <= 2 * reported + overflow

-----------------------------------------------------------------------------
(* The Observatory: its capture file                                       *)

InnerSteps == {"emit", "EVENT header", "EVENT", "done"}
Steps == InnerSteps \cup Pieces
         \cup {"open", "abort", "flush begun", "to file", "flush ended", "close", "to null"}
CallFrame == [step : Steps, kind : Family, seq : Nat]
FileRecord == [piece : Pieces \cup {"torn"}, seq : Nat]

(* Calls within a call are those that emit the event of a failure.         *)
StackInv ==
    /\ DOMAIN stack = Thread
    /\ \A t \in Thread :
          /\ stack[t] \in Seq(CallFrame)
          /\ \A n \in 2 .. Len(stack[t]) : stack[t][n].step \in InnerSteps

Live == open /\ ~failed
Stage(t) == IF stack[t] = <<>> THEN "idle" ELSE stack[t][1].step
Ending == IF file = <<>> THEN "nothing" ELSE file[Len(file)].piece

(* While the stream takes writes, no failure is being reported, and the    *)
(* file ends with what the call in progress has written last.              *)
EndsWith(s, p) ==
    \/ s \in {"idle", "emit", "done", "open", "EVENT header", "STREAM_END"} /\ p \in {"SESSION", "EVENT"}
    \/ s = "MAGIC" /\ p = "nothing"
    \/ s = "SESSION header" /\ p = "MAGIC"
    \/ s = "SESSION" /\ p = "SESSION header"
    \/ s \in {"flush begun", "to file"} /\ p = "SESSION"
    \/ s = "EVENT" /\ p = "EVENT header"
    \/ s \in {"flush ended", "close"} /\ p = "STREAM_END"

StreamInv ==
    /\ open \in BOOLEAN /\ failed \in BOOLEAN
    /\ transport \in {"NULL", "STDOUT", "FILE"}
    /\ file \in Seq(FileRecord)

(* The last event in the file is the one emitted last, or before the one   *)
(* that is being written.                                                  *)
Writing(t) == Stage(t) \in {"EVENT header", "EVENT"}
Beginning(t) == Stage(t) \in {"MAGIC", "SESSION header", "SESSION", "flush begun", "to file"}
Latest(n) == n \in Captured /\ \A o \in Captured : o <= n

Numbered(t) ==
    /\ Beginning(t) => Captured = {}
    /\ Writing(t) => stack[t][1].seq = seq - 1
    /\ \A n \in Captured :
          Latest(n) => IF Writing(t) THEN stack[t][1].seq - file[n].seq \in 1 .. 2
                                     ELSE file[n].seq = seq - 1

LiveInv ==
    Live => \A t \in Thread : Len(stack[t]) \in {0, 1} /\ EndsWith(Stage(t), Ending) /\ Numbered(t)

(* Until the transport is set for the first time nothing goes to the file. *)
StdoutInv ==
    transport = "STDOUT" =>
        /\ Captured = {}
        /\ \A t \in Thread : \A n \in 1 .. Len(stack[t]) : stack[t][n].step \notin {"EVENT header", "EVENT"}

CaptureInv == seq \in Nat /\ StackInv /\ StreamInv /\ CaptureSound /\ LiveInv /\ StdoutInv

-----------------------------------------------------------------------------
(* The ring, for any number of threads                                     *)

(* There is one remainder.                                                 *)
LEMMA OneRemainder ==
  ASSUME NEW w \in Nat \ {0}, NEW q \in Int, NEW r \in 0 .. w - 1
  PROVE  (w * q + r) % w = r
  OBVIOUS

(* An index runs around the ring at most once.                             *)
LEMMA Around ==
  ASSUME NEW w \in Nat \ {0}, NEW a \in 0 .. 2 * w - 1
  PROVE  a % w = IF a < w THEN a ELSE a - w
  <1>1. CASE a < w
    BY <1>1
  <1>2. CASE ~(a < w)
    <2>1. a - w \in 0 .. w - 1
      BY <1>2
    <2>2. (w * 1 + (a - w)) % w = a - w
      BY <2>1, OneRemainder
    <2>3. w * 1 + (a - w) = a
      OBVIOUS
    <2> QED
      BY <1>2, <2>2, <2>3
  <1> QED
    BY <1>1, <1>2

(* The ring has room for an event.                                         *)
LEMMA RingSize == Depth \in Nat \ {0} /\ Wrap16 \in Nat \ {0, 1}
  BY ObservatoryAssumption DEF ObservatoryAssumption

(* A push keeps the latest events in order.                                *)
LEMMA Pushing ==
  ASSUME NEW r, NEW s \in Nat, RingOK(r, s), NEW e, e.seq = s
  PROVE  RingOK(Push(r, e), s + 1)
  <1> DEFINE D == Depth
             h == r.head
             c == r.count
             p == Push(r, e)
             d == IF Full(r) THEN c ELSE c + 1
             k == ((p.head + d) - 1) % D
  <1>1. D \in Nat \ {0} /\ h \in 0 .. D - 1 /\ c \in 0 .. D /\ DOMAIN r.slots = 0 .. D - 1
    BY RingSize DEF RingOK
  <1>2. p.slots = [r.slots EXCEPT ![k] = e] /\ p.head = NewHead(r) /\ p.count = d
    BY DEF Push
  <1>3. (Full(r) <=> c = D) /\ NewHead(r) = IF c = D THEN (h + 1) % D ELSE h
    BY DEF Full, NewHead
  <1>4. \A n \in 0 .. c - 1 : r.slots[(h + n) % D].seq = s - c + n
    BY DEF RingOK
  <1> HIDE DEF p
  <1>5. p.head = IF c = D THEN (IF h + 1 < D THEN h + 1 ELSE 0) ELSE h
    <2>1. (h + 1) % D = IF h + 1 < D THEN h + 1 ELSE (h + 1) - D
      <3> HIDE DEF h, D
      <3> DEFINE a == h + 1
      <3>1. a \in 0 .. 2 * D - 1
        BY <1>1
      <3> HIDE DEF a
      <3>2. a % D = IF a < D THEN a ELSE a - D
        BY <1>1, <3>1, Around
      <3> QED
        BY <1>1, <3>2, Zenon DEF a
    <2> QED
      BY <1>1, <1>2, <1>3, <2>1
  <1>6. d \in 1 .. D /\ d = IF c = D THEN D ELSE c + 1
    BY <1>1, <1>3
  <1>7. p.head \in 0 .. D - 1
    BY <1>1, <1>5
  <1> DEFINE g == p.head
  <1> HIDE DEF d, D, h, c
  <1>8. k = IF (g + d) - 1 < D THEN (g + d) - 1 ELSE ((g + d) - 1) - D
    <2> DEFINE a == (g + d) - 1
    <2>1. a \in 0 .. 2 * D - 1
      BY <1>1, <1>6, <1>7
    <2> HIDE DEF a
    <2>2. a % D = IF a < D THEN a ELSE a - D
      BY <1>1, <2>1, Around
    <2> QED
      BY <1>1, <2>2, Zenon DEF a
  <1> HIDE DEF k, g
  <1>9. k \in 0 .. D - 1 /\ g \in 0 .. D - 1
    BY <1>1, <1>6, <1>7, <1>8 DEF g
  <1>10. p.slots[k] = e /\ \A x \in 0 .. D - 1 : x # k => p.slots[x] = r.slots[x]
    BY <1>1, <1>2, <1>9
  <1>11. ASSUME NEW n \in 0 .. d - 1
         PROVE  p.slots[(g + n) % D].seq = s + 1 - d + n
    <2>1. (g + n) % D = IF g + n < D THEN g + n ELSE (g + n) - D
      <3> DEFINE a == g + n
      <3>1. a \in 0 .. 2 * D - 1
        BY <1>1, <1>6, <1>9
      <3> HIDE DEF a
      <3>2. a % D = IF a < D THEN a ELSE a - D
        BY <1>1, <3>1, Around
      <3> QED
        BY <1>1, <3>2, Zenon DEF a
    <2>2. CASE n = d - 1
      <3>1. (g + n) % D = k
        BY <1>1, <1>6, <1>8, <1>9, <2>1, <2>2
      <3> QED
        BY <1>6, <1>10, <2>2, <3>1
    <2>3. CASE n # d - 1
      <3>1. (g + n) % D # k /\ (g + n) % D \in 0 .. D - 1
        BY <1>1, <1>6, <1>8, <1>9, <2>1, <2>3
      <3> DEFINE m == IF c = D THEN n + 1 ELSE n
      <3>2. m \in 0 .. c - 1 /\ s - c + m = s + 1 - d + n
        BY <1>1, <1>6, <2>3
      <3> HIDE DEF m
      <3>3. (h + m) % D = IF h + m < D THEN h + m ELSE (h + m) - D
        <4> DEFINE a == h + m
        <4>1. a \in 0 .. 2 * D - 1
          BY <1>1, <3>2
        <4> HIDE DEF a
        <4>2. a % D = IF a < D THEN a ELSE a - D
          BY <1>1, <4>1, Around
        <4> QED
          BY <1>1, <4>2, Zenon DEF a
      <3>4. (g + n) % D = (h + m) % D
        BY <1>1, <1>5, <1>6, <2>1, <2>3, <3>3 DEF m, g
      <3> QED
        BY <1>4, <1>10, <3>1, <3>2, <3>4
    <2> QED
      BY <2>2, <2>3
  <1> QED
    BY <1>1, <1>2, <1>6, <1>9, <1>11 DEF RingOK, g, D, p

(* One event at most is counted as lost when it is reported.               *)
LEMMA RecordKeepsRing ==
  ASSUME RingInv, LossInv, NEW t \in Thread, Record(t)
  PROVE  RingInv' /\ LossInv'
  <1> DEFINE r == IF Recovers THEN Push(ring, [kind |-> "OVERFLOW", seq |-> seq]) ELSE ring
             s == IF Recovers THEN seq + 1 ELSE seq
             e == [kind |-> Top(t).kind, seq |-> s]
  <1>1. seq \in Nat /\ RingOK(ring, seq)
    BY DEF RingInv
  <1>2. s \in Nat /\ RingOK(r, s)
    <2>1. [kind |-> "OVERFLOW", seq |-> seq].seq = seq
      OBVIOUS
    <2> QED
      BY <1>1, <2>1, Pushing
  <1>3. e.seq = s
    OBVIOUS
  <1>4. ring' = Push(r, e) /\ seq' = s + 1
    BY DEF Record
  <1>5. /\ overflow' = Pending + (IF Full(r) THEN 1 ELSE 0)
        /\ dropped' = dropped + (IF Full(r) THEN 1 ELSE 0) + (IF Recovers /\ Full(ring) THEN 1 ELSE 0)
        /\ reported' = IF Recovers THEN reported + (overflow % Wrap16) ELSE reported
    BY DEF Record
  <1> HIDE DEF r, s, e
  <1>6. RingInv'
    BY <1>2, <1>3, <1>4, Pushing DEF RingInv
  <1>7. LossInv'
    <2>1. 1 % Wrap16 = 1
      BY RingSize
    <2>2. CASE overflow = 0
      BY <1>5, <2>2 DEF LossInv, Recovers, Pending
    <2>3. CASE overflow = 1
      <3>1. Recovers /\ Pending = 0 /\ reported' = reported + 1
        BY <1>5, <2>1, <2>3 DEF Recovers, Pending
      <3> QED
        BY <1>5, <2>3, <3>1 DEF LossInv
    <2> QED
      BY <2>2, <2>3 DEF LossInv
  <1> QED
    BY <1>6, <1>7

(* No other step touches the ring or the count of what it has lost.        *)
LEMMA RingElsewhere ==
  ASSUME [ObsNext]_obsVars, \A t \in Thread : ~Record(t)
  PROVE  UNCHANGED ringVars
  BY DEF ObsNext, obsVars, Configure, CallEmit, Skip, Write, Return, CallBegin, Begin, Open, Close, Flush,
         Switch, CallEnd, End

(* The ring and the count in the beginning.                                *)
LEMMA RingInit == ObsInit => RingInv /\ LossInv
  BY RingSize DEF ObsInit, RingInv, RingOK, LossInv

(* Every step keeps them.                                                  *)
LEMMA RingStep ==
  ASSUME RingInv, LossInv, [ObsNext]_obsVars
  PROVE  RingInv' /\ LossInv'
  <1>1. CASE \E t \in Thread : Record(t)
    BY <1>1, RecordKeepsRing
  <1>2. CASE \A t \in Thread : ~Record(t)
    BY <1>2, RingElsewhere DEF ringVars, RingInv, LossInv
  <1> QED
    BY <1>1, <1>2

(* embediq_obs_emit() and ring_push(): the ring holds the latest events,   *)
(* in order and with no gap, for any depth and any emitting threads (of    *)
(* which none interferes with another's emit).                             *)
THEOREM RingHoldsTheLatest == ObsSpec => []RingIsLatest
  <1>1. RingInv /\ LossInv /\ [ObsNext]_obsVars => (RingInv /\ LossInv)'
    BY RingStep
  <1>2. RingInv => RingIsLatest
    BY DEF RingInv, RingOK, RingIsLatest, Read
  <1> QED
    BY <1>1, <1>2, RingInit, PTL DEF ObsSpec

(* What the ring has lost is reported or about to be, except an event for  *)
(* each report, and no report claims more than was lost.                   *)
THEOREM LossesAreTold == ObsSpec => []DropsReported
  <1>1. RingInv /\ LossInv /\ [ObsNext]_obsVars => (RingInv /\ LossInv)'
    BY RingStep
  <1>2. LossInv => DropsReported
    BY RingSize DEF LossInv, DropsReported
  <1> QED
    BY <1>1, <1>2, RingInit, PTL DEF ObsSpec

-----------------------------------------------------------------------------
(* The capture file of a program with one emitting thread, of which the    *)
(* transport is not set to stdout                                          *)

OneThread == (\E main : Thread = {main}) /\ "STDOUT" \notin Transports

(* The call in progress.                                                   *)
LEMMA TopIs ==
  ASSUME StackInv, NEW t \in Thread, stack[t] # <<>>
  PROVE  /\ Len(stack[t]) \in Nat \ {0}
         /\ Top(t) = stack[t][Len(stack[t])] /\ Top(t) \in CallFrame
         /\ Len(stack[t]) >= 2 => Top(t).step \in InnerSteps
         /\ Len(stack[t]) = 1 => Stage(t) = Top(t).step
  <1>1. stack[t] \in Seq(CallFrame)
    BY DEF StackInv
  <1>2. Len(stack[t]) \in Nat \ {0} /\ stack[t][Len(stack[t])] \in CallFrame
    BY <1>1
  <1>3. Top(t) = stack[t][Len(stack[t])]
    BY DEF Top, Last
  <1> QED
    BY <1>2, <1>3 DEF StackInv, Stage

(* It goes on with another step.                                           *)
LEMMA Going ==
  ASSUME StackInv, NEW t \in Thread, stack[t] # <<>>, NEW step \in Steps,
         Len(stack[t]) >= 2 => step \in InnerSteps, NEW st, st = Goes(t, step)
  PROVE  /\ DOMAIN st = Thread /\ st[t] \in Seq(CallFrame) /\ st[t] # <<>>
         /\ Len(st[t]) = Len(stack[t])
         /\ st[t][Len(stack[t])].step = step
         /\ \A n \in 1 .. Len(stack[t]) : st[t][n].seq = stack[t][n].seq
         /\ \A n \in 1 .. Len(stack[t]) - 1 : st[t][n] = stack[t][n]
         /\ \A o \in Thread \ {t} : st[o] = stack[o]
         /\ \A n \in 2 .. Len(stack[t]) : st[t][n].step \in InnerSteps
  <1> DEFINE k == Len(stack[t])
             e == [stack[t][k] EXCEPT !.step = step]
             c == [stack[t] EXCEPT ![k] = e]
  <1>1. stack[t] \in Seq(CallFrame) /\ k \in Nat \ {0} /\ k \in 1 .. k /\ DOMAIN stack = Thread
    BY TopIs DEF StackInv
  <1>2. e \in CallFrame /\ e.step = step /\ e.seq = stack[t][k].seq
    <2>1. stack[t][k] \in CallFrame
      BY <1>1
    <2> QED
      BY <2>1 DEF CallFrame
  <1>3. st = [stack EXCEPT ![t] = c]
    BY <1>1 DEF Goes
  <1> HIDE DEF e
  <1>4. c \in Seq(CallFrame) /\ Len(c) = k /\ c[k] = e /\ \A n \in 1 .. k : n # k => c[n] = stack[t][n]
    BY <1>1, <1>2, ExceptSeq
  <1> HIDE DEF c
  <1>5. st[t] = c /\ DOMAIN st = Thread /\ \A o \in Thread \ {t} : st[o] = stack[o]
    BY <1>1, <1>3
  <1>6. \A n \in 2 .. k : c[n].step \in InnerSteps
    BY <1>1, <1>2, <1>4 DEF StackInv
  <1>7. c # <<>>
    BY <1>1, <1>4
  <1> HIDE DEF k
  <1>8. \A n \in 1 .. k - 1 : c[n] = stack[t][n]
    BY <1>1, <1>4
  <1>9. \A n \in 1 .. k : c[n].seq = stack[t][n].seq
    BY <1>1, <1>2, <1>4
  <1> QED
    BY <1>2, <1>4, <1>5, <1>6, <1>7, <1>8, <1>9 DEF k

(* A call within it, for the event of a failure.                           *)
LEMMA Deepening ==
  ASSUME StackInv, NEW t \in Thread, stack[t] # <<>>, NEW step \in Steps,
         Len(stack[t]) >= 2 => step \in InnerSteps, EmitsFault(t, step)
  PROVE  /\ StackInv' /\ stack'[t] # <<>>
         /\ \A n \in 1 .. Len(stack'[t]) :
               stack'[t][n].step \in {step, "emit"} \/ (n \in 1 .. Len(stack[t]) /\ stack'[t][n] = stack[t][n])
         /\ \A o \in Thread \ {t} : stack'[o] = stack[o]
  <1> DEFINE k == Len(stack[t])
  <1> PICK st : st = Goes(t, step)
    OBVIOUS
  <1>1. /\ DOMAIN st = Thread /\ st[t] \in Seq(CallFrame) /\ Len(st[t]) = k /\ st[t][k].step = step
        /\ \A n \in 1 .. k - 1 : st[t][n] = stack[t][n]
        /\ \A n \in 2 .. k : st[t][n].step \in InnerSteps
    BY Going
  <1>2. k \in Nat \ {0} /\ DOMAIN stack = Thread
    BY TopIs DEF StackInv
  <1> DEFINE e == Frame("emit", "FAULT")
             c == Append(st[t], e)
  <1>3. e \in CallFrame /\ e.step = "emit" /\ e.step \in InnerSteps
    BY DEF Frame, CallFrame, Steps, InnerSteps, Family
  <1>4. stack' = [stack EXCEPT ![t] = c]
    BY DEF EmitsFault
  <1> HIDE DEF e, k
  <1>5. /\ c \in Seq(CallFrame) /\ Len(c) = k + 1 /\ c[k + 1] = e
        /\ \A n \in 1 .. k : c[n] = st[t][n]
    BY <1>1, <1>2, <1>3
  <1> HIDE DEF c
  <1>6. DOMAIN stack' = Thread /\ stack'[t] = c /\ \A o \in Thread \ {t} : stack'[o] = stack[o]
    BY <1>2, <1>4
  <1>7. \A n \in 2 .. k + 1 : c[n].step \in InnerSteps
    BY <1>1, <1>2, <1>3, <1>5
  <1>8. StackInv'
    BY <1>5, <1>6, <1>7 DEF StackInv
  <1>9. ASSUME NEW n \in 1 .. k + 1
        PROVE  c[n].step \in {step, "emit"} \/ (n \in 1 .. k /\ c[n] = stack[t][n])
    <2>1. CASE n = k + 1
      BY <1>3, <1>5, <2>1
    <2>2. CASE n = k
      BY <1>1, <1>2, <1>5, <2>2
    <2>3. CASE n \in 1 .. k - 1
      BY <1>1, <1>2, <1>5, <2>3
    <2> QED
      BY <1>2, <2>1, <2>2, <2>3
  <1> QED
    BY <1>2, <1>5, <1>6, <1>8, <1>9 DEF k

(* What has been written to a file stays, and one more record follows.     *)
LEMMA Recorded ==
  ASSUME file \in Seq(FileRecord), NEW e \in FileRecord, file' = Append(file, e)
  PROVE  /\ Len(file) \in Nat /\ DOMAIN file = 1 .. Len(file)
         /\ file' \in Seq(FileRecord) /\ DOMAIN file' = 1 .. Len(file) + 1 /\ Len(file') = Len(file) + 1
         /\ file'[Len(file) + 1] = e /\ \A n \in 1 .. Len(file) : file'[n] = file[n]
         /\ Captured \subseteq 1 .. Len(file)
         /\ Captured' = IF e.piece = "EVENT" THEN Captured \cup {Len(file) + 1} ELSE Captured
         /\ Ending' = e.piece
  <1> DEFINE k == Len(file)
  <1>1. k \in Nat /\ DOMAIN file = 1 .. k /\ file' \in Seq(FileRecord)
    OBVIOUS
  <1>2. Len(file') = k + 1 /\ DOMAIN file' = 1 .. k + 1 /\ file'[k + 1] = e /\ \A n \in 1 .. k : file'[n] = file[n]
    OBVIOUS
  <1>3. file' # <<>>
    BY <1>1, <1>2
  <1>4. Ending' = e.piece
    BY <1>2, <1>3 DEF Ending
  <1> HIDE DEF k
  <1>5. Captured \subseteq 1 .. k
    BY <1>1 DEF Captured
  <1>6. Captured' = IF e.piece = "EVENT" THEN Captured \cup {k + 1} ELSE Captured
    BY <1>1, <1>2 DEF Captured
  <1> QED
    BY <1>1, <1>2, <1>4, <1>5, <1>6 DEF k

(* A record that may follow the last one keeps the file well formed.       *)
LEMMA WellFormedStep ==
  ASSUME file \in Seq(FileRecord), NEW e \in FileRecord, file' = Append(file, e), WellFormed,
         \/ file = <<>> /\ e.piece \in {"MAGIC", "torn"}
         \/ file # <<>> /\ (<<Ending, e.piece>> \in Follows \/ (e.piece = "torn" /\ Ending # "torn"))
  PROVE  WellFormed'
  <1> DEFINE k == Len(file)
  <1>1. /\ k \in Nat /\ DOMAIN file = 1 .. k /\ DOMAIN file' = 1 .. k + 1
        /\ file'[k + 1] = e /\ \A n \in 1 .. k : file'[n] = file[n]
    BY Recorded
  <1>2. file = <<>> <=> k = 0
    OBVIOUS
  <1>3. k # 0 => Ending = file[k]["piece"]
    BY <1>2 DEF Ending
  <1> HIDE DEF k
  <1> SUFFICES ASSUME NEW n \in 1 .. k + 1
               PROVE  /\ n = 1 => file'[n].piece \in {"MAGIC", "torn"}
                      /\ n > 1 => <<file'[n - 1].piece, file'[n].piece>> \in Follows
                                  \/ (file'[n].piece = "torn" /\ file'[n - 1].piece # "torn")
    BY <1>1 DEF WellFormed
  <1>4. CASE n \in 1 .. k
    <2>1. file'[n] = file[n] /\ (n > 1 => file'[n - 1] = file[n - 1])
      BY <1>1, <1>4
    <2> QED
      BY <1>1, <1>4, <2>1 DEF WellFormed
  <1>5. CASE n = k + 1
    <2>1. CASE k = 0
      BY <1>1, <1>2, <1>5, <2>1
    <2>2. CASE k # 0
      <3>1. n - 1 = k /\ n > 1 /\ n # 1 /\ file'[n] = e /\ file'[n - 1] = file[k]
        BY <1>1, <1>5, <2>2
      <3> QED
        BY <1>2, <1>3, <2>2, <3>1
    <2> QED
      BY <2>1, <2>2
  <1>6. n \in 1 .. k \/ n = k + 1
    BY <1>1
  <1> QED
    BY <1>4, <1>5, <1>6, Zenon

(* A step that writes no event to the file keeps what it says of events.   *)
LEMMA SameEvents ==
  ASSUME file \in Seq(FileRecord), Contiguous,
         \/ file' = file
         \/ \E e \in FileRecord : e.piece # "EVENT" /\ file' = Append(file, e)
  PROVE  Contiguous' /\ Captured' = Captured /\ \A n \in Captured : file'[n] = file[n]
  <1>1. CASE file' = file
    BY <1>1 DEF Contiguous, Captured
  <1>2. CASE \E e \in FileRecord : e.piece # "EVENT" /\ file' = Append(file, e)
    <2> PICK e \in FileRecord : e.piece # "EVENT" /\ file' = Append(file, e)
      BY <1>2
    <2>1. Captured' = Captured /\ \A n \in Captured : file'[n] = file[n]
      BY Recorded
    <2>2. Contiguous'
      BY <2>1 DEF Contiguous
    <2> QED
      BY <2>1, <2>2
  <1> QED
    BY <1>1, <1>2

(* Only opening makes the stream take writes, and then a call that is not  *)
(* within another.                                                         *)
LEMMA LiveBefore ==
  ASSUME StreamInv, ObsNext, Live', \A t \in Thread : ~Open(t)
  PROVE  Live
  BY DEF StreamInv, Live, ObsNext, Configure, CallEmit, Skip, Record, Write, Return, CallBegin, Begin, Open,
         Close, Flush, Switch, CallEnd, End, cfgVars, streamVars

(* The same call, in the state after its step.                             *)
LEMMA Continuing ==
  ASSUME StackInv, NEW t \in Thread, stack[t] # <<>>, NEW step \in Steps,
         Len(stack[t]) >= 2 => step \in InnerSteps, stack' = Goes(t, step)
  PROVE  /\ StackInv' /\ stack'[t] # <<>> /\ Len(stack'[t]) = Len(stack[t])
         /\ Len(stack[t]) = 1 => Stage(t)' = step /\ stack'[t][1].seq = stack[t][1].seq
         /\ \A n \in 1 .. Len(stack'[t]) :
               stack'[t][n].step = step \/ (n \in 1 .. Len(stack[t]) /\ stack'[t][n] = stack[t][n])
  <1> PICK st : st = Goes(t, step)
    OBVIOUS
  <1>1. /\ DOMAIN st = Thread /\ st[t] \in Seq(CallFrame) /\ st[t] # <<>>
        /\ Len(st[t]) = Len(stack[t])
        /\ st[t][Len(stack[t])].step = step
        /\ \A n \in 1 .. Len(stack[t]) : st[t][n].seq = stack[t][n].seq
        /\ \A n \in 1 .. Len(stack[t]) - 1 : st[t][n] = stack[t][n]
        /\ \A o \in Thread \ {t} : st[o] = stack[o]
        /\ \A n \in 2 .. Len(stack[t]) : st[t][n].step \in InnerSteps
    BY Going
  <1>2. stack' = st /\ Len(stack[t]) \in Nat \ {0}
    BY TopIs
  <1>3. StackInv'
    BY <1>1, <1>2 DEF StackInv
  <1>4. Len(stack[t]) = 1 => Stage(t)' = step /\ stack'[t][1].seq = stack[t][1].seq
    BY <1>1, <1>2 DEF Stage
  <1> DEFINE k == Len(stack[t])
  <1> HIDE DEF k
  <1>5. ASSUME NEW n \in 1 .. k
        PROVE  st[t][n].step = step \/ (n \in 1 .. k /\ st[t][n] = stack[t][n])
    BY <1>1, <1>2 DEF k
  <1> QED
    BY <1>1, <1>2, <1>3, <1>4, <1>5 DEF k

(* Steps that write events.                                                *)
EventSteps == {"EVENT header", "EVENT"}

(* A call that goes on to report a failure: the stream takes no writes.    *)
LEMMA Failing ==
  ASSUME CaptureInv, NEW t \in Thread, Thread = {t}, stack[t] # <<>>, NEW step \in Steps, step \notin EventSteps,
         Len(stack[t]) >= 2 => step \in InnerSteps, EmitsFault(t, step),
         seq' = seq, transport' = transport, StreamInv', CaptureSound', Captured' = Captured, ~Live'
  PROVE  CaptureInv'
  <1>1. /\ StackInv' /\ stack'[t] # <<>>
        /\ \A n \in 1 .. Len(stack'[t]) :
              stack'[t][n].step \in {step, "emit"} \/ (n \in 1 .. Len(stack[t]) /\ stack'[t][n] = stack[t][n])
    BY Deepening DEF CaptureInv
  <1>2. StdoutInv'
    BY <1>1 DEF CaptureInv, StdoutInv, EventSteps
  <1> QED
    BY <1>1, <1>2 DEF CaptureInv, LiveInv

(* While the stream takes writes there is one call, and the file ends with *)
(* what it has written last.                                               *)
LEMMA LiveCall ==
  ASSUME CaptureInv, NEW t \in Thread, stack[t] # <<>>, Live
  PROVE  /\ Len(stack[t]) = 1 /\ Stage(t) = Top(t).step /\ Top(t) = stack[t][1] /\ Top(t) \in CallFrame
         /\ EndsWith(Top(t).step, Ending) /\ Numbered(t)
  <1>1. Len(stack[t]) \in {0, 1} /\ EndsWith(Stage(t), Ending) /\ Numbered(t)
    BY DEF CaptureInv, LiveInv
  <1>2. /\ Len(stack[t]) \in Nat \ {0}
        /\ Top(t) = stack[t][Len(stack[t])] /\ Top(t) \in CallFrame
        /\ Len(stack[t]) = 1 => Stage(t) = Top(t).step
    BY TopIs DEF CaptureInv
  <1>3. Len(stack[t]) = 1
    BY <1>1, <1>2, Zenon
  <1> QED
    BY <1>1, <1>2, <1>3, Zenon

(* What has been written before step s suits step r as well.               *)
Suits(s, r) == \A p : EndsWith(s, p) => EndsWith(r, p)

(* A call that goes on without writing: what it has written last is what   *)
(* its next step expects, or the stream takes no writes.                   *)
LEMMA Proceeding ==
  ASSUME CaptureInv, NEW t \in Thread, Thread = {t}, stack[t] # <<>>, NEW step \in Steps, step \notin EventSteps,
         Len(stack[t]) >= 2 => step \in InnerSteps, stack' = Goes(t, step),
         seq' = seq, transport' \in {transport, "NULL", "FILE"}, StreamInv', file' = file,
         Live' => /\ Live /\ Top(t).step \notin EventSteps
                  /\ Suits(Top(t).step, step)
                  /\ step \in {"MAGIC", "SESSION header", "SESSION", "flush begun", "to file"}
                     => Top(t).step = "flush begun"
  PROVE  CaptureInv'
  <1>1. /\ StackInv' /\ stack'[t] # <<>> /\ Len(stack'[t]) = Len(stack[t])
        /\ Len(stack[t]) = 1 => Stage(t)' = step /\ stack'[t][1].seq = stack[t][1].seq
        /\ \A n \in 1 .. Len(stack'[t]) :
               stack'[t][n].step = step \/ (n \in 1 .. Len(stack[t]) /\ stack'[t][n] = stack[t][n])
    BY Continuing DEF CaptureInv
  <1>2. Captured' = Captured /\ CaptureSound' /\ Ending' = Ending
    BY DEF Captured, CaptureInv, CaptureSound, WellFormed, Contiguous, Ending
  <1>3. StdoutInv'
    <2> SUFFICES ASSUME transport' = "STDOUT"
                 PROVE  Captured' = {} /\ \A n \in 1 .. Len(stack'[t]) : stack'[t][n].step \notin EventSteps
      BY DEF StdoutInv, EventSteps
    <2>1. Captured = {} /\ \A n \in 1 .. Len(stack[t]) : stack[t][n].step \notin EventSteps
      BY DEF CaptureInv, StdoutInv, EventSteps
    <2> QED
      BY <1>1, <1>2, <2>1
  <1>4. ASSUME Live'
        PROVE  Len(stack'[t]) \in {0, 1} /\ EndsWith(Stage(t)', Ending') /\ Numbered(t)'
    <2>1. Live /\ EndsWith(Top(t).step, Ending) /\ Numbered(t)
      BY <1>4, LiveCall
    <2>2. Len(stack[t]) = 1 /\ Stage(t) = Top(t).step
      BY <1>4, LiveCall
    <2>3. Stage(t)' = step
      BY <1>1, <2>2
    <2>4. EndsWith(step, Ending)
      BY <1>4, <2>1, <2>2, Zenon DEF Suits
    <2>5. ~Writing(t) /\ ~Writing(t)' /\ (Beginning(t)' => Beginning(t))
      BY <1>4, <2>2, <2>3 DEF Writing, Beginning, EventSteps
    <2>6. Numbered(t)'
      BY <1>2, <2>1, <2>5 DEF Numbered, Latest
    <2>7. EndsWith(Stage(t)', Ending')
      BY <1>2, <2>3, <2>4
    <2>8. Len(stack'[t]) \in {0, 1}
      BY <1>1, <2>2
    <2> QED
      BY <2>6, <2>7, <2>8
  <1>5. LiveInv'
    BY <1>4 DEF LiveInv
  <1> QED
    BY <1>1, <1>2, <1>3, <1>5 DEF CaptureInv

(* A piece is written to the file.                                         *)
LEMMA Writes ==
  ASSUME CaptureInv, NEW t \in Thread, Thread = {t}, stack[t] # <<>>, Live, Top(t).step \in Pieces,
         file' = Append(file, [piece |-> Top(t).step, seq |-> Top(t).seq]),
         stack' = Goes(t, AfterPiece(Top(t).step)),
         seq' = seq, transport' = transport, StreamInv'
  PROVE  CaptureInv'
  <1> PICK p, n : p = Top(t).step /\ n = Top(t).seq
    OBVIOUS
  <1> DEFINE e == [piece |-> p, seq |-> n]
             k == Len(file)
  <1>1. /\ Len(stack[t]) = 1 /\ Stage(t) = p /\ stack[t][1].seq = n
        /\ EndsWith(p, Ending) /\ Numbered(t) /\ n \in Nat /\ p \in Pieces
    BY LiveCall DEF CallFrame
  <1>2. e \in FileRecord /\ e.piece = p /\ e.seq = n /\ file' = Append(file, e) /\ file \in Seq(FileRecord)
    BY <1>1 DEF FileRecord, CaptureInv, StreamInv
  <1>3. AfterPiece(p) \in Steps /\ (AfterPiece(p) \in EventSteps => p = "EVENT header")
    BY <1>1 DEF AfterPiece, Pieces, Steps, InnerSteps, EventSteps
  <1> HIDE DEF e
  <1>4. /\ k \in Nat /\ DOMAIN file' = 1 .. k + 1 /\ Captured \subseteq 1 .. k
        /\ file'[k + 1] = e /\ \A m \in 1 .. k : file'[m] = file[m]
        /\ Captured' = IF p = "EVENT" THEN Captured \cup {k + 1} ELSE Captured
        /\ Ending' = p
    BY <1>2, Recorded
  <1>5. StackInv' /\ Len(stack'[t]) = 1 /\ Stage(t)' = AfterPiece(p) /\ stack'[t][1].seq = n
    <2>1. Len(stack[t]) >= 2 => AfterPiece(p) \in InnerSteps
      BY <1>1
    <2>2. stack' = Goes(t, AfterPiece(p)) /\ StackInv
      BY DEF CaptureInv
    <2>3. /\ StackInv' /\ Len(stack'[t]) = Len(stack[t])
          /\ Len(stack[t]) = 1 => Stage(t)' = AfterPiece(p) /\ stack'[t][1].seq = stack[t][1].seq
      BY <1>3, <2>1, <2>2, Continuing
    <2> QED
      BY <1>1, <2>3, Zenon
  <1> HIDE DEF k
  <1>6. WellFormed'
    <2>1. file = <<>> => Ending = "nothing"
      BY DEF Ending
    <2>2. file # <<>> => Ending \in Pieces \cup {"torn"}
      <3>1. file # <<>> => file[Len(file)] \in FileRecord
        BY <1>2
      <3> QED
        BY <3>1 DEF Ending, FileRecord
    <2>3. CASE file = <<>>
      <3>1. p = "MAGIC"
        BY <1>1, <2>1, <2>3 DEF EndsWith, Pieces
      <3> QED
        BY <1>2, <2>3, <3>1, WellFormedStep DEF CaptureInv, CaptureSound
    <2>4. CASE file # <<>>
      <3>1. <<Ending, p>> \in Follows
        BY <1>1, <2>2, <2>4 DEF EndsWith, Pieces, Follows
      <3> QED
        BY <1>2, <2>4, <3>1, WellFormedStep DEF CaptureInv, CaptureSound
    <2> QED
      BY <2>3, <2>4
  <1>7. EndsWith(AfterPiece(p), p)
    BY <1>1 DEF EndsWith, AfterPiece, Pieces
  <1>8. transport = "STDOUT" => p \notin EventSteps /\ Captured = {}
    <2>1. stack[t][1].step = p /\ 1 \in 1 .. Len(stack[t])
      BY <1>1 DEF Stage
    <2> QED
      BY <2>1 DEF CaptureInv, StdoutInv, EventSteps
  <1>9. CASE p = "EVENT"
    <2>1. n = seq - 1 /\ \A m \in Captured : Latest(m) => n - file[m].seq \in 1 .. 2
      BY <1>1, <1>9 DEF Numbered, Writing
    <2>2. ASSUME NEW m1 \in Captured', NEW m2 \in Captured', m1 < m2,
                 \A o \in Captured' : o <= m1 \/ m2 <= o
          PROVE  file'[m2].seq - file'[m1].seq \in 1 .. 2
      <3>1. Captured' = Captured \cup {k + 1}
        BY <1>4, <1>9
      <3>2. m1 \in Captured /\ m1 \in 1 .. k
        BY <1>4, <2>2, <3>1
      <3>3. CASE m2 = k + 1
        <4>1. Latest(m1)
          BY <1>4, <2>2, <3>1, <3>2, <3>3 DEF Latest
        <4> QED
          BY <1>2, <1>4, <2>1, <3>2, <3>3, <4>1
      <3>4. CASE m2 \in Captured
        <4>1. \A o \in Captured : o <= m1 \/ m2 <= o
          BY <2>2, <3>1
        <4>2. file[m2].seq - file[m1].seq \in 1 .. 2
          BY <2>2, <3>2, <3>4, <4>1 DEF CaptureInv, CaptureSound, Contiguous
        <4> QED
          BY <1>4, <3>2, <3>4, <4>2
      <3> QED
        BY <3>1, <3>3, <3>4
    <2>3. Contiguous'
      BY <2>2 DEF Contiguous
    <2>4. Stage(t)' = "done"
      BY <1>5, <1>9 DEF AfterPiece
    <2>5. ASSUME NEW m \in Captured', \A o \in Captured' : o <= m
          PROVE  file'[m].seq = seq' - 1
      <3>1. m = k + 1
        <4>1. k + 1 \in Captured' /\ (m \in 1 .. k \/ m = k + 1)
          BY <1>4, <1>9
        <4>2. k + 1 <= m
          BY <2>5, <4>1
        <4> QED
          BY <1>4, <4>1, <4>2
      <3> QED
        BY <1>2, <1>4, <2>1, <3>1
    <2>6. Numbered(t)'
      BY <2>4, <2>5 DEF Numbered, Latest, Writing, Beginning
    <2>7. transport # "STDOUT"
      BY <1>9, <1>8 DEF EventSteps
    <2> QED
      BY <1>4, <1>5, <1>6, <1>7, <2>3, <2>6, <2>7 DEF CaptureInv, CaptureSound, LiveInv, StdoutInv
  <1>10. CASE p # "EVENT"
    <2>1. Contiguous' /\ Captured' = Captured /\ \A m \in Captured : file'[m] = file[m]
      BY <1>2, <1>10, SameEvents DEF CaptureInv, CaptureSound
    <2>2. Writing(t)' <=> Writing(t)
      BY <1>1, <1>5, <1>10 DEF Writing, AfterPiece, Pieces
    <2>3. Beginning(t)' => Beginning(t)
      BY <1>1, <1>5, <1>10 DEF Beginning, AfterPiece, Pieces
    <2>4. Numbered(t)'
      BY <1>1, <1>5, <2>1, <2>2, <2>3 DEF Numbered, Latest
    <2>5. transport = "STDOUT" => Captured' = {} /\ Stage(t)' \notin EventSteps
      BY <1>1, <1>5, <1>8, <2>1, <2>2 DEF Writing, EventSteps
    <2>6. \A m \in 1 .. Len(stack'[t]) : stack'[t][m].step = Stage(t)'
      BY <1>5 DEF Stage
    <2>7. StdoutInv'
      BY <2>5, <2>6 DEF StdoutInv, EventSteps
    <2> QED
      BY <1>4, <1>5, <1>6, <1>7, <2>1, <2>4, <2>7 DEF CaptureInv, CaptureSound, LiveInv
  <1> QED
    BY <1>9, <1>10

(* The application calls.                                                  *)
LEMMA Calling ==
  ASSUME CaptureInv, NEW t \in Thread, Thread = {t}, NEW step \in {"emit", "open", "STREAM_END"},
         NEW kind \in Family, Calls(t, step, kind), UNCHANGED <<ringVars, cfgVars, streamVars>>
  PROVE  CaptureInv'
  <1> DEFINE e == Frame(step, kind)
             c == <<e>>
  <1>1. e \in CallFrame /\ e.step = step
    BY DEF Frame, CallFrame, Steps, InnerSteps, Pieces
  <1> HIDE DEF e
  <1>2. c \in Seq(CallFrame) /\ Len(c) = 1 /\ c[1] = e /\ c # <<>> /\ \A n \in 2 .. Len(c) : FALSE
    BY <1>1
  <1>3. stack[t] = <<>> /\ stack' = [stack EXCEPT ![t] = c] /\ DOMAIN stack = Thread
    BY DEF Calls, e, CaptureInv, StackInv
  <1> HIDE DEF c
  <1>4. stack'[t] = c /\ DOMAIN stack' = Thread
    BY <1>3
  <1>5. StackInv'
    BY <1>2, <1>4 DEF StackInv
  <1>6. Stage(t) = "idle" /\ Stage(t)' = step
    BY <1>1, <1>2, <1>3, <1>4 DEF Stage
  <1>7. UNCHANGED <<seq, transport, open, failed, file>>
    BY DEF ringVars, cfgVars, streamVars
  <1>8. /\ StreamInv' /\ CaptureSound' /\ Captured' = Captured /\ Ending' = Ending /\ (Live' <=> Live)
        /\ seq' \in Nat
    BY <1>7 DEF CaptureInv, StreamInv, CaptureSound, WellFormed, Contiguous, Captured, Ending, Live
  <1>9. \A n \in 1 .. Len(c) : c[n].step \notin EventSteps
    <2>1. step \notin EventSteps
      BY DEF EventSteps
    <2>2. \A n \in 1 .. Len(c) : c[n] = e
      BY <1>2
    <2> QED
      BY <1>1, <2>1, <2>2, Zenon
  <1>10. StdoutInv'
    BY <1>4, <1>7, <1>8, <1>9 DEF CaptureInv, StdoutInv, EventSteps
  <1>11. ASSUME Live'
         PROVE  Len(stack'[t]) \in {0, 1} /\ EndsWith(Stage(t)', Ending') /\ Numbered(t)'
    <2>1. EndsWith("idle", Ending) /\ Numbered(t)
      BY <1>6, <1>8, <1>11 DEF CaptureInv, LiveInv
    <2>2. EndsWith(step, Ending)
      BY <2>1 DEF EndsWith
    <2>3. EndsWith(Stage(t)', Ending')
      BY <1>6, <1>8, <2>2
    <2>4. ~Writing(t) /\ ~Writing(t)' /\ ~Beginning(t)'
      BY <1>6 DEF Writing, Beginning
    <2>5. Numbered(t)'
      BY <1>7, <1>8, <2>1, <2>4 DEF Numbered, Latest
    <2> QED
      BY <1>2, <1>4, <2>3, <2>5
  <1> QED
    BY <1>5, <1>8, <1>10, <1>11 DEF CaptureInv, LiveInv

(* A call returns to the one it was made in, or to the application.        *)
LEMMA Returning ==
  ASSUME CaptureInv, NEW t \in Thread, Thread = {t}, Return(t)
  PROVE  CaptureInv'
  <1> DEFINE k == Len(stack[t])
             c == Front(stack[t])
  <1>1. /\ k \in Nat \ {0} /\ stack[t] \in Seq(CallFrame) /\ DOMAIN stack = Thread
        /\ Top(t).step = "done" /\ stack[t] # <<>>
    BY TopIs DEF CaptureInv, StackInv, Return, At
  <1>2. c = SubSeq(stack[t], 1, k - 1)
    BY DEF Front
  <1> HIDE DEF c, k
  <1>3. c \in Seq(CallFrame) /\ Len(c) = k - 1 /\ \A n \in 1 .. k - 1 : c[n] = stack[t][n]
    <2>1. Len(stack[t]) = k
      BY DEF k
    <2> QED
      BY <1>1, <1>2, <2>1
  <1>4. stack' = [stack EXCEPT ![t] = c]
    BY DEF Return, c
  <1>5. stack'[t] = c /\ DOMAIN stack' = Thread
    BY <1>1, <1>4
  <1>6. \A n \in 1 .. Len(c) : n \in 1 .. k /\ c[n] = stack[t][n]
    BY <1>1, <1>3
  <1>7. \A n \in 2 .. Len(c) : n \in 2 .. k /\ n \in 1 .. Len(c)
    BY <1>1, <1>3
  <1>8. StackInv'
    BY <1>3, <1>5, <1>6, <1>7 DEF CaptureInv, StackInv, k
  <1>9. UNCHANGED <<seq, transport, open, failed, file>>
    BY DEF Return, ringVars, cfgVars, streamVars
  <1>10. /\ StreamInv' /\ CaptureSound' /\ Captured' = Captured /\ Ending' = Ending /\ (Live' <=> Live)
         /\ seq' \in Nat
    BY <1>9 DEF CaptureInv, StreamInv, CaptureSound, WellFormed, Contiguous, Captured, Ending, Live
  <1>11. StdoutInv'
    BY <1>5, <1>6, <1>9, <1>10 DEF CaptureInv, StdoutInv, k
  <1>12. ASSUME Live'
         PROVE  Len(stack'[t]) \in {0, 1} /\ EndsWith(Stage(t)', Ending') /\ Numbered(t)'
    <2>1. k = 1 /\ Stage(t) = "done" /\ EndsWith("done", Ending) /\ Numbered(t)
      BY <1>1, <1>10, <1>12, LiveCall DEF k
    <2>2. Len(c) = 0
      BY <1>3, <2>1
    <2>3. c = <<>>
      BY <1>3, <2>2
    <2>4. Stage(t)' = "idle"
      BY <1>5, <2>3 DEF Stage
    <2>5. EndsWith("idle", Ending)
      BY <2>1 DEF EndsWith
    <2>6. EndsWith(Stage(t)', Ending')
      BY <1>10, <2>4, <2>5
    <2>7. ~Writing(t) /\ ~Writing(t)' /\ ~Beginning(t)'
      BY <2>1, <2>4 DEF Writing, Beginning
    <2>8. Numbered(t)'
      BY <1>9, <1>10, <2>1, <2>7 DEF Numbered, Latest
    <2> QED
      BY <1>5, <2>2, <2>6, <2>8
  <1> QED
    BY <1>8, <1>10, <1>11, <1>12 DEF CaptureInv, LiveInv

(* embediq_obs_set_transport() and its like.                               *)
LEMMA Configuring ==
  ASSUME CaptureInv, NEW t \in Thread, Thread = {t}, "STDOUT" \notin Transports, Configure
  PROVE  CaptureInv'
  <1>1. UNCHANGED <<seq, open, failed, file, stack>> /\ (transport' \in Transports \/ transport' = transport)
    BY DEF Configure, ringVars, streamVars
  <1>2. transport' \in {"NULL", "STDOUT", "FILE"} /\ (transport' = "STDOUT" => transport = "STDOUT")
    BY <1>1, ObservatoryAssumption DEF ObservatoryAssumption, CaptureInv, StreamInv
  <1>3. /\ StackInv' /\ StreamInv' /\ CaptureSound' /\ Captured' = Captured /\ Ending' = Ending
        /\ (Live' <=> Live) /\ seq' \in Nat
    BY <1>1, <1>2 DEF CaptureInv, StackInv, StreamInv, CaptureSound, WellFormed, Contiguous, Captured, Ending, Live
  <1>4. StdoutInv'
    BY <1>1, <1>2, <1>3 DEF CaptureInv, StdoutInv
  <1>5. Stage(t)' = Stage(t) /\ (Numbered(t) => Numbered(t)')
    BY <1>1, <1>3 DEF Stage, Numbered, Writing, Beginning, Latest
  <1>6. LiveInv'
    BY <1>1, <1>3, <1>5 DEF CaptureInv, LiveInv
  <1> QED
    BY <1>3, <1>4, <1>6 DEF CaptureInv

(* An event gets its number.                                               *)
LEMMA Recording ==
  ASSUME CaptureInv, NEW t \in Thread, Thread = {t}, Record(t)
  PROVE  CaptureInv'
  <1> DEFINE s == IF Recovers THEN seq + 1 ELSE seq
             step == IF transport = "FILE" THEN "EVENT header" ELSE "done"
             k == Len(stack[t])
             e == [Top(t) EXCEPT !.step = step, !.seq = s]
             c == Append(Front(stack[t]), e)
  <1>1. /\ k \in Nat \ {0} /\ stack[t] \in Seq(CallFrame) /\ DOMAIN stack = Thread
        /\ Top(t).step = "emit" /\ stack[t] # <<>> /\ Top(t) \in CallFrame /\ seq \in Nat
    BY TopIs DEF CaptureInv, StackInv, Record, At
  <1>2. s \in Nat /\ seq' = s + 1 /\ s - (seq - 1) \in 1 .. 2
    BY <1>1 DEF Record
  <1>3. step \in {"EVENT header", "done"} /\ step \in Steps /\ step \in InnerSteps
    BY DEF Steps, InnerSteps
  <1>4. stack' = [stack EXCEPT ![t] = c]
    BY DEF Record
  <1> HIDE DEF s
  <1>5. e \in CallFrame /\ e.step = step /\ e.seq = s
    <2> HIDE DEF step
    <2> QED
      BY <1>1, <1>2, <1>3 DEF CallFrame
  <1>6. c = Append(SubSeq(stack[t], 1, k - 1), e)
    BY DEF Front
  <1> HIDE DEF c, e, k
  <1>7. c \in Seq(CallFrame) /\ Len(c) = k /\ c[k] = e /\ c # <<>> /\ \A n \in 1 .. k - 1 : c[n] = stack[t][n]
    <2> DEFINE f == SubSeq(stack[t], 1, k - 1)
    <2>1. Len(stack[t]) = k
      BY DEF k
    <2>2. f \in Seq(CallFrame) /\ Len(f) = k - 1 /\ \A n \in 1 .. k - 1 : f[n] = stack[t][n]
      BY <1>1, <2>1
    <2> HIDE DEF f
    <2>3. c = Append(f, e)
      BY <1>6 DEF f
    <2>4. c \in Seq(CallFrame) /\ Len(c) = Len(f) + 1 /\ c[Len(f) + 1] = e /\ \A n \in 1 .. Len(f) : c[n] = f[n]
      <3>1. f \in Seq(CallFrame) /\ e \in CallFrame
        BY <1>5, <2>2
      <3> QED
        BY <2>3, <3>1, AppendProperties
    <2>5. Len(f) + 1 = k
      BY <1>1, <2>2
    <2>6. c # <<>>
      BY <1>1, <2>4, <2>5
    <2> QED
      BY <2>2, <2>4, <2>5, <2>6
  <1>8. stack'[t] = c /\ DOMAIN stack' = Thread
    BY <1>1, <1>4
  <1>9. \A n \in 1 .. k : c[n].step = step \/ (n \in 1 .. k - 1 /\ c[n] = stack[t][n])
    <2>1. \A n \in 1 .. k : n = k \/ n \in 1 .. k - 1
      BY <1>1
    <2> QED
      BY <1>5, <1>7, <2>1, Zenon
  <1>10. \A n \in 2 .. k : n \in 1 .. k
    BY <1>1
  <1> HIDE DEF step
  <1>11. StackInv'
    BY <1>3, <1>7, <1>8, <1>9, <1>10 DEF CaptureInv, StackInv, k
  <1>12. UNCHANGED <<transport, open, failed, file>> /\ transport # "NULL"
    BY DEF Record, cfgVars, streamVars
  <1>13. /\ StreamInv' /\ CaptureSound' /\ Captured' = Captured /\ Ending' = Ending /\ (Live' <=> Live)
         /\ seq' \in Nat
    BY <1>2, <1>12 DEF CaptureInv, StreamInv, CaptureSound, WellFormed, Contiguous, Captured, Ending, Live
  <1>14. StdoutInv'
    <2>1. transport = "STDOUT" => step = "done"
      BY DEF step
    <2>2. \A n \in 1 .. k - 1 : n \in 1 .. k
      BY <1>1
    <2> QED
      BY <1>7, <1>8, <1>9, <1>12, <1>13, <2>1, <2>2 DEF CaptureInv, StdoutInv, k
  <1>15. ASSUME Live'
         PROVE  Len(stack'[t]) \in {0, 1} /\ EndsWith(Stage(t)', Ending') /\ Numbered(t)'
    <2>1. k = 1 /\ Stage(t) = "emit" /\ EndsWith("emit", Ending) /\ Numbered(t)
      BY <1>1, <1>13, <1>15, LiveCall DEF k
    <2>2. Len(c) = 1 /\ c[1] = e
      BY <1>7, <2>1
    <2>3. Stage(t)' = step /\ stack'[t][1].seq = s
      BY <1>5, <1>7, <1>8, <2>2 DEF Stage
    <2>4. EndsWith(step, Ending)
      BY <1>3, <2>1 DEF EndsWith
    <2>5. EndsWith(Stage(t)', Ending')
      BY <1>13, <2>3, <2>4
    <2>6. ~Writing(t) /\ ~Beginning(t)' /\ (Writing(t)' <=> step = "EVENT header")
      BY <1>3, <2>1, <2>3 DEF Writing, Beginning
    <2>7. \A n \in Captured : Latest(n) => file[n].seq = seq - 1
      BY <2>1, <2>6 DEF Numbered
    <2>8. step = "done" => Captured = {}
      BY <1>12 DEF step, CaptureInv, StdoutInv, StreamInv
    <2>9. Writing(t)' => stack'[t][1].seq = seq' - 1
      BY <1>2, <2>3
    <2>10. ASSUME NEW n \in Captured, Latest(n)
           PROVE  Writing(t)' /\ stack'[t][1].seq - file[n].seq \in 1 .. 2
      <3>1. step = "EVENT header" /\ file[n].seq = seq - 1
        BY <1>3, <2>7, <2>8, <2>10
      <3> QED
        BY <1>2, <2>3, <2>6, <3>1
    <2>11. Numbered(t)'
      BY <1>12, <1>13, <2>6, <2>9, <2>10 DEF Numbered, Latest
    <2> QED
      BY <1>8, <2>2, <2>5, <2>11
  <1> QED
    BY <1>11, <1>13, <1>14, <1>15 DEF CaptureInv, LiveInv

(* An event that the transport or the level holds back.                    *)
LEMMA Skipping ==
  ASSUME CaptureInv, NEW t \in Thread, Thread = {t}, Skip(t)
  PROVE  CaptureInv'
  <1>1. /\ stack[t] # <<>> /\ Top(t).step = "emit" /\ stack' = Goes(t, "done")
        /\ UNCHANGED <<seq, transport, open, failed, file>>
    BY DEF Skip, At, ringVars, cfgVars, streamVars
  <1>2. "done" \in Steps /\ "done" \in InnerSteps /\ "done" \notin EventSteps /\ "emit" \notin EventSteps
    BY DEF Steps, InnerSteps, EventSteps
  <1>3. Suits("emit", "done")
    BY DEF Suits, EndsWith
  <1>4. StreamInv' /\ (Live' => Live)
    BY <1>1 DEF CaptureInv, StreamInv, Live
  <1> QED
    BY <1>1, <1>2, <1>3, <1>4, Proceeding

(* write() of the stream.                                                  *)
LEMMA PieceStep ==
  ASSUME CaptureInv, NEW t \in Thread, Thread = {t}, Write(t)
  PROVE  CaptureInv'
  <1> PICK p : p = Top(t).step
    OBVIOUS
  <1>1. stack[t] # <<>> /\ p \in Pieces /\ UNCHANGED <<seq, transport, open>>
    BY DEF Write, ringVars, cfgVars
  <1>2. /\ AfterFailure(p) \in Steps /\ AfterFailure(p) \notin EventSteps
        /\ p \in InnerSteps => AfterFailure(p) \in InnerSteps
    BY <1>1 DEF AfterFailure, Pieces, Steps, InnerSteps, EventSteps
  <1>3. Len(stack[t]) >= 2 => AfterFailure(p) \in InnerSteps
    BY <1>1, <1>2, TopIs DEF CaptureInv
  <1>4. CASE /\ open /\ ~Latched
             /\ file' = Append(file, [piece |-> p, seq |-> Top(t).seq])
             /\ stack' = Goes(t, AfterPiece(p))
             /\ UNCHANGED failed
    <2>1. Live
      BY <1>4 DEF Live, Latched
    <2>2. [piece |-> p, seq |-> Top(t).seq] \in FileRecord
      BY <1>1, TopIs DEF CaptureInv, FileRecord, CallFrame
    <2>3. StreamInv'
      BY <1>1, <1>4, <2>2, Recorded DEF CaptureInv, StreamInv
    <2> QED
      BY <1>1, <1>4, <2>1, <2>3, Writes
  <1>5. CASE /\ open /\ ~Latched
             /\ file' \in {file, Append(file, Torn)}
             /\ failed' = TRUE
             /\ EmitsFault(t, AfterFailure(p))
    <2>1. Live /\ ~Live'
      BY <1>5 DEF Live, Latched
    <2>2. Torn \in FileRecord /\ Torn.piece = "torn" /\ file \in Seq(FileRecord)
      BY DEF Torn, FileRecord, CaptureInv, StreamInv
    <2>3. file' \in Seq(FileRecord)
      BY <1>5, <2>2
    <2>4. Contiguous' /\ Captured' = Captured
      BY <1>5, <2>2, SameEvents DEF CaptureInv, CaptureSound
    <2>5. WellFormed'
      <3>1. CASE file' = file
        BY <3>1 DEF CaptureInv, CaptureSound, WellFormed
      <3>2. CASE file' = Append(file, Torn)
        <4>1. EndsWith(p, Ending)
          BY <1>1, <2>1, LiveCall
        <4>2. Ending # "torn"
          BY <4>1 DEF EndsWith
        <4> QED
          BY <2>2, <3>2, <4>2, WellFormedStep DEF CaptureInv, CaptureSound
      <3> QED
        BY <1>5, <3>1, <3>2
    <2>6. StreamInv'
      BY <1>1, <1>5, <2>3 DEF CaptureInv, StreamInv
    <2> QED
      BY <1>1, <1>2, <1>3, <1>5, <2>1, <2>4, <2>5, <2>6, Failing DEF CaptureSound
  <1>6. CASE open /\ Latched /\ stack' = Goes(t, AfterFailure(p)) /\ UNCHANGED <<file, failed>>
    <2>1. ~Live' /\ StreamInv'
      BY <1>1, <1>6 DEF Live, Latched, CaptureInv, StreamInv
    <2> QED
      BY <1>1, <1>2, <1>3, <1>6, <2>1, Proceeding
  <1>7. CASE ~open /\ EmitsFault(t, AfterFailure(p)) /\ UNCHANGED <<file, failed>>
    <2>1. ~Live' /\ StreamInv' /\ CaptureSound' /\ Captured' = Captured
      BY <1>1, <1>7 DEF Live, CaptureInv, StreamInv, CaptureSound, WellFormed, Contiguous, Captured
    <2> QED
      BY <1>1, <1>2, <1>3, <1>7, <2>1, Failing
  <1> QED
    BY <1>4, <1>5, <1>6, <1>7 DEF Write

(* The steps of the calls outside an emit.                                 *)
OuterSteps == {"open", "abort", "flush begun", "to file", "flush ended", "close", "to null"}

(* Those calls are not made within another.                                *)
LEMMA OuterCall ==
  ASSUME CaptureInv, NEW t \in Thread, NEW step \in OuterSteps, At(t, step)
  PROVE  stack[t] # <<>> /\ Top(t).step = step /\ Len(stack[t]) = 1 /\ ~(Len(stack[t]) >= 2)
  <1>1. stack[t] # <<>> /\ Top(t).step = step /\ step \notin InnerSteps
    BY DEF At, OuterSteps, InnerSteps
  <1>2. Len(stack[t]) \in Nat \ {0} /\ ~(Len(stack[t]) >= 2)
    BY <1>1, TopIs DEF CaptureInv
  <1> DEFINE k == Len(stack[t])
  <1> HIDE DEF k
  <1>3. k \in Nat \ {0} /\ ~(k >= 2) => k = 1
    OBVIOUS
  <1> QED
    BY <1>1, <1>2, <1>3 DEF k

(* A stream operation that fails.                                          *)
LEMMA OuterFails ==
  ASSUME CaptureInv, NEW t \in Thread, Thread = {t}, NEW step \in OuterSteps, At(t, step),
         NEW after \in OuterSteps \cup {"done"}, EmitsFault(t, after),
         UNCHANGED <<seq, transport, file>>, open' \in BOOLEAN, failed' \in BOOLEAN, ~Live'
  PROVE  CaptureInv'
  <1>1. after \in Steps /\ after \notin EventSteps
    BY DEF OuterSteps, Steps, InnerSteps, EventSteps
  <1>2. StreamInv' /\ CaptureSound' /\ Captured' = Captured
    BY DEF CaptureInv, StreamInv, CaptureSound, WellFormed, Contiguous, Captured
  <1>3. stack[t] # <<>> /\ (Len(stack[t]) >= 2 => after \in InnerSteps)
    BY OuterCall
  <1> QED
    BY <1>1, <1>2, <1>3, Failing

(* embediq_obs_capture_begin() opens the file.                             *)
LEMMA Opening ==
  ASSUME CaptureInv, NEW t \in Thread, Thread = {t}, Open(t)
  PROVE  CaptureInv'
  <1>1. At(t, "open") /\ UNCHANGED <<seq, transport>> /\ "open" \in OuterSteps /\ "done" \in OuterSteps \cup {"done"}
    BY DEF Open, ringVars, cfgVars, OuterSteps
  <1>2. stack[t] # <<>> /\ Len(stack[t]) = 1 /\ ~(Len(stack[t]) >= 2)
    BY <1>1, OuterCall
  <1>3. CASE open' = TRUE /\ failed' = FALSE /\ file' = Opened /\ stack' = Goes(t, "MAGIC")
    <2>1. "MAGIC" \in Steps
      BY DEF Steps, Pieces
    <2>2. /\ StackInv' /\ Len(stack'[t]) = 1 /\ Stage(t)' = "MAGIC"
      BY <1>2, <1>3, <2>1, Continuing DEF CaptureInv
    <2>3. file' = <<>>
      BY <1>3 DEF Opened
    <2>4. Captured' = {} /\ Ending' = "nothing" /\ CaptureSound' /\ StreamInv' /\ seq' \in Nat
      <3>1. Captured' = {} /\ Ending' = "nothing" /\ WellFormed'
        BY <2>3 DEF Captured, Ending, WellFormed
      <3>2. Contiguous'
        BY <3>1 DEF Contiguous
      <3>3. StreamInv'
        BY <1>1, <1>3, <2>3, EmptySeq DEF CaptureInv, StreamInv
      <3> QED
        BY <1>1, <3>1, <3>2, <3>3 DEF CaptureInv, CaptureSound
    <2>5. Numbered(t)'
      BY <2>2, <2>4 DEF Numbered, Writing
    <2>6. EndsWith("MAGIC", "nothing")
      BY DEF EndsWith
    <2>7. LiveInv'
      BY <2>2, <2>4, <2>5, <2>6 DEF LiveInv
    <2>8. \A n \in 1 .. Len(stack'[t]) : stack'[t][n].step = Stage(t)'
      BY <2>2 DEF Stage
    <2>9. StdoutInv'
      BY <2>2, <2>4, <2>8 DEF StdoutInv
    <2> QED
      BY <2>2, <2>4, <2>7, <2>9 DEF CaptureInv
  <1>4. CASE open' = FALSE /\ EmitsFault(t, "done") /\ UNCHANGED <<failed, file>>
    <2>1. ~Live' /\ failed' \in BOOLEAN
      BY <1>4 DEF Live, CaptureInv, StreamInv
    <2> QED
      BY <1>1, <1>4, <2>1, OuterFails
  <1> QED
    BY <1>3, <1>4 DEF Open

(* A flush.                                                                *)
LEMMA Flushing ==
  ASSUME CaptureInv, NEW t \in Thread, Thread = {t},
         NEW step \in {"flush begun", "flush ended"}, NEW after \in {"to file", "close"},
         Suits(step, after), after = "to file" => step = "flush begun", Flush(t, step, after)
  PROVE  CaptureInv'
  <1>1. /\ step \in OuterSteps /\ after \in OuterSteps /\ after \in Steps
        /\ after \notin EventSteps /\ step \notin EventSteps
        /\ after \in {"MAGIC", "SESSION header", "SESSION", "flush begun", "to file"} => step = "flush begun"
    BY DEF OuterSteps, Steps, EventSteps
  <1>2. At(t, step) /\ UNCHANGED <<seq, transport, open, file>>
    BY DEF Flush, ringVars, cfgVars
  <1>3. stack[t] # <<>> /\ Top(t).step = step /\ ~(Len(stack[t]) >= 2)
    BY <1>1, <1>2, OuterCall
  <1>4. CASE open /\ stack' = Goes(t, after) /\ UNCHANGED failed
    <2>1. StreamInv' /\ (Live' => Live)
      BY <1>2, <1>4 DEF CaptureInv, StreamInv, Live
    <2> QED
      BY <1>1, <1>2, <1>3, <1>4, <2>1, Proceeding
  <1>5. CASE /\ EmitsFault(t, after) /\ ~Live' /\ failed' \in BOOLEAN
    <2>1. open' \in BOOLEAN
      BY <1>2 DEF CaptureInv, StreamInv
    <2> QED
      BY <1>1, <1>2, <1>5, <2>1, OuterFails
  <1>6. \/ open /\ stack' = Goes(t, after) /\ UNCHANGED failed
        \/ EmitsFault(t, after) /\ ~Live' /\ failed' \in BOOLEAN
    <2>1. failed \in BOOLEAN
      BY DEF CaptureInv, StreamInv
    <2>2. CASE open /\ ~failed /\ EmitsFault(t, after) /\ failed' = TRUE
      BY <2>2 DEF Live
    <2>3. CASE ~open /\ EmitsFault(t, after) /\ UNCHANGED failed
      BY <1>2, <2>1, <2>3 DEF Live
    <2> QED
      BY <2>2, <2>3 DEF Flush
  <1> QED
    BY <1>4, <1>5, <1>6

(* A close.                                                                *)
LEMMA Closing ==
  ASSUME CaptureInv, NEW t \in Thread, Thread = {t},
         NEW step \in {"abort", "close"}, NEW after \in {"done", "to null"}, Close(t, step, after)
  PROVE  CaptureInv'
  <1>1. step \in OuterSteps /\ after \in OuterSteps \cup {"done"} /\ after \in Steps /\ after \notin EventSteps
    BY DEF OuterSteps, Steps, InnerSteps, EventSteps
  <1>2. At(t, step) /\ UNCHANGED <<seq, transport, file>> /\ open' \in BOOLEAN /\ failed' \in BOOLEAN /\ ~Live'
    BY DEF Close, ringVars, cfgVars, Live
  <1>3. stack[t] # <<>> /\ ~(Len(stack[t]) >= 2)
    BY <1>1, <1>2, OuterCall
  <1>4. CASE stack' = Goes(t, after)
    <2>1. StreamInv'
      BY <1>2 DEF CaptureInv, StreamInv
    <2> QED
      BY <1>1, <1>2, <1>3, <1>4, <2>1, Proceeding
  <1>5. CASE EmitsFault(t, after)
    BY <1>1, <1>2, <1>5, OuterFails
  <1> QED
    BY <1>4, <1>5 DEF Close

(* The transport is set when a capture has begun, and when it has ended.   *)
LEMMA Switching ==
  ASSUME CaptureInv, NEW t \in Thread, Thread = {t},
         NEW step \in {"to file", "to null"}, NEW tr \in {"FILE", "NULL"}, Switch(t, step, tr)
  PROVE  CaptureInv'
  <1>1. step \in OuterSteps /\ step \notin EventSteps /\ "done" \in Steps /\ "done" \notin EventSteps
    BY DEF OuterSteps, Steps, InnerSteps, EventSteps
  <1>2. At(t, step) /\ UNCHANGED <<seq, open, failed, file>> /\ transport' = tr /\ stack' = Goes(t, "done")
    BY DEF Switch, ringVars, streamVars
  <1>3. stack[t] # <<>> /\ Top(t).step = step /\ ~(Len(stack[t]) >= 2)
    BY <1>1, <1>2, OuterCall
  <1>4. StreamInv' /\ (Live' => Live)
    BY <1>2 DEF CaptureInv, StreamInv, Live
  <1>5. Suits(step, "done")
    BY DEF Suits, EndsWith
  <1> QED
    BY <1>1, <1>2, <1>3, <1>4, <1>5, Proceeding

(* Every step of the one thread keeps the invariant.                       *)
LEMMA CaptureStep ==
  ASSUME OneThread, CaptureInv, [ObsNext]_obsVars
  PROVE  CaptureInv'
  <1> PICK t : Thread = {t} /\ t \in Thread
    BY DEF OneThread
  <1>1. CASE Configure
    BY <1>1, Configuring DEF OneThread
  <1>2. CASE CallEmit(t)
    <2> PICK kind \in Kinds : Calls(t, "emit", kind)
      BY <1>2 DEF CallEmit
    <2>1. kind \in Family
      BY ObservatoryAssumption DEF ObservatoryAssumption
    <2> QED
      BY <1>2, <2>1, Calling DEF CallEmit
  <1>3. CASE CallBegin(t) \/ CallEnd(t)
    <2>1. "OTHER" \in Family
      BY DEF Family
    <2> QED
      BY <1>3, <2>1, Calling DEF CallBegin, CallEnd
  <1>4. CASE Begin(t)
    <2>1. CASE Open(t)
      BY <2>1, Opening
    <2>2. CASE Close(t, "abort", "done")
      BY <2>2, Closing
    <2>3. CASE Flush(t, "flush begun", "to file")
      <3>1. Suits("flush begun", "to file")
        BY DEF Suits, EndsWith
      <3> QED
        BY <2>3, <3>1, Flushing
    <2>4. CASE Switch(t, "to file", "FILE")
      BY <2>4, Switching
    <2> QED
      BY <1>4, <2>1, <2>2, <2>3, <2>4 DEF Begin
  <1>5. CASE End(t)
    <2>1. CASE Flush(t, "flush ended", "close")
      <3>1. Suits("flush ended", "close")
        BY DEF Suits, EndsWith
      <3> QED
        BY <2>1, <3>1, Flushing
    <2>2. CASE Close(t, "close", "to null")
      BY <2>2, Closing
    <2>3. CASE Switch(t, "to null", "NULL")
      BY <2>3, Switching
    <2> QED
      BY <1>5, <2>1, <2>2, <2>3 DEF End
  <1>6. CASE UNCHANGED obsVars
    <2>1. UNCHANGED <<seq, transport, open, failed, file, stack>>
      BY <1>6 DEF obsVars, ringVars, cfgVars, streamVars
    <2>2. /\ StackInv' /\ StreamInv' /\ CaptureSound' /\ Captured' = Captured /\ Ending' = Ending
          /\ (Live' <=> Live) /\ seq' \in Nat /\ StdoutInv'
      BY <2>1 DEF CaptureInv, StackInv, StreamInv, CaptureSound, WellFormed, Contiguous, Captured, Ending, Live,
             StdoutInv
    <2>3. Stage(t)' = Stage(t) /\ (Numbered(t) => Numbered(t)')
      BY <2>1, <2>2 DEF Stage, Numbered, Writing, Beginning, Latest
    <2>4. LiveInv'
      BY <2>1, <2>2, <2>3 DEF CaptureInv, LiveInv
    <2> QED
      BY <2>2, <2>4 DEF CaptureInv
  <1>7. \/ Configure \/ CallEmit(t) \/ Skip(t) \/ Record(t) \/ Write(t) \/ Return(t)
        \/ CallBegin(t) \/ Begin(t) \/ CallEnd(t) \/ End(t) \/ UNCHANGED obsVars
    BY DEF ObsNext
  <1> QED
    BY <1>1, <1>2, <1>3, <1>4, <1>5, <1>6, <1>7, Skipping, Recording, PieceStep, Returning

(* Nothing is captured and nobody calls.                                   *)
LEMMA CaptureInit == OneThread /\ ObsInit => CaptureInv
  <1> SUFFICES ASSUME ObsInit PROVE CaptureInv
    OBVIOUS
  <1>1. Captured = {} /\ file = <<>> /\ seq = 0 /\ ~Live /\ \A t \in Thread : stack[t] = <<>>
    BY DEF ObsInit, Captured, Live
  <1>2. StackInv
    BY DEF ObsInit, StackInv
  <1>3. StreamInv
    BY EmptySeq DEF ObsInit, StreamInv
  <1>4. CaptureSound
    BY <1>1 DEF CaptureSound, WellFormed, Contiguous
  <1>5. LiveInv
    BY <1>1 DEF LiveInv
  <1>6. StdoutInv
    <2>1. \A t \in Thread : \A n \in 1 .. Len(stack[t]) : FALSE
      BY <1>1
    <2> QED
      BY <1>1, <2>1 DEF StdoutInv
  <1> QED
    BY <1>1, <1>2, <1>3, <1>4, <1>5, <1>6 DEF CaptureInv

(* embediq_obs_capture_begin(), embediq_obs_emit() and the stream below    *)
(* them: with one emitting thread, of which the transport is not set to    *)
(* stdout, a capture can be replayed whichever stream operations fail. It  *)
(* parses up to the first write that failed, and lacks no event.           *)
THEOREM CaptureIsSound ==
  ASSUME OneThread
  PROVE  ObsSpec => []CaptureSound
  <1>1. CaptureInv /\ [ObsNext]_obsVars => CaptureInv'
    BY CaptureStep
  <1>2. CaptureInv => CaptureSound
    BY DEF CaptureInv
  <1>3. ObsInit => CaptureInv
    BY CaptureInit
  <1> QED
    BY <1>1, <1>2, <1>3, PTL DEF ObsSpec
=============================================================================
