------------------------- MODULE SubscriptionTable -------------------------
(***************************************************************************)
(* The subscription table of the message bus                               *)
(* (core/src/bus/message_bus.c): message_bus_boot() collects one           *)
(* (msg_id, ep_id) entry per declared subscription, sub_sort() orders the  *)
(* entries by message id with an insertion sort, and route_message() finds *)
(* the first entry of an id with the binary search sub_first() and walks   *)
(* the run of equal ids that starts there.                                 *)
(*                                                                         *)
(* Every iteration of the three loops is a step, so that what the loops    *)
(* compute is stated by invariants and holds for tables of every size.     *)
(* Indices are 1-based where the C arrays are 0-based; the C value -1      *)
(* ("not found", or j having run off the front) is 0 here.                 *)
(***************************************************************************)
EXTENDS Integers, Sequences, FiniteSets

CONSTANTS
    NFB,        \* number of registered FBs when message_bus_boot() runs
    MsgId,      \* message ids that occur in subscription lists
    PubId,      \* message ids that may be published
    MaxSubs,    \* EMBEDIQ_MAX_SUBSCRIPTIONS
    SubLists    \* the subscription lists an FB configuration may carry

EP == 0 .. NFB - 1

ASSUME SubscriptionTableAssumption ==
    /\ NFB \in Nat
    /\ MsgId \subseteq Nat
    /\ PubId \subseteq Nat
    /\ MaxSubs \in Nat
    /\ SubLists \subseteq Seq(MsgId)

VARIABLES
    subscriptions,  \* config.subscriptions of each FB, fixed by registration
    subs,           \* g_subs[0 .. g_sub_count-1]
    pc,             \* which loop of the bus runs
    i, j, key,      \* loop indices of message_bus_boot() and sub_sort(), and its key
    target,         \* the message id being routed
    lo, hi, found,  \* locals of sub_first()
    walk,           \* the loop index of route_message()
    delivered       \* endpoints the copy has been delivered to, in order

vars == <<subscriptions, subs, pc, i, j, key, target, lo, hi, found, walk, delivered>>

Entry == [msg : Nat, ep : EP]

NoKey == [msg |-> 0, ep |-> 0]

Locs == {"collect", "outer", "shift", "ready", "search", "walk", "routed"}

Init ==
    /\ subscriptions \in [EP -> SubLists]
    /\ subs = <<>>
    /\ pc = "collect"
    /\ i = 0 /\ j = 1 /\ key = NoKey
    /\ target = 0
    /\ lo = 0 /\ hi = 0 /\ found = 0
    /\ walk = 0
    /\ delivered = <<>>

(* sub_sort() takes its keys from the second entry on.                     *)
FirstKey_Skips == 3
FirstKey == 2

(* message_bus_boot(): one iteration of the loops over the FBs (i) and     *)
(* their subscriptions (j). A full table ends the inner loop.              *)
Collect ==
    /\ pc = "collect"
    /\ IF i < NFB
         THEN /\ IF j <= Len(subscriptions[i]) /\ Len(subs) < MaxSubs
                   THEN /\ subs' = Append(subs, [msg |-> subscriptions[i][j], ep |-> i])
                        /\ j' = j + 1
                        /\ UNCHANGED i
                   ELSE i' = i + 1 /\ j' = 1 /\ UNCHANGED subs
              /\ UNCHANGED pc
         ELSE /\ i' = FirstKey
              /\ pc' = "outer"
              /\ UNCHANGED <<subs, j>>
    /\ UNCHANGED <<subscriptions, key, target, lo, hi, found, walk, delivered>>

(* The head of sub_sort()'s for loop.                                      *)
SortOuter ==
    /\ pc = "outer"
    /\ IF i <= Len(subs)
         THEN /\ key' = subs[i]
              /\ j' = i - 1
              /\ pc' = "shift"
         ELSE /\ pc' = "ready"
              /\ UNCHANGED <<key, j>>
    /\ UNCHANGED <<subscriptions, subs, i, target, lo, hi, found, walk, delivered>>

(* The while loop's test: a larger entry in front of the key moves up.     *)
MustShift_Unstable == j >= 1 /\ subs[j].msg >= key.msg
MustShift == j >= 1 /\ subs[j].msg > key.msg

(* One iteration of the while loop, or the placement that follows it.      *)
SortShift ==
    /\ pc = "shift"
    /\ IF MustShift
         THEN /\ subs' = [subs EXCEPT ![j + 1] = subs[j]]
              /\ j' = j - 1
              /\ UNCHANGED <<i, pc>>
         ELSE /\ subs' = [subs EXCEPT ![j + 1] = key]
              /\ i' = i + 1
              /\ pc' = "outer"
              /\ UNCHANGED j
    /\ UNCHANGED <<subscriptions, key, target, lo, hi, found, walk, delivered>>

(* route_message() enters sub_first() with the id of a published message.  *)
SearchStart ==
    /\ pc \in {"ready", "routed"}
    /\ target' \in PubId
    /\ lo' = 1
    /\ hi' = Len(subs)
    /\ found' = 0
    /\ delivered' = <<>>
    /\ pc' = "search"
    /\ UNCHANGED <<subscriptions, subs, i, j, key, walk>>

Mid == lo + (hi - lo) \div 2

(* The loop test of sub_first() and the three ways an iteration narrows    *)
(* the interval: on a hit it goes on to the left.                          *)
Searching == lo <= hi

OnHit_Any == found' = Mid /\ hi' = lo - 1 /\ UNCHANGED lo
OnHit == found' = Mid /\ hi' = Mid - 1 /\ UNCHANGED lo

OnLess == lo' = Mid + 1 /\ UNCHANGED <<hi, found>>

OnGreater == hi' = Mid - 1 /\ UNCHANGED <<lo, found>>

(* One iteration of the binary search, or its return: route_message()      *)
(* returns at once when nothing was found and else walks from the hit.     *)
SearchStep ==
    /\ pc = "search"
    /\ IF Searching
         THEN /\ \/ subs[Mid].msg = target /\ OnHit
                 \/ subs[Mid].msg < target /\ OnLess
                 \/ subs[Mid].msg > target /\ OnGreater
              /\ UNCHANGED <<pc, walk>>
         ELSE /\ walk' = found
              /\ pc' = IF found = 0 THEN "routed" ELSE "walk"
              /\ UNCHANGED <<lo, hi, found>>
    /\ UNCHANGED <<subscriptions, subs, i, j, key, target, delivered>>

(* The delivery loop of route_message().                                   *)
InRun == walk <= Len(subs) /\ subs[walk].msg = target

WalkStep ==
    /\ pc = "walk"
    /\ IF InRun
         THEN /\ delivered' = Append(delivered, subs[walk].ep)
              /\ walk' = walk + 1
              /\ UNCHANGED pc
         ELSE /\ pc' = "routed"
              /\ UNCHANGED <<walk, delivered>>
    /\ UNCHANGED <<subscriptions, subs, i, j, key, target, lo, hi, found>>

Next == Collect \/ SortOuter \/ SortShift \/ SearchStart \/ SearchStep \/ WalkStep

(* sub_sort() and route_message() run to completion in the thread that     *)
(* calls them; nothing obliges a thread to publish again.                  *)
Spec == Init /\ [][Next]_vars
             /\ WF_vars(Collect \/ SortOuter \/ SortShift \/ SearchStep \/ WalkStep)

-----------------------------------------------------------------------------
TypeOK ==
    /\ subscriptions \in [EP -> SubLists]
    /\ subs \in Seq(Entry)
    /\ pc \in Locs
    /\ i \in Nat /\ j \in Nat
    /\ key \in Entry \cup {NoKey}
    /\ target \in Nat
    /\ lo \in Nat /\ hi \in Nat /\ found \in Nat /\ walk \in Nat
    /\ delivered \in Seq(EP)

(* The places of the declared subscriptions, in registration order.        *)
Places == UNION {{<<e, s>> : s \in DOMAIN subscriptions[e]} : e \in EP}
Earlier(p, q) == p[1] < q[1] \/ (p[1] = q[1] /\ p[2] < q[2])
Rank(p, S) == Cardinality({q \in S : q = p \/ Earlier(q, p)})

(* Those the table has room for, and of these the ones of an id.           *)
Kept == {p \in Places : Rank(p, Places) <= MaxSubs}
Hits(id) == {p \in Kept : subscriptions[p[1]][p[2]] = id}

OrderedById(s) == \A m, n \in DOMAIN s : m < n => s[m].msg <= s[n].msg

(* Once sub_sort() has returned, the table is ordered by message id: the   *)
(* precondition of the binary search in route_message().                   *)
SortedAfterBoot ==
    pc \in {"ready", "search", "walk", "routed"} => OrderedById(subs)

(* sub_first() returns the FIRST entry of the id: starting anywhere later  *)
(* in the run of equal ids would leave subscribers out.                    *)
FirstHit ==
    pc = "walk" =>
        /\ found \in DOMAIN subs
        /\ subs[found].msg = target
        /\ \A m \in 1 .. found - 1 : subs[m].msg # target

(* sub_first() reports "not found" only for an id no entry carries.        *)
NoFalseMiss ==
    (pc = "routed" /\ found = 0) => \A m \in DOMAIN subs : subs[m].msg # target

(* sub_first() is right about every id, subscribed or not.                 *)
SearchExact == FirstHit /\ NoFalseMiss

(* When route_message() returns, the copies went to exactly the endpoints  *)
(* that subscribed to the id and found room in the table, each as often as *)
(* it subscribed and in registration order (the sort is stable), across    *)
(* sort, search and walk.                                                  *)
RoutesExactly ==
    pc = "routed" =>
        /\ Len(delivered) = Cardinality(Hits(target))
        /\ \A p \in Hits(target) : delivered[Rank(p, Hits(target))] = p[1]

(* The walk stops after the last entry of the id and not before: the       *)
(* entries of the id are exactly the block from the hit to the stop.       *)
WalkCovers ==
    (pc = "routed" /\ found # 0) =>
        /\ \A m \in DOMAIN subs : subs[m].msg = target <=> m \in found .. walk - 1
        /\ delivered = [k \in 1 .. walk - found |-> subs[found + k - 1].ep]
=============================================================================
