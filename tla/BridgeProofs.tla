---------------------------- MODULE BridgeProofs ----------------------------
(* The bridge, for any number of slots and clients, any timeouts and any    *)
(* lateness of the mux. Pool: subscribers of CONNECTED and DISCONNECTED     *)
(* always know which endpoints live. Messages: what an SDK client publishes *)
(* is routed whole, once, in order and under its own endpoint. Prompt       *)
(* clients: a client that handles its frames within a pass is not hung up   *)
(* on. Each part has its invariant and rests on those before it.            *)
EXTENDS Bridge, SequenceTheorems, WellFoundedInduction, TLAPS

Fields == {"state", "fd", "ep", "miss", "last", "since"}

(* An endpoint is assigned with CONNECTED and given up with the slot, and   *)
(* it is the slot's own, so that no two slots announce the same one.        *)
OwnEndpoint(s, i) ==
    /\ DOMAIN s = Fields
    /\ s.state \in {"FREE", "IDENTIFYING", "CONNECTED"}
    /\ s.ep = IF s.state = "CONNECTED" THEN i ELSE 0

PoolInv ==
    /\ DOMAIN slot = Slot /\ announced \in [Slot -> Int]
    /\ \A i \in Slot : OwnEndpoint(slot[i], i)
    /\ at \in Slot
    /\ mux = "drain" => slot[at].state # "FREE"

BridgeInv == PoolInv /\ AnnouncedIsConnected

poolVars == <<slot, announced, mux, at>>

(* The bound of the pool is a number.                                       *)
LEMMA PoolSize == MaxSlots \in Nat \ {0} /\ 1 \in Slot
  BY BridgeAssumption DEF BridgeAssumption, Slot

(* A set of slots that is not empty has a first one.                        *)
LEMMA FirstFree ==
  ASSUME NEW S \in SUBSET Nat, S # {}
  PROVE  \E j \in S : \A f \in S : j <= f
  <1>1. PICK j \in S : \A f \in S : <<f, j>> \notin OpToRel(<, Nat)
    BY WFMin, NatLessThanWellFounded, Zenon
  <1>2. \A f \in S : ~(f < j)
    BY <1>1, Zenon DEF OpToRel
  <1> QED
    BY <1>2

(* The mux stays within the pool.                                           *)
LEMMA NextSlotInPool ==
  ASSUME at \in Slot, NextSlot
  PROVE  at' \in Slot /\ mux' # "drain"
  BY PoolSize DEF NextSlot, Slot

(* Whatever ends a connection, the slot is freed and its endpoint withdrawn *)
(* if it had been announced.                                                *)
LEMMA Closing ==
  ASSUME BridgeInv, CloseSlot(at), NextSlot
  PROVE  BridgeInv'
  <1>1. at \in Slot /\ OwnEndpoint(slot[at], at)
    BY DEF BridgeInv, PoolInv
  <1>2. slot' = [slot EXCEPT ![at] = FREE]
    BY DEF CloseSlot, Cleared
  <1>3. announced' = IF slot[at].ep # 0 THEN [announced EXCEPT ![at] = @ - 1] ELSE announced
    BY <1>1 DEF CloseSlot, Disconnected, OwnEndpoint
  <1>4. announced[at] = IF slot[at].state = "CONNECTED" THEN 1 ELSE 0
    BY <1>1 DEF BridgeInv, AnnouncedIsConnected
  <1>5. slot[at].ep # 0 <=> slot[at].state = "CONNECTED"
    BY <1>1, PoolSize DEF OwnEndpoint, Slot
  <1>6. announced' \in [Slot -> Int] /\ announced'[at] = 0
    BY <1>1, <1>3, <1>4, <1>5 DEF BridgeInv, PoolInv
  <1>7. \A i \in Slot \ {at} : announced'[i] = announced[i] /\ slot'[i] = slot[i]
    BY <1>1, <1>2, <1>3 DEF BridgeInv, PoolInv
  <1>8. DOMAIN slot' = Slot /\ slot'[at] = FREE
    BY <1>1, <1>2 DEF BridgeInv, PoolInv
  <1>9. FREE.state = "FREE" /\ FREE.ep = 0 /\ DOMAIN FREE = Fields
    BY DEF FREE, Fields
  <1>10. \A i \in Slot : OwnEndpoint(slot'[i], i)
    BY <1>7, <1>8, <1>9 DEF BridgeInv, PoolInv, OwnEndpoint
  <1>11. AnnouncedIsConnected'
    BY <1>6, <1>7, <1>8, <1>9 DEF BridgeInv, AnnouncedIsConnected
  <1> QED
    BY <1>1, <1>6, <1>8, <1>10, <1>11, NextSlotInPool DEF BridgeInv, PoolInv

(* A change of a slot that leaves its state alone leaves the rest alone.    *)
LEMMA SameState ==
  ASSUME BridgeInv, UNCHANGED announced, at' \in Slot,
         mux' = "drain" => slot[at'].state # "FREE",
         DOMAIN slot' = Slot,
         \A i \in Slot : /\ DOMAIN slot'[i] = Fields
                         /\ slot'[i].state = slot[i].state /\ slot'[i].ep = slot[i].ep
  PROVE  BridgeInv'
  BY DEF BridgeInv, PoolInv, OwnEndpoint, AnnouncedIsConnected

(* A new connection takes a slot without an endpoint.                       *)
LEMMA Picking ==
  ASSUME BridgeInv, Pick
  PROVE  BridgeInv'
  <1>1. at' \in Slot /\ mux' # "drain" /\ announced' = announced
    BY PoolSize DEF Pick
  <1>2. CASE slot' = slot
    BY <1>1, <1>2 DEF BridgeInv, PoolInv, AnnouncedIsConnected
  <1>3. CASE slot' # slot
    <2> DEFINE i == CHOOSE j \in FreeSlots : \A f \in FreeSlots : j <= f
    <2>1. FreeSlots # {} /\ slot' = [slot EXCEPT ![i] =
             [@ EXCEPT !.state = "IDENTIFYING", !.fd = Head(hand), !.since = clock, !.miss = 0]]
      BY <1>3 DEF Pick, PlaceIn
    <2>2. FreeSlots \in SUBSET Nat
      BY DEF FreeSlots, Slot
    <2>3. i \in FreeSlots
      BY <2>1, <2>2, FirstFree, Zenon
    <2> HIDE DEF i
    <2>4. i \in Slot /\ slot[i].state = "FREE" /\ OwnEndpoint(slot[i], i)
      BY <2>3 DEF FreeSlots, BridgeInv, PoolInv
    <2>5. DOMAIN slot' = Slot /\ \A k \in Slot \ {i} : slot'[k] = slot[k]
      BY <2>1, <2>4 DEF BridgeInv, PoolInv
    <2>6. slot'[i] = [slot[i] EXCEPT !.state = "IDENTIFYING", !.fd = Head(hand),
                                     !.since = clock, !.miss = 0]
      BY <2>1, <2>4 DEF BridgeInv, PoolInv
    <2>7. DOMAIN slot'[i] = Fields /\ slot'[i].state = "IDENTIFYING" /\ slot'[i].ep = slot[i].ep
      BY <2>4, <2>6 DEF OwnEndpoint, Fields
    <2>8. OwnEndpoint(slot'[i], i)
      BY <2>4, <2>7 DEF OwnEndpoint
    <2>9. AnnouncedIsConnected'
      BY <1>1, <2>4, <2>5, <2>7 DEF BridgeInv, AnnouncedIsConnected
    <2> QED
      BY <1>1, <2>4, <2>5, <2>8, <2>9 DEF BridgeInv, PoolInv
  <1> QED
    BY <1>2, <1>3

(* IDENTIFY timeouts and heartbeats.                                        *)
LEMMA Timing ==
  ASSUME BridgeInv, Timers
  PROVE  BridgeInv'
  <1>0. at \in Slot /\ OwnEndpoint(slot[at], at) /\ DOMAIN slot = Slot
    BY DEF BridgeInv, PoolInv
  <1>1. CASE CloseSlot(at) /\ NextSlot
    BY <1>1, Closing
  <1>2. CASE slot' = slot /\ announced' = announced /\ NextSlot
    BY <1>2, NextSlotInPool, <1>0 DEF BridgeInv, PoolInv, AnnouncedIsConnected
  <1>3. CASE slot' = slot /\ announced' = announced /\ at' = at /\ slot[at].state # "FREE"
    BY <1>3 DEF BridgeInv, PoolInv, AnnouncedIsConnected
  <1>4. CASE /\ slot[at].state = "CONNECTED" /\ announced' = announced /\ at' = at
             /\ slot' = [slot EXCEPT ![at].last = clock, ![at].miss = @ + 1]
    <2>1. DOMAIN slot' = Slot /\ \A i \in Slot \ {at} : slot'[i] = slot[i]
      BY <1>0, <1>4
    <2>2. slot'[at] = [slot[at] EXCEPT !.last = clock, !.miss = @ + 1]
      BY <1>0, <1>4
    <2>3. DOMAIN slot'[at] = Fields /\ slot'[at].state = slot[at].state /\ slot'[at].ep = slot[at].ep
      BY <1>0, <2>2 DEF OwnEndpoint, Fields
    <2> QED
      BY <1>0, <1>4, <2>1, <2>3, SameState DEF BridgeInv, PoolInv, OwnEndpoint
  <1> QED
    BY <1>1, <1>2, <1>3, <1>4 DEF Timers, BeatDue

(* IDENTIFY assigns the slot's endpoint and announces it once, however      *)
(* often it is sent.                                                        *)
LEMMA Identifying ==
  ASSUME BridgeInv, mux = "drain", Identify(slot[at]), UNCHANGED <<mux, at>>
  PROVE  BridgeInv'
  <1>0. at \in Slot /\ OwnEndpoint(slot[at], at) /\ DOMAIN slot = Slot
    BY DEF BridgeInv, PoolInv
  <1>1. CASE slot[at].state # "IDENTIFYING"
    BY <1>1 DEF Identify, BridgeInv, PoolInv, AnnouncedIsConnected
  <1>2. CASE slot[at].state = "IDENTIFYING"
    <2>1. /\ slot' = [slot EXCEPT ![at] = [slot[at] EXCEPT !.state = "CONNECTED", !.ep = at, !.last = clock]]
          /\ announced' = [announced EXCEPT ![at] = @ + 1]
      BY <1>2 DEF Identify, Assigned, Connected
    <2>2. DOMAIN slot' = Slot /\ \A i \in Slot \ {at} : slot'[i] = slot[i]
      BY <1>0, <2>1
    <2>3. slot'[at] = [slot[at] EXCEPT !.state = "CONNECTED", !.ep = at, !.last = clock]
      BY <1>0, <2>1
    <2>4. DOMAIN slot'[at] = Fields /\ slot'[at].state = "CONNECTED" /\ slot'[at].ep = at
      BY <1>0, <2>3 DEF OwnEndpoint, Fields
    <2>5. announced[at] = 0
      BY <1>0, <1>2 DEF BridgeInv, AnnouncedIsConnected
    <2>6. /\ announced' \in [Slot -> Int] /\ announced'[at] = 1
          /\ \A i \in Slot \ {at} : announced'[i] = announced[i]
      BY <1>0, <2>1, <2>5 DEF BridgeInv, PoolInv
    <2>7. AnnouncedIsConnected'
      BY <2>2, <2>4, <2>6 DEF BridgeInv, AnnouncedIsConnected
    <2>8. \A i \in Slot : OwnEndpoint(slot'[i], i)
      BY <2>2, <2>4 DEF BridgeInv, PoolInv, OwnEndpoint
    <2> QED
      BY <1>0, <2>2, <2>4, <2>6, <2>7, <2>8 DEF BridgeInv, PoolInv
  <1> QED
    BY <1>1, <1>2

(* Every other packet leaves the slot's state alone.                        *)
LEMMA Draining ==
  ASSUME BridgeInv, Drain
  PROVE  BridgeInv'
  <1>0. at \in Slot /\ OwnEndpoint(slot[at], at) /\ DOMAIN slot = Slot /\ mux = "drain"
    BY DEF BridgeInv, PoolInv, Drain
  <1>1. CASE Identify(slot[at]) /\ UNCHANGED <<mux, at>>
    BY <1>0, <1>1, Identifying
  <1>2. CASE UNCHANGED <<slot, announced, mux, at>>
    BY <1>2 DEF BridgeInv, PoolInv, AnnouncedIsConnected
  <1>3. CASE UNCHANGED <<slot, announced>> /\ NextSlot
    BY <1>0, <1>3, NextSlotInPool DEF BridgeInv, PoolInv, AnnouncedIsConnected
  <1>4. CASE slot' = [slot EXCEPT ![at].miss = Missed(slot[at])] /\ UNCHANGED <<announced, mux, at>>
    <2>1. DOMAIN slot' = Slot /\ \A i \in Slot \ {at} : slot'[i] = slot[i]
      BY <1>0, <1>4
    <2>2. slot'[at] = [slot[at] EXCEPT !.miss = Missed(slot[at])]
      BY <1>0, <1>4
    <2>3. DOMAIN slot'[at] = Fields /\ slot'[at].state = slot[at].state /\ slot'[at].ep = slot[at].ep
      BY <1>0, <2>2 DEF OwnEndpoint, Fields
    <2> QED
      BY <1>0, <1>4, <2>1, <2>3, SameState DEF BridgeInv, PoolInv, OwnEndpoint
  <1> QED
    BY <1>1, <1>2, <1>3, <1>4 DEF Drain

(* Neither clients nor the listener touch the pool.                         *)
LEMMA OthersKeepPool == (\E c \in Client : ClientStep(c)) \/ Accept => UNCHANGED poolVars
  BY DEF ClientStep, Connect, SendIdentify, Handshake, Publish, Subscribe, SdkReceive,
         CApiReceive, SdkDisconnect, Quit, Accept, muxVars, poolVars

(* Every step keeps the pool and what is known of it in agreement.          *)
LEMMA PoolInductive == BridgeInv /\ [Next]_vars => BridgeInv'
  <1> SUFFICES ASSUME BridgeInv, [Next]_vars PROVE BridgeInv'
    OBVIOUS
  <1>1. CASE UNCHANGED poolVars
    BY <1>1 DEF poolVars, BridgeInv, PoolInv, AnnouncedIsConnected
  <1>2. CASE Pick
    BY <1>2, Picking
  <1>3. CASE Timers
    BY <1>3, Timing
  <1>4. CASE DrainEnd
    <2>1. CASE CloseSlot(at)
      BY <1>4, <2>1, Closing DEF DrainEnd
    <2>2. CASE UNCHANGED <<slot, announced>>
      BY <1>4, <2>2, NextSlotInPool DEF DrainEnd, BridgeInv, PoolInv, AnnouncedIsConnected
    <2> QED
      BY <1>4, <2>1, <2>2 DEF DrainEnd
  <1>5. CASE Drain
    BY <1>5, Draining
  <1>6. CASE Sleep
    BY <1>6 DEF Sleep, BridgeInv, PoolInv, AnnouncedIsConnected
  <1>7. CASE (\E c \in Client : ClientStep(c)) \/ Accept
    BY <1>1, <1>7, OthersKeepPool
  <1>8. CASE UNCHANGED vars
    BY <1>1, <1>8 DEF vars, muxVars, poolVars
  <1> QED
    BY <1>2, <1>3, <1>4, <1>5, <1>6, <1>7, <1>8 DEF Next, Mux

(* The pool starts empty and unannounced.                                   *)
LEMMA PoolStarts == Init => BridgeInv
  <1> SUFFICES ASSUME Init PROVE BridgeInv
    OBVIOUS
  <1>1. slot = [i \in Slot |-> FREE] /\ announced = [i \in Slot |-> 0] /\ mux = "pick" /\ at = 1
    BY DEF Init
  <1>2. FREE.state = "FREE" /\ FREE.ep = 0 /\ DOMAIN FREE = Fields
    BY DEF FREE, Fields
  <1> QED
    BY <1>1, <1>2, PoolSize DEF BridgeInv, PoolInv, OwnEndpoint, AnnouncedIsConnected

(* Subscribers hear CONNECTED and DISCONNECTED of an endpoint in turn, and  *)
(* the last one tells whether it lives, whatever ends its connections.      *)
THEOREM EndpointsAnnounced == Spec => []AnnouncedIsConnected
  <1>1. BridgeInv => AnnouncedIsConnected
    BY DEF BridgeInv
  <1> QED
    BY <1>1, PoolStarts, PoolInductive, PTL DEF Spec

-----------------------------------------------------------------------------
(* Messages.                                                                *)
Status == {"down", "connected", "handshake", "up", "leaving", "gone"}
SdkConn == ConnOf(Sdk)

(* What an SDK client sends, and what it is sent.                           *)
Frames == [form : {"frame"}, type : {"IDENTIFY", "MSG", "HEALTH_RSP"}, body : Nat]
Replies == {"ASSIGN", "ERROR", "HEALTH_REQ"}
Routings == [ep : Slot, msg : Conn \X Nat]

ClientsOK ==
    /\ st \in [Client -> Status]
    /\ tries \in [Client -> Nat]
    /\ \A c \in Client : tries[c] <= Tries[c] /\ (st[c] # "down" => tries[c] >= 1)
    /\ sent \in [Conn -> Nat]

WiresOK ==
    /\ cOpen \in [Conn -> BOOLEAN] /\ bOpen \in [Conn -> BOOLEAN]
    /\ DOMAIN toB = Conn /\ DOMAIN toC = Conn /\ DOMAIN routed = Conn
    /\ \A k \in SdkConn : toB[k] \in Seq(Frames) /\ toC[k] \in Seq(Replies)
    /\ \A k \in SdkConn : routed[k] \in Seq(Routings)
    /\ backlog \in Seq(Conn) /\ hand \in Seq(Conn)

(* The connection has been made.                                            *)
Old(k) == k[2] <= tries[k[1]]

(* It waits in the listen backlog or in the hand-over queue.                *)
Waits(k) == (\E n \in DOMAIN backlog : backlog[n] = k) \/ (\E n \in DOMAIN hand : hand[n] = k)

(* A connection is in one place at a time, and the bridge's end is open     *)
(* there.                                                                   *)
PlacesInv ==
    /\ \A m, n \in DOMAIN backlog : backlog[m] = backlog[n] => m = n
    /\ \A m, n \in DOMAIN hand : hand[m] = hand[n] => m = n
    /\ \A m \in DOMAIN backlog, n \in DOMAIN hand : backlog[m] # hand[n]
    /\ \A i \in Slot : slot[i].fd \in Conn \cup {None}
    /\ \A i \in Slot : slot[i].fd = None <=> slot[i].state = "FREE"
    /\ \A i, j \in Slot : slot[i].fd = slot[j].fd /\ slot[i].fd # None => i = j
    /\ \A k \in Conn : Waits(k) => ~InSlot(k)
    /\ \A k \in Conn : Waits(k) \/ InSlot(k) => bOpen[k]
    /\ \A k \in Conn : bOpen[k] => Old(k)

(* The client has published, has been assigned an endpoint or knows of it.  *)
Speaks(k) ==
    \/ sent[k] > 0
    \/ \E n \in DOMAIN toC[k] : toC[k][n] = "ASSIGN"
    \/ k = Now(k[1]) /\ st[k[1]] \in {"up", "leaving"}

(* Then, if it still has a slot, that is CONNECTED.                         *)
SpeaksInTurn(k) ==
    /\ Speaks(k) => ~Waits(k) /\ \A i \in Slot : slot[i].fd = k => slot[i].state = "CONNECTED"
    /\ ~Old(k) => sent[k] = 0 /\ toC[k] = <<>>

IsMsg(p) == p.type = "MSG"

(* Of s messages sent r have been routed; the others are on the way, in     *)
(* order, as long as the bridge's end is open.                              *)
OnTheWay(q, r, s, open) ==
    /\ r <= s
    /\ \A n \in DOMAIN q : IsMsg(q[n]) => r + 1 <= q[n].body /\ q[n].body <= s
    /\ \A m, n \in DOMAIN q : m < n /\ IsMsg(q[m]) /\ IsMsg(q[n]) => q[m].body < q[n].body
    /\ open => \A b \in r + 1 .. s : \E n \in DOMAIN q : IsMsg(q[n]) /\ q[n].body = b
    /\ ~open => q = <<>>

Underway(k) == OnTheWay(toB[k], Len(routed[k]), sent[k], bOpen[k])

(* What has been routed is what was sent, under the slot's endpoint.        *)
RoutedRight(k) ==
    \A n \in DOMAIN routed[k] :
        /\ routed[k][n].msg = <<k, n>>
        /\ \A i \in Slot : slot[i].fd = k => routed[k][n].ep = i

MessagesInv == \A k \in SdkConn : SpeaksInTurn(k) /\ Underway(k) /\ RoutedRight(k)

WireInv == ClientsOK /\ WiresOK /\ PlacesInv /\ MessagesInv

(* The ends of a sequence that grows and shrinks.                           *)
LEMMA Appended ==
  ASSUME NEW S, NEW q \in Seq(S), NEW x \in S
  PROVE  /\ Append(q, x) \in Seq(S) /\ q \o <<x>> = Append(q, x)
         /\ Len(q) \in Nat /\ DOMAIN q = 1 .. Len(q)
         /\ Len(Append(q, x)) = Len(q) + 1
         /\ Append(q, x) # <<>>
         /\ \A n \in DOMAIN q : n \in DOMAIN Append(q, x) /\ Append(q, x)[n] = q[n] /\ n < Len(q) + 1
         /\ Len(q) + 1 \in DOMAIN Append(q, x) /\ Append(q, x)[Len(q) + 1] = x
         /\ \A n \in DOMAIN Append(q, x) : n \in DOMAIN q \/ n = Len(q) + 1
  <1>1. Len(q) \in Nat /\ DOMAIN q = 1 .. Len(q)
    BY LenProperties
  <1>2. Append(q, x) \in Seq(S) /\ Len(Append(q, x)) = Len(q) + 1
    BY AppendProperties
  <1>3. DOMAIN Append(q, x) = 1 .. Len(q) + 1
    BY <1>2, LenProperties
  <1>4. \A n \in 1 .. Len(q) : Append(q, x)[n] = q[n]
    BY AppendProperties
  <1>5. Append(q, x)[Len(q) + 1] = x /\ q \o <<x>> = Append(q, x) /\ Append(q, x) # <<>>
    BY AppendProperties, AppendIsConcat
  <1> QED
    BY <1>1, <1>2, <1>3, <1>4, <1>5

(* What is left of a sequence when its first element is taken.              *)
LEMMA Taken ==
  ASSUME NEW S, NEW q \in Seq(S), q # <<>>
  PROVE  /\ Head(q) \in S /\ Head(q) = q[1] /\ 1 \in DOMAIN q
         /\ Tail(q) \in Seq(S)
         /\ \A n \in DOMAIN Tail(q) : n \in Nat /\ n + 1 \in DOMAIN q /\ Tail(q)[n] = q[n + 1] /\ 1 < n + 1
         /\ \A n \in DOMAIN q : n \in Nat /\ (n = 1 \/ (n - 1 \in DOMAIN Tail(q) /\ Tail(q)[n - 1] = q[n]))
  <1>1. Len(q) \in Nat \ {0} /\ DOMAIN q = 1 .. Len(q)
    BY LenProperties, EmptySeq
  <1>2. Head(q) \in S /\ Tail(q) \in Seq(S) /\ Len(Tail(q)) = Len(q) - 1
    BY HeadTailProperties
  <1>3. DOMAIN Tail(q) = 1 .. Len(q) - 1
    BY <1>2, LenProperties
  <1>4. \A n \in 1 .. Len(q) - 1 : Tail(q)[n] = q[n + 1]
    BY <1>2, HeadTailProperties
  <1>5. Head(q) = q[1]
    BY Z3
  <1> QED
    BY <1>1, <1>2, <1>3, <1>4, <1>5

(* Frames are numbered.                                                     *)
LEMMA Numbered ==
  ASSUME NEW q \in Seq(Frames), NEW n \in DOMAIN q
  PROVE  q[n] \in Frames /\ q[n].body \in Nat
  <1>1. q[n] \in Frames
    BY LenProperties, ElementOfSeq
  <1> QED
    BY <1>1 DEF Frames

(* Packets other than messages come and go freely.                          *)
LEMMA OtherSent ==
  ASSUME NEW q \in Seq(Frames), NEW r, NEW s, OnTheWay(q, r, s, TRUE),
         NEW f \in Frames, ~IsMsg(f)
  PROVE  OnTheWay(Append(q, f), r, s, TRUE)
  BY Appended DEF OnTheWay

(* They leave the messages that are still on the way as they were.          *)
LEMMA OtherTaken ==
  ASSUME NEW q \in Seq(Frames), NEW r, NEW s, NEW open \in BOOLEAN, OnTheWay(q, r, s, open), q # <<>>,
         ~IsMsg(Head(q))
  PROVE  OnTheWay(Tail(q), r, s, open)
  <1>1. open
    BY DEF OnTheWay
  <1>2. ASSUME NEW b \in r + 1 .. s
        PROVE  \E n \in DOMAIN Tail(q) : IsMsg(Tail(q)[n]) /\ Tail(q)[n].body = b
    <2>1. PICK n \in DOMAIN q : IsMsg(q[n]) /\ q[n].body = b
      BY <1>1 DEF OnTheWay
    <2>2. n # 1
      BY <2>1, Taken
    <2> QED
      BY <2>1, <2>2, Taken
  <1>3. \A n \in DOMAIN Tail(q) : IsMsg(Tail(q)[n]) => r + 1 <= Tail(q)[n].body /\ Tail(q)[n].body <= s
    BY Taken DEF OnTheWay
  <1>4. \A m, n \in DOMAIN Tail(q) : m < n => m + 1 < n + 1
    BY Taken
  <1>5. \A m, n \in DOMAIN Tail(q) :
           m < n /\ IsMsg(Tail(q)[m]) /\ IsMsg(Tail(q)[n]) => Tail(q)[m].body < Tail(q)[n].body
    BY <1>4, Taken DEF OnTheWay
  <1> QED
    BY <1>1, <1>2, <1>3, <1>5 DEF OnTheWay

(* A message is the last one sent.                                          *)
LEMMA MessageSent ==
  ASSUME NEW q \in Seq(Frames), NEW r \in Nat, NEW s \in Nat, OnTheWay(q, r, s, TRUE),
         NEW f \in Frames, IsMsg(f), f.body = s + 1
  PROVE  OnTheWay(Append(q, f), r, s + 1, TRUE)
  <1> DEFINE Q == Append(q, f)
  <1>1. \A n \in DOMAIN q : q[n].body \in Nat
    BY Numbered
  <1>2. \A n \in DOMAIN Q : IsMsg(Q[n]) => r + 1 <= Q[n].body /\ Q[n].body <= s + 1
    BY <1>1, Appended DEF OnTheWay
  <1>3. \A m, n \in DOMAIN Q : m < n /\ IsMsg(Q[m]) /\ IsMsg(Q[n]) => Q[m].body < Q[n].body
    <2> SUFFICES ASSUME NEW m \in DOMAIN Q, NEW n \in DOMAIN Q, m < n, IsMsg(Q[m]), IsMsg(Q[n])
                 PROVE  Q[m].body < Q[n].body
      OBVIOUS
    <2>1. m \in DOMAIN q /\ Q[m] = q[m]
      BY Appended
    <2>2. CASE n \in DOMAIN q
      BY <2>1, <2>2, Appended DEF OnTheWay
    <2>3. CASE n = Len(q) + 1
      <3>1. Q[n].body = s + 1 /\ q[m].body <= s /\ q[m].body \in Nat
        BY <1>1, <2>1, <2>3, Appended DEF OnTheWay
      <3> QED
        BY <2>1, <3>1
    <2> QED
      BY <2>2, <2>3, Appended
  <1>4. \A b \in r + 1 .. s + 1 : \E n \in DOMAIN Q : IsMsg(Q[n]) /\ Q[n].body = b
    <2>1. \A b \in r + 1 .. s + 1 : b \in r + 1 .. s \/ b = s + 1
      OBVIOUS
    <2> QED
      BY <2>1, Appended DEF OnTheWay
  <1>5. r <= s + 1
    BY DEF OnTheWay
  <1> QED
    BY <1>2, <1>3, <1>4, <1>5 DEF OnTheWay

(* The next message to be routed is the first one on the way.               *)
LEMMA MessageTaken ==
  ASSUME NEW q \in Seq(Frames), NEW r \in Nat, NEW s \in Nat, NEW open \in BOOLEAN,
         OnTheWay(q, r, s, open), q # <<>>, IsMsg(Head(q))
  PROVE  Head(q).body = r + 1 /\ OnTheWay(Tail(q), r + 1, s, open)
  <1>1. open
    BY DEF OnTheWay
  <1>2. \A n \in DOMAIN q : q[n].body \in Nat
    BY Numbered
  <1>3. r + 1 <= q[1].body /\ q[1].body <= s /\ IsMsg(q[1]) /\ q[1].body \in Nat
    BY <1>2, Taken DEF OnTheWay
  <1>4. PICK n \in DOMAIN q : IsMsg(q[n]) /\ q[n].body = r + 1
    <2>1. r + 1 \in r + 1 .. s
      BY <1>3
    <2> QED
      BY <1>1, <2>1 DEF OnTheWay
  <1>5. q[1].body = r + 1
    <2>1. n = 1 \/ 1 < n
      BY <1>4, Taken
    <2>2. CASE 1 < n
      BY <1>3, <1>4, <2>2, Taken DEF OnTheWay
    <2> QED
      BY <1>4, <2>1, <2>2
  <1>6. \A m \in DOMAIN Tail(q) : IsMsg(Tail(q)[m]) =>
           r + 2 <= Tail(q)[m].body /\ Tail(q)[m].body <= s
    <2> SUFFICES ASSUME NEW m \in DOMAIN Tail(q), IsMsg(Tail(q)[m])
                 PROVE  r + 2 <= Tail(q)[m].body /\ Tail(q)[m].body <= s
      OBVIOUS
    <2>1. Tail(q)[m] = q[m + 1] /\ m + 1 \in DOMAIN q /\ 1 < m + 1 /\ 1 \in DOMAIN q
      BY Taken
    <2>2. q[1].body < q[m + 1].body /\ q[m + 1].body <= s /\ q[m + 1].body \in Nat
      BY <1>2, <1>3, <2>1 DEF OnTheWay
    <2> QED
      BY <1>5, <2>1, <2>2
  <1>7. \A m, k \in DOMAIN Tail(q) :
           m < k /\ IsMsg(Tail(q)[m]) /\ IsMsg(Tail(q)[k]) => Tail(q)[m].body < Tail(q)[k].body
    <2>1. \A m, k \in DOMAIN Tail(q) : m < k => m + 1 < k + 1
      BY Taken
    <2> QED
      BY <2>1, Taken DEF OnTheWay
  <1>8. ASSUME NEW b \in r + 2 .. s
        PROVE  \E m \in DOMAIN Tail(q) : IsMsg(Tail(q)[m]) /\ Tail(q)[m].body = b
    <2>1. b \in r + 1 .. s /\ b # r + 1
      OBVIOUS
    <2>2. PICK m \in DOMAIN q : IsMsg(q[m]) /\ q[m].body = b
      BY <1>1, <2>1 DEF OnTheWay
    <2>3. m # 1
      BY <1>5, <2>1, <2>2
    <2> QED
      BY <2>2, <2>3, Taken
  <1>9. r + 1 <= s /\ (r + 1) + 1 = r + 2
    BY <1>3
  <1> QED
    BY <1>1, <1>5, <1>6, <1>7, <1>8, <1>9, Taken DEF OnTheWay

(* Closing the bridge's end drops what is on the way.                       *)
LEMMA Dropped ==
  ASSUME NEW q \in Seq(Frames), NEW r, NEW s, NEW open \in BOOLEAN, OnTheWay(q, r, s, open)
  PROVE  OnTheWay(<<>>, r, s, FALSE)
  BY EmptySeq, LenProperties DEF OnTheWay

(* A connection is a client and the number of an attempt of it.             *)
LEMMA ConnFacts ==
  ASSUME NEW C \in SUBSET Client, NEW k \in ConnOf(C)
  PROVE  k = <<k[1], k[2]>> /\ k[1] \in C /\ k[2] \in 1 .. Tries[k[1]] /\ k \in Conn
  BY DEF ConnOf, Conn

(* Every attempt of a client within the bound is a connection.              *)
LEMMA ConnIs ==
  ASSUME NEW C \in SUBSET Client, NEW c \in C, NEW n \in 1 .. Tries[c]
  PROVE  <<c, n>> \in ConnOf(C)
  BY DEF ConnOf

(* SDK clients, prompt or not, are clients.                                 *)
LEMMA SdkFacts ==
  /\ Sdk \in SUBSET Client /\ Prompt \in SUBSET Sdk /\ Tries \in [Client -> Nat \ {0}]
  /\ \A k \in SdkConn : k \in Conn /\ k = <<k[1], k[2]>> /\ k[1] \in Sdk /\ k[1] \in Client
                        /\ k[2] \in 1 .. Tries[k[1]]
  <1>1. Sdk \in SUBSET Client /\ Prompt \in SUBSET Sdk /\ Tries \in [Client -> Nat \ {0}]
    BY BridgeAssumption DEF BridgeAssumption, Client
  <1> QED
    BY <1>1, ConnFacts DEF SdkConn

(* A client that is not down has a connection.                              *)
LEMMA NowFacts ==
  ASSUME ClientsOK, NEW c \in Client, st[c] # "down"
  PROVE  /\ Now(c) \in Conn /\ Now(c)[1] = c /\ Now(c)[2] = tries[c] /\ Old(Now(c))
         /\ c \in Sdk => Now(c) \in SdkConn
         /\ Now(c) \in SdkConn => c \in Sdk
  <1>1. tries[c] \in 1 .. Tries[c]
    BY SdkFacts DEF ClientsOK
  <1>2. Now(c)[1] = c /\ Now(c)[2] = tries[c] /\ tries[c] <= tries[c]
    BY <1>1 DEF Now
  <1>3. Now(c) \in Conn
    BY <1>1, ConnIs DEF Now, Conn
  <1>4. c \in Sdk => Now(c) \in SdkConn
    BY <1>1, ConnIs, SdkFacts DEF Now, SdkConn
  <1>5. Now(c) \in SdkConn => c \in Sdk
    BY <1>2, SdkFacts
  <1> QED
    BY <1>2, <1>3, <1>4, <1>5 DEF Old

(* Clients stay within their states and their attempts.                     *)
LEMMA ClientsStep ==
  ASSUME ClientsOK, Next
  PROVE  ClientsOK'
  <1>1. CASE \E c \in Client : ClientStep(c)
    <2>1. PICK c \in Client : ClientStep(c)
      BY <1>1
    <2>2. CASE Connect(c)
      <3>1. tries[c] + 1 \in Nat /\ tries[c] + 1 <= Tries[c] /\ tries[c] + 1 >= 1
        <4>1. tries[c] \in Nat /\ Tries[c] \in Nat /\ tries[c] < Tries[c]
          BY <2>2, SdkFacts DEF ClientsOK, Connect
        <4> QED
          BY <4>1
      <3> QED
        BY <2>2, <3>1 DEF ClientsOK, Connect, Status
    <2>3. CASE ~Connect(c)
      <3>1. tries' = tries /\ st[c] # "down"
        BY <2>1, <2>3 DEF ClientStep, SendIdentify, Handshake, Publish, Subscribe, SdkReceive, CApiReceive,
                          SdkDisconnect, Quit, clientVars
      <3>2. Now(c) \in Conn
        BY <3>1, NowFacts
      <3>3. sent' \in [Conn -> Nat]
        <4>1. sent[Now(c)] + 1 \in Nat
          BY <3>2 DEF ClientsOK
        <4>2. sent' = sent \/ sent' = [sent EXCEPT ![Now(c)] = @ + 1]
          BY <2>1, <2>3 DEF ClientStep, SendIdentify, Handshake, Publish, Subscribe, SdkReceive, CApiReceive,
                          SdkDisconnect, Quit, clientVars
        <4> QED
          BY <3>2, <4>1, <4>2 DEF ClientsOK
      <3>4. st' \in [Client -> Status] /\ \A d \in Client \ {c} : st'[d] = st[d]
        BY <2>1, <2>3 DEF ClientStep, SendIdentify, Handshake, Publish, Subscribe, SdkReceive, CApiReceive,
                          SdkDisconnect, Quit, clientVars, ClientsOK, Status
      <3> QED
        BY <3>1, <3>3, <3>4 DEF ClientsOK
    <2> QED
      BY <2>2, <2>3
  <1>2. CASE Accept \/ Mux
    <2>1. UNCHANGED clientVars
      BY <1>2 DEF Accept, Mux, Pick, Timers, DrainEnd, Drain, Sleep
    <2> QED
      BY <2>1 DEF clientVars, ClientsOK
  <1> QED
    BY <1>1, <1>2 DEF Next

-----------------------------------------------------------------------------
(* Clients.                                                                 *)

(* A client touches its present connection only.                            *)
LEMMA ClientLocal ==
  ASSUME ClientsOK, WiresOK, NEW c \in Client, ClientStep(c), ~Connect(c)
  PROVE  /\ UNCHANGED <<tries, bOpen, backlog, hand, muxVars>>
         /\ st[c] # "down" /\ Now(c) \in Conn
         /\ \A k \in Conn \ {Now(c)} : /\ toB'[k] = toB[k] /\ toC'[k] = toC[k]
                                       /\ sent'[k] = sent[k] /\ cOpen'[k] = cOpen[k]
         /\ DOMAIN toB' = Conn /\ DOMAIN toC' = Conn /\ cOpen' \in [Conn -> BOOLEAN]
         /\ \A d \in Client \ {c} : st'[d] = st[d]
  <1>1. UNCHANGED <<tries, bOpen, backlog, hand, muxVars>> /\ st[c] # "down"
    BY DEF ClientStep, SendIdentify, Handshake, Publish, Subscribe, SdkReceive, CApiReceive,
           SdkDisconnect, Quit, clientVars, wireVars
  <1>2. Now(c) \in Conn
    BY <1>1, NowFacts
  <1>3. \A d \in Client \ {c} : st'[d] = st[d]
    BY DEF ClientStep, SendIdentify, Handshake, Publish, Subscribe, SdkReceive, CApiReceive,
           SdkDisconnect, Quit, clientVars, ClientsOK
  <1>4. \/ toB' = toB
        \/ \E ps : toB' = [toB EXCEPT ![Now(c)] = IF bOpen[Now(c)] THEN @ \o ps ELSE @]
    BY DEF ClientStep, SendIdentify, Handshake, Publish, Subscribe, SdkReceive, CApiReceive,
           SdkDisconnect, Quit, wireVars, ToBridge
  <1>5. toC' = toC \/ \E q : toC' = [toC EXCEPT ![Now(c)] = q]
    <2>1. CASE Handshake(c)
      <3>1. toC' = [toC EXCEPT ![Now(c)] = IF toC[Now(c)] = <<>> THEN toC[Now(c)] ELSE Tail(toC[Now(c)])]
        BY <2>1 DEF Handshake
      <3> QED
        BY <3>1
    <2>2. CASE SdkReceive(c) \/ CApiReceive(c) \/ Quit(c)
      BY <2>2 DEF SdkReceive, CApiReceive, Quit
    <2>3. CASE SendIdentify(c) \/ Publish(c) \/ Subscribe(c) \/ SdkDisconnect(c)
      BY <2>3 DEF SendIdentify, Publish, Subscribe, SdkDisconnect, wireVars
    <2> QED
      BY <2>1, <2>2, <2>3 DEF ClientStep
  <1>6. sent' = sent \/ sent' = [sent EXCEPT ![Now(c)] = @ + 1]
    BY DEF ClientStep, SendIdentify, Handshake, Publish, Subscribe, SdkReceive, CApiReceive,
           SdkDisconnect, Quit, clientVars
  <1>7. cOpen' = cOpen \/ cOpen' = [cOpen EXCEPT ![Now(c)] = FALSE]
    BY DEF ClientStep, SendIdentify, Handshake, Publish, Subscribe, SdkReceive, CApiReceive,
           SdkDisconnect, Quit, wireVars
  <1>8. /\ \A k \in Conn \ {Now(c)} : toB'[k] = toB[k]
        /\ DOMAIN toB' = Conn
    BY <1>2, <1>4 DEF WiresOK
  <1>9. /\ \A k \in Conn \ {Now(c)} : toC'[k] = toC[k]
        /\ DOMAIN toC' = Conn
    BY <1>2, <1>5 DEF WiresOK
  <1>10. \A k \in Conn \ {Now(c)} : sent'[k] = sent[k] /\ cOpen'[k] = cOpen[k]
    BY <1>2, <1>6, <1>7 DEF WiresOK, ClientsOK
  <1>11. cOpen' \in [Conn -> BOOLEAN]
    BY <1>2, <1>7 DEF WiresOK
  <1> QED
    BY <1>1, <1>2, <1>3, <1>8, <1>9, <1>10, <1>11

(* Packets and frames it exchanges are of the kinds an SDK client knows.    *)
LEMMA FramesAre ==
  \A n \in Nat, type \in {"IDENTIFY", "MSG", "HEALTH_RSP"} :
     [form |-> "frame", type |-> type, body |-> n] \in Frames
  BY DEF Frames

(* An SDK client's frame is one packet, which arrives if the bridge's end   *)
(* is open.                                                                 *)
LEMMA PutFrame ==
  ASSUME WiresOK, NEW k \in SdkConn, NEW c \in Sdk, NEW type \in {"IDENTIFY", "MSG", "HEALTH_RSP"},
         NEW n \in Nat, ToBridge(k, Packets(c, type, n))
  PROVE  LET f == [form |-> "frame", type |-> type, body |-> n] IN
         /\ toB'[k] = IF bOpen[k] THEN Append(toB[k], f) ELSE toB[k]
         /\ toB'[k] \in Seq(Frames) /\ f \in Frames
  <1> DEFINE f == [form |-> "frame", type |-> type, body |-> n]
  <1>1. f \in Frames /\ toB[k] \in Seq(Frames) /\ k \in Conn
    BY FramesAre, SdkFacts DEF WiresOK
  <1>2. Packets(c, type, n) = <<f>>
    BY DEF Packets
  <1>3. Append(toB[k], f) \in Seq(Frames) /\ toB[k] \o <<f>> = Append(toB[k], f)
    BY <1>1, Appended
  <1>4. toB'[k] = IF bOpen[k] THEN toB[k] \o <<f>> ELSE toB[k]
    BY <1>1, <1>2 DEF ToBridge, WiresOK
  <1> QED
    BY <1>1, <1>3, <1>4

(* Where a client stands with respect to its messages does not change when  *)
(* it sends something else.                                                 *)
LEMMA PutOther ==
  ASSUME WiresOK, NEW k \in SdkConn, Underway(k), NEW c \in Sdk, NEW type \in {"IDENTIFY", "HEALTH_RSP"},
         ToBridge(k, Packets(c, type, 0)), UNCHANGED <<routed, bOpen>>, sent'[k] = sent[k]
  PROVE  Underway(k)' /\ toB'[k] \in Seq(Frames)
  <1> DEFINE f == [form |-> "frame", type |-> type, body |-> 0]
  <1>1. toB'[k] = IF bOpen[k] THEN Append(toB[k], f) ELSE toB[k]
    BY PutFrame
  <1>2. f \in Frames /\ ~IsMsg(f) /\ toB[k] \in Seq(Frames) /\ toB'[k] \in Seq(Frames)
    BY PutFrame, FramesAre DEF IsMsg, WiresOK
  <1>3. bOpen[k] \in BOOLEAN
    BY SdkFacts DEF WiresOK
  <1> HIDE DEF f
  <1>4. CASE bOpen[k] = TRUE
    BY <1>1, <1>2, <1>4, OtherSent DEF Underway
  <1>5. CASE bOpen[k] = FALSE
    BY <1>1, <1>2, <1>5 DEF Underway
  <1> QED
    BY <1>3, <1>4, <1>5

(* A message is the next one on the way.                                    *)
LEMMA PutMessage ==
  ASSUME ClientsOK, WiresOK, NEW k \in SdkConn, Underway(k), NEW c \in Sdk,
         ToBridge(k, Packets(c, "MSG", sent[k] + 1)), UNCHANGED <<routed, bOpen>>, sent'[k] = sent[k] + 1
  PROVE  Underway(k)' /\ toB'[k] \in Seq(Frames)
  <1> DEFINE f == [form |-> "frame", type |-> "MSG", body |-> sent[k] + 1]
             r == Len(routed[k])
  <1>0. sent[k] \in Nat /\ sent[k] + 1 \in Nat /\ r \in Nat
    BY SdkFacts, LenProperties DEF ClientsOK, WiresOK
  <1>1. toB'[k] = IF bOpen[k] THEN Append(toB[k], f) ELSE toB[k]
    BY <1>0, PutFrame
  <1>2. f \in Frames /\ IsMsg(f) /\ toB[k] \in Seq(Frames) /\ toB'[k] \in Seq(Frames) /\ f.body = sent[k] + 1
    BY <1>0, PutFrame, FramesAre DEF IsMsg, WiresOK
  <1>3. bOpen[k] \in BOOLEAN
    BY SdkFacts DEF WiresOK
  <1>4. OnTheWay(toB[k], r, sent[k], bOpen[k])
    BY DEF Underway
  <1>5. Underway(k)' = OnTheWay(toB'[k], r, sent[k] + 1, bOpen[k])
    BY DEF Underway
  <1> HIDE DEF f, r
  <1>6. CASE bOpen[k] = TRUE
    BY <1>0, <1>1, <1>2, <1>4, <1>5, <1>6, MessageSent
  <1>7. CASE bOpen[k] = FALSE
    <2>1. toB[k] = <<>> /\ r <= sent[k] /\ r <= sent[k] + 1
      BY <1>0, <1>4, <1>7 DEF OnTheWay
    <2>2. DOMAIN toB[k] = {}
      BY <2>1
    <2> QED
      BY <1>1, <1>2, <1>5, <1>7, <2>1, <2>2 DEF OnTheWay
  <1> QED
    BY <1>3, <1>6, <1>7

(* What an SDK client does on its connection.                               *)
LEMMA OwnConn ==
  ASSUME ClientsOK, WiresOK, NEW c \in Sdk, ClientStep(c), ~Connect(c), NEW k, k = Now(c),
         SpeaksInTurn(k), Underway(k)
  PROVE  /\ toB'[k] \in Seq(Frames) /\ toC'[k] \in Seq(Replies)
         /\ SpeaksInTurn(k)' /\ Underway(k)'
  <1>0. c \in Client /\ st[c] # "down" /\ UNCHANGED <<tries, bOpen, backlog, hand, muxVars>>
    BY ClientLocal, SdkFacts
  <1>1. /\ k \in SdkConn /\ k \in Conn /\ k[1] = c /\ Old(k)
        /\ toB[k] \in Seq(Frames) /\ toC[k] \in Seq(Replies)
    BY <1>0, NowFacts DEF WiresOK
  <1>2. Old(k)' /\ routed' = routed
    BY <1>0, <1>1 DEF Old, muxVars
  <1>3. ASSUME Speaks(k)' => Speaks(k)
        PROVE  SpeaksInTurn(k)'
    BY <1>0, <1>1, <1>2, <1>3 DEF SpeaksInTurn, Waits, muxVars
  <1>4. ASSUME toB'[k] = toB[k], sent'[k] = sent[k]
        PROVE  Underway(k)' /\ toB'[k] \in Seq(Frames)
    BY <1>0, <1>1, <1>2, <1>4 DEF Underway
  <1>5. CASE SendIdentify(c)
    <2>1. Speaks(k)' => Speaks(k)
      BY <1>0, <1>1, <1>5 DEF SendIdentify, Speaks, Now, ClientsOK
    <2>2. Underway(k)' /\ toB'[k] \in Seq(Frames)
      BY <1>0, <1>1, <1>2, <1>5, PutOther DEF SendIdentify
    <2> QED
      BY <1>1, <1>3, <1>5, <2>1, <2>2 DEF SendIdentify
  <1>6. CASE Handshake(c)
    <2>1. CASE toC[k] = <<>>
      <3>1. toC'[k] = toC[k] /\ st'[c] = "gone" /\ sent' = sent /\ toB' = toB
        <4>1. c \notin CApi
          BY BridgeAssumption DEF BridgeAssumption
        <4> QED
          BY <1>0, <1>1, <1>6, <2>1, <4>1 DEF Handshake, WiresOK, ClientsOK
      <3>2. Speaks(k)' => Speaks(k)
        BY <1>0, <1>1, <3>1 DEF Speaks
      <3> QED
        BY <1>1, <1>3, <1>4, <3>1, <3>2
    <2>2. CASE toC[k] # <<>>
      <3>1. toC'[k] = Tail(toC[k]) /\ sent' = sent /\ toB' = toB
        BY <1>0, <1>1, <1>6, <2>2 DEF Handshake, WiresOK
      <3>2. Speaks(k)' => Speaks(k)
        <4>1. CASE Head(toC[k]) = "ASSIGN"
          <5>1. Speaks(k)
            BY <1>1, <2>2, <4>1, Taken DEF Speaks
          <5> QED
            BY <5>1
        <4>2. CASE Head(toC[k]) # "ASSIGN"
          <5>1. st'[c] = "gone"
            <6>1. c \notin CApi
              BY BridgeAssumption DEF BridgeAssumption
            <6> QED
              BY <1>0, <1>1, <1>6, <4>2, <6>1 DEF Handshake, ClientsOK
          <5> QED
            BY <1>1, <2>2, <3>1, <5>1, Taken DEF Speaks
        <4> QED
          BY <4>1, <4>2
      <3>3. Tail(toC[k]) \in Seq(Replies)
        BY <1>1, <2>2, Taken
      <3> QED
        BY <1>1, <1>3, <1>4, <3>1, <3>2, <3>3
    <2> QED
      BY <2>1, <2>2
  <1>7. CASE Publish(c)
    <2>1. Speaks(k)
      BY <1>1, <1>7 DEF Publish, Speaks
    <2>2. sent'[k] = sent[k] + 1
      BY <1>0, <1>1, <1>7 DEF Publish, ClientsOK
    <2>3. Underway(k)' /\ toB'[k] \in Seq(Frames)
      BY <1>0, <1>1, <1>2, <1>7, <2>2, PutMessage DEF Publish
    <2> QED
      BY <1>1, <1>3, <1>7, <2>1, <2>3 DEF Publish
  <1>8. CASE SdkReceive(c)
    <2>1. CASE toC[k] # <<>> /\ st[c] = "up"
      <3>1. toC'[k] = Tail(toC[k]) /\ sent' = sent /\ st' = st
        BY <1>0, <1>1, <1>8, <2>1 DEF SdkReceive, WiresOK
      <3>2. Speaks(k)
        BY <1>1, <2>1 DEF Speaks
      <3>3. Tail(toC[k]) \in Seq(Replies)
        BY <1>1, <2>1, Taken
      <3>4. Underway(k)' /\ toB'[k] \in Seq(Frames)
        <4>1. CASE Head(toC[k]) = "HEALTH_REQ"
          BY <1>0, <1>1, <1>2, <1>8, <2>1, <3>1, <4>1, PutOther DEF SdkReceive
        <4>2. CASE Head(toC[k]) # "HEALTH_REQ"
          BY <1>4, <1>8, <2>1, <3>1, <4>2 DEF SdkReceive
        <4> QED
          BY <4>1, <4>2
      <3> QED
        BY <1>3, <3>1, <3>2, <3>3, <3>4
    <2>2. CASE ~(toC[k] # <<>> /\ st[c] = "up")
      <3>1. toC'[k] = <<>> /\ sent' = sent /\ toB' = toB /\ st'[c] = "down"
        BY <1>0, <1>1, <1>8, <2>2 DEF SdkReceive, WiresOK, ClientsOK
      <3>2. Speaks(k)' => Speaks(k)
        BY <1>1, <3>1 DEF Speaks
      <3>3. <<>> \in Seq(Replies)
        BY EmptySeq
      <3> QED
        BY <1>3, <1>4, <3>1, <3>2, <3>3
    <2> QED
      BY <2>1, <2>2
  <1>9. CASE SdkDisconnect(c)
    <2>1. Speaks(k)
      BY <1>1, <1>9 DEF SdkDisconnect, Speaks
    <2> QED
      BY <1>1, <1>3, <1>4, <1>9, <2>1 DEF SdkDisconnect, wireVars
  <1>10. CASE Quit(c)
    <2>1. toC'[k] = <<>> /\ sent' = sent /\ toB' = toB /\ st'[c] = "gone"
      BY <1>0, <1>1, <1>10 DEF Quit, WiresOK, ClientsOK
    <2>2. Speaks(k)' => Speaks(k)
      BY <1>1, <2>1 DEF Speaks
    <2>3. <<>> \in Seq(Replies)
      BY EmptySeq
    <2> QED
      BY <1>3, <1>4, <2>1, <2>2, <2>3
  <1>11. c \notin CApi
    BY BridgeAssumption DEF BridgeAssumption
  <1> QED
    BY <1>5, <1>6, <1>7, <1>8, <1>9, <1>10, <1>11 DEF ClientStep, Subscribe, CApiReceive

-----------------------------------------------------------------------------
(* Places.                                                                  *)

(* Who waits is in a sequence of connections.                               *)
LEMMA LineFacts ==
  ASSUME WiresOK
  PROVE  /\ \A n \in DOMAIN backlog : backlog[n] \in Conn /\ Waits(backlog[n])
         /\ \A n \in DOMAIN hand : hand[n] \in Conn /\ Waits(hand[n])
  <1>1. DOMAIN backlog = 1 .. Len(backlog) /\ DOMAIN hand = 1 .. Len(hand)
    BY LenProperties DEF WiresOK
  <1>2. \A n \in DOMAIN backlog : backlog[n] \in Conn
    BY <1>1, ElementOfSeq DEF WiresOK
  <1>3. \A n \in DOMAIN hand : hand[n] \in Conn
    BY <1>1, ElementOfSeq DEF WiresOK
  <1> QED
    BY <1>2, <1>3 DEF Waits

(* Whoever has a place keeps it when nobody moves.                          *)
LEMMA SameSeats ==
  ASSUME PlacesInv, UNCHANGED <<backlog, hand, bOpen, tries>>,
         \A i \in Slot : slot'[i].fd = slot[i].fd /\ (slot'[i].state = "FREE" <=> slot[i].state = "FREE")
  PROVE  PlacesInv'
  <1>1. \A k : (Waits(k)' <=> Waits(k)) /\ (InSlot(k)' <=> InSlot(k)) /\ (Old(k)' <=> Old(k))
    BY DEF Waits, InSlot, Old
  <1>2. \A i \in Slot : slot'[i].fd = None <=> slot'[i].state = "FREE"
    BY DEF PlacesInv
  <1>3. \A i, j \in Slot : slot'[i].fd = slot'[j].fd /\ slot'[i].fd # None => i = j
    BY DEF PlacesInv
  <1>4. \A i \in Slot : slot'[i].fd \in Conn \cup {None}
    BY DEF PlacesInv
  <1> QED
    BY <1>1, <1>2, <1>3, <1>4 DEF PlacesInv

(* A connection on which nothing happens is as it was.                      *)
LEMMA Bystander ==
  ASSUME NEW k, SpeaksInTurn(k), Underway(k), RoutedRight(k), Speaks(k)' => Speaks(k), Waits(k)' => Waits(k),
         \A i \in Slot : slot'[i].fd = k => slot[i].fd = k,
         \A i \in Slot : slot'[i].fd = k /\ slot[i].state = "CONNECTED" => slot'[i].state = "CONNECTED",
         Old(k) => Old(k)', Old(k) \/ toC'[k] = toC[k], sent'[k] = sent[k], toB'[k] = toB[k],
         bOpen'[k] = bOpen[k], routed'[k] = routed[k]
  PROVE  SpeaksInTurn(k)' /\ Underway(k)' /\ RoutedRight(k)'
  <1>1. SpeaksInTurn(k)'
    BY DEF SpeaksInTurn
  <1>2. Underway(k)'
    BY DEF Underway
  <1>3. RoutedRight(k)'
    BY DEF RoutedRight
  <1> QED
    BY <1>1, <1>2, <1>3

(* A new connection starts at the end of the listen backlog, with nothing   *)
(* sent.                                                                    *)
LEMMA Connecting ==
  ASSUME WireInv, NEW c \in Client, Connect(c), NEW k, k = <<c, tries[c] + 1>>
  PROVE  WiresOK' /\ PlacesInv' /\ MessagesInv'
  <1>0. WiresOK /\ ClientsOK /\ PlacesInv /\ MessagesInv
    BY DEF WireInv
  <1>1. /\ st[c] = "down" /\ st' = [st EXCEPT ![c] = "connected"] /\ tries' = [tries EXCEPT ![c] = @ + 1]
        /\ cOpen' = [cOpen EXCEPT ![k] = TRUE] /\ bOpen' = [bOpen EXCEPT ![k] = TRUE]
        /\ backlog' = Append(backlog, k)
        /\ UNCHANGED <<sent, toB, toC, hand, slot, routed>>
    BY DEF Connect, muxVars
  <1>2. tries[c] \in Nat /\ tries[c] + 1 \in 1 .. Tries[c] /\ tries'[c] = tries[c] + 1
    <2>1. tries[c] \in Nat /\ Tries[c] \in Nat /\ tries[c] < Tries[c]
      BY <1>0, SdkFacts DEF ClientsOK, Connect
    <2> QED
      BY <1>0, <1>1, <2>1 DEF ClientsOK
  <1>3. k \in Conn /\ k[1] = c /\ k[2] = tries[c] + 1
    BY <1>2, ConnIs DEF Conn
  <1>4. ~Old(k) /\ Old(k)' /\ ~bOpen[k] /\ ~Waits(k) /\ ~InSlot(k)
    <2>1. ~(tries[c] + 1 <= tries[c]) /\ tries[c] + 1 <= tries'[c]
      BY <1>2
    <2>2. ~Old(k) /\ Old(k)'
      BY <1>3, <2>1 DEF Old
    <2> QED
      BY <1>0, <1>3, <2>2 DEF PlacesInv
  <1>5. \A x \in Conn : Old(x) => Old(x)'
    <2> SUFFICES ASSUME NEW x \in Conn, Old(x) PROVE Old(x)'
      OBVIOUS
    <2>1. x[1] \in Client /\ x[2] \in Nat
      BY ConnFacts, SdkFacts DEF Conn
    <2>2. tries'[x[1]] = IF x[1] = c THEN tries[c] + 1 ELSE tries[x[1]]
      BY <1>0, <1>1, <2>1 DEF ClientsOK
    <2> QED
      BY <1>2, <2>1, <2>2 DEF Old
  <1>6. /\ backlog' \in Seq(Conn)
        /\ \A n \in DOMAIN backlog : n \in DOMAIN backlog' /\ backlog'[n] = backlog[n] /\ n # Len(backlog) + 1
        /\ \A n \in DOMAIN backlog' : n \in DOMAIN backlog \/ (n = Len(backlog) + 1 /\ backlog'[n] = k)
    BY <1>0, <1>1, <1>3, Appended DEF WiresOK
  <1>7. \A x : Waits(x)' => Waits(x) \/ x = k
    BY <1>1, <1>6 DEF Waits
  <1>8. WiresOK'
    BY <1>0, <1>1, <1>3, <1>6 DEF WiresOK
  <1>9. PlacesInv'
    <2>1. \A n \in DOMAIN backlog : backlog[n] # k
      BY <1>4 DEF Waits
    <2>2. \A n \in DOMAIN hand : hand[n] # k
      BY <1>4 DEF Waits
    <2>3. \A m, n \in DOMAIN backlog' : backlog'[m] = backlog'[n] => m = n
      BY <1>0, <1>6, <2>1 DEF PlacesInv
    <2>4. \A m \in DOMAIN backlog', n \in DOMAIN hand' : backlog'[m] # hand'[n]
      BY <1>0, <1>1, <1>6, <2>2 DEF PlacesInv
    <2>5. \A x \in Conn : Waits(x)' => ~InSlot(x)'
      BY <1>0, <1>1, <1>4, <1>7 DEF PlacesInv, InSlot
    <2>6. \A x \in Conn : Waits(x)' \/ InSlot(x)' => bOpen'[x]
      BY <1>0, <1>1, <1>3, <1>7 DEF PlacesInv, InSlot, WiresOK
    <2>7. \A x \in Conn : bOpen'[x] => Old(x)'
      BY <1>0, <1>1, <1>3, <1>4, <1>5 DEF PlacesInv, WiresOK
    <2> QED
      BY <1>0, <1>1, <2>3, <2>4, <2>5, <2>6, <2>7 DEF PlacesInv
  <1>10. ASSUME NEW x \in SdkConn, x # k
         PROVE  SpeaksInTurn(x)' /\ Underway(x)' /\ RoutedRight(x)'
    <2>1. x \in Conn /\ x[1] \in Client /\ x = <<x[1], x[2]>>
      BY SdkFacts
    <2>2. Speaks(x)' => Speaks(x)
      <3>1. x[1] # c => st'[x[1]] = st[x[1]] /\ Now(x[1])' = Now(x[1])
        BY <1>0, <1>1, <2>1 DEF ClientsOK, Now
      <3>2. x[1] = c => Now(x[1])' = k
        BY <1>2 DEF Now
      <3> QED
        BY <1>1, <1>10, <3>1, <3>2 DEF Speaks
    <2>3. bOpen'[x] = bOpen[x]
      BY <1>0, <1>1, <1>10, <2>1 DEF WiresOK
    <2> QED
      BY <1>0, <1>1, <1>5, <1>7, <1>10, <2>1, <2>2, <2>3, Bystander DEF MessagesInv
  <1>11. ASSUME k \in SdkConn
         PROVE  SpeaksInTurn(k)' /\ Underway(k)' /\ RoutedRight(k)'
    <2>1. sent[k] = 0 /\ toC[k] = <<>> /\ Underway(k)
      BY <1>0, <1>4, <1>11 DEF MessagesInv, SpeaksInTurn
    <2>2. toB[k] = <<>> /\ Len(routed[k]) <= 0
      BY <1>4, <2>1 DEF Underway, OnTheWay
    <2>3. routed[k] \in Seq(Routings) /\ Len(routed[k]) \in Nat /\ DOMAIN routed[k] = 1 .. Len(routed[k])
      BY <1>0, <1>11, LenProperties DEF WiresOK
    <2>4. Len(routed[k]) = 0 /\ DOMAIN routed[k] = {} /\ DOMAIN toB[k] = {} /\ DOMAIN toC[k] = {}
      BY <2>1, <2>2, <2>3
    <2>5. bOpen'[k] = TRUE /\ st'[c] = "connected"
      BY <1>0, <1>1, <1>3 DEF WiresOK, ClientsOK
    <2>6. Underway(k)'
      BY <1>1, <2>1, <2>4, <2>5 DEF Underway, OnTheWay
    <2>7. RoutedRight(k)'
      BY <1>1, <2>4 DEF RoutedRight
    <2>8. SpeaksInTurn(k)'
      BY <1>1, <1>3, <1>4, <2>1, <2>4, <2>5 DEF SpeaksInTurn, Speaks
    <2> QED
      BY <2>6, <2>7, <2>8
  <1>12. MessagesInv'
    BY <1>10, <1>11 DEF MessagesInv
  <1> QED
    BY <1>8, <1>9, <1>12

(* Whatever a client does, messages stay in order.                          *)
LEMMA ClientWire ==
  ASSUME WireInv, NEW c \in Client, ClientStep(c)
  PROVE  WiresOK' /\ PlacesInv' /\ MessagesInv'
  <1> SUFFICES ASSUME ~Connect(c)
               PROVE  WiresOK' /\ PlacesInv' /\ MessagesInv'
  <2>1. PICK k : k = <<c, tries[c] + 1>>
    OBVIOUS
  <2> QED
    BY <2>1, Connecting
  <1>0. WiresOK /\ ClientsOK /\ PlacesInv /\ MessagesInv
    BY DEF WireInv
  <1>1. /\ UNCHANGED <<tries, bOpen, backlog, hand, muxVars>>
        /\ st[c] # "down" /\ Now(c) \in Conn
        /\ \A k \in Conn \ {Now(c)} : /\ toB'[k] = toB[k] /\ toC'[k] = toC[k]
                                      /\ sent'[k] = sent[k] /\ cOpen'[k] = cOpen[k]
        /\ DOMAIN toB' = Conn /\ DOMAIN toC' = Conn /\ cOpen' \in [Conn -> BOOLEAN]
        /\ \A d \in Client \ {c} : st'[d] = st[d]
    BY <1>0, ClientLocal
  <1>2. UNCHANGED <<slot, routed>>
    BY <1>1 DEF muxVars
  <1>3. PlacesInv'
    BY <1>0, <1>1, <1>2, SameSeats
  <1>4. ASSUME NEW x \in SdkConn, x # Now(c)
        PROVE  SpeaksInTurn(x)' /\ Underway(x)' /\ RoutedRight(x)' /\ toB'[x] \in Seq(Frames)
               /\ toC'[x] \in Seq(Replies)
    <2>1. x \in Conn /\ x[1] \in Client /\ x = <<x[1], x[2]>>
      BY SdkFacts
    <2>2. Speaks(x)' => Speaks(x)
      <3>1. x[1] # c => st'[x[1]] = st[x[1]]
        BY <1>1, <2>1
      <3>2. Now(x[1])' = Now(x[1])
        BY <1>1 DEF Now
      <3> QED
        BY <1>1, <1>4, <2>1, <3>1, <3>2 DEF Speaks
    <2>3. Waits(x)' = Waits(x) /\ Old(x)' = Old(x)
      BY <1>1 DEF Waits, Old
    <2>4. SpeaksInTurn(x)' /\ Underway(x)' /\ RoutedRight(x)'
      BY <1>0, <1>1, <1>2, <1>4, <2>1, <2>2, <2>3, Bystander DEF MessagesInv
    <2> QED
      BY <1>0, <1>1, <1>4, <2>1, <2>4 DEF WiresOK
  <1>5. ASSUME Now(c) \in SdkConn
        PROVE  SpeaksInTurn(Now(c))' /\ Underway(Now(c))' /\ RoutedRight(Now(c))' /\ toB'[Now(c)] \in Seq(Frames)
               /\ toC'[Now(c)] \in Seq(Replies)
    <2>1. c \in Sdk /\ SpeaksInTurn(Now(c)) /\ Underway(Now(c)) /\ RoutedRight(Now(c))
      BY <1>0, <1>1, <1>5, NowFacts DEF MessagesInv
    <2>2. PICK k : k = Now(c)
      OBVIOUS
    <2>3. RoutedRight(k)'
      BY <1>2, <2>1, <2>2 DEF RoutedRight
    <2>4. toB'[k] \in Seq(Frames) /\ toC'[k] \in Seq(Replies) /\ SpeaksInTurn(k)' /\ Underway(k)'
      BY <1>0, <2>1, <2>2, OwnConn
    <2>5. Now(c)' = k
      BY <1>1, <2>2 DEF Now
    <2> QED
      BY <2>2, <2>3, <2>4, <2>5 DEF SpeaksInTurn, Speaks, Waits, Old, Underway, RoutedRight
  <1>6. WiresOK'
    BY <1>0, <1>1, <1>2, <1>4, <1>5 DEF WiresOK
  <1>7. MessagesInv'
    <2>1. Now(c)' = Now(c)
      BY <1>1 DEF Now
    <2> QED
      BY <1>4, <1>5, <2>1, Zenon DEF MessagesInv
  <1> QED
    BY <1>3, <1>6, <1>7

-----------------------------------------------------------------------------
(* The listener.                                                            *)

(* Who waits after a connection has been accepted did before.               *)
LEMMA Handing ==
  ASSUME WiresOK, Accept
  PROVE  /\ backlog[1] \in Conn /\ 1 \in DOMAIN backlog
         /\ backlog' \in Seq(Conn) /\ hand' \in Seq(Conn)
         /\ \A n \in DOMAIN backlog' : /\ n \in Nat /\ n + 1 \in DOMAIN backlog /\ 1 < n + 1
                                       /\ backlog'[n] = backlog[n + 1]
         /\ \A n \in DOMAIN hand' : \/ n \in DOMAIN hand /\ hand'[n] = hand[n]
                                    \/ n = Len(hand) + 1 /\ hand'[n] = backlog[1] /\ n \notin DOMAIN hand
         /\ \A x : Waits(x)' => Waits(x)
  <1>1. /\ backlog \in Seq(Conn) /\ hand \in Seq(Conn) /\ backlog # <<>>
        /\ backlog' = Tail(backlog) /\ (hand' = hand \/ hand' = Append(hand, Head(backlog)))
    BY DEF Accept, WiresOK
  <1>2. /\ Head(backlog) \in Conn /\ Head(backlog) = backlog[1] /\ 1 \in DOMAIN backlog
        /\ backlog' \in Seq(Conn)
        /\ \A n \in DOMAIN backlog' : /\ n \in Nat /\ n + 1 \in DOMAIN backlog /\ 1 < n + 1
                                      /\ backlog'[n] = backlog[n + 1]
    BY <1>1, Taken
  <1>3. /\ hand' \in Seq(Conn)
        /\ \A n \in DOMAIN hand' : \/ n \in DOMAIN hand /\ hand'[n] = hand[n]
                                   \/ n = Len(hand) + 1 /\ hand'[n] = backlog[1] /\ n \notin DOMAIN hand
    <2>1. CASE hand' = hand
      BY <1>1, <2>1
    <2>2. CASE hand' = Append(hand, Head(backlog))
      <3>1. Len(hand) + 1 \notin DOMAIN hand
        BY <1>1, LenProperties
      <3> QED
        BY <1>1, <1>2, <2>2, <3>1, Appended
    <2> QED
      BY <1>1, <2>1, <2>2
  <1>4. \A x : Waits(x)' => Waits(x)
    BY <1>2, <1>3 DEF Waits
  <1> QED
    BY <1>2, <1>3, <1>4

(* An accepted connection is handed over, or is nowhere any more.           *)
LEMMA Accepting ==
  ASSUME WireInv, Accept
  PROVE  WiresOK' /\ PlacesInv' /\ MessagesInv'
  <1>0. WiresOK /\ PlacesInv /\ MessagesInv
    BY DEF WireInv
  <1>1. UNCHANGED <<st, tries, sent, cOpen, bOpen, toB, toC, slot, routed>>
    BY DEF Accept, clientVars, wireVars, muxVars
  <1>2. /\ backlog[1] \in Conn /\ 1 \in DOMAIN backlog /\ backlog' \in Seq(Conn)
        /\ \A n \in DOMAIN backlog' : /\ n \in Nat /\ n + 1 \in DOMAIN backlog /\ 1 < n + 1
                                      /\ backlog'[n] = backlog[n + 1]
    BY <1>0, Handing
  <1>3. /\ hand' \in Seq(Conn)
        /\ \A n \in DOMAIN hand' : \/ n \in DOMAIN hand /\ hand'[n] = hand[n]
                                   \/ n = Len(hand) + 1 /\ hand'[n] = backlog[1] /\ n \notin DOMAIN hand
    BY <1>0, Handing
  <1>4. \A x : Waits(x)' => Waits(x)
    BY <1>0, Handing
  <1>5. WiresOK'
    BY <1>0, <1>1, <1>2, <1>3 DEF WiresOK
  <1>6. PlacesInv'
    <2>1. \A m, n \in DOMAIN backlog' : backlog'[m] = backlog'[n] => m = n
      <3> SUFFICES ASSUME NEW m \in DOMAIN backlog', NEW n \in DOMAIN backlog', backlog'[m] = backlog'[n]
                   PROVE  m = n
        OBVIOUS
      <3>1. m + 1 = n + 1
        BY <1>0, <1>2 DEF PlacesInv
      <3> QED
        BY <1>2, <3>1
    <2>2. \A m, n \in DOMAIN hand' : hand'[m] = hand'[n] => m = n
      BY <1>0, <1>2, <1>3 DEF PlacesInv
    <2>3. \A m \in DOMAIN backlog', n \in DOMAIN hand' : backlog'[m] # hand'[n]
      <3> SUFFICES ASSUME NEW m \in DOMAIN backlog', NEW n \in DOMAIN hand' PROVE backlog'[m] # hand'[n]
        OBVIOUS
      <3>1. m + 1 \in DOMAIN backlog /\ m + 1 # 1 /\ backlog'[m] = backlog[m + 1]
        BY <1>2
      <3> QED
        BY <1>0, <1>2, <1>3, <3>1 DEF PlacesInv
    <2>4. \A x : (InSlot(x)' <=> InSlot(x)) /\ (Old(x)' <=> Old(x))
      BY <1>1 DEF InSlot, Old
    <2> QED
      BY <1>0, <1>1, <1>4, <2>1, <2>2, <2>3, <2>4 DEF PlacesInv
  <1>7. ASSUME NEW x \in SdkConn
        PROVE  SpeaksInTurn(x)' /\ Underway(x)' /\ RoutedRight(x)'
    <2>1. Speaks(x)' = Speaks(x) /\ Old(x)' = Old(x)
      BY <1>1 DEF Speaks, Old, Now
    <2> QED
      BY <1>0, <1>1, <1>4, <2>1, Bystander DEF MessagesInv
  <1> QED
    BY <1>5, <1>6, <1>7 DEF MessagesInv

-----------------------------------------------------------------------------
(* The mux.                                                                 *)

(* A connection is not what a free slot holds.                              *)
LEMMA ConnIsSome == FREE.fd = None /\ FREE.state = "FREE" /\ \A k \in Conn : k # None
  <1>1. \A x, y : <<x, y>> # <<>>
    OBVIOUS
  <1>2. \A k \in Conn : k = <<k[1], k[2]>>
    BY ConnFacts DEF Conn
  <1>3. \A k \in Conn : k # None
    BY <1>1, <1>2, Zenon DEF None
  <1> QED
    BY <1>3 DEF FREE

(* A frame goes to one connection.                                          *)
LEMMA FrameSent ==
  ASSUME WiresOK, NEW k \in Conn, NEW type \in Replies, SendFrame(k, type)
  PROVE  /\ DOMAIN toC' = Conn
         /\ \A x \in Conn \ {k} : toC'[x] = toC[x]
         /\ k \in SdkConn => toC'[k] \in Seq(Replies)
         /\ k \in SdkConn => \A n \in DOMAIN toC'[k] : \/ n \in DOMAIN toC[k] /\ toC'[k][n] = toC[k][n]
                                                       \/ toC'[k][n] = type
         /\ toC'[k] = IF cOpen[k] THEN Append(toC[k], type) ELSE toC[k]
  <1>1. DOMAIN toC' = Conn /\ \A x \in Conn \ {k} : toC'[x] = toC[x]
    BY DEF SendFrame, WiresOK
  <1>2. toC'[k] = IF cOpen[k] THEN Append(toC[k], type) ELSE toC[k]
    BY DEF SendFrame, WiresOK
  <1>3. ASSUME k \in SdkConn
        PROVE  /\ toC'[k] \in Seq(Replies)
               /\ \A n \in DOMAIN toC'[k] : \/ n \in DOMAIN toC[k] /\ toC'[k][n] = toC[k][n]
                                            \/ toC'[k][n] = type
    <2>1. toC[k] \in Seq(Replies)
      BY <1>3 DEF WiresOK
    <2>2. /\ Append(toC[k], type) \in Seq(Replies)
          /\ \A n \in DOMAIN Append(toC[k], type) :
                \/ n \in DOMAIN toC[k] /\ Append(toC[k], type)[n] = toC[k][n]
                \/ Append(toC[k], type)[n] = type
      BY <2>1, Appended
    <2> QED
      BY <1>2, <2>1, <2>2
  <1> QED
    BY <1>1, <1>2, <1>3

(* Whoever is hung up on has no place and nothing on the way any more.      *)
LEMMA HangingUp ==
  ASSUME WireInv, NEW k \in Conn, Old(k), Hangup(k), UNCHANGED <<clientVars, cOpen, routed, backlog>>,
         NEW type \in Replies \ {"ASSIGN"}, toC' = toC \/ SendFrame(k, type),
         hand' \in Seq(Conn), \A x \in Conn : Waits(x)' => Waits(x), ~Waits(k)',
         \A m, n \in DOMAIN hand' : hand'[m] = hand'[n] => m = n,
         \A m \in DOMAIN backlog, n \in DOMAIN hand' : backlog[m] # hand'[n],
         \A i \in Slot : (slot'[i] = slot[i] \/ slot'[i] = FREE) /\ slot'[i].fd # k
  PROVE  WiresOK' /\ PlacesInv' /\ MessagesInv'
  <1>0. WiresOK /\ PlacesInv /\ MessagesInv /\ UNCHANGED <<st, tries, sent>>
    BY DEF WireInv, clientVars
  <1>1. /\ bOpen' \in [Conn -> BOOLEAN] /\ ~bOpen'[k] /\ toB'[k] = <<>> /\ DOMAIN toB' = Conn
        /\ \A x \in Conn \ {k} : bOpen'[x] = bOpen[x] /\ toB'[x] = toB[x]
    BY <1>0 DEF Hangup, WiresOK
  <1>2. /\ DOMAIN toC' = Conn
        /\ \A x \in Conn \ {k} : toC'[x] = toC[x]
        /\ k \in SdkConn => /\ toC'[k] \in Seq(Replies)
                            /\ \A n \in DOMAIN toC'[k] : \/ n \in DOMAIN toC[k] /\ toC'[k][n] = toC[k][n]
                                                         \/ toC'[k][n] = type
    <2>1. CASE toC' = toC
      BY <1>0, <2>1 DEF WiresOK
    <2>2. CASE SendFrame(k, type)
      BY <1>0, <2>2, FrameSent
    <2> QED
      BY <2>1, <2>2
  <1>3. \A x : (Old(x)' <=> Old(x)) /\ (InSlot(x)' => InSlot(x) \/ x = None)
    BY <1>0, ConnIsSome DEF Old, InSlot
  <1>4. WiresOK'
    <2>1. \A x \in SdkConn : toB'[x] \in Seq(Frames) /\ toC'[x] \in Seq(Replies)
      BY <1>0, <1>1, <1>2, SdkFacts, EmptySeq DEF WiresOK
    <2> QED
      BY <1>0, <1>1, <1>2, <2>1 DEF WiresOK
  <1>5. PlacesInv'
    <2>1. /\ \A i \in Slot : slot'[i].fd \in Conn \cup {None}
          /\ \A i \in Slot : slot'[i].fd = None <=> slot'[i].state = "FREE"
          /\ \A i, j \in Slot : slot'[i].fd = slot'[j].fd /\ slot'[i].fd # None => i = j
      BY <1>0, ConnIsSome DEF PlacesInv
    <2>2. \A x \in Conn : Waits(x)' => ~InSlot(x)'
      BY <1>0, <1>3, ConnIsSome DEF PlacesInv
    <2>3. \A x \in Conn : Waits(x)' \/ InSlot(x)' => bOpen'[x]
      <3>1. ~InSlot(k)'
        BY DEF InSlot
      <3> QED
        BY <1>0, <1>1, <1>3, <3>1, ConnIsSome DEF PlacesInv
    <2>4. \A x \in Conn : bOpen'[x] => Old(x)'
      BY <1>0, <1>1, <1>3 DEF PlacesInv
    <2> QED
      BY <1>0, <2>1, <2>2, <2>3, <2>4 DEF PlacesInv
  <1>6. ASSUME NEW x \in SdkConn, x # k
        PROVE  SpeaksInTurn(x)' /\ Underway(x)' /\ RoutedRight(x)'
    <2>1. x \in Conn /\ x # None
      BY SdkFacts, ConnIsSome
    <2>2. Speaks(x)' => Speaks(x)
      BY <1>0, <1>2, <1>6, <2>1 DEF Speaks, Now
    <2>3. \A i \in Slot : slot'[i].fd = x => slot'[i] = slot[i]
      BY <2>1, ConnIsSome
    <2> QED
      BY <1>0, <1>1, <1>2, <1>3, <1>6, <2>1, <2>2, <2>3, Bystander DEF MessagesInv
  <1>7. ASSUME k \in SdkConn
        PROVE  SpeaksInTurn(k)' /\ Underway(k)' /\ RoutedRight(k)'
    <2>1. SpeaksInTurn(k)'
      BY <1>3 DEF SpeaksInTurn
    <2>2. toB[k] \in Seq(Frames) /\ bOpen[k] \in BOOLEAN /\ OnTheWay(toB[k], Len(routed[k]), sent[k], bOpen[k])
      BY <1>0, <1>7 DEF WiresOK, MessagesInv, Underway
    <2>3. bOpen'[k] = FALSE
      BY <1>1
    <2>4. Underway(k)'
      <3>1. OnTheWay(<<>>, Len(routed[k]), sent[k], FALSE)
        BY <2>2, Dropped
      <3>2. routed'[k] = routed[k] /\ sent'[k] = sent[k]
        BY <1>0
      <3> QED
        BY <1>1, <2>3, <3>1, <3>2 DEF Underway
    <2>5. RoutedRight(k)'
      BY <1>0, <1>7 DEF MessagesInv, RoutedRight
    <2> QED
      BY <2>1, <2>4, <2>5
  <1> QED
    BY <1>4, <1>5, <1>6, <1>7 DEF MessagesInv

(* Whatever ends a connection.                                              *)
LEMMA ClosingWire ==
  ASSUME WireInv, BridgeInv, CloseSlot(at), slot[at].state # "FREE",
         UNCHANGED <<clientVars, cOpen, backlog, hand, routed>>,
         toC' = toC \/ SendFrame(slot[at].fd, "HEALTH_REQ")
  PROVE  WiresOK' /\ PlacesInv' /\ MessagesInv'
  <1>0. WiresOK /\ PlacesInv /\ at \in Slot /\ DOMAIN slot = Slot
    BY DEF WireInv, BridgeInv, PoolInv
  <1>1. PICK k : k = slot[at].fd
    OBVIOUS
  <1>2. k \in Conn /\ InSlot(k) /\ ~Waits(k) /\ Old(k)
    BY <1>0, <1>1 DEF PlacesInv, InSlot
  <1>3. Hangup(k) /\ slot' = [slot EXCEPT ![at] = FREE]
    BY <1>1 DEF CloseSlot, Cleared
  <1>4. \A x : Waits(x)' = Waits(x)
    BY DEF Waits
  <1>5. \A i \in Slot : (slot'[i] = slot[i] \/ slot'[i] = FREE) /\ slot'[i].fd # k
    BY <1>0, <1>1, <1>2, <1>3, ConnIsSome DEF PlacesInv
  <1>6. "HEALTH_REQ" \in Replies \ {"ASSIGN"}
    BY DEF Replies
  <1>7. hand' \in Seq(Conn) /\ ~Waits(k)'
    BY <1>0, <1>2, <1>4 DEF WiresOK
  <1>8. /\ \A m, n \in DOMAIN hand' : hand'[m] = hand'[n] => m = n
        /\ \A m \in DOMAIN backlog, n \in DOMAIN hand' : backlog[m] # hand'[n]
    BY <1>0 DEF PlacesInv
  <1> QED
    BY <1>1, <1>2, <1>3, <1>4, <1>5, <1>6, <1>7, <1>8, HangingUp

(* A step of the mux that serves one slot's connection moves no other.      *)
LEMMA Serving ==
  ASSUME WireInv, BridgeInv, slot[at].state # "FREE", UNCHANGED <<clientVars, cOpen, bOpen, backlog, hand>>,
         NEW k, k = slot[at].fd,
         \A i \in Slot : /\ slot'[i].fd = slot[i].fd
                         /\ slot'[i].state = "FREE" <=> slot[i].state = "FREE"
                         /\ slot[i].state = "CONNECTED" => slot'[i].state = "CONNECTED",
         DOMAIN toB' = Conn, DOMAIN toC' = Conn, DOMAIN routed' = Conn,
         \A x \in Conn \ {k} : toB'[x] = toB[x] /\ toC'[x] = toC[x] /\ routed'[x] = routed[x],
         k \in SdkConn => /\ toB'[k] \in Seq(Frames) /\ toC'[k] \in Seq(Replies) /\ routed'[k] \in Seq(Routings)
                          /\ Speaks(k)' => Speaks(k) \/ slot'[at].state = "CONNECTED"
                          /\ Underway(k)' /\ RoutedRight(k)'
  PROVE  WiresOK' /\ PlacesInv' /\ MessagesInv'
  <1>0. WiresOK /\ PlacesInv /\ MessagesInv /\ UNCHANGED <<st, tries, sent>> /\ at \in Slot
    BY DEF WireInv, BridgeInv, PoolInv, clientVars
  <1>1. k \in Conn /\ InSlot(k) /\ ~Waits(k) /\ Old(k)
    BY <1>0 DEF PlacesInv, InSlot
  <1>2. \A x : (Waits(x)' <=> Waits(x)) /\ (Old(x)' <=> Old(x))
    BY <1>0 DEF Waits, Old
  <1>3. PlacesInv'
    BY <1>0, SameSeats
  <1>4. WiresOK'
    BY <1>0, <1>1, SdkFacts DEF WiresOK
  <1>5. ASSUME NEW x \in SdkConn, x # k
        PROVE  SpeaksInTurn(x)' /\ Underway(x)' /\ RoutedRight(x)'
    <2>1. x \in Conn
      BY SdkFacts
    <2>2. Speaks(x)' => Speaks(x)
      BY <1>0, <1>5, <2>1 DEF Speaks, Now
    <2> QED
      BY <1>0, <1>2, <1>5, <2>1, <2>2, Bystander DEF MessagesInv
  <1>6. ASSUME k \in SdkConn
        PROVE  SpeaksInTurn(k)'
    <2>1. \A i \in Slot : slot'[i].fd = k => i = at
      BY <1>0, <1>1, ConnIsSome DEF PlacesInv
    <2>2. Speaks(k) => slot[at].state = "CONNECTED"
      BY <1>0, <1>6 DEF MessagesInv, SpeaksInTurn
    <2> QED
      BY <1>0, <1>1, <1>2, <1>6, <2>1, <2>2 DEF SpeaksInTurn
  <1> QED
    BY <1>3, <1>4, <1>5, <1>6 DEF MessagesInv

(* The mux asks whether a client is there.                                  *)
LEMMA Asking ==
  ASSUME WireInv, BridgeInv, slot[at].state = "CONNECTED",
         UNCHANGED <<clientVars, cOpen, bOpen, toB, backlog, hand, routed>>,
         SendFrame(slot[at].fd, "HEALTH_REQ"),
         slot' = [slot EXCEPT ![at].last = clock, ![at].miss = @ + 1]
  PROVE  WiresOK' /\ PlacesInv' /\ MessagesInv'
  <1>0. WiresOK /\ PlacesInv /\ MessagesInv /\ at \in Slot /\ DOMAIN slot = Slot
        /\ OwnEndpoint(slot[at], at) /\ UNCHANGED <<st, tries, sent>>
    BY DEF WireInv, BridgeInv, PoolInv, clientVars
  <1>1. PICK k : k = slot[at].fd
    OBVIOUS
  <1>2. k \in Conn /\ "HEALTH_REQ" \in Replies
    BY <1>0, <1>1 DEF PlacesInv, Replies
  <1>3. /\ \A i \in Slot : /\ slot'[i].fd = slot[i].fd
                           /\ slot'[i].state = slot[i].state
    <2>1. slot'[at] = [slot[at] EXCEPT !.last = clock, !.miss = @ + 1]
      BY <1>0
    <2>2. slot'[at].fd = slot[at].fd /\ slot'[at].state = slot[at].state
      BY <1>0, <2>1 DEF OwnEndpoint, Fields
    <2>3. \A i \in Slot \ {at} : slot'[i] = slot[i]
      BY <1>0
    <2> QED
      BY <2>2, <2>3
  <1>4. /\ DOMAIN toC' = Conn
        /\ \A x \in Conn \ {k} : toC'[x] = toC[x]
        /\ k \in SdkConn => toC'[k] \in Seq(Replies)
    BY <1>0, <1>1, <1>2, FrameSent
  <1>5. DOMAIN toB' = Conn /\ DOMAIN routed' = Conn
    BY <1>0 DEF WiresOK
  <1>6. ASSUME k \in SdkConn
        PROVE  /\ toB'[k] \in Seq(Frames) /\ routed'[k] \in Seq(Routings)
               /\ slot'[at].state = "CONNECTED" /\ Underway(k)' /\ RoutedRight(k)'
    <2>1. Underway(k) /\ RoutedRight(k)
      BY <1>0, <1>6 DEF MessagesInv
    <2>2. Underway(k)' /\ RoutedRight(k)'
      BY <1>0, <1>3, <2>1 DEF Underway, RoutedRight
    <2> QED
      BY <1>0, <1>3, <1>6, <2>2 DEF WiresOK
  <1> QED
    BY <1>1, <1>3, <1>4, <1>5, <1>6, Serving

(* A packet leaves the wire.                                                *)
LEMMA PacketRead ==
  ASSUME WireInv, BridgeInv, slot[at].state # "FREE", NEW k, k = slot[at].fd, toB[k] # <<>>,
         toB' = [toB EXCEPT ![k] = Tail(@)]
  PROVE  /\ k \in Conn /\ DOMAIN toB' = Conn /\ toB'[k] = Tail(toB[k])
         /\ \A x \in Conn \ {k} : toB'[x] = toB[x]
         /\ k \in SdkConn => toB'[k] \in Seq(Frames) /\ Head(toB[k]) \in Frames
  <1>0. WiresOK /\ PlacesInv /\ at \in Slot
    BY DEF WireInv, BridgeInv, PoolInv
  <1>1. k \in Conn
    BY <1>0 DEF PlacesInv
  <1>2. /\ DOMAIN toB' = Conn /\ toB'[k] = Tail(toB[k])
        /\ \A x \in Conn \ {k} : toB'[x] = toB[x]
    BY <1>0, <1>1 DEF WiresOK
  <1>3. k \in SdkConn => Tail(toB[k]) \in Seq(Frames) /\ Head(toB[k]) \in Frames
    BY <1>0, Taken DEF WiresOK
  <1> QED
    BY <1>1, <1>2, <1>3

(* A packet that is no message changes nothing for the messages.            *)
LEMMA OtherRead ==
  ASSUME WireInv, BridgeInv, slot[at].state # "FREE", NEW k, k = slot[at].fd, toB[k] # <<>>,
         toB' = [toB EXCEPT ![k] = Tail(@)], k \in SdkConn => ~IsMsg(Head(toB[k])),
         UNCHANGED <<clientVars, cOpen, bOpen, backlog, hand, routed>>,
         \A i \in Slot : /\ slot'[i].fd = slot[i].fd
                         /\ slot'[i].state = "FREE" <=> slot[i].state = "FREE"
                         /\ slot[i].state = "CONNECTED" => slot'[i].state = "CONNECTED",
         \/ toC' = toC
         \/ SendFrame(k, "ASSIGN") /\ slot'[at].state = "CONNECTED"
  PROVE  WiresOK' /\ PlacesInv' /\ MessagesInv'
  <1>0. WiresOK /\ PlacesInv /\ MessagesInv /\ UNCHANGED <<st, tries, sent>>
    BY DEF WireInv, clientVars
  <1>1. /\ k \in Conn /\ DOMAIN toB' = Conn /\ toB'[k] = Tail(toB[k])
        /\ \A x \in Conn \ {k} : toB'[x] = toB[x]
        /\ k \in SdkConn => toB'[k] \in Seq(Frames)
    BY PacketRead
  <1>2. /\ DOMAIN toC' = Conn
        /\ \A x \in Conn \ {k} : toC'[x] = toC[x]
        /\ k \in SdkConn => toC'[k] \in Seq(Replies)
        /\ toC' = toC \/ slot'[at].state = "CONNECTED"
    <2>1. CASE toC' = toC
      BY <1>0, <2>1 DEF WiresOK
    <2>2. CASE SendFrame(k, "ASSIGN") /\ slot'[at].state = "CONNECTED"
      <3>1. "ASSIGN" \in Replies
        BY DEF Replies
      <3> QED
        BY <1>0, <1>1, <2>2, <3>1, FrameSent
    <2> QED
      BY <2>1, <2>2
  <1>3. ASSUME k \in SdkConn
        PROVE  /\ routed'[k] \in Seq(Routings) /\ Underway(k)' /\ RoutedRight(k)'
               /\ Speaks(k)' => Speaks(k) \/ slot'[at].state = "CONNECTED"
    <2>1. /\ toB[k] \in Seq(Frames) /\ bOpen[k] \in BOOLEAN /\ RoutedRight(k)
          /\ OnTheWay(toB[k], Len(routed[k]), sent[k], bOpen[k])
      BY <1>0, <1>1, <1>3 DEF WiresOK, MessagesInv, Underway
    <2>2. OnTheWay(Tail(toB[k]), Len(routed[k]), sent[k], bOpen[k])
      BY <1>3, <2>1, OtherTaken
    <2>3. Underway(k)'
      BY <1>0, <1>1, <2>2 DEF Underway
    <2>4. RoutedRight(k)'
      BY <2>1 DEF RoutedRight
    <2>5. Speaks(k)' => Speaks(k) \/ slot'[at].state = "CONNECTED"
      BY <1>0, <1>2 DEF Speaks, Now
    <2> QED
      BY <1>0, <1>3, <2>3, <2>4, <2>5 DEF WiresOK
  <1>4. DOMAIN routed' = Conn
    BY <1>0 DEF WiresOK
  <1> QED
    BY <1>1, <1>2, <1>3, <1>4, Serving, Zenon

(* What a route appends is a routing.                                       *)
LEMMA RouteFacts ==
  \A e \in Slot, k \in Conn, n \in Nat : [ep |-> e, msg |-> <<k, n>>] \in Routings
  BY DEF Routings

(* The message that is read is the next one, and the slot is its own.       *)
LEMMA MessageRead ==
  ASSUME WireInv, BridgeInv, slot[at].state # "FREE", NEW k, k = slot[at].fd, toB[k] # <<>>,
         toB' = [toB EXCEPT ![k] = Tail(@)], k \in SdkConn => IsMsg(Head(toB[k])),
         UNCHANGED <<clientVars, cOpen, bOpen, backlog, hand, slot, toC>>,
         NEW msg, k \in SdkConn => msg = <<k, Head(toB[k]).body>>, Route(slot[at], msg)
  PROVE  WiresOK' /\ PlacesInv' /\ MessagesInv'
  <1>0. WiresOK /\ PlacesInv /\ MessagesInv /\ UNCHANGED <<st, tries, sent>> /\ at \in Slot
        /\ OwnEndpoint(slot[at], at) /\ sent \in [Conn -> Nat]
    BY DEF WireInv, BridgeInv, PoolInv, clientVars, ClientsOK
  <1>1. /\ k \in Conn /\ DOMAIN toB' = Conn /\ toB'[k] = Tail(toB[k])
        /\ \A x \in Conn \ {k} : toB'[x] = toB[x]
        /\ k \in SdkConn => toB'[k] \in Seq(Frames)
    BY PacketRead
  <1>2. PICK e : e = [ep |-> slot[at].ep, msg |-> msg]
    OBVIOUS
  <1>3. /\ DOMAIN routed' = Conn /\ routed'[k] = Append(routed[k], e)
        /\ \A x \in Conn \ {k} : routed'[x] = routed[x]
    BY <1>0, <1>1, <1>2 DEF Route, WiresOK
  <1>4. DOMAIN toC' = Conn
    BY <1>0 DEF WiresOK
  <1>5. ASSUME k \in SdkConn
        PROVE  /\ toC'[k] \in Seq(Replies) /\ routed'[k] \in Seq(Routings) /\ Underway(k)' /\ RoutedRight(k)'
               /\ Speaks(k)' => Speaks(k)
    <2>1. PICK r : r = Len(routed[k])
      OBVIOUS
    <2>2. /\ toB[k] \in Seq(Frames) /\ bOpen[k] \in BOOLEAN /\ RoutedRight(k) /\ SpeaksInTurn(k)
          /\ routed[k] \in Seq(Routings) /\ toC[k] \in Seq(Replies)
          /\ OnTheWay(toB[k], r, sent[k], bOpen[k]) /\ r \in Nat /\ sent[k] \in Nat
      BY <1>0, <1>1, <1>5, <2>1, LenProperties DEF WiresOK, MessagesInv, Underway
    <2>3. Head(toB[k]).body = r + 1 /\ OnTheWay(Tail(toB[k]), r + 1, sent[k], bOpen[k])
      BY <1>5, <2>2, MessageTaken
    <2>4. slot[at].state = "CONNECTED" /\ slot[at].ep = at
      <3>1. sent[k] > 0
        <4>1. r + 1 <= sent[k]
          BY <2>3 DEF OnTheWay
        <4> QED
          BY <2>2, <4>1
      <3> QED
        BY <1>0, <2>2, <3>1 DEF SpeaksInTurn, Speaks, OwnEndpoint
    <2>5. e \in Routings /\ e.ep = at /\ e.msg = <<k, r + 1>>
      BY <1>0, <1>1, <1>2, <1>5, <2>2, <2>3, <2>4, RouteFacts
    <2>6. /\ routed'[k] \in Seq(Routings) /\ Len(routed'[k]) = r + 1
          /\ \A n \in DOMAIN routed'[k] : \/ n \in DOMAIN routed[k] /\ routed'[k][n] = routed[k][n]
                                          \/ n = r + 1 /\ routed'[k][n] = e
      BY <1>3, <2>1, <2>2, <2>5, Appended
    <2>7. Underway(k)'
      <3>1. toB'[k] = Tail(toB[k]) /\ Len(routed'[k]) = r + 1 /\ sent'[k] = sent[k] /\ bOpen'[k] = bOpen[k]
        BY <1>0, <1>1, <2>6
      <3> QED
        BY <2>3, <3>1 DEF Underway
    <2>8. RoutedRight(k)'
      <3>1. \A i \in Slot : slot[i].fd = k => i = at
        BY <1>0, <1>1, ConnIsSome DEF PlacesInv
      <3>2. \A n \in DOMAIN routed'[k] :
              /\ routed'[k][n].msg = <<k, n>>
              /\ \A i \in Slot : slot[i].fd = k => routed'[k][n].ep = i
        <4> SUFFICES ASSUME NEW n \in DOMAIN routed'[k]
                     PROVE  /\ routed'[k][n].msg = <<k, n>>
                            /\ \A i \in Slot : slot[i].fd = k => routed'[k][n].ep = i
          OBVIOUS
        <4>1. CASE n \in DOMAIN routed[k] /\ routed'[k][n] = routed[k][n]
          BY <2>2, <4>1 DEF RoutedRight
        <4>2. CASE n = r + 1 /\ routed'[k][n] = e
          BY <2>5, <3>1, <4>2
        <4> QED
          BY <2>6, <4>1, <4>2
      <3> QED
        BY <3>2 DEF RoutedRight
    <2>9. Speaks(k)' => Speaks(k)
      BY <1>0 DEF Speaks, Now
    <2> QED
      BY <2>2, <2>6, <2>7, <2>8, <2>9
  <1>6. \A i \in Slot : /\ slot'[i].fd = slot[i].fd
                        /\ slot'[i].state = "FREE" <=> slot[i].state = "FREE"
                        /\ slot[i].state = "CONNECTED" => slot'[i].state = "CONNECTED"
    OBVIOUS
  <1>7. \A x \in Conn \ {k} : toB'[x] = toB[x] /\ toC'[x] = toC[x] /\ routed'[x] = routed[x]
    BY <1>1, <1>3
  <1> QED
    BY <1>1, <1>3, <1>4, <1>5, <1>6, <1>7, Serving

(* What the mux does with a packet.                                         *)
LEMMA DrainingWire ==
  ASSUME WireInv, BridgeInv, Drain
  PROVE  WiresOK' /\ PlacesInv' /\ MessagesInv'
  <1>0. WiresOK /\ at \in Slot /\ DOMAIN slot = Slot /\ OwnEndpoint(slot[at], at) /\ slot[at].state # "FREE"
    BY DEF WireInv, BridgeInv, PoolInv, Drain
  <1>1. PICK k : k = slot[at].fd
    OBVIOUS
  <1>2. PICK p : p = Head(toB[k])
    OBVIOUS
  <1>3. /\ toB[k] # <<>> /\ toB' = [toB EXCEPT ![k] = Tail(@)]
        /\ UNCHANGED <<clientVars, cOpen, bOpen, backlog, hand>>
    BY <1>1 DEF Drain
  <1>4. k \in SdkConn => p.form = "frame"
    BY <1>0, <1>1, <1>2, <1>3, PacketRead DEF Frames
  <1>5. CASE p.type = "IDENTIFY" /\ Identify(slot[at]) /\ UNCHANGED routed
    <2>1. CASE slot[at].state # "IDENTIFYING"
      BY <1>0, <1>1, <1>2, <1>3, <1>5, <2>1, OtherRead DEF Identify, IsMsg
    <2>2. CASE slot[at].state = "IDENTIFYING"
      <3>1. /\ slot' = [slot EXCEPT ![at] = [slot[at] EXCEPT !.state = "CONNECTED", !.ep = at, !.last = clock]]
            /\ SendFrame(k, "ASSIGN")
        BY <1>1, <1>5, <2>2 DEF Identify, Assigned
      <3>2. slot'[at].fd = slot[at].fd /\ slot'[at].state = "CONNECTED"
        BY <1>0, <3>1 DEF OwnEndpoint, Fields
      <3>3. \A i \in Slot \ {at} : slot'[i] = slot[i]
        BY <1>0, <3>1
      <3> QED
        BY <1>0, <1>1, <1>2, <1>3, <1>5, <3>1, <3>2, <3>3, OtherRead DEF IsMsg
    <2> QED
      BY <2>1, <2>2
  <1>6. CASE /\ p.form # "payload" /\ p.type = "MSG" /\ UNCHANGED <<slot, toC>>
             /\ \E msg \in IF p.form = "frame" THEN {<<k, p.body>>} ELSE Leftover : Route(slot[at], msg)
    <2>1. PICK msg : Route(slot[at], msg) /\ (p.form = "frame" => msg = <<k, p.body>>)
      BY <1>6
    <2> QED
      BY <1>0, <1>1, <1>2, <1>3, <1>4, <1>6, <2>1, MessageRead DEF IsMsg
  <1>7. CASE p.type \in {"SUBSCRIBE", "HEALTH_RSP"} /\ UNCHANGED <<toC, routed>>
             /\ (slot' = slot \/ slot' = [slot EXCEPT ![at].miss = Missed(slot[at])])
    <2>1. \A i \in Slot : slot'[i].fd = slot[i].fd /\ slot'[i].state = slot[i].state
      <3>1. CASE slot' = slot
        BY <3>1
      <3>2. CASE slot' = [slot EXCEPT ![at].miss = Missed(slot[at])]
        <4>1. slot'[at] = [slot[at] EXCEPT !.miss = Missed(slot[at])]
          BY <1>0, <3>2
        <4>2. slot'[at].fd = slot[at].fd /\ slot'[at].state = slot[at].state
          BY <1>0, <4>1 DEF OwnEndpoint, Fields
        <4>3. \A i \in Slot \ {at} : slot'[i] = slot[i]
          BY <1>0, <3>2
        <4> QED
          BY <4>2, <4>3
      <3> QED
        BY <1>7, <3>1, <3>2
    <2> QED
      BY <1>0, <1>1, <1>2, <1>3, <1>7, <2>1, OtherRead DEF IsMsg
  <1>8. CASE p.form = "payload" /\ UNCHANGED <<slot, toC, routed>>
    BY <1>0, <1>1, <1>2, <1>3, <1>4, <1>8, OtherRead
  <1> QED
    BY <1>1, <1>2, <1>5, <1>6, <1>7, <1>8 DEF Drain

(* The first connection handed over leaves the queue.                       *)
LEMMA HandTaken ==
  ASSUME WiresOK, PlacesInv, hand # <<>>, hand' = Tail(hand), backlog' = backlog,
         NEW k, k = Head(hand)
  PROVE  /\ k \in Conn /\ Waits(k) /\ hand' \in Seq(Conn)
         /\ \A x : Waits(x)' => Waits(x) /\ x # k
         /\ \A m, n \in DOMAIN hand' : hand'[m] = hand'[n] => m = n
         /\ \A m \in DOMAIN backlog, n \in DOMAIN hand' : backlog[m] # hand'[n]
  <1>1. /\ k \in Conn /\ k = hand[1] /\ 1 \in DOMAIN hand /\ hand' \in Seq(Conn)
        /\ \A n \in DOMAIN hand' : n \in Nat /\ n + 1 \in DOMAIN hand /\ hand'[n] = hand[n + 1] /\ 1 < n + 1
    BY Taken DEF WiresOK
  <1>2. \A n \in DOMAIN hand' : hand'[n] # k
    <2> SUFFICES ASSUME NEW n \in DOMAIN hand' PROVE hand'[n] # k
      OBVIOUS
    <2>1. n + 1 \in DOMAIN hand /\ n + 1 # 1 /\ hand'[n] = hand[n + 1]
      BY <1>1
    <2> QED
      BY <1>1, <2>1 DEF PlacesInv
  <1>3. \A m, n \in DOMAIN hand' : hand'[m] = hand'[n] => m = n
    <2> SUFFICES ASSUME NEW m \in DOMAIN hand', NEW n \in DOMAIN hand', hand'[m] = hand'[n]
                 PROVE  m = n
      OBVIOUS
    <2>1. m + 1 = n + 1
      BY <1>1 DEF PlacesInv
    <2> QED
      BY <1>1, <2>1
  <1>4. \A m \in DOMAIN backlog, n \in DOMAIN hand' : backlog[m] # hand'[n]
    BY <1>1 DEF PlacesInv
  <1>5. \A m \in DOMAIN backlog : backlog[m] # k
    BY <1>1 DEF PlacesInv
  <1>6. Waits(k) /\ \A x : Waits(x)' => Waits(x) /\ x # k
    BY <1>1, <1>2, <1>5 DEF Waits
  <1> QED
    BY <1>1, <1>3, <1>4, <1>6

(* A connection takes a free slot before it has said a word.                *)
LEMMA Seating ==
  ASSUME WireInv, BridgeInv, hand # <<>>, hand' = Tail(hand),
         UNCHANGED <<clientVars, wireVars, backlog, routed>>, NEW k, k = Head(hand),
         NEW i \in Slot, slot[i].state = "FREE",
         slot' = [slot EXCEPT ![i] = [@ EXCEPT !.state = "IDENTIFYING", !.fd = k, !.since = clock, !.miss = 0]]
  PROVE  WiresOK' /\ PlacesInv' /\ MessagesInv'
  <1>0. /\ WiresOK /\ PlacesInv /\ MessagesInv /\ UNCHANGED <<st, tries, sent, cOpen, bOpen, toB, toC>>
        /\ DOMAIN slot = Slot /\ OwnEndpoint(slot[i], i) /\ sent \in [Conn -> Nat]
    BY DEF WireInv, BridgeInv, PoolInv, clientVars, wireVars, ClientsOK
  <1>1. /\ k \in Conn /\ Waits(k) /\ hand' \in Seq(Conn)
        /\ \A x : Waits(x)' => Waits(x) /\ x # k
        /\ \A m, n \in DOMAIN hand' : hand'[m] = hand'[n] => m = n
        /\ \A m \in DOMAIN backlog, n \in DOMAIN hand' : backlog[m] # hand'[n]
    BY <1>0, HandTaken
  <1>2. ~InSlot(k) /\ bOpen[k]
    BY <1>0, <1>1 DEF PlacesInv
  <1>3. \A j \in Slot \ {i} : slot'[j] = slot[j]
    BY <1>0
  <1>4. slot'[i].fd = k /\ slot'[i].state = "IDENTIFYING"
    <2>1. slot'[i] = [slot[i] EXCEPT !.state = "IDENTIFYING", !.fd = k, !.since = clock, !.miss = 0]
      BY <1>0
    <2> QED
      BY <1>0, <2>1 DEF OwnEndpoint, Fields
  <1>5. \A x : /\ Speaks(x)' <=> Speaks(x)
               /\ Old(x)' <=> Old(x)
               /\ Underway(x)' <=> Underway(x)
    BY <1>0 DEF Speaks, Now, Old, Underway
  <1>6. \A x : InSlot(x)' => InSlot(x) \/ x = k
    BY <1>3, <1>4 DEF InSlot
  <1>7. WiresOK'
    BY <1>0, <1>1 DEF WiresOK
  <1>8. PlacesInv'
    <2>1. /\ \A j \in Slot : slot'[j].fd \in Conn \cup {None}
          /\ \A j \in Slot : slot'[j].fd = None <=> slot'[j].state = "FREE"
      BY <1>0, <1>1, <1>3, <1>4, ConnIsSome DEF PlacesInv
    <2>2. \A j, l \in Slot : slot'[j].fd = slot'[l].fd /\ slot'[j].fd # None => j = l
      BY <1>0, <1>2, <1>3, <1>4 DEF PlacesInv, InSlot
    <2>3. \A x \in Conn : Waits(x)' => ~InSlot(x)'
      BY <1>0, <1>1, <1>6 DEF PlacesInv
    <2>4. \A x \in Conn : Waits(x)' \/ InSlot(x)' => bOpen'[x]
      BY <1>0, <1>1, <1>2, <1>6 DEF PlacesInv
    <2>5. \A x \in Conn : bOpen'[x] => Old(x)'
      BY <1>0, <1>5 DEF PlacesInv
    <2> QED
      BY <1>0, <1>1, <2>1, <2>2, <2>3, <2>4, <2>5 DEF PlacesInv
  <1>9. ASSUME NEW x \in SdkConn, x # k
        PROVE  SpeaksInTurn(x)' /\ Underway(x)' /\ RoutedRight(x)'
    <2>1. \A j \in Slot : slot'[j].fd = x => slot'[j] = slot[j]
      BY <1>3, <1>4, <1>9
    <2> QED
      BY <1>0, <1>1, <1>5, <2>1, Bystander DEF MessagesInv
  <1>10. ASSUME k \in SdkConn
         PROVE  SpeaksInTurn(k)' /\ Underway(k)' /\ RoutedRight(k)'
    <2>1. ~Speaks(k) /\ sent[k] = 0 /\ Underway(k)
      BY <1>0, <1>1, <1>10 DEF MessagesInv, SpeaksInTurn, Speaks
    <2>2. DOMAIN routed[k] = {}
      <3>1. Len(routed[k]) <= 0
        BY <2>1 DEF Underway, OnTheWay
      <3>2. DOMAIN routed[k] = 1 .. Len(routed[k]) /\ Len(routed[k]) \in Nat
        BY <1>0, <1>10, LenProperties DEF WiresOK
      <3> QED
        BY <3>1, <3>2
    <2>3. RoutedRight(k)'
      BY <1>0, <2>2 DEF RoutedRight
    <2>4. SpeaksInTurn(k)'
      BY <1>0, <1>5, <1>10, <2>1 DEF SpeaksInTurn, MessagesInv
    <2> QED
      BY <1>5, <2>1, <2>3, <2>4
  <1> QED
    BY <1>7, <1>8, <1>9, <1>10 DEF MessagesInv

(* The mux places a connection or refuses it.                               *)
LEMMA PickingWire ==
  ASSUME WireInv, BridgeInv, Pick
  PROVE  WiresOK' /\ PlacesInv' /\ MessagesInv'
  <1>0. WiresOK /\ PlacesInv /\ MessagesInv /\ UNCHANGED <<clientVars, cOpen, backlog, routed>>
    BY DEF WireInv, Pick
  <1>1. CASE hand = <<>>
    <2>1. UNCHANGED <<st, tries, sent, cOpen, backlog, hand, slot, bOpen, toB, toC, routed>>
      BY <1>1 DEF Pick, clientVars
    <2>2. \A x : (SpeaksInTurn(x)' <=> SpeaksInTurn(x)) /\ (Underway(x)' <=> Underway(x))
                 /\ (RoutedRight(x)' <=> RoutedRight(x))
      BY <2>1 DEF SpeaksInTurn, Speaks, Waits, Old, Now, Underway, RoutedRight
    <2>3. PlacesInv'
      BY <1>0, <2>1, SameSeats
    <2> QED
      BY <1>0, <2>1, <2>2, <2>3 DEF MessagesInv, WiresOK
  <1>2. CASE hand # <<>>
    <2>1. PICK k : k = Head(hand)
      OBVIOUS
    <2>2. hand' = Tail(hand) /\ PlaceIn(k, FreeSlots)
      BY <1>2, <2>1 DEF Pick
    <2>3. CASE FreeSlots # {}
      <3>1. PICK i : i = CHOOSE j \in FreeSlots : \A f \in FreeSlots : j <= f
        OBVIOUS
      <3>2. FreeSlots \in SUBSET Nat
        BY DEF FreeSlots, Slot
      <3>3. i \in FreeSlots
        BY <2>3, <3>1, <3>2, FirstFree, Zenon
      <3>4. i \in Slot /\ slot[i].state = "FREE"
        BY <3>3 DEF FreeSlots
      <3>5. /\ slot' = [slot EXCEPT ![i] = [@ EXCEPT !.state = "IDENTIFYING", !.fd = k,
                                                     !.since = clock, !.miss = 0]]
            /\ UNCHANGED <<bOpen, toB, toC>>
        BY <2>2, <2>3, <3>1 DEF PlaceIn
      <3> QED
        BY <1>0, <1>2, <2>1, <2>2, <3>4, <3>5, Seating DEF wireVars
    <2>4. CASE FreeSlots = {}
      <3>1. SendFrame(k, "ERROR") /\ Hangup(k) /\ slot' = slot
        BY <2>2, <2>4 DEF PlaceIn
      <3>2. /\ k \in Conn /\ Waits(k) /\ hand' \in Seq(Conn)
            /\ \A x : Waits(x)' => Waits(x) /\ x # k
            /\ \A m, n \in DOMAIN hand' : hand'[m] = hand'[n] => m = n
            /\ \A m \in DOMAIN backlog, n \in DOMAIN hand' : backlog[m] # hand'[n]
        BY <1>0, <1>2, <2>1, <2>2, HandTaken
      <3>3. Old(k) /\ \A i \in Slot : slot'[i] = slot[i] /\ slot'[i].fd # k
        BY <1>0, <3>1, <3>2 DEF PlacesInv, InSlot
      <3>4. "ERROR" \in Replies \ {"ASSIGN"}
        BY DEF Replies
      <3> QED
        BY <1>0, <3>1, <3>2, <3>3, <3>4, HangingUp
    <2> QED
      BY <2>3, <2>4
  <1> QED
    BY <1>1, <1>2

(* Every step keeps clients, wires and slots in agreement.                  *)
LEMMA WireInductive == BridgeInv /\ WireInv /\ [Next]_vars => WireInv'
  <1> SUFFICES ASSUME BridgeInv, WireInv, [Next]_vars PROVE WireInv'
    OBVIOUS
  <1>0. ClientsOK /\ WiresOK /\ PlacesInv /\ MessagesInv
    BY DEF WireInv
  <1>1. CASE UNCHANGED <<clientVars, wireVars, backlog, hand, slot, routed>>
    <2>1. UNCHANGED <<st, tries, sent, cOpen, bOpen, toB, toC, backlog, hand, slot, routed>>
      BY <1>1 DEF clientVars, wireVars
    <2>2. \A x : (SpeaksInTurn(x)' <=> SpeaksInTurn(x)) /\ (Underway(x)' <=> Underway(x))
                 /\ (RoutedRight(x)' <=> RoutedRight(x))
      BY <2>1 DEF SpeaksInTurn, Speaks, Waits, Old, Now, Underway, RoutedRight
    <2>3. PlacesInv'
      BY <1>0, <2>1, SameSeats
    <2> QED
      BY <1>0, <2>1, <2>2, <2>3 DEF WireInv, MessagesInv, WiresOK, ClientsOK
  <1>2. CASE Next /\ (WiresOK' /\ PlacesInv' /\ MessagesInv')
    BY <1>0, <1>2, ClientsStep DEF WireInv
  <1>3. CASE \E c \in Client : ClientStep(c)
    BY <1>2, <1>3, ClientWire DEF Next
  <1>4. CASE Accept
    BY <1>2, <1>4, Accepting DEF Next
  <1>5. CASE Pick
    BY <1>2, <1>5, PickingWire DEF Next, Mux
  <1>6. CASE Timers
    <2>1. UNCHANGED <<clientVars, cOpen, backlog, hand, routed>> /\ Next
      BY <1>6 DEF Timers, Next, Mux
    <2>2. CASE UNCHANGED <<slot, bOpen, toB, toC>>
      BY <1>1, <2>1, <2>2 DEF wireVars
    <2>3. CASE CloseSlot(at) /\ slot[at].state # "FREE" /\ (toC' = toC \/ SendFrame(slot[at].fd, "HEALTH_REQ"))
      BY <1>2, <2>1, <2>3, ClosingWire
    <2>4. CASE /\ slot[at].state = "CONNECTED" /\ SendFrame(slot[at].fd, "HEALTH_REQ")
               /\ slot' = [slot EXCEPT ![at].last = clock, ![at].miss = @ + 1]
               /\ UNCHANGED <<bOpen, toB>>
      BY <1>2, <2>1, <2>4, Asking
    <2> QED
      BY <1>6, <2>2, <2>3, <2>4 DEF Timers, BeatDue, IdentifyLate
  <1>7. CASE DrainEnd
    <2>1. slot[at].state # "FREE" /\ UNCHANGED <<clientVars, cOpen, toC, backlog, hand, routed>> /\ Next
      BY <1>7 DEF DrainEnd, BridgeInv, PoolInv, Next, Mux
    <2>2. CASE UNCHANGED <<slot, bOpen, toB>>
      BY <1>1, <2>1, <2>2 DEF wireVars
    <2>3. CASE CloseSlot(at)
      BY <1>2, <2>1, <2>3, ClosingWire
    <2> QED
      BY <1>7, <2>2, <2>3 DEF DrainEnd
  <1>8. CASE Drain
    BY <1>2, <1>8, DrainingWire DEF Next, Mux
  <1>9. CASE Sleep
    BY <1>1, <1>9 DEF Sleep
  <1>10. CASE UNCHANGED vars
    BY <1>1, <1>10 DEF vars, muxVars
  <1> QED
    BY <1>3, <1>4, <1>5, <1>6, <1>7, <1>8, <1>9, <1>10 DEF Next, Mux

(* At first there are no connections.                                       *)
LEMMA WireStarts == Init => WireInv
  <1> SUFFICES ASSUME Init PROVE WireInv
    OBVIOUS
  <1>1. ClientsOK
    BY SdkFacts DEF Init, ClientsOK, Status
  <1>2. WiresOK
    BY SdkFacts, EmptySeq DEF Init, WiresOK
  <1>3. /\ backlog = <<>> /\ hand = <<>> /\ \A i \in Slot : slot[i] = FREE
        /\ DOMAIN backlog = {} /\ DOMAIN hand = {}
    BY DEF Init
  <1>4. PlacesInv
    BY <1>3, ConnIsSome DEF Init, PlacesInv, Waits, InSlot
  <1>5. ASSUME NEW k \in SdkConn
        PROVE  SpeaksInTurn(k) /\ Underway(k) /\ RoutedRight(k)
    <2>1. k \in Conn /\ k[1] \in Client
      BY SdkFacts
    <2>2. /\ toB[k] = <<>> /\ toC[k] = <<>> /\ routed[k] = <<>> /\ sent[k] = 0 /\ bOpen[k] = FALSE
          /\ st[k[1]] = "down"
      BY <2>1 DEF Init
    <2>3. DOMAIN toB[k] = {} /\ DOMAIN toC[k] = {} /\ DOMAIN routed[k] = {} /\ Len(routed[k]) = 0
      BY <2>2
    <2> QED
      BY <1>3, <2>2, <2>3 DEF SpeaksInTurn, Speaks, Underway, OnTheWay, RoutedRight
  <1> QED
    BY <1>1, <1>2, <1>4, <1>5 DEF WireInv, MessagesInv

(* What an SDK client publishes is routed whole, once and in order, under   *)
(* its own endpoint: whatever the other clients do, however often it        *)
(* connects and whenever the mux serves it.                                 *)
THEOREM MessagesIntact == Spec => []SdkMessagesIntact
  <1>1. BridgeInv /\ WireInv => SdkMessagesIntact
    <2> SUFFICES ASSUME BridgeInv, WireInv, NEW k \in SdkConn, NEW n \in DOMAIN routed[k]
                 PROVE  /\ routed[k][n].msg = <<k, n>>
                        /\ routed[k][n].ep # 0
                        /\ k \in {slot[i].fd : i \in Slot} => slot[routed[k][n].ep].fd = k
      BY DEF SdkMessagesIntact, SdkConn
    <2>1. RoutedRight(k) /\ routed[k] \in Seq(Routings)
      BY DEF WireInv, MessagesInv, WiresOK
    <2>2. routed[k][n] \in Routings
      BY <2>1, LenProperties, ElementOfSeq
    <2>3. routed[k][n].ep \in Slot
      BY <2>2 DEF Routings
    <2> QED
      BY <2>1, <2>3 DEF RoutedRight, Slot
  <1> QED
    BY <1>1, PoolStarts, PoolInductive, WireStarts, WireInductive, PTL DEF Spec

-----------------------------------------------------------------------------
(* Prompt clients.                                                          *)

(* A packet of a type is on the way; the mux has asked for an answer.       *)
Arriving(k, type) == \E n \in DOMAIN toB[k] : toB[k][n].type = type
Asked(k) == \E n \in DOMAIN toC[k] : toC[k][n] = "HEALTH_REQ"

InPlace(k, state) == \E i \in Slot : slot[i].fd = k /\ slot[i].state = state
Introduces(k) == Waits(k) \/ InPlace(k, "IDENTIFYING")

(* An open client is at a point of the handshake that fits its place.       *)
HandshakeInv(k) ==
    cOpen[k] =>
        /\ k = Now(k[1]) /\ st[k[1]] # "down"
        /\ st[k[1]] = "connected" => toB[k] = <<>>
        /\ Introduces(k) => /\ toC[k] = <<>>
                            /\ \/ st[k[1]] = "connected"
                               \/ st[k[1]] = "handshake" /\ Arriving(k, "IDENTIFY")
        /\ InPlace(k, "CONNECTED") => \/ st[k[1]] \in {"up", "leaving"}
                                      \/ /\ st[k[1]] = "handshake"
                                         /\ toC[k] # <<>> /\ Head(toC[k]) = "ASSIGN"

(* The mux has not come to slot i in this pass, or is busy with it.         *)
Ahead(i) == mux = "pick" \/ (mux = "timers" /\ at <= i) \/ (mux = "drain" /\ at < i)
Busy(i) == mux = "drain" /\ at = i

(* The client identifies itself before a pass of the mux is over.           *)
IdentifiesInTime(i) ==
    slot[i].state = "IDENTIFYING" =>
        /\ slot[i].miss = 0
        /\ \/ slot[i].since = clock
           \/ /\ Ahead(i) \/ Busy(i)
              /\ Elapsed(slot[i].since) <= Lag
              /\ st[slot[i].fd[1]] = "handshake"

(* It answers a request before the mux serves its slot again.               *)
AnswersInTime(i) ==
    slot[i].state = "CONNECTED" =>
        /\ slot[i].miss \in {0, 1, 2}
        /\ slot[i].miss # 0 => Asked(slot[i].fd) \/ Arriving(slot[i].fd, "HEALTH_RSP")
        /\ Ahead(i) => slot[i].miss # 2 /\ (slot[i].miss = 1 => Arriving(slot[i].fd, "HEALTH_RSP"))
        /\ slot[i].miss = 2 => Busy(i) /\ Arriving(slot[i].fd, "HEALTH_RSP")

InTime(i) ==
    slot[i].fd \in ConnOf(Prompt) /\ cOpen[slot[i].fd] => IdentifiesInTime(i) /\ AnswersInTime(i)

PromptInv ==
    /\ \A k \in SdkConn : HandshakeInv(k)
    /\ \A i \in Slot : InTime(i)
    /\ clock \in 0 .. Wrap - 1
    /\ \A i \in Slot : slot[i].since \in 0 .. Wrap - 1

(* A prompt client's connection is an SDK client's.                         *)
LEMMA PromptConn == \A k \in ConnOf(Prompt) : k \in SdkConn /\ k[1] \in Prompt
  <1>1. ASSUME NEW k \in ConnOf(Prompt)
        PROVE  k \in SdkConn /\ k[1] \in Prompt
    <2>1. k = <<k[1], k[2]>> /\ k[1] \in Prompt /\ k[2] \in 1 .. Tries[k[1]] /\ Prompt \in SUBSET Client
      BY ConnFacts, SdkFacts
    <2>2. <<k[1], k[2]>> \in ConnOf(Sdk)
      BY <2>1, ConnIs, SdkFacts
    <2> QED
      BY <2>1, <2>2 DEF SdkConn
  <1> QED
    BY <1>1

(* What is on the way stays there until it is read.                         *)
LEMMA StillArriving ==
  ASSUME NEW k \in SdkConn, toB[k] \in Seq(Frames), NEW type, Arriving(k, type),
         \/ toB'[k] = toB[k]
         \/ \E f \in Frames : toB'[k] = Append(toB[k], f)
         \/ toB[k] # <<>> /\ Head(toB[k]).type # type /\ toB'[k] = Tail(toB[k])
  PROVE  Arriving(k, type)'
  <1>1. PICK n \in DOMAIN toB[k] : toB[k][n].type = type
    BY DEF Arriving
  <1>2. CASE toB'[k] = toB[k]
    BY <1>1, <1>2 DEF Arriving
  <1>3. CASE \E f \in Frames : toB'[k] = Append(toB[k], f)
    <2>1. PICK f \in Frames : toB'[k] = Append(toB[k], f)
      BY <1>3
    <2>2. n \in DOMAIN toB'[k] /\ toB'[k][n] = toB[k][n]
      BY <1>1, <2>1, Appended
    <2> QED
      BY <1>1, <2>2 DEF Arriving
  <1>4. CASE toB[k] # <<>> /\ Head(toB[k]).type # type /\ toB'[k] = Tail(toB[k])
    <2>1. n # 1
      BY <1>1, <1>4, Taken
    <2>2. n - 1 \in DOMAIN toB'[k] /\ toB'[k][n - 1] = toB[k][n]
      BY <1>1, <1>4, <2>1, Taken
    <2> QED
      BY <1>1, <2>2 DEF Arriving
  <1> QED
    BY <1>2, <1>3, <1>4

(* A frame that is put on an open wire arrives.                             *)
LEMMA NowArriving ==
  ASSUME WiresOK, NEW k \in SdkConn, NEW c \in Sdk, NEW type \in {"IDENTIFY", "MSG", "HEALTH_RSP"},
         NEW n \in Nat, ToBridge(k, Packets(c, type, n)), bOpen[k]
  PROVE  Arriving(k, type)' /\ \E f \in Frames : toB'[k] = Append(toB[k], f)
  <1> DEFINE f == [form |-> "frame", type |-> type, body |-> n]
  <1>1. f \in Frames /\ toB'[k] = Append(toB[k], f) /\ f.type = type
    BY PutFrame
  <1> HIDE DEF f
  <1>2. toB[k] \in Seq(Frames)
    BY DEF WiresOK
  <1>3. Len(toB[k]) + 1 \in DOMAIN toB'[k] /\ toB'[k][Len(toB[k]) + 1] = f
    BY <1>1, <1>2, Appended
  <1> QED
    BY <1>1, <1>3 DEF Arriving

(* A client on whose connection nothing happens is where it was.            *)
LEMMA HandshakeKept ==
  ASSUME NEW k, HandshakeInv(k), cOpen'[k] => cOpen[k], st'[k[1]] = st[k[1]], Now(k[1])' = Now(k[1]),
         toB'[k] = toB[k], toC'[k] = toC[k], Introduces(k)' => Introduces(k),
         InPlace(k, "CONNECTED")' => InPlace(k, "CONNECTED")
  PROVE  HandshakeInv(k)'
  <1>1. Arriving(k, "IDENTIFY")' = Arriving(k, "IDENTIFY")
    BY DEF Arriving
  <1> QED
    BY <1>1 DEF HandshakeInv

(* A client connects only after its last connection has been closed.        *)
LEMMA ConnectingAnew ==
  ASSUME WireInv, PromptInv, NEW c \in Client, Connect(c), NEW k, k = <<c, tries[c] + 1>>
  PROVE  PromptInv'
  <1>0. WiresOK /\ ClientsOK /\ PlacesInv /\ MessagesInv /\ (\A x \in SdkConn : HandshakeInv(x))
    BY DEF WireInv, PromptInv
  <1>1. /\ st[c] = "down" /\ st' = [st EXCEPT ![c] = "connected"] /\ tries' = [tries EXCEPT ![c] = @ + 1]
        /\ cOpen' = [cOpen EXCEPT ![k] = TRUE]
        /\ backlog' = Append(backlog, k)
        /\ UNCHANGED <<toB, toC, hand, slot, mux, at, clock>>
    BY DEF Connect, muxVars
  <1>2. tries[c] \in Nat /\ tries[c] + 1 \in 1 .. Tries[c] /\ tries'[c] = tries[c] + 1 /\ st'[c] = "connected"
    <2>1. tries[c] \in Nat /\ Tries[c] \in Nat /\ tries[c] < Tries[c]
      BY <1>0, SdkFacts DEF ClientsOK, Connect
    <2> QED
      BY <1>0, <1>1, <2>1 DEF ClientsOK
  <1>3. k \in Conn /\ k[1] = c /\ k[2] = tries[c] + 1
    BY <1>2, ConnIs DEF Conn
  <1>4. ~Old(k) /\ ~bOpen[k] /\ ~InSlot(k)
    <2>1. ~Old(k)
      BY <1>2, <1>3 DEF Old
    <2> QED
      BY <1>0, <1>3, <2>1 DEF PlacesInv
  <1>5. \A x : Waits(x)' => Waits(x) \/ x = k
    <2>1. \A n \in DOMAIN backlog' : (n \in DOMAIN backlog /\ backlog'[n] = backlog[n]) \/ backlog'[n] = k
      BY <1>0, <1>1, <1>3, Appended DEF WiresOK
    <2> QED
      BY <1>1, <2>1 DEF Waits
  <1>6. \A x : (InPlace(x, "IDENTIFYING")' <=> InPlace(x, "IDENTIFYING"))
               /\ (InPlace(x, "CONNECTED")' <=> InPlace(x, "CONNECTED"))
    BY <1>1 DEF InPlace
  <1>7. ASSUME NEW x \in SdkConn
        PROVE  HandshakeInv(x)'
    <2>1. x \in Conn /\ x[1] \in Client /\ x = <<x[1], x[2]>>
      BY SdkFacts
    <2>2. CASE x = k
      <3>1. Now(c)' = k
        BY <1>2 DEF Now
      <3>2. toB'[k] = <<>> /\ toC'[k] = <<>>
        BY <1>0, <1>1, <1>4, <1>7, <2>2 DEF MessagesInv, SpeaksInTurn, Underway, OnTheWay
      <3>3. ~InPlace(k, "CONNECTED")'
        BY <1>4, <1>6 DEF InPlace, InSlot
      <3> QED
        BY <1>2, <1>3, <2>2, <3>1, <3>2, <3>3 DEF HandshakeInv
    <2>3. CASE x[1] = c /\ x # k
      <3>1. ~cOpen[x]
        BY <1>0, <1>1, <1>7, <2>3 DEF HandshakeInv
      <3>2. cOpen'[x] = cOpen[x]
        BY <1>0, <1>1, <2>1, <2>3 DEF WiresOK
      <3> QED
        BY <3>1, <3>2 DEF HandshakeInv
    <2>4. CASE x[1] # c
      <3>1. x # k /\ cOpen'[x] = cOpen[x] /\ st'[x[1]] = st[x[1]] /\ Now(x[1])' = Now(x[1])
        BY <1>0, <1>1, <1>3, <2>1, <2>4 DEF WiresOK, ClientsOK, Now
      <3>2. Introduces(x)' => Introduces(x)
        BY <1>5, <1>6, <3>1 DEF Introduces
      <3> QED
        BY <1>0, <1>1, <1>6, <1>7, <3>1, <3>2, HandshakeKept
    <2> QED
      BY <2>2, <2>3, <2>4
  <1>8. ASSUME NEW i \in Slot
        PROVE  InTime(i)'
    <2>1. CASE slot[i].fd \in ConnOf(Prompt)
      <3>1. PICK x : x = slot[i].fd
        OBVIOUS
      <3>2. x \in Conn /\ x \in SdkConn /\ x # k /\ x[1] \in Client
        BY <1>4, <2>1, <3>1, PromptConn, SdkFacts DEF InSlot
      <3>3. cOpen'[x] = cOpen[x]
        BY <1>0, <1>1, <3>2 DEF WiresOK
      <3>4. cOpen[x] => x[1] # c
        BY <1>0, <1>1, <3>2 DEF HandshakeInv
      <3>5. cOpen[x] => st'[x[1]] = st[x[1]]
        BY <1>0, <1>1, <3>2, <3>4 DEF ClientsOK
      <3>6. /\ Ahead(i)' = Ahead(i) /\ Busy(i)' = Busy(i) /\ Asked(x)' = Asked(x)
            /\ Arriving(x, "HEALTH_RSP")' = Arriving(x, "HEALTH_RSP")
            /\ Elapsed(slot[i].since)' = Elapsed(slot[i].since)
        BY <1>1 DEF Ahead, Busy, Asked, Arriving, Elapsed
      <3>7. cOpen[x] => IdentifiesInTime(i) /\ AnswersInTime(i)
        BY <2>1, <3>1 DEF PromptInv, InTime
      <3>8. cOpen[x] => IdentifiesInTime(i)'
        BY <1>1, <3>1, <3>5, <3>6, <3>7 DEF IdentifiesInTime
      <3>9. cOpen[x] => AnswersInTime(i)'
        BY <1>1, <3>1, <3>6, <3>7 DEF AnswersInTime
      <3> QED
        BY <1>1, <3>1, <3>3, <3>8, <3>9 DEF InTime
    <2>2. CASE slot[i].fd \notin ConnOf(Prompt)
      BY <1>1, <2>2 DEF InTime
    <2> QED
      BY <2>1, <2>2
  <1> QED
    BY <1>1, <1>7, <1>8 DEF PromptInv

(* What an SDK client does about its own connection: it keeps to the        *)
(* handshake, loses no request and withdraws no answer.                     *)
LEMMA OwnHandshake ==
  ASSUME BridgeInv, WireInv, NEW c \in Sdk, ClientStep(c), ~Connect(c), NEW k, k = Now(c), HandshakeInv(k)
  PROVE  /\ HandshakeInv(k)'
         /\ cOpen'[k] => cOpen[k]
         /\ cOpen'[k] /\ InSlot(k) =>
               /\ Arriving(k, "HEALTH_RSP") => Arriving(k, "HEALTH_RSP")'
               /\ Asked(k) => Asked(k)' \/ Arriving(k, "HEALTH_RSP")'
               /\ InPlace(k, "IDENTIFYING") /\ st[c] = "handshake" => st'[c] = "handshake"
  <1>0. /\ ClientsOK /\ WiresOK /\ PlacesInv /\ c \in Client /\ st[c] # "down"
        /\ UNCHANGED <<tries, bOpen, backlog, hand, muxVars>>
    BY ClientLocal, SdkFacts DEF WireInv
  <1>1. /\ k \in SdkConn /\ k \in Conn /\ k[1] = c
        /\ toB[k] \in Seq(Frames) /\ toC[k] \in Seq(Replies) /\ st' = [st EXCEPT ![c] = st'[c]]
        /\ Now(c)' = k
    <2>1. k \in SdkConn /\ k \in Conn /\ k[1] = c
      BY <1>0, NowFacts
    <2>2. st' = [st EXCEPT ![c] = st'[c]]
      BY <1>0 DEF ClientStep, SendIdentify, Handshake, Publish, Subscribe, SdkReceive, CApiReceive,
                  SdkDisconnect, Quit, clientVars, ClientsOK
    <2> QED
      BY <1>0, <2>1, <2>2 DEF WiresOK, Now
  <1>2. slot' = slot /\ c \notin CApi
    BY <1>0, BridgeAssumption DEF muxVars, BridgeAssumption
  <1>3. /\ Introduces(k)' = Introduces(k) /\ InPlace(k, "CONNECTED")' = InPlace(k, "CONNECTED")
        /\ Introduces(k) \/ InSlot(k) => bOpen[k]
    BY <1>0, <1>1, <1>2 DEF Introduces, InPlace, Waits, InSlot, PlacesInv
  <1>4. ASSUME cOpen'[k] = cOpen[k], toC'[k] = toC[k], st'[c] = st[c], toB' = toB
        PROVE  HandshakeInv(k)'
    BY <1>1, <1>3, <1>4, HandshakeKept
  <1>5. CASE SendIdentify(c)
    <2>1. cOpen' = cOpen /\ toC' = toC /\ st[c] = "connected" /\ st'[c] = "handshake"
      BY <1>0, <1>5 DEF SendIdentify, ClientsOK
    <2>2. bOpen[k] => Arriving(k, "IDENTIFY")' /\ \E f \in Frames : toB'[k] = Append(toB[k], f)
      BY <1>0, <1>1, <1>5, NowArriving DEF SendIdentify
    <2>3. HandshakeInv(k)'
      BY <1>1, <1>3, <2>1, <2>2 DEF HandshakeInv
    <2>4. Arriving(k, "HEALTH_RSP") /\ bOpen[k] => Arriving(k, "HEALTH_RSP")'
      BY <1>1, <2>2, StillArriving
    <2>5. Asked(k) => Asked(k)'
      BY <2>1 DEF Asked
    <2> QED
      BY <1>3, <2>1, <2>3, <2>4, <2>5
  <1>6. CASE Handshake(c)
    <2>1. /\ cOpen' = cOpen /\ toB' = toB /\ st[c] = "handshake"
          /\ toC'[k] = (IF toC[k] = <<>> THEN <<>> ELSE Tail(toC[k]))
          /\ toC[k] # <<>> \/ ~bOpen[k]
          /\ toC[k] # <<>> /\ Head(toC[k]) = "ASSIGN" => st'[c] = "up"
          /\ st'[c] \in {"up", "gone"}
      BY <1>0, <1>1, <1>2, <1>6 DEF Handshake, ClientsOK, WiresOK
    <2>2. cOpen[k] => ~Introduces(k)
      BY <1>1, <1>3, <2>1 DEF HandshakeInv
    <2>3. HandshakeInv(k)'
      BY <1>1, <1>3, <2>1, <2>2 DEF HandshakeInv
    <2>4. Arriving(k, "HEALTH_RSP") => Arriving(k, "HEALTH_RSP")'
      BY <2>1 DEF Arriving
    <2>5. cOpen[k] /\ InSlot(k) /\ Asked(k) => Asked(k)'
      <3> SUFFICES ASSUME cOpen[k], InSlot(k), Asked(k) PROVE Asked(k)'
        OBVIOUS
      <3>1. toC[k] # <<>>
        BY <1>3, <2>1
      <3>2. InPlace(k, "CONNECTED") \/ InPlace(k, "IDENTIFYING")
        <4>1. PICK i \in Slot : slot[i].fd = k
          BY DEF InSlot
        <4>2. slot[i].state \in {"IDENTIFYING", "CONNECTED"}
          BY <1>0, <1>1, <4>1, ConnIsSome DEF PlacesInv, BridgeInv, PoolInv, OwnEndpoint
        <4> QED
          BY <4>1, <4>2 DEF InPlace
      <3>3. Head(toC[k]) = "ASSIGN"
        BY <1>1, <2>1, <2>2, <3>2 DEF HandshakeInv, Introduces
      <3>4. PICK n \in DOMAIN toC[k] : toC[k][n] = "HEALTH_REQ"
        BY DEF Asked
      <3>5. n - 1 \in DOMAIN toC'[k] /\ toC'[k][n - 1] = toC[k][n]
        BY <1>1, <2>1, <3>1, <3>3, <3>4, Taken
      <3> QED
        BY <3>4, <3>5 DEF Asked
    <2>6. InPlace(k, "IDENTIFYING") => ~cOpen[k]
      BY <2>2 DEF Introduces
    <2> QED
      BY <2>1, <2>3, <2>4, <2>5, <2>6
  <1>7. CASE Publish(c)
    <2>1. cOpen' = cOpen /\ toC' = toC /\ st[c] = "up" /\ st'[c] = "up"
      BY <1>7 DEF Publish
    <2>2. sent[k] + 1 \in Nat
      BY <1>0, <1>1 DEF ClientsOK
    <2>3. bOpen[k] => \E f \in Frames : toB'[k] = Append(toB[k], f)
      BY <1>0, <1>1, <1>7, <2>2, NowArriving DEF Publish
    <2>4. HandshakeInv(k)'
      BY <1>1, <1>3, <2>1 DEF HandshakeInv
    <2>5. Arriving(k, "HEALTH_RSP") /\ bOpen[k] => Arriving(k, "HEALTH_RSP")'
      BY <1>1, <2>3, StillArriving
    <2>6. Asked(k) => Asked(k)'
      BY <2>1 DEF Asked
    <2> QED
      BY <1>3, <2>1, <2>4, <2>5, <2>6
  <1>8. CASE SdkReceive(c)
    <2>1. CASE toC[k] # <<>> /\ st[c] = "up"
      <3>1. /\ toC'[k] = Tail(toC[k]) /\ st' = st /\ cOpen' = cOpen
            /\ IF Head(toC[k]) = "HEALTH_REQ" THEN ToBridge(k, Packets(c, "HEALTH_RSP", 0)) ELSE toB' = toB
        BY <1>0, <1>1, <1>8, <2>1 DEF SdkReceive, WiresOK
      <3>2. HandshakeInv(k)'
        BY <1>1, <1>3, <2>1, <3>1 DEF HandshakeInv
      <3>3. bOpen[k] /\ Head(toC[k]) = "HEALTH_REQ" =>
              Arriving(k, "HEALTH_RSP")' /\ \E f \in Frames : toB'[k] = Append(toB[k], f)
        BY <1>0, <1>1, <3>1, NowArriving
      <3>4. bOpen[k] /\ Arriving(k, "HEALTH_RSP") => Arriving(k, "HEALTH_RSP")'
        BY <1>1, <3>1, <3>3, StillArriving
      <3>5. Asked(k) /\ Head(toC[k]) # "HEALTH_REQ" => Asked(k)'
        <4> SUFFICES ASSUME Asked(k), Head(toC[k]) # "HEALTH_REQ" PROVE Asked(k)'
          OBVIOUS
        <4>1. PICK n \in DOMAIN toC[k] : toC[k][n] = "HEALTH_REQ"
          BY DEF Asked
        <4>2. n - 1 \in DOMAIN toC'[k] /\ toC'[k][n - 1] = toC[k][n]
          BY <1>1, <2>1, <3>1, <4>1, Taken
        <4> QED
          BY <4>1, <4>2 DEF Asked
      <3> QED
        BY <1>3, <3>1, <3>2, <3>3, <3>4, <3>5
    <2>2. CASE ~(toC[k] # <<>> /\ st[c] = "up")
      <3>1. ~cOpen'[k] /\ cOpen'[k] = FALSE
        BY <1>0, <1>1, <1>8, <2>2 DEF SdkReceive, WiresOK
      <3> QED
        BY <3>1 DEF HandshakeInv
    <2> QED
      BY <2>1, <2>2
  <1>9. CASE SdkDisconnect(c)
    <2>1. cOpen' = cOpen /\ toC' = toC /\ toB' = toB /\ st[c] = "up" /\ st'[c] = "leaving"
      BY <1>0, <1>9 DEF SdkDisconnect, wireVars, ClientsOK
    <2>2. HandshakeInv(k)'
      BY <1>1, <1>3, <2>1 DEF HandshakeInv
    <2> QED
      BY <2>1, <2>2 DEF Asked, Arriving
  <1>10. CASE Quit(c)
    <2>1. ~cOpen'[k] /\ cOpen'[k] = FALSE
      BY <1>0, <1>1, <1>10 DEF Quit, WiresOK
    <2> QED
      BY <2>1 DEF HandshakeInv
  <1> QED
    BY <1>2, <1>5, <1>6, <1>7, <1>8, <1>9, <1>10 DEF ClientStep, Subscribe, CApiReceive

(* Whatever a client does, prompt clients stay in time.                     *)
LEMMA ClientPrompt ==
  ASSUME BridgeInv, WireInv, PromptInv, NEW c \in Client, ClientStep(c)
  PROVE  PromptInv'
  <1> SUFFICES ASSUME ~Connect(c)
               PROVE  PromptInv'
    <2>1. PICK k : k = <<c, tries[c] + 1>>
      OBVIOUS
    <2> QED
      BY <2>1, ConnectingAnew
  <1>0. WiresOK /\ ClientsOK /\ PlacesInv /\ (\A x \in SdkConn : HandshakeInv(x))
    BY DEF WireInv, PromptInv
  <1>1. /\ UNCHANGED <<tries, bOpen, backlog, hand, muxVars>>
        /\ st[c] # "down" /\ Now(c) \in Conn
        /\ \A k \in Conn \ {Now(c)} : /\ toB'[k] = toB[k] /\ toC'[k] = toC[k]
                                      /\ sent'[k] = sent[k] /\ cOpen'[k] = cOpen[k]
        /\ \A d \in Client \ {c} : st'[d] = st[d]
    BY <1>0, ClientLocal
  <1>2. UNCHANGED <<slot, mux, at, clock>>
    BY <1>1 DEF muxVars
  <1>3. \A x : /\ Introduces(x)' <=> Introduces(x)
               /\ InPlace(x, "CONNECTED")' <=> InPlace(x, "CONNECTED")
    BY <1>1, <1>2 DEF Introduces, InPlace, Waits
  <1>4. ASSUME NEW x \in SdkConn, x # Now(c)
        PROVE  HandshakeInv(x)'
    <2>1. x \in Conn /\ x[1] \in Client /\ HandshakeInv(x)
      BY <1>0, SdkFacts
    <2>2. x[1] # c => st'[x[1]] = st[x[1]]
      BY <1>1, <2>1
    <2>3. Now(x[1])' = Now(x[1])
      BY <1>1 DEF Now
    <2>4. CASE x[1] = c
      <3>1. ~cOpen'[x]
        BY <1>1, <1>4, <2>1, <2>4 DEF HandshakeInv
      <3> QED
        BY <3>1 DEF HandshakeInv
    <2>5. CASE x[1] # c
      BY <1>1, <1>3, <1>4, <2>1, <2>2, <2>3, <2>5, HandshakeKept
    <2> QED
      BY <2>4, <2>5
  <1>5. PICK k : k = Now(c)
    OBVIOUS
  <1>6. ASSUME k \in SdkConn
        PROVE  /\ HandshakeInv(k)'
               /\ cOpen'[k] => cOpen[k]
               /\ cOpen'[k] /\ InSlot(k) =>
                     /\ Arriving(k, "HEALTH_RSP") => Arriving(k, "HEALTH_RSP")'
                     /\ Asked(k) => Asked(k)' \/ Arriving(k, "HEALTH_RSP")'
                     /\ InPlace(k, "IDENTIFYING") /\ st[c] = "handshake" => st'[c] = "handshake"
    <2>1. c \in Sdk /\ HandshakeInv(k)
      BY <1>0, <1>1, <1>5, <1>6, NowFacts
    <2> QED
      BY <1>0, <1>5, <2>1, OwnHandshake
  <1>7. ASSUME NEW i \in Slot
        PROVE  InTime(i)'
    <2> SUFFICES ASSUME slot[i].fd \in ConnOf(Prompt), cOpen'[slot[i].fd]
                 PROVE  IdentifiesInTime(i)' /\ AnswersInTime(i)'
      BY <1>2 DEF InTime
    <2>1. PICK x : x = slot[i].fd
      OBVIOUS
    <2>2. x \in SdkConn /\ x \in Conn /\ x[1] \in Client /\ InSlot(x)
          /\ (slot[i].state = "IDENTIFYING" => InPlace(x, "IDENTIFYING"))
      BY <2>1, PromptConn, SdkFacts DEF InSlot, InPlace
    <2>3. /\ cOpen[x]
          /\ Arriving(x, "HEALTH_RSP") => Arriving(x, "HEALTH_RSP")'
          /\ Asked(x) => Asked(x)' \/ Arriving(x, "HEALTH_RSP")'
          /\ slot[i].state = "IDENTIFYING" /\ st[x[1]] = "handshake" => st'[x[1]] = "handshake"
      <3>1. CASE x = k
        <4>1. x[1] = c
          BY <1>0, <1>1, <1>5, <3>1, NowFacts
        <4> QED
          BY <1>6, <2>1, <2>2, <3>1, <4>1
      <3>2. CASE x # k
        <4>1. cOpen[x] /\ toB'[x] = toB[x] /\ toC'[x] = toC[x]
          BY <1>1, <1>5, <2>1, <2>2, <3>2
        <4>2. x[1] # c
          BY <1>0, <1>5, <2>2, <3>2, <4>1 DEF HandshakeInv
        <4> QED
          BY <1>1, <2>2, <4>1, <4>2 DEF Arriving, Asked
      <3> QED
        BY <3>1, <3>2
    <2>4. IdentifiesInTime(i) /\ AnswersInTime(i)
      BY <2>1, <2>3 DEF PromptInv, InTime
    <2>5. Ahead(i)' = Ahead(i) /\ Busy(i)' = Busy(i) /\ Elapsed(slot[i].since)' = Elapsed(slot[i].since)
      BY <1>2 DEF Ahead, Busy, Elapsed
    <2>6. IdentifiesInTime(i)'
      BY <1>2, <2>1, <2>3, <2>4, <2>5 DEF IdentifiesInTime
    <2>7. AnswersInTime(i)'
      BY <1>2, <2>1, <2>3, <2>4, <2>5 DEF AnswersInTime
    <2> QED
      BY <2>6, <2>7
  <1>8. \A x \in SdkConn : HandshakeInv(x)'
    BY <1>4, <1>5, <1>6
  <1> QED
    BY <1>2, <1>7, <1>8 DEF PromptInv

(* The listener keeps whom it takes waiting, or lets go of it.              *)
LEMMA AcceptPrompt ==
  ASSUME WireInv, PromptInv, Accept
  PROVE  PromptInv'
  <1>1. UNCHANGED <<st, tries, cOpen, bOpen, toB, toC, slot, mux, at, clock>>
    BY DEF Accept, clientVars, wireVars, muxVars
  <1>2. \A x : Waits(x)' => Waits(x)
    BY Handing DEF WireInv
  <1>3. \A x : InPlace(x, "IDENTIFYING")' = InPlace(x, "IDENTIFYING")
               /\ InPlace(x, "CONNECTED")' = InPlace(x, "CONNECTED")
               /\ Arriving(x, "HEALTH_RSP")' = Arriving(x, "HEALTH_RSP") /\ Asked(x)' = Asked(x)
    BY <1>1 DEF InPlace, Arriving, Asked
  <1>4. \A x \in SdkConn : HandshakeInv(x)'
    <2>1. \A x : Now(x[1])' = Now(x[1]) /\ (Introduces(x)' => Introduces(x))
      BY <1>1, <1>2, <1>3 DEF Now, Introduces
    <2> QED
      BY <1>1, <1>3, <2>1, HandshakeKept DEF PromptInv
  <1>5. \A i \in Slot : InTime(i)'
    <2>1. \A i \in Slot : Ahead(i)' = Ahead(i) /\ Busy(i)' = Busy(i)
                          /\ Elapsed(slot[i].since)' = Elapsed(slot[i].since)
      BY <1>1 DEF Ahead, Busy, Elapsed
    <2>2. \A i \in Slot : IdentifiesInTime(i)' = IdentifiesInTime(i)
      BY <1>1, <2>1 DEF IdentifiesInTime
    <2>3. \A i \in Slot : AnswersInTime(i)' = AnswersInTime(i)
      BY <1>1, <1>3, <2>1 DEF AnswersInTime
    <2> QED
      BY <1>1, <2>2, <2>3 DEF InTime, PromptInv
  <1> QED
    BY <1>1, <1>4, <1>5 DEF PromptInv

-----------------------------------------------------------------------------
(* The mux and prompt clients.                                              *)

(* The clock wraps, and so does a lapse of time.                            *)
LEMMA LapseIs ==
  ASSUME NEW a \in 0 .. Wrap - 1, NEW d \in 0 .. Lag
  PROVE  (a + d) % Wrap \in 0 .. Wrap - 1 /\ (((a + d) % Wrap) - a) % Wrap = d
  <1>1. Wrap \in Nat \ {0} /\ Lag \in Nat /\ d \in Nat /\ d < Wrap /\ a \in Nat /\ a < Wrap
    <2>1. Wrap \in Nat \ {0} /\ Lag \in Nat /\ IdentifyTo \in Nat /\ IdentifyTo + Lag < Wrap
      BY BridgeAssumption DEF BridgeAssumption
    <2> QED
      BY <2>1
  <1>2. CASE a + d < Wrap
    <2>1. (a + d) % Wrap = a + d
      BY <1>1, <1>2
    <2>2. (a + d) - a = d /\ d % Wrap = d
      BY <1>1
    <2> QED
      BY <1>1, <1>2, <2>1, <2>2
  <1>3. CASE a + d >= Wrap
    <2>1. (a + d) % Wrap = a + d - Wrap
      BY <1>1, <1>3
    <2>2. (a + d - Wrap) - a = d - Wrap /\ (d - Wrap) % Wrap = d
      BY <1>1
    <2> QED
      BY <1>1, <1>3, <2>1, <2>2
  <1> QED
    BY <1>1, <1>2, <1>3

(* When the mux serves a slot the others' clients are where they were.      *)
LEMMA OneServed ==
  ASSUME BridgeInv, WireInv, PromptInv, mux \in {"timers", "drain"},
         UNCHANGED <<clientVars, cOpen, clock, backlog, hand>>, NEW k, k = slot[at].fd, NEW n, n = at,
         \A x \in Conn \ {k} : toB'[x] = toB[x] /\ toC'[x] = toC[x],
         \A i \in Slot \ {at} : slot'[i] = slot[i],
         slot'[at].fd \in {k, None}, slot'[at].since \in 0 .. Wrap - 1,
         NextSlot \/ (mux' = "drain" /\ at' = at),
         k \in SdkConn => HandshakeInv(k)', slot'[n].fd = k => InTime(n)'
  PROVE  PromptInv'
  <1>0. /\ PlacesInv /\ at \in Slot /\ UNCHANGED <<st, tries, cOpen>>
        /\ \A x \in SdkConn : HandshakeInv(x)
    BY DEF WireInv, BridgeInv, PoolInv, clientVars, PlacesInv, PromptInv
  <1>1. ASSUME NEW x \in SdkConn, x # k
        PROVE  HandshakeInv(x)'
    <2>1. x \in Conn
      BY SdkFacts
    <2>2. \A i \in Slot : slot'[i].fd = x => slot'[i] = slot[i]
      BY <1>1, <2>1, ConnIsSome
    <2>3. Introduces(x)' => Introduces(x)
      BY <2>2 DEF Introduces, Waits, InPlace
    <2>4. InPlace(x, "CONNECTED")' => InPlace(x, "CONNECTED")
      BY <2>2 DEF InPlace
    <2> QED
      BY <1>0, <1>1, <2>1, <2>3, <2>4, HandshakeKept DEF Now
  <1>2. ASSUME NEW i \in Slot, i # at
        PROVE  InTime(i)'
    <2>1. CASE slot[i].fd \in ConnOf(Prompt)
      <3>1. PICK x : x = slot[i].fd
        OBVIOUS
      <3>2. x \in Conn /\ x # k
        BY <1>0, <1>2, <2>1, <3>1, PromptConn, SdkFacts, ConnIsSome DEF PlacesInv
      <3>3. slot'[i] = slot[i] /\ toB'[x] = toB[x] /\ toC'[x] = toC[x]
        BY <1>2, <3>2
      <3>4. Ahead(i)' = Ahead(i) /\ Busy(i)' = Busy(i)
        <4>1. at \in 1 .. MaxSlots /\ i \in 1 .. MaxSlots /\ MaxSlots \in Nat
          BY <1>0, PoolSize DEF Slot
        <4>2. Ahead(i) = (at < i) /\ Busy(i) = FALSE
          BY <1>2, <4>1 DEF Ahead, Busy
        <4>3. CASE NextSlot
          BY <1>2, <4>1, <4>2, <4>3 DEF NextSlot, Ahead, Busy
        <4>4. CASE mux' = "drain" /\ at' = at
          BY <1>2, <4>1, <4>2, <4>4 DEF Ahead, Busy
        <4> QED
          BY <4>3, <4>4
      <3>5. /\ Arriving(x, "HEALTH_RSP")' = Arriving(x, "HEALTH_RSP") /\ Asked(x)' = Asked(x)
            /\ Elapsed(slot[i].since)' = Elapsed(slot[i].since)
        BY <3>3 DEF Arriving, Asked, Elapsed
      <3>6. IdentifiesInTime(i)' = IdentifiesInTime(i)
        BY <1>0, <3>3, <3>4, <3>5 DEF IdentifiesInTime
      <3>7. AnswersInTime(i)' = AnswersInTime(i)
        BY <3>1, <3>3, <3>4, <3>5 DEF AnswersInTime
      <3> QED
        BY <1>0, <3>3, <3>6, <3>7 DEF InTime, PromptInv
    <2>2. CASE slot[i].fd \notin ConnOf(Prompt)
      BY <1>2, <2>2 DEF InTime
    <2> QED
      BY <2>1, <2>2
  <1>3. InTime(n)'
    <2>1. None \notin ConnOf(Prompt)
      BY PromptConn, SdkFacts, ConnIsSome
    <2>2. CASE slot'[n].fd = None
      BY <2>1, <2>2 DEF InTime
    <2> QED
      BY <2>2
  <1>4. clock' \in 0 .. Wrap - 1 /\ \A i \in Slot : slot'[i].since \in 0 .. Wrap - 1
    BY DEF PromptInv
  <1>5. \A i \in Slot : InTime(i)'
    BY <1>2, <1>3
  <1> QED
    BY <1>1, <1>4, <1>5 DEF PromptInv

(* The mux does not hang up on a prompt client for being late.              *)
LEMMA NotTooLate ==
  ASSUME Lag <= IdentifyTo, PromptInv, at \in Slot, mux = "timers",
         slot[at].fd \in ConnOf(Prompt), cOpen[slot[at].fd]
  PROVE  /\ ~IdentifyLate(slot[at])
         /\ slot[at].state = "CONNECTED" => slot[at].miss \in {0, 1}
  <1>1. IdentifiesInTime(at) /\ AnswersInTime(at) /\ clock \in 0 .. Wrap - 1
    BY DEF PromptInv, InTime
  <1>2. Lag \in Nat /\ IdentifyTo \in Nat /\ Wrap \in Nat \ {0} /\ at \in Nat
    BY BridgeAssumption DEF BridgeAssumption, Slot
  <1>3. Ahead(at) /\ ~Busy(at)
    BY <1>2 DEF Ahead, Busy
  <1>4. Elapsed(slot[at].since) \in Nat
    <2>1. slot[at].since \in 0 .. Wrap - 1
      BY DEF PromptInv
    <2> QED
      BY <1>1, <1>2, <2>1 DEF Elapsed
  <1>5. slot[at].state = "IDENTIFYING" => Elapsed(slot[at].since) <= IdentifyTo
    <2>1. CASE slot[at].since = clock
      <3>1. clock - clock = 0 /\ 0 % Wrap = 0
        BY <1>1, <1>2
      <3> QED
        BY <1>2, <2>1, <3>1 DEF Elapsed
    <2>2. CASE Elapsed(slot[at].since) <= Lag
      BY <1>2, <1>4, <2>2
    <2> QED
      BY <1>1, <2>1, <2>2 DEF IdentifiesInTime
  <1> QED
    BY <1>1, <1>2, <1>3, <1>4, <1>5 DEF AnswersInTime, IdentifyLate

(* A connection has one place.                                              *)
LEMMA OnePlace ==
  ASSUME BridgeInv, WireInv, NEW k \in Conn, k = slot[at].fd
  PROVE  /\ ~Waits(k) /\ \A i \in Slot : slot[i].fd = k => i = at
         /\ slot[at].state \in {"IDENTIFYING", "CONNECTED"} /\ at \in Slot
         /\ Introduces(k) <=> slot[at].state = "IDENTIFYING"
         /\ InPlace(k, "CONNECTED") <=> slot[at].state = "CONNECTED"
  <1>1. PlacesInv /\ at \in Slot /\ OwnEndpoint(slot[at], at) /\ k # None
    BY ConnIsSome DEF WireInv, BridgeInv, PoolInv
  <1>2. ~Waits(k) /\ \A i \in Slot : slot[i].fd = k => i = at
    BY <1>1 DEF PlacesInv, InSlot
  <1>3. slot[at].state \in {"IDENTIFYING", "CONNECTED"}
    BY <1>1 DEF PlacesInv, OwnEndpoint
  <1> QED
    BY <1>1, <1>2, <1>3 DEF Introduces, InPlace

(* A closed connection is in no place.                                      *)
LEMMA ClosingPrompt ==
  ASSUME BridgeInv, WireInv, PromptInv, mux \in {"timers", "drain"}, slot[at].state # "FREE",
         CloseSlot(at), NextSlot, UNCHANGED <<clientVars, cOpen, clock, backlog, hand>>,
         toC' = toC \/ SendFrame(slot[at].fd, "HEALTH_REQ")
  PROVE  PromptInv'
  <1>0. /\ WiresOK /\ PlacesInv /\ at \in Slot /\ DOMAIN slot = Slot /\ UNCHANGED <<st, tries, cOpen>>
        /\ Wrap \in Nat \ {0}
    BY BridgeAssumption DEF WireInv, BridgeInv, PoolInv, clientVars, BridgeAssumption
  <1>1. PICK k : k = slot[at].fd
    OBVIOUS
  <1>2. PICK n : n = at
    OBVIOUS
  <1>3. k \in Conn /\ k # None
    BY <1>0, <1>1, ConnIsSome DEF PlacesInv
  <1>4. slot' = [slot EXCEPT ![at] = FREE] /\ toB' = [toB EXCEPT ![k] = <<>>]
    BY <1>1 DEF CloseSlot, Cleared, Hangup
  <1>5. /\ toB'[k] = <<>> /\ slot'[at] = FREE /\ slot'[at].fd = None /\ slot'[at].since = 0
        /\ \A i \in Slot \ {at} : slot'[i] = slot[i]
        /\ \A x \in Conn \ {k} : toB'[x] = toB[x]
    BY <1>0, <1>3, <1>4 DEF WiresOK, FREE
  <1>6. \A x \in Conn \ {k} : toC'[x] = toC[x]
    <2>1. "HEALTH_REQ" \in Replies
      BY DEF Replies
    <2> QED
      BY <1>0, <1>1, <1>3, <2>1, FrameSent
  <1>7. k \in SdkConn => HandshakeInv(k)'
    <2>1. ~Waits(k)' /\ \A i \in Slot : slot'[i].fd # k
      BY <1>0, <1>1, <1>3, <1>5, OnePlace DEF Waits
    <2>2. ~Introduces(k)' /\ ~InPlace(k, "CONNECTED")'
      BY <2>1 DEF Introduces, InPlace
    <2> QED
      BY <1>0, <1>5, <2>2 DEF PromptInv, HandshakeInv, Now
  <1>8. 0 \in 0 .. Wrap - 1
    BY <1>0
  <1> QED
    BY <1>1, <1>2, <1>3, <1>5, <1>6, <1>7, <1>8, OneServed

(* The first frame stays the first.                                         *)
LEMMA FirstStays ==
  ASSUME NEW S, NEW q \in Seq(S), NEW x \in S
  PROVE  /\ q # <<>> => Append(q, x) # <<>> /\ Head(Append(q, x)) = Head(q)
         /\ q = <<>> => Append(q, x) # <<>> /\ Head(Append(q, x)) = x
  <1>1. Append(q, x) \in Seq(S) /\ Append(q, x) # <<>> /\ Len(q) \in Nat
    BY Appended
  <1>2. Head(Append(q, x)) = Append(q, x)[1]
    BY <1>1, Taken
  <1>3. CASE q # <<>>
    BY <1>1, <1>2, <1>3, Taken, Appended
  <1>4. CASE q = <<>>
    <2>1. Len(q) + 1 = 1
      BY <1>4
    <2> QED
      BY <1>1, <1>2, <1>4, <2>1, Appended
  <1> QED
    BY <1>3, <1>4

(* A request for an answer leaves a prompt client a pass to answer it.      *)
LEMMA AskingPrompt ==
  ASSUME BridgeInv, WireInv, PromptInv, mux = "timers", slot[at].state = "CONNECTED",
         mux' = "drain",
         UNCHANGED <<clientVars, cOpen, clock, backlog, hand, toB, at>>,
         SendFrame(slot[at].fd, "HEALTH_REQ"),
         slot' = [slot EXCEPT ![at].last = clock, ![at].miss = @ + 1]
  PROVE  PromptInv'
  <1>0. /\ WiresOK /\ PlacesInv /\ at \in Slot /\ DOMAIN slot = Slot /\ UNCHANGED <<st, tries, cOpen>>
        /\ OwnEndpoint(slot[at], at) /\ "HEALTH_REQ" \in Replies
    BY DEF WireInv, BridgeInv, PoolInv, clientVars, Replies
  <1>1. PICK k : k = slot[at].fd
    OBVIOUS
  <1>2. PICK n : n = at
    OBVIOUS
  <1>3. k \in Conn /\ k # None
    BY <1>0, <1>1, ConnIsSome DEF PlacesInv
  <1>4. \A i \in Slot \ {at} : slot'[i] = slot[i]
    BY <1>0
  <1>5. /\ slot'[at].fd = k /\ slot'[at].state = "CONNECTED" /\ slot'[at].since = slot[at].since
        /\ slot'[at].miss = slot[at].miss + 1
    <2>1. slot'[at] = [slot[at] EXCEPT !.last = clock, !.miss = @ + 1]
      BY <1>0
    <2> QED
      BY <1>0, <1>1, <2>1 DEF OwnEndpoint, Fields
  <1>6. /\ \A x \in Conn \ {k} : toC'[x] = toC[x]
        /\ toC'[k] = IF cOpen[k] THEN Append(toC[k], "HEALTH_REQ") ELSE toC[k]
    BY <1>0, <1>1, <1>3, FrameSent
  <1>7. ~Introduces(k) /\ InPlace(k, "CONNECTED") /\ ~Waits(k) /\ (\A i \in Slot : slot[i].fd = k => i = at)
    BY <1>1, <1>3, OnePlace
  <1>8. ASSUME k \in SdkConn
        PROVE  HandshakeInv(k)'
    <2>1. ~Introduces(k)'
      BY <1>0, <1>4, <1>5, <1>7 DEF Introduces, Waits, InPlace
    <2>2. cOpen[k] /\ toC[k] # <<>> => toC'[k] # <<>> /\ Head(toC'[k]) = Head(toC[k])
      <3>1. toC[k] \in Seq(Replies)
        BY <1>0, <1>8 DEF WiresOK
      <3>2. toC[k] # <<>> => /\ Append(toC[k], "HEALTH_REQ") # <<>>
                             /\ Head(Append(toC[k], "HEALTH_REQ")) = Head(toC[k])
        BY <1>0, <3>1, FirstStays
      <3> QED
        BY <1>6, <3>2
    <2> QED
      BY <1>0, <1>7, <1>8, <2>1, <2>2 DEF PromptInv, HandshakeInv, Now
  <1>9. InTime(n)'
    <2> SUFFICES ASSUME k \in ConnOf(Prompt), cOpen[k]
                 PROVE  IdentifiesInTime(n)' /\ AnswersInTime(n)'
      BY <1>0, <1>2, <1>5 DEF InTime
    <2>1. AnswersInTime(at) /\ at \in Nat
      BY <1>0, <1>1 DEF PromptInv, InTime, Slot
    <2>2. Ahead(at) /\ ~Ahead(n)' /\ Busy(n)'
      BY <1>2, <2>1 DEF Ahead, Busy
    <2>3. slot[at].miss = 0 \/ (slot[at].miss = 1 /\ Arriving(k, "HEALTH_RSP"))
      BY <1>1, <2>1, <2>2 DEF AnswersInTime
    <2>4. Arriving(k, "HEALTH_RSP") => Arriving(k, "HEALTH_RSP")'
      BY DEF Arriving
    <2>5. Asked(k)'
      <3>1. toC[k] \in Seq(Replies)
        BY <1>0, PromptConn DEF WiresOK
      <3>2. toC'[k] = Append(toC[k], "HEALTH_REQ")
        BY <1>6
      <3>3. Len(toC[k]) + 1 \in DOMAIN toC'[k] /\ toC'[k][Len(toC[k]) + 1] = "HEALTH_REQ"
        BY <1>0, <3>1, <3>2, Appended
      <3> QED
        BY <3>3 DEF Asked
    <2> QED
      BY <1>2, <1>5, <2>2, <2>3, <2>4, <2>5 DEF IdentifiesInTime, AnswersInTime
  <1>10. slot'[at].since \in 0 .. Wrap - 1
    BY <1>0, <1>5 DEF PromptInv
  <1> QED
    BY <1>0, <1>1, <1>2, <1>4, <1>5, <1>6, <1>8, <1>9, <1>10, OneServed

(* Passing by a slot, or turning to its packets.                            *)
LEMMA PassingBy ==
  ASSUME BridgeInv, WireInv, PromptInv, mux \in {"timers", "drain"},
         UNCHANGED <<clientVars, cOpen, clock, backlog, hand, toB, toC, slot>>,
         NEW n, n = at,
         \/ slot[at].state = "FREE" /\ NextSlot
         \/ mux = "timers" /\ mux' = "drain" /\ at' = at
         \/ mux = "drain" /\ toB[slot[at].fd] = <<>> /\ NextSlot
  PROVE  PromptInv'
  <1>0. PlacesInv /\ at \in Slot /\ UNCHANGED <<st, tries, cOpen>> /\ at \in Nat
    BY DEF WireInv, BridgeInv, PoolInv, clientVars, Slot
  <1>1. PICK k : k = slot[at].fd
    OBVIOUS
  <1>2. k \in SdkConn => HandshakeInv(k)'
    <2>1. Introduces(k)' = Introduces(k) /\ InPlace(k, "CONNECTED")' = InPlace(k, "CONNECTED")
      BY DEF Introduces, Waits, InPlace
    <2> QED
      BY <1>0, <2>1, HandshakeKept DEF PromptInv, Now
  <1>3. InTime(n)'
    <2> SUFFICES ASSUME k \in ConnOf(Prompt), cOpen[k]
                 PROVE  IdentifiesInTime(n)' /\ AnswersInTime(n)'
      BY <1>0, <1>1 DEF InTime
    <2>1. k \in SdkConn /\ k \in Conn /\ slot[at].state # "FREE"
      BY <1>0, <1>1, PromptConn, SdkFacts, ConnIsSome DEF PlacesInv
    <2>2. IdentifiesInTime(at) /\ AnswersInTime(at) /\ HandshakeInv(k)
      BY <1>0, <1>1, <2>1 DEF PromptInv, InTime
    <2>3. /\ Arriving(k, "HEALTH_RSP")' = Arriving(k, "HEALTH_RSP") /\ Asked(k)' = Asked(k)
          /\ Elapsed(slot[n].since)' = Elapsed(slot[n].since)
      BY DEF Arriving, Asked, Elapsed
    <2>4. CASE mux = "timers" /\ mux' = "drain" /\ at' = at
      <3>1. Ahead(at) /\ ~Ahead(n)' /\ Busy(n)'
        BY <1>0, <2>4 DEF Ahead, Busy
      <3>2. IdentifiesInTime(n)'
        BY <1>0, <2>2, <2>3, <3>1 DEF IdentifiesInTime
      <3>3. AnswersInTime(n)'
        BY <1>1, <2>2, <2>3, <3>1 DEF AnswersInTime
      <3> QED
        BY <3>2, <3>3
    <2>5. CASE mux = "drain" /\ toB[k] = <<>> /\ NextSlot
      <3>1. ~Ahead(n)' /\ ~Busy(n)'
        BY <1>0, <2>5, PoolSize DEF Ahead, Busy, NextSlot
      <3>2. \A type : ~Arriving(k, type)
        BY <2>5 DEF Arriving
      <3>3. slot[at].state = "IDENTIFYING" => st[k[1]] # "handshake" \/ slot[at].since = clock
        BY <1>1, <2>1, <2>2, <3>2, OnePlace DEF HandshakeInv
      <3>4. IdentifiesInTime(n)'
        BY <1>1, <2>2, <3>3 DEF IdentifiesInTime
      <3>5. AnswersInTime(n)'
        BY <1>1, <2>2, <2>3, <3>1, <3>2 DEF AnswersInTime
      <3> QED
        BY <3>4, <3>5
    <2> QED
      BY <1>1, <2>1, <2>4, <2>5
  <1>4. slot'[at].fd \in {k, None} /\ slot'[at].since \in 0 .. Wrap - 1
    BY <1>0, <1>1 DEF PromptInv
  <1> QED
    BY <1>1, <1>2, <1>3, <1>4, OneServed

(* IDENTIFY finds the client in its handshake and gives it what it awaits.  *)
LEMMA IdentifyingPrompt ==
  ASSUME BridgeInv, WireInv, PromptInv, mux = "drain", slot[at].state = "IDENTIFYING",
         NEW k, k = slot[at].fd, toB[k] # <<>>, toB' = [toB EXCEPT ![k] = Tail(@)],
         UNCHANGED <<clientVars, cOpen, clock, backlog, hand, mux, at>>,
         Identify(slot[at])
  PROVE  PromptInv'
  <1>0. /\ WiresOK /\ PlacesInv /\ at \in Slot /\ DOMAIN slot = Slot /\ UNCHANGED <<st, tries, cOpen>>
        /\ OwnEndpoint(slot[at], at) /\ "ASSIGN" \in Replies
    BY DEF WireInv, BridgeInv, PoolInv, clientVars, Replies
  <1>1. PICK n : n = at
    OBVIOUS
  <1>2. k \in Conn /\ k # None
    BY <1>0, ConnIsSome DEF PlacesInv
  <1>3. /\ SendFrame(k, "ASSIGN")
        /\ slot' = [slot EXCEPT ![at] = [slot[at] EXCEPT !.state = "CONNECTED", !.ep = at, !.last = clock]]
    BY DEF Identify, Assigned
  <1>4. \A i \in Slot \ {at} : slot'[i] = slot[i]
    BY <1>0, <1>3
  <1>5. /\ slot'[at].fd = k /\ slot'[at].state = "CONNECTED" /\ slot'[at].since = slot[at].since
        /\ slot'[at].miss = slot[at].miss
    <2>1. slot'[at] = [slot[at] EXCEPT !.state = "CONNECTED", !.ep = at, !.last = clock]
      BY <1>0, <1>3
    <2> QED
      BY <1>0, <2>1 DEF OwnEndpoint, Fields
  <1>6. /\ \A x \in Conn \ {k} : toC'[x] = toC[x]
        /\ toC'[k] = IF cOpen[k] THEN Append(toC[k], "ASSIGN") ELSE toC[k]
        /\ \A x \in Conn \ {k} : toB'[x] = toB[x]
    BY <1>0, <1>2, <1>3, FrameSent DEF WiresOK
  <1>7. Introduces(k) /\ ~Waits(k) /\ (\A i \in Slot : slot[i].fd = k => i = at)
    BY <1>2, OnePlace
  <1>8. ASSUME k \in SdkConn
        PROVE  HandshakeInv(k)'
    <2>1. ~Introduces(k)'
      BY <1>0, <1>4, <1>5, <1>7 DEF Introduces, Waits, InPlace
    <2>2. HandshakeInv(k) /\ toC[k] \in Seq(Replies)
      BY <1>0, <1>8 DEF PromptInv, WiresOK
    <2>3. cOpen[k] => st[k[1]] = "handshake" /\ toC[k] = <<>>
      BY <1>7, <2>2 DEF HandshakeInv
    <2>4. cOpen[k] => toC'[k] # <<>> /\ Head(toC'[k]) = "ASSIGN"
      BY <1>0, <1>6, <2>2, <2>3, FirstStays
    <2> QED
      BY <1>0, <2>1, <2>2, <2>3, <2>4 DEF HandshakeInv, Now
  <1>9. InTime(n)'
    <2> SUFFICES ASSUME k \in ConnOf(Prompt), cOpen[k]
                 PROVE  IdentifiesInTime(n)' /\ AnswersInTime(n)'
      BY <1>0, <1>1, <1>5 DEF InTime
    <2>1. slot[at].miss = 0
      BY <1>0 DEF PromptInv, InTime, IdentifiesInTime
    <2> QED
      BY <1>1, <1>5, <2>1 DEF IdentifiesInTime, AnswersInTime
  <1>10. slot'[at].since \in 0 .. Wrap - 1
    BY <1>0, <1>5 DEF PromptInv
  <1> QED
    BY <1>0, <1>1, <1>4, <1>5, <1>6, <1>8, <1>9, <1>10, OneServed

(* Any other packet leaves the slot as it was; an answer clears the count   *)
(* of missing ones.                                                         *)
LEMMA ReadingPrompt ==
  ASSUME BridgeInv, WireInv, PromptInv, mux = "drain", slot[at].state # "FREE",
         NEW k, k = slot[at].fd, toB[k] # <<>>, toB' = [toB EXCEPT ![k] = Tail(@)],
         UNCHANGED <<clientVars, cOpen, clock, backlog, hand, toC>>,
         \A i \in Slot \ {at} : slot'[i] = slot[i],
         slot'[at].fd = k, slot'[at].state = slot[at].state, slot'[at].since = slot[at].since,
         (k \in SdkConn /\ UNCHANGED <<mux, at>>) \/ (k \notin SdkConn /\ (UNCHANGED <<mux, at>> \/ NextSlot)),
         k \in SdkConn => \/ slot'[at].miss = slot[at].miss /\ Head(toB[k]).type # "HEALTH_RSP"
                          \/ slot'[at].miss = 0,
         k \in SdkConn /\ slot[at].state = "IDENTIFYING" => Head(toB[k]).type # "IDENTIFY"
  PROVE  PromptInv'
  <1>0. /\ WiresOK /\ PlacesInv /\ at \in Slot /\ UNCHANGED <<st, tries, cOpen>>
    BY DEF WireInv, BridgeInv, PoolInv, clientVars
  <1>1. PICK n : n = at
    OBVIOUS
  <1>2. k \in Conn /\ k # None
    BY <1>0, ConnIsSome DEF PlacesInv
  <1>3. toB'[k] = Tail(toB[k]) /\ \A x \in Conn \ {k} : toB'[x] = toB[x]
    BY <1>0, <1>2 DEF WiresOK
  <1>4. ASSUME k \in SdkConn
        PROVE  HandshakeInv(k)'
    <2>1. Introduces(k) <=> slot[at].state = "IDENTIFYING"
      BY <1>2, OnePlace
    <2>2. Introduces(k)' = Introduces(k) /\ InPlace(k, "CONNECTED")' = InPlace(k, "CONNECTED")
      <3>1. \A i \in Slot : slot'[i].fd = slot[i].fd /\ slot'[i].state = slot[i].state
        BY <1>0
      <3> QED
        BY <3>1 DEF Introduces, Waits, InPlace
    <2>3. Introduces(k) /\ Arriving(k, "IDENTIFY") => Arriving(k, "IDENTIFY")'
      BY <1>0, <1>3, <1>4, <2>1, StillArriving DEF WiresOK
    <2> QED
      BY <1>0, <1>4, <2>2, <2>3 DEF PromptInv, HandshakeInv, Now
  <1>5. InTime(n)'
    <2> SUFFICES ASSUME k \in ConnOf(Prompt), cOpen[k]
                 PROVE  IdentifiesInTime(n)' /\ AnswersInTime(n)'
      BY <1>0, <1>1 DEF InTime
    <2>1. k \in SdkConn /\ toB[k] \in Seq(Frames)
      BY <1>0, PromptConn DEF WiresOK
    <2>2. IdentifiesInTime(at) /\ AnswersInTime(at)
      BY <1>0 DEF PromptInv, InTime
    <2>3. Asked(k)' = Asked(k) /\ Ahead(n)' = Ahead(n) /\ Busy(n)' = Busy(n)
          /\ Elapsed(slot[n].since)' = Elapsed(slot[n].since)
      BY <1>1, <2>1 DEF Asked, Ahead, Busy, Elapsed
    <2>4. Arriving(k, "HEALTH_RSP") /\ Head(toB[k]).type # "HEALTH_RSP" => Arriving(k, "HEALTH_RSP")'
      BY <1>3, <2>1, StillArriving
    <2>5. IdentifiesInTime(n)'
      BY <1>0, <1>1, <2>1, <2>2, <2>3 DEF IdentifiesInTime
    <2>6. AnswersInTime(n)'
      BY <1>1, <2>1, <2>2, <2>3, <2>4 DEF AnswersInTime
    <2> QED
      BY <2>5, <2>6
  <1>6. slot'[at].since \in 0 .. Wrap - 1
    BY <1>0 DEF PromptInv
  <1> QED
    BY <1>0, <1>1, <1>3, <1>4, <1>5, <1>6, OneServed

(* Whatever the mux reads.                                                  *)
LEMMA DrainPrompt ==
  ASSUME BridgeInv, WireInv, PromptInv, Drain
  PROVE  PromptInv'
  <1>0. WiresOK /\ at \in Slot /\ DOMAIN slot = Slot /\ OwnEndpoint(slot[at], at) /\ slot[at].state # "FREE"
    BY DEF WireInv, BridgeInv, PoolInv, Drain
  <1>1. PICK k : k = slot[at].fd
    OBVIOUS
  <1>2. PICK p : p = Head(toB[k])
    OBVIOUS
  <1>3. /\ toB[k] # <<>> /\ toB' = [toB EXCEPT ![k] = Tail(@)] /\ mux = "drain"
        /\ UNCHANGED <<clientVars, cOpen, bOpen, backlog, hand, clock>>
    BY <1>1 DEF Drain
  <1>4. k \in SdkConn => p.form = "frame"
    BY <1>0, <1>1, <1>2, <1>3, PacketRead DEF Frames
  <1>5. CASE p.type = "IDENTIFY" /\ Identify(slot[at]) /\ UNCHANGED <<mux, at>>
    <2>1. CASE slot[at].state # "IDENTIFYING"
      BY <1>0, <1>1, <1>2, <1>3, <1>5, <2>1, ReadingPrompt DEF Identify
    <2>2. CASE slot[at].state = "IDENTIFYING"
      BY <1>1, <1>3, <1>5, <2>2, IdentifyingPrompt
    <2> QED
      BY <2>1, <2>2
  <1>6. CASE p.type \in {"MSG", "SUBSCRIBE"} /\ UNCHANGED <<slot, toC, mux, at>>
    BY <1>0, <1>1, <1>2, <1>3, <1>6, ReadingPrompt
  <1>7. CASE p.type = "HEALTH_RSP" /\ UNCHANGED <<toC, mux, at>>
             /\ slot' = [slot EXCEPT ![at].miss = Missed(slot[at])]
    <2>1. slot'[at] = [slot[at] EXCEPT !.miss = 0]
      BY <1>0, <1>7 DEF Missed
    <2>2. slot'[at].fd = slot[at].fd /\ slot'[at].state = slot[at].state /\ slot'[at].since = slot[at].since
          /\ slot'[at].miss = 0
      BY <1>0, <2>1 DEF OwnEndpoint, Fields
    <2>3. \A i \in Slot \ {at} : slot'[i] = slot[i]
      BY <1>0, <1>7
    <2>4. p.type # "IDENTIFY"
      BY <1>7
    <2> QED
      BY <1>0, <1>1, <1>2, <1>3, <1>7, <2>2, <2>3, <2>4, ReadingPrompt
  <1>8. CASE p.form = "payload" /\ UNCHANGED <<slot, toC>> /\ (UNCHANGED <<mux, at>> \/ NextSlot)
    BY <1>0, <1>1, <1>2, <1>3, <1>4, <1>8, ReadingPrompt
  <1> QED
    BY <1>1, <1>2, <1>5, <1>6, <1>7, <1>8 DEF Drain

(* Whatever the timers do.                                                  *)
LEMMA TimersPrompt ==
  ASSUME BridgeInv, WireInv, PromptInv, Timers
  PROVE  PromptInv'
  <1>1. mux = "timers" /\ UNCHANGED <<clientVars, cOpen, backlog, hand, clock>>
    BY DEF Timers
  <1>2. PICK n : n = at
    OBVIOUS
  <1>3. CASE slot[at].state = "FREE" /\ NextSlot /\ UNCHANGED <<slot, toB, toC>>
    BY <1>1, <1>2, <1>3, PassingBy
  <1>4. CASE CloseSlot(at) /\ NextSlot /\ slot[at].state # "FREE"
             /\ (toC' = toC \/ SendFrame(slot[at].fd, "HEALTH_REQ"))
    BY <1>1, <1>4, ClosingPrompt
  <1>5. CASE /\ slot[at].state = "CONNECTED" /\ SendFrame(slot[at].fd, "HEALTH_REQ")
             /\ slot' = [slot EXCEPT ![at].last = clock, ![at].miss = @ + 1]
             /\ mux' = "drain" /\ UNCHANGED <<toB, at>>
    BY <1>1, <1>5, AskingPrompt
  <1>6. CASE mux' = "drain" /\ UNCHANGED <<slot, toB, toC, at>>
    BY <1>1, <1>2, <1>6, PassingBy
  <1> QED
    BY <1>3, <1>4, <1>5, <1>6 DEF Timers, IdentifyLate, BeatDue

(* When there is nothing left to read, a prompt client has not been missed. *)
LEMMA DrainEndPrompt ==
  ASSUME BridgeInv, WireInv, PromptInv, DrainEnd
  PROVE  PromptInv'
  <1>1. /\ mux = "drain" /\ toB[slot[at].fd] = <<>> /\ NextSlot /\ slot[at].state # "FREE"
        /\ UNCHANGED <<clientVars, cOpen, toC, backlog, hand, clock>>
    BY DEF DrainEnd, BridgeInv, PoolInv
  <1>2. PICK n : n = at
    OBVIOUS
  <1>3. CASE UNCHANGED <<slot, toB>>
    BY <1>1, <1>2, <1>3, PassingBy
  <1>4. CASE CloseSlot(at)
    BY <1>1, <1>4, ClosingPrompt
  <1> QED
    BY <1>3, <1>4 DEF DrainEnd

(* A connection that takes a slot is within its time.                       *)
LEMMA PickPrompt ==
  ASSUME BridgeInv, WireInv, PromptInv, Pick
  PROVE  PromptInv'
  <1>0. /\ WiresOK /\ PlacesInv /\ DOMAIN slot = Slot
        /\ mux = "pick" /\ mux' = "timers" /\ at' = 1
        /\ UNCHANGED <<st, tries, cOpen, clock, backlog>>
        /\ clock \in 0 .. Wrap - 1
    BY DEF WireInv, BridgeInv, PoolInv, Pick, clientVars, PromptInv
  <1>1. \A i \in Slot : Ahead(i) /\ Ahead(i)' /\ ~Busy(i) /\ ~Busy(i)'
    BY <1>0 DEF Ahead, Busy, Slot
  <1>2. ASSUME NEW i \in Slot, slot'[i] = slot[i],
               slot[i].fd \in SdkConn => toB'[slot[i].fd] = toB[slot[i].fd] /\ toC'[slot[i].fd] = toC[slot[i].fd]
        PROVE  InTime(i)'
    <2> SUFFICES ASSUME slot[i].fd \in ConnOf(Prompt), cOpen[slot[i].fd]
                 PROVE  IdentifiesInTime(i)' /\ AnswersInTime(i)'
      BY <1>0, <1>2 DEF InTime
    <2>1. PICK x : x = slot[i].fd
      OBVIOUS
    <2>2. toB'[x] = toB[x] /\ toC'[x] = toC[x]
      BY <1>2, <2>1, PromptConn
    <2>3. /\ Arriving(x, "HEALTH_RSP")' = Arriving(x, "HEALTH_RSP") /\ Asked(x)' = Asked(x)
          /\ Elapsed(slot[i].since)' = Elapsed(slot[i].since)
      BY <1>0, <1>2, <2>2 DEF Arriving, Asked, Elapsed
    <2>4. IdentifiesInTime(i) /\ AnswersInTime(i)
      BY DEF PromptInv, InTime
    <2>5. IdentifiesInTime(i)'
      BY <1>0, <1>1, <1>2, <2>3, <2>4 DEF IdentifiesInTime
    <2>6. AnswersInTime(i)'
      BY <1>1, <1>2, <2>1, <2>3, <2>4 DEF AnswersInTime
    <2> QED
      BY <2>5, <2>6
  <1>3. CASE hand = <<>>
    <2>1. UNCHANGED <<hand, slot, bOpen, toB, toC>>
      BY <1>3 DEF Pick
    <2>2. \A x \in SdkConn : HandshakeInv(x)'
      <3>1. \A x : Introduces(x)' = Introduces(x) /\ InPlace(x, "CONNECTED")' = InPlace(x, "CONNECTED")
        BY <1>0, <2>1 DEF Introduces, Waits, InPlace
      <3> QED
        BY <1>0, <2>1, <3>1, HandshakeKept DEF PromptInv, Now
    <2> QED
      BY <1>0, <1>2, <2>1, <2>2 DEF PromptInv
  <1>4. CASE hand # <<>>
    <2>1. PICK k : k = Head(hand)
      OBVIOUS
    <2>2. hand' = Tail(hand) /\ PlaceIn(k, FreeSlots)
      BY <1>4, <2>1 DEF Pick
    <2>3. k \in Conn /\ Waits(k) /\ ~InSlot(k) /\ \A x : Waits(x)' => Waits(x) /\ x # k
      BY <1>0, <1>4, <2>1, <2>2, HandTaken DEF PlacesInv
    <2>4. CASE FreeSlots # {}
      <3>1. PICK i : i = CHOOSE j \in FreeSlots : \A f \in FreeSlots : j <= f
        OBVIOUS
      <3>2. FreeSlots \in SUBSET Nat
        BY DEF FreeSlots, Slot
      <3>3. i \in FreeSlots
        BY <2>4, <3>1, <3>2, FirstFree, Zenon
      <3>4. i \in Slot /\ OwnEndpoint(slot[i], i)
        BY <3>3 DEF FreeSlots, BridgeInv, PoolInv
      <3>5. /\ slot' = [slot EXCEPT ![i] = [@ EXCEPT !.state = "IDENTIFYING", !.fd = k,
                                                     !.since = clock, !.miss = 0]]
            /\ UNCHANGED <<bOpen, toB, toC>>
        BY <2>2, <2>4, <3>1 DEF PlaceIn
      <3>6. \A j \in Slot \ {i} : slot'[j] = slot[j]
        BY <1>0, <3>5
      <3>7. slot'[i].state = "IDENTIFYING" /\ slot'[i].fd = k /\ slot'[i].since = clock /\ slot'[i].miss = 0
        <4>1. slot'[i] = [slot[i] EXCEPT !.state = "IDENTIFYING", !.fd = k, !.since = clock, !.miss = 0]
          BY <1>0, <3>4, <3>5
        <4> QED
          BY <3>4, <4>1 DEF OwnEndpoint, Fields
      <3>8. \A x \in SdkConn : HandshakeInv(x)'
        <4>1. \A x : Introduces(x)' => Introduces(x)
          BY <2>3, <3>6, <3>7 DEF Introduces, InPlace
        <4>2. \A x : InPlace(x, "CONNECTED")' => InPlace(x, "CONNECTED")
          BY <3>6, <3>7 DEF InPlace
        <4> QED
          BY <1>0, <3>5, <4>1, <4>2, HandshakeKept DEF PromptInv, Now
      <3>9. IdentifiesInTime(i)' /\ AnswersInTime(i)'
        BY <1>0, <3>7 DEF IdentifiesInTime, AnswersInTime
      <3>10. \A j \in Slot : InTime(j)'
        <4>1. InTime(i)'
          BY <3>9 DEF InTime
        <4>2. \A j \in Slot \ {i} : InTime(j)'
          BY <1>2, <3>5, <3>6
        <4> QED
          BY <4>1, <4>2
      <3>11. \A j \in Slot : slot'[j].since \in 0 .. Wrap - 1
        BY <1>0, <3>6, <3>7 DEF PromptInv
      <3> QED
        BY <1>0, <3>8, <3>10, <3>11 DEF PromptInv
    <2>5. CASE FreeSlots = {}
      <3>1. SendFrame(k, "ERROR") /\ Hangup(k) /\ slot' = slot
        BY <2>2, <2>5 DEF PlaceIn
      <3>2. toB'[k] = <<>> /\ \A x \in Conn \ {k} : toB'[x] = toB[x] /\ toC'[x] = toC[x]
        <4>1. "ERROR" \in Replies
          BY DEF Replies
        <4> QED
          BY <1>0, <2>3, <3>1, <4>1, FrameSent DEF Hangup, WiresOK
      <3>3. ASSUME NEW x \in SdkConn, x # k
            PROVE  HandshakeInv(x)'
        <4>1. x \in Conn
          BY SdkFacts
        <4>2. (Introduces(x)' => Introduces(x)) /\ InPlace(x, "CONNECTED")' = InPlace(x, "CONNECTED")
          BY <2>3, <3>1 DEF Introduces, InPlace
        <4> QED
          BY <1>0, <3>2, <3>3, <4>1, <4>2, HandshakeKept DEF PromptInv, Now
      <3>4. ASSUME k \in SdkConn
            PROVE  HandshakeInv(k)'
        <4>1. ~Introduces(k)' /\ ~InPlace(k, "CONNECTED")'
          BY <2>3, <3>1 DEF Introduces, InPlace, InSlot
        <4> QED
          BY <1>0, <3>2, <3>4, <4>1 DEF PromptInv, HandshakeInv, Now
      <3>5. \A j \in Slot : InTime(j)'
        <4> SUFFICES ASSUME NEW j \in Slot PROVE InTime(j)'
          OBVIOUS
        <4>1. slot[j].fd \in SdkConn => slot[j].fd \in Conn \ {k}
          BY <2>3, SdkFacts DEF InSlot
        <4> QED
          BY <1>2, <3>1, <3>2, <4>1
      <3> QED
        BY <1>0, <3>1, <3>3, <3>4, <3>5 DEF PromptInv
    <2> QED
      BY <2>4, <2>5
  <1> QED
    BY <1>3, <1>4

(* While the mux sleeps a prompt client does what it is to do.              *)
LEMMA SleepPrompt ==
  ASSUME BridgeInv, WireInv, PromptInv, Sleep
  PROVE  PromptInv'
  <1>0. /\ mux = "sleep" /\ mux' = "pick" /\ clock \in 0 .. Wrap - 1
        /\ UNCHANGED <<st, tries, cOpen, bOpen, toB, toC, backlog, hand, slot, at>>
    BY DEF Sleep, clientVars, wireVars, PromptInv
  <1>1. PICK d \in 1 .. Lag : clock' = (clock + d) % Wrap
    BY DEF Sleep
  <1>2. Lag \in Nat /\ d \in Nat /\ d <= Lag /\ d \in 0 .. Lag
    <2>1. Lag \in Nat
      BY BridgeAssumption DEF BridgeAssumption
    <2> QED
      BY <2>1
  <1>3. clock' \in 0 .. Wrap - 1
    BY <1>0, <1>1, <1>2, LapseIs
  <1>4. \A x \in SdkConn : HandshakeInv(x)'
    <2>1. \A x : Introduces(x)' = Introduces(x) /\ InPlace(x, "CONNECTED")' = InPlace(x, "CONNECTED")
      BY <1>0 DEF Introduces, Waits, InPlace
    <2> QED
      BY <1>0, <2>1, HandshakeKept DEF PromptInv, Now
  <1>5. ASSUME NEW i \in Slot
        PROVE  InTime(i)'
    <2> SUFFICES ASSUME slot[i].fd \in ConnOf(Prompt), cOpen[slot[i].fd]
                 PROVE  IdentifiesInTime(i)' /\ AnswersInTime(i)'
      BY <1>0 DEF InTime
    <2>1. PICK x : x = slot[i].fd
      OBVIOUS
    <2>2. x \in SdkConn /\ x[1] \in Prompt
      BY <2>1, PromptConn
    <2>3. /\ IdentifiesInTime(i) /\ AnswersInTime(i) /\ HandshakeInv(x) /\ cOpen[x]
          /\ ~Ahead(i) /\ ~Busy(i) /\ Ahead(i)'
      BY <1>0, <2>1, <2>2 DEF PromptInv, InTime, Ahead, Busy
    <2>4. /\ st[x[1]] # "connected" /\ x = Now(x[1])
          /\ st[x[1]] \in {"handshake", "up", "leaving"} => toC[x] = <<>>
      BY <2>2, <2>3 DEF Sleep, HandshakeInv
    <2>5. IdentifiesInTime(i)'
      <3> SUFFICES ASSUME slot[i].state = "IDENTIFYING"
                   PROVE  slot[i].miss = 0 /\ Elapsed(slot[i].since)' <= Lag /\ st[x[1]] = "handshake"
        BY <1>0, <2>1, <2>3 DEF IdentifiesInTime
      <3>1. slot[i].miss = 0 /\ slot[i].since = clock
        BY <2>3 DEF IdentifiesInTime
      <3>2. Elapsed(slot[i].since)' = d
        BY <1>0, <1>1, <1>2, <3>1, LapseIs DEF Elapsed
      <3>3. Introduces(x)
        BY <2>1 DEF Introduces, InPlace
      <3> QED
        BY <1>2, <2>3, <2>4, <3>1, <3>2, <3>3 DEF HandshakeInv
    <2>6. AnswersInTime(i)'
      <3> SUFFICES ASSUME slot[i].state = "CONNECTED"
                   PROVE  /\ slot[i].miss \in {0, 1}
                          /\ slot[i].miss = 1 => Arriving(x, "HEALTH_RSP")'
        BY <1>0, <2>1 DEF AnswersInTime
      <3>1. slot[i].miss \in {0, 1} /\ (slot[i].miss = 1 => Asked(x) \/ Arriving(x, "HEALTH_RSP"))
        BY <2>1, <2>3 DEF AnswersInTime
      <3>2. toC[x] = <<>>
        <4>1. InPlace(x, "CONNECTED")
          BY <2>1 DEF InPlace
        <4> QED
          BY <2>3, <2>4, <4>1 DEF HandshakeInv
      <3>3. ~Asked(x) /\ Arriving(x, "HEALTH_RSP")' = Arriving(x, "HEALTH_RSP")
        BY <1>0, <3>2 DEF Asked, Arriving
      <3> QED
        BY <3>1, <3>3
    <2> QED
      BY <2>5, <2>6
  <1> QED
    BY <1>0, <1>3, <1>4, <1>5 DEF PromptInv

(* Every step keeps prompt clients in time.                                 *)
LEMMA PromptInductive == BridgeInv /\ WireInv /\ PromptInv /\ [Next]_vars => PromptInv'
  <1> SUFFICES ASSUME BridgeInv, WireInv, PromptInv, [Next]_vars PROVE PromptInv'
    OBVIOUS
  <1>1. CASE \E c \in Client : ClientStep(c)
    BY <1>1, ClientPrompt
  <1>2. CASE Accept
    BY <1>2, AcceptPrompt
  <1>3. CASE Mux
    BY <1>3, PickPrompt, TimersPrompt, DrainEndPrompt, DrainPrompt, SleepPrompt DEF Mux
  <1>4. CASE UNCHANGED vars
    <2>1. UNCHANGED <<st, tries, cOpen, toB, toC, backlog, hand, slot, mux, at, clock>>
      BY <1>4 DEF vars, clientVars, wireVars, muxVars
    <2>2. \A x \in SdkConn : HandshakeInv(x)'
      <3>1. \A x : Introduces(x)' = Introduces(x) /\ InPlace(x, "CONNECTED")' = InPlace(x, "CONNECTED")
        BY <2>1 DEF Introduces, Waits, InPlace
      <3> QED
        BY <2>1, <3>1, HandshakeKept DEF PromptInv, Now
    <2>3. \A i \in Slot : InTime(i)' = InTime(i)
      BY <2>1 DEF InTime, IdentifiesInTime, AnswersInTime, Ahead, Busy, Elapsed, Arriving, Asked
    <2> QED
      BY <2>1, <2>2, <2>3 DEF PromptInv
  <1> QED
    BY <1>1, <1>2, <1>3, <1>4 DEF Next

(* A step of the mux hangs up on nobody who is prompt.                      *)
LEMMA NobodyPromptClosed ==
  ASSUME Lag <= IdentifyTo, BridgeInv, WireInv, PromptInv, [Next]_vars,
         NEW k \in ConnOf(Prompt), cOpen[k], InSlot(k)
  PROVE  bOpen'[k]
  <1>0. /\ k \in Conn /\ bOpen[k] /\ ~Waits(k) /\ WiresOK /\ PlacesInv /\ at \in Slot
    BY PromptConn, SdkFacts DEF WireInv, PlacesInv, BridgeInv, PoolInv
  <1>1. CASE bOpen' = bOpen
    BY <1>0, <1>1
  <1>2. CASE \E c \in Client : ClientStep(c)
    <2>1. PICK c \in Client : ClientStep(c)
      BY <1>2
    <2>2. CASE Connect(c)
      BY <1>0, <2>2 DEF Connect, WiresOK
    <2>3. CASE ~Connect(c)
      BY <1>1, <2>1, <2>3, ClientLocal DEF WireInv
    <2> QED
      BY <2>2, <2>3
  <1>3. CASE Pick
    <2>1. CASE hand # <<>> /\ Hangup(Head(hand))
      <3>1. Waits(Head(hand))
        BY <1>0, <2>1, Taken DEF WiresOK, Waits
      <3> QED
        BY <1>0, <2>1, <3>1 DEF Hangup, WiresOK
    <2> QED
      BY <1>1, <1>3, <2>1 DEF Pick, PlaceIn
  <1>4. CASE CloseSlot(at) /\ slot[at].fd # k
    BY <1>0, <1>4 DEF CloseSlot, Hangup, WiresOK
  <1>5. CASE Timers
    <2>1. CASE CloseSlot(at) /\ slot[at].fd = k 
                /\ (IdentifyLate(slot[at]) \/ (BeatDue(slot[at]) /\ slot[at].miss + 1 >= 3))
      <3>1. ~IdentifyLate(slot[at]) /\ (slot[at].state = "CONNECTED" => slot[at].miss \in {0, 1})
        BY <1>0, <1>5, <2>1, NotTooLate DEF Timers
      <3> QED
        BY <2>1, <3>1 DEF BeatDue
    <2> QED
      BY <1>1, <1>4, <1>5, <2>1 DEF Timers
  <1>6. CASE DrainEnd
    <2>1. ~(CloseSlot(at) /\ slot[at].fd = k) \/ bOpen' = bOpen
      BY <1>6 DEF DrainEnd
    <2> QED
      BY <1>1, <1>4, <1>6, <2>1 DEF DrainEnd
  <1>7. CASE Accept \/ Drain \/ Sleep \/ UNCHANGED vars
    BY <1>1, <1>7 DEF Accept, Drain, Sleep, vars, wireVars
  <1> QED
    BY <1>2, <1>3, <1>5, <1>6, <1>7 DEF Next, Mux

(* As long as the mux is never later than the IDENTIFY timeout it hangs up  *)
(* on no client that handles its frames within a pass, however many slots   *)
(* and clients there are and whatever the others do: no heartbeat and no    *)
(* timeout strikes it.                                                      *)
THEOREM PromptClientsKept ==
  ASSUME Lag <= IdentifyTo
  PROVE  Spec => PromptKept
  <1>1. Init => PromptInv
    <2> SUFFICES ASSUME Init PROVE PromptInv
      OBVIOUS
    <2>1. /\ \A k \in Conn : cOpen[k] = FALSE
          /\ \A i \in Slot : slot[i] = FREE
          /\ clock = 0
      BY DEF Init
    <2>2. Wrap \in Nat \ {0} /\ FREE.since = 0
      BY BridgeAssumption DEF BridgeAssumption, FREE
    <2>3. \A k \in SdkConn : HandshakeInv(k)
      BY <2>1, SdkFacts DEF HandshakeInv
    <2>4. \A i \in Slot : InTime(i)
      BY <2>1, PromptConn, SdkFacts DEF InTime
    <2> QED
      BY <2>1, <2>2, <2>3, <2>4 DEF PromptInv
  <1>2. BridgeInv /\ WireInv /\ PromptInv /\ [Next]_vars =>
          [\A k \in ConnOf(Prompt) : cOpen[k] /\ InSlot(k) => bOpen'[k]]_vars
    BY NobodyPromptClosed
  <1> QED
    BY <1>1, <1>2, PoolStarts, PoolInductive, WireStarts, WireInductive, PromptInductive, PTL
    DEF Spec, PromptKept
=============================================================================
