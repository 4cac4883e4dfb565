------------------------------ MODULE Bridge ------------------------------
(***************************************************************************)
(* The bridge FB (fbs/bridge/fb_bridge.c) and the clients on the other end *)
(* of its Unix socket. A listener thread accepts connections and hands     *)
(* them over through a bounded queue; the mux thread takes one per pass    *)
(* and then serves every slot: the IDENTIFY timeout, the heartbeat, the    *)
(* packets that have arrived. Clients are the Python SDK                   *)
(* (tools/embediq_python), which sends a frame in one packet, answers      *)
(* HEALTH_REQ and reconnects, and the C API                                *)
(* (core/src/bridge/embediq_ext_fb.c), which sends header and payload as   *)
(* two packets of a SOCK_SEQPACKET socket and answers nothing.             *)
(*                                                                         *)
(* One step of the mux is one slot's timers or one received packet, so     *)
(* that clients act between any two of its system calls. Time is counted   *)
(* in passes of the mux (its 50 ms sleep) modulo Wrap, the uint32_t of     *)
(* embediq_osal_time_ms(); the mux reads it once per pass, so it moves     *)
(* while the mux sleeps. A connection is a client and the number of its    *)
(* attempt. The lists of SUBSCRIBE are left out: nothing in the bridge reads *)
(* them, so only what its packets do to the others is modelled.            *)
(***************************************************************************)
EXTENDS Integers, Sequences, SequencesExt, FiniteSets

CONSTANTS
    Sdk,            \* clients that use the Python SDK
    CApi,           \* clients that use embediq_ext_fb.c over the socket
    Prompt,         \* SDK clients that handle a frame within one pass of the mux
    MaxSlots,       \* EMBEDIQ_BRIDGE_MAX_EXT_FBS
    Beat,           \* g_heartbeat_ms
    IdentifyTo,     \* g_identify_to_ms
    Lag,            \* how long the mux may sleep
    Wrap,           \* 2^32
    Tries,          \* bound: how often each client connects
    MaxMsg          \* bound: how many messages each sends on a connection

ASSUME BridgeAssumption ==
    /\ Sdk \cap CApi = {} /\ Prompt \subseteq Sdk
    /\ {MaxSlots, Beat, Lag, Wrap} \subseteq Nat \ {0} /\ IdentifyTo \in Nat
    /\ Tries \in [Sdk \cup CApi -> Nat \ {0}] /\ MaxMsg \in [Sdk \cup CApi -> Nat]
    /\ Beat + Lag <= Wrap /\ IdentifyTo + Lag < Wrap

Client == Sdk \cup CApi
ConnOf(C) == UNION {{c} \X (1 .. Tries[c]) : c \in C}
Conn == ConnOf(Client)
Slot == 1 .. MaxSlots

VARIABLES
    st,             \* what each client is doing
    tries,          \* the number of its last connection
    cOpen, bOpen,   \* which ends of each connection are open
    toB, toC,       \* packets on the way to the bridge, frames to the client
    sent,           \* messages sent on each connection
    backlog, hand,  \* connections not accepted yet; g_fd_queue
    slot,           \* g_socket_pool
    mux, at,        \* where bridge_mux() is, and at which slot
    clock,          \* embediq_osal_time_ms()
    announced,      \* CONNECTED minus DISCONNECTED published for each endpoint
    routed          \* what was routed off each connection (only properties read it)

clientVars == <<st, tries, sent>>
wireVars == <<cOpen, bOpen, toB, toC>>
muxVars == <<slot, mux, at, clock, announced, routed>>
vars == <<clientVars, wireVars, backlog, hand, muxVars>>

None == <<>>
FREE == [state |-> "FREE", fd |-> None, ep |-> 0, miss |-> 0, last |-> 0, since |-> 0]

Now(c) == <<c, tries[c]>>       \* the client's present connection

Init ==
    /\ st = [c \in Client |-> "down"]
    /\ tries = [c \in Client |-> 0]
    /\ cOpen = [k \in Conn |-> FALSE] /\ bOpen = cOpen
    /\ toB = [k \in Conn |-> <<>>] /\ toC = toB
    /\ sent = [k \in Conn |-> 0]
    /\ backlog = <<>> /\ hand = <<>>
    /\ slot = [i \in Slot |-> FREE]
    /\ mux = "pick" /\ at = 1
    /\ clock = 0
    /\ announced = [i \in Slot |-> 0]
    /\ routed = [k \in Conn |-> <<>>]

(***************************************************************************)
(* Packets. A frame in one packet is read as sent. A header alone is read  *)
(* as a frame whose payload is whatever the mux's buffer held before: it   *)
(* is a local that nothing initialises. A payload alone is read as a       *)
(* header of no known type, or as too short to be one.                     *)
(***************************************************************************)
Packets(c, type, body) ==
    IF c \in Sdk THEN <<[form |-> "frame", type |-> type, body |-> body]>>
    ELSE <<[form |-> "header", type |-> type, body |-> 0],
           [form |-> "payload", type |-> type, body |-> body]>>

(* send(): nothing reaches an end that is closed.                          *)
ToBridge(k, packets) ==
    toB' = [toB EXCEPT ![k] = IF bOpen[k] THEN @ \o packets ELSE @]
SendFrame(k, type) ==
    toC' = [toC EXCEPT ![k] = IF cOpen[k] THEN Append(@, type) ELSE @]

(***************************************************************************)
(* Clients.                                                                *)
(***************************************************************************)
(* listen(fd, MAX_EXT_FBS): one more than that may wait to be accepted.    *)
HasRoom(waiting) == Len(waiting) <= MaxSlots

(* connect(), which blocks while the listen backlog is full.               *)
Connect(c) ==
    LET k == <<c, tries[c] + 1>> IN
    /\ st[c] = "down" /\ tries[c] < Tries[c]
    /\ HasRoom(backlog)
    /\ st' = [st EXCEPT ![c] = "connected"]
    /\ tries' = [tries EXCEPT ![c] = @ + 1]
    /\ cOpen' = [cOpen EXCEPT ![k] = TRUE]
    /\ bOpen' = [bOpen EXCEPT ![k] = TRUE]
    /\ backlog' = Append(backlog, k)
    /\ UNCHANGED <<sent, toB, toC, hand, muxVars>>

SendIdentify(c) ==
    /\ st[c] = "connected"
    /\ st' = [st EXCEPT ![c] = "handshake"]
    /\ ToBridge(Now(c), Packets(c, "IDENTIFY", 0))
    /\ UNCHANGED <<tries, sent, cOpen, bOpen, toC, backlog, hand, muxVars>>

(* The blocking recv() of five bytes: the SDK raises for anything but      *)
(* ENDPOINT_ASSIGN and its thread ends; the C API goes on all the same.    *)
Handshake(c) ==
    LET k == Now(c) IN
    /\ st[c] = "handshake"
    /\ toC[k] # <<>> \/ ~bOpen[k]
    /\ LET ok == toC[k] # <<>> /\ Head(toC[k]) = "ASSIGN" IN
       st' = [st EXCEPT ![c] = IF ok \/ c \in CApi THEN "up" ELSE "gone"]
    /\ toC' = [toC EXCEPT ![k] = IF @ = <<>> THEN @ ELSE Tail(@)]
    /\ UNCHANGED <<tries, sent, cOpen, bOpen, toB, backlog, hand, muxVars>>

(* send_msg() and embediq_ext_fb_publish().                                *)
Publish(c) ==
    LET k == Now(c) IN
    /\ st[c] = "up" /\ sent[k] < MaxMsg[c]
    /\ sent' = [sent EXCEPT ![k] = @ + 1]
    /\ ToBridge(k, Packets(c, "MSG", sent[k] + 1))
    /\ UNCHANGED <<st, tries, cOpen, bOpen, toC, backlog, hand, muxVars>>

(* embediq_ext_fb_subscribe(): two packets, like a message.                *)
Subscribe(c) ==
    LET k == Now(c) IN
    /\ c \in CApi /\ st[c] = "up" /\ sent[k] < MaxMsg[c]
    /\ sent' = [sent EXCEPT ![k] = @ + 1]
    /\ ToBridge(k, Packets(c, "SUBSCRIBE", 0))
    /\ UNCHANGED <<st, tries, cOpen, bOpen, toC, backlog, hand, muxVars>>

(* One turn of the SDK's receive thread: HEALTH_REQ is answered; the end   *)
(* of the stream, or a stop requested since the last turn, ends the loop,  *)
(* and _handle_disconnect() closes the socket and connects anew.           *)
SdkReceive(c) ==
    LET k == Now(c) IN
    /\ c \in Sdk /\ st[c] \in {"up", "leaving"}
    /\ toC[k] # <<>> \/ ~bOpen[k]
    /\ IF toC[k] # <<>> /\ st[c] = "up"
       THEN /\ toC' = [toC EXCEPT ![k] = Tail(@)]
            /\ IF Head(toC[k]) = "HEALTH_REQ"
               THEN ToBridge(k, Packets(c, "HEALTH_RSP", 0))
               ELSE UNCHANGED toB
            /\ UNCHANGED <<st, cOpen>>
       ELSE /\ st' = [st EXCEPT ![c] = "down"]
            /\ cOpen' = [cOpen EXCEPT ![k] = FALSE]
            /\ toC' = [toC EXCEPT ![k] = <<>>]
            /\ UNCHANGED toB
    /\ UNCHANGED <<tries, sent, bOpen, backlog, hand, muxVars>>

(* embediq_ext_fb_recv() reads a frame that is no MSG and drops it.        *)
CApiReceive(c) ==
    LET k == Now(c) IN
    /\ c \in CApi /\ st[c] = "up" /\ toC[k] # <<>>
    /\ toC' = [toC EXCEPT ![k] = Tail(@)]
    /\ UNCHANGED <<clientVars, cOpen, bOpen, toB, backlog, hand, muxVars>>

(* ExternalFB.disconnect(): sets the stop event and drops the socket. The  *)
(* receive thread still sits in recv(), which keeps the connection open.   *)
SdkDisconnect(c) ==
    /\ c \in Sdk /\ st[c] = "up"
    /\ st' = [st EXCEPT ![c] = "leaving"]
    /\ UNCHANGED <<tries, sent, wireVars, backlog, hand, muxVars>>

(* The client's process ends, or embediq_ext_fb_deinit() is called.        *)
Quit(c) ==
    LET k == Now(c) IN
    /\ st[c] \in {"connected", "handshake", "up", "leaving"}
    /\ st' = [st EXCEPT ![c] = "gone"]
    /\ cOpen' = [cOpen EXCEPT ![k] = FALSE]
    /\ toC' = [toC EXCEPT ![k] = <<>>]
    /\ UNCHANGED <<tries, sent, bOpen, toB, backlog, hand, muxVars>>

(***************************************************************************)
(* bridge_listener(): a full hand-over queue leaves the descriptor open    *)
(* and known to nobody.                                                    *)
(***************************************************************************)
Accept ==
    /\ backlog # <<>>
    /\ backlog' = Tail(backlog)
    /\ hand' = IF Len(hand) < MaxSlots THEN Append(hand, Head(backlog)) ELSE hand
    /\ UNCHANGED <<clientVars, wireVars, muxVars>>

(***************************************************************************)
(* bridge_mux().                                                           *)
(***************************************************************************)
NextSlot ==
    IF at < MaxSlots THEN at' = at + 1 /\ mux' = "timers"
    ELSE at' = 1 /\ mux' = "sleep"

Hangup_Leaks(k) == UNCHANGED bOpen /\ toB' = [toB EXCEPT ![k] = <<>>]
(* The bridge closes its end; what it has sent can still be read.          *)
Hangup(k) ==
    /\ bOpen' = [bOpen EXCEPT ![k] = FALSE]
    /\ toB' = [toB EXCEPT ![k] = <<>>]

Cleared_KeepsEndpoint(s) == [FREE EXCEPT !.ep = s.ep]
Cleared(s) == FREE

(* What subscribers of the bridge hear of an endpoint.                     *)
Connected(ep) == [announced EXCEPT ![ep] = @ + 1]
Disconnected(ep) == [announced EXCEPT ![ep] = @ - 1]

(* close_slot(): subscribers hear of endpoints that had been assigned.     *)
CloseSlot(i) ==
    LET s == slot[i] IN
    /\ Hangup(s.fd)
    /\ announced' = IF s.ep # 0 THEN Disconnected(s.ep) ELSE announced
    /\ slot' = [slot EXCEPT ![i] = Cleared(s)]

FreeSlots == {i \in Slot : slot[i].state = "FREE"}

(* mux_handle_new_fd(): the first free slot, or an ERROR frame.            *)
PlaceIn(k, free) ==
    IF free # {}
    THEN LET i == CHOOSE j \in free : \A f \in free : j <= f IN
         /\ slot' = [slot EXCEPT ![i] = [@ EXCEPT !.state = "IDENTIFYING", !.fd = k,
                                                  !.since = clock, !.miss = 0]]
         /\ UNCHANGED <<bOpen, toB, toC>>
    ELSE /\ SendFrame(k, "ERROR")
         /\ Hangup(k)
         /\ UNCHANGED slot

Pick ==
    /\ mux = "pick"
    /\ IF hand = <<>> THEN UNCHANGED <<hand, slot, bOpen, toB, toC>>
       ELSE /\ PlaceIn(Head(hand), FreeSlots)
            /\ hand' = Tail(hand)
    /\ mux' = "timers" /\ at' = 1
    /\ UNCHANGED <<clientVars, cOpen, backlog, clock, announced, routed>>

Elapsed(since) == (clock - since) % Wrap
IdentifyLate_Never(s) == s.state = "IDENTIFYING" /\ Elapsed(s.since) > Wrap
IdentifyLate(s) == s.state = "IDENTIFYING" /\ Elapsed(s.since) > IdentifyTo
BeatDue(s) == s.state = "CONNECTED" /\ Elapsed(s.last) >= Beat

(* mux_process_slot() up to the receive loop. The third request is sent    *)
(* and the connection closed at once, without a look at what has arrived.  *)
Timers ==
    LET s == slot[at] IN
    /\ mux = "timers"
    /\ \/ /\ s.state = "FREE"
          /\ NextSlot
          /\ UNCHANGED <<slot, bOpen, toB, toC, announced>>
       \/ /\ IdentifyLate(s)
          /\ CloseSlot(at)
          /\ NextSlot
          /\ UNCHANGED toC
       \/ /\ BeatDue(s)
          /\ SendFrame(s.fd, "HEALTH_REQ")
          /\ IF s.miss + 1 >= 3
             THEN CloseSlot(at) /\ NextSlot
             ELSE /\ slot' = [slot EXCEPT ![at].last = clock, ![at].miss = @ + 1]
                  /\ mux' = "drain"
                  /\ UNCHANGED <<bOpen, toB, announced, at>>
       \/ /\ s.state # "FREE" /\ ~IdentifyLate(s) /\ ~BeatDue(s)
          /\ mux' = "drain"
          /\ UNCHANGED <<slot, bOpen, toB, toC, announced, at>>
    /\ UNCHANGED <<clientVars, cOpen, backlog, hand, clock, routed>>

(* recv() finds nothing: the loop ends, and the slot with it when the      *)
(* client has closed its end.                                              *)
DrainEnd ==
    LET k == slot[at].fd IN
    /\ mux = "drain" /\ toB[k] = <<>>
    /\ IF cOpen[k] THEN UNCHANGED <<slot, bOpen, toB, announced>>
       ELSE CloseSlot(at)
    /\ NextSlot
    /\ UNCHANGED <<clientVars, cOpen, toC, backlog, hand, clock, routed>>

(* What a header without its payload makes the bridge route: junk, or any  *)
(* message that went through the buffer before.                            *)
Junk == <<>>
Leftover == {Junk} \cup UNION {{routed[k][n].msg : n \in DOMAIN routed[k]} : k \in Conn}

Assigned_None(i) == 0
Assigned(i) == i    \* virtual_endpoint_id: 0x40 + i

Identify(s) ==
    IF s.state # "IDENTIFYING" THEN UNCHANGED <<slot, toC, announced>>
    ELSE /\ SendFrame(s.fd, "ASSIGN")
         /\ slot' = [slot EXCEPT ![at] = [s EXCEPT !.state = "CONNECTED",
                                                   !.ep = Assigned(at), !.last = clock]]
         /\ announced' = Connected(Assigned(at))

Missed_NoReset(s) == s.miss
Missed(s) == 0      \* heartbeat_miss_count after a HEALTH_RSP

(* embediq_bus_bridge_route(): stamps the slot's endpoint and routes.      *)
Route(s, msg) ==
    routed' = [routed EXCEPT ![s.fd] = Append(@, [ep |-> s.ep, msg |-> msg])]

Drain ==
    LET s == slot[at]
        p == Head(toB[s.fd])
        is(type) == p.form # "payload" /\ p.type = type
    IN
    /\ mux = "drain" /\ toB[s.fd] # <<>>
    /\ toB' = [toB EXCEPT ![s.fd] = Tail(@)]
    /\ \/ /\ is("IDENTIFY")
          /\ Identify(s)
          /\ UNCHANGED <<routed, mux, at>>
       \/ /\ is("MSG")
          /\ \E msg \in IF p.form = "frame" THEN {<<s.fd, p.body>>} ELSE Leftover : Route(s, msg)
          /\ UNCHANGED <<slot, toC, announced, mux, at>>
       \/ /\ is("SUBSCRIBE")
          /\ UNCHANGED <<slot, toC, announced, routed, mux, at>>
       \/ /\ is("HEALTH_RSP")
          /\ slot' = [slot EXCEPT ![at].miss = Missed(s)]
          /\ UNCHANGED <<toC, announced, routed, mux, at>>
       \/ /\ p.form = "payload"
          /\ UNCHANGED <<mux, at>> \/ (p.type \in {"IDENTIFY", "SUBSCRIBE"} /\ NextSlot)
          /\ UNCHANGED <<slot, toC, announced, routed>>
    /\ UNCHANGED <<clientVars, cOpen, bOpen, backlog, hand, clock>>

(* embediq_osal_delay_ms(50), or longer when the thread is late. Nobody    *)
(* but a prompt client is bound to act in that time.                       *)
Sleep ==
    /\ mux = "sleep"
    /\ \A c \in Prompt :
        /\ st[c] # "connected"
        /\ st[c] \in {"handshake", "up", "leaving"} => toC[Now(c)] = <<>>
    /\ \E d \in 1 .. Lag : clock' = (clock + d) % Wrap
    /\ mux' = "pick"
    /\ UNCHANGED <<clientVars, wireVars, backlog, hand, slot, at, announced, routed>>

Mux == Pick \/ Timers \/ DrainEnd \/ Drain \/ Sleep

ClientStep(c) ==
    \/ Connect(c) \/ SendIdentify(c) \/ Handshake(c) \/ Publish(c) \/ Subscribe(c)
    \/ SdkReceive(c) \/ CApiReceive(c) \/ SdkDisconnect(c) \/ Quit(c)

Next == (\E c \in Client : ClientStep(c)) \/ Accept \/ Mux

(* The bridge's threads are scheduled, and so is a prompt client's receive *)
(* thread; nothing is assumed of the other clients.                        *)
Spec ==
    /\ Init /\ [][Next]_vars
    /\ WF_vars(Accept) /\ WF_vars(Mux)
    /\ \A c \in Prompt : WF_vars(SendIdentify(c) \/ Handshake(c) \/ SdkReceive(c))

(***************************************************************************)
(* Properties.                                                             *)
(***************************************************************************)
(* Subscribers of CONNECTED and DISCONNECTED see the two alternate for     *)
(* each endpoint, starting with CONNECTED, and know at any time which      *)
(* endpoints live: whatever ends a connection, before or after IDENTIFY.   *)
AnnouncedIsConnected ==
    \A i \in Slot : announced[i] = IF slot[i].state = "CONNECTED" THEN 1 ELSE 0

(* What an SDK client publishes is routed whole, once, in order, and under *)
(* an endpoint that no other connection has at the time.                   *)
SdkMessagesIntact ==
    \A k \in ConnOf(Sdk) : \A n \in DOMAIN routed[k] :
        /\ routed[k][n].msg = <<k, n>>
        /\ routed[k][n].ep # 0
        /\ k \in {slot[i].fd : i \in Slot} => slot[routed[k][n].ep].fd = k

InSlot(k) == \E i \in Slot : slot[i].fd = k
Answered(k) == \E n \in DOMAIN toB[k] : toB[k][n].type = "HEALTH_RSP"

(* The bridge never hangs up on a client that answers within a pass of the *)
(* mux, as long as the mux itself is no later than the IDENTIFY timeout.   *)
PromptKept ==
    [][\A k \in ConnOf(Prompt) : cOpen[k] /\ InSlot(k) => bOpen'[k]]_vars

(* A connection that keeps its slot for ever answers for ever: a client    *)
(* that hangs, before or after IDENTIFY, frees its slot in the end.        *)
SlotsAreEarned == \A k \in Conn : []<>~InSlot(k) \/ []<>Answered(k)

(* A connection that was handed to the mux gets an endpoint or is closed.  *)
HandedOverIsServed ==
    \A k \in Conn : k \in ToSet(hand) ~> (~bOpen[k] \/ "ASSIGN" \in ToSet(toC[k])
                                          \/ \E i \in Slot : slot[i].fd = k /\ slot[i].ep # 0)

(***************************************************************************)
(* What documentation and comments promise and the code does not do.       *)
(***************************************************************************)
(* The bridge routes nothing but what its clients have sent.               *)
RoutedWasSent ==
    \A k \in Conn : \A n \in DOMAIN routed[k] : routed[k][n].msg = <<k, n>>

(* A client is dropped for missed answers only if none is there to read.   *)
NoAnswerDiscarded ==
    [][\A k \in Conn : bOpen[k] /\ ~bOpen'[k] => ~Answered(k)]_vars

(* A client that disconnects does not come back.                           *)
DisconnectIsFinal == \A c \in Sdk : [](st[c] = "leaving" => [](st[c] # "connected"))

(* Every connection is answered or closed.                                 *)
EveryConnectionServed ==
    \A k \in Conn : cOpen[k] ~> (~cOpen[k] \/ ~bOpen[k] \/ toC[k] # <<>>)
=============================================================================
