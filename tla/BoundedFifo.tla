---------------------------- MODULE BoundedFifo ----------------------------
(* What an OSAL queue promises its callers (core/include/embediq_osal.h,   *)
(* "Queue API"): a bounded FIFO of copied items. A call to queue_send or   *)
(* queue_recv is pending until it takes effect in one atomic step or       *)
(* reports a timeout; a call with timeout 0 reports it only if the queue   *)
(* really is full (or empty), a call that waits forever never does.        *)
EXTENDS Integers, Sequences

CONSTANTS Depth, Thread, Item, NoItem, Calls

VARIABLES q, call, out

vars == <<q, call, out>>

Idle == [op |-> "idle"]

SendCall == [op : {"send"}, mode : {"zero", "timed", "forever"}, item : Item]
RecvCall == [op : {"recv"}, mode : {"zero", "timed", "forever"}]

Init == /\ q = <<>>
        /\ call = [t \in Thread |-> Idle]
        /\ out = [t \in Thread |-> NoItem]

Start(t) == /\ call[t] = Idle
            /\ \E c \in Calls[t] : call' = [call EXCEPT ![t] = c]
            /\ UNCHANGED <<q, out>>

Send(t) == /\ call[t].op = "send"
           /\ Len(q) < Depth
           /\ q' = Append(q, call[t].item)
           /\ call' = [call EXCEPT ![t] = Idle]
           /\ UNCHANGED out

Recv(t) == /\ call[t].op = "recv"
           /\ q # <<>>
           /\ out' = [out EXCEPT ![t] = Head(q)]
           /\ q' = Tail(q)
           /\ call' = [call EXCEPT ![t] = Idle]

Timeout(t) == /\ call[t] # Idle
              /\ \/ call[t].mode = "timed"
                 \/ call[t].mode = "zero" /\ call[t].op = "send" /\ Len(q) = Depth
                 \/ call[t].mode = "zero" /\ call[t].op = "recv" /\ q = <<>>
              /\ call' = [call EXCEPT ![t] = Idle]
              /\ UNCHANGED <<q, out>>

Next == \E t \in Thread : Start(t) \/ Send(t) \/ Recv(t) \/ Timeout(t)

Safety == Init /\ [][Next]_vars

(* No caller sleeps through its chance: while senders wait and there is    *)
(* room, or receivers wait and there is an item, some call completes.      *)
Spec == /\ Safety
        /\ WF_vars(\E t \in Thread : Send(t))
        /\ WF_vars(\E t \in Thread : Recv(t))
=============================================================================
