------------------------------ MODULE Counter ------------------------------
(* What the counting primitives of the OSAL promise (embediq_osal.h,       *)
(* "Signal API", "Mutex API", "Semaphore API"): each is a counter from     *)
(* which a call takes one in a single step, waiting while it is zero, and  *)
(* to which a call gives one, up to a limit. A mutex is a counter of one.  *)
(* A call that must not wait is refused only if the counter is zero; only  *)
(* a call with a deadline may be refused for another reason.               *)
EXTENDS Integers

CONSTANTS Thread, Counters, Initial, Limit, Calls

VARIABLES value, call

vars == <<value, call>>

Idle == [op |-> "idle"]

Init == value = Initial /\ call = [t \in Thread |-> Idle]

Return(t) == call' = [call EXCEPT ![t] = Idle]

Start(t) == /\ call[t] = Idle
            /\ \E c \in Calls[t] : call' = [call EXCEPT ![t] = c]
            /\ UNCHANGED value

Give(t) == /\ call[t].op = "give"
           /\ value' = [value EXCEPT ![call[t].on] =
                            IF Limit[call[t].on] # 0 /\ @ >= Limit[call[t].on] THEN @ ELSE @ + 1]
           /\ Return(t)

Take(t) == /\ call[t].op = "take"
           /\ value[call[t].on] > 0
           /\ value' = [value EXCEPT ![call[t].on] = @ - 1]
           /\ Return(t)

Refuse(t) == /\ call[t].op = "take"
             /\ \/ call[t].mode = "timed"
                \/ call[t].mode = "zero" /\ value[call[t].on] = 0
             /\ Return(t)
             /\ UNCHANGED value

Next == \E t \in Thread : Start(t) \/ Give(t) \/ Take(t) \/ Refuse(t)

Safety == Init /\ [][Next]_vars

(* Nobody sleeps through his chance: while some wait for a counter that is *)
(* not zero, one of them gets through; and to give never waits.            *)
Spec == /\ Safety
        /\ \A c \in Counters : WF_vars(\E t \in Thread : call[t].op = "take" /\ call[t].on = c /\ Take(t))
        /\ \A t \in Thread : WF_vars(Give(t))
=============================================================================
