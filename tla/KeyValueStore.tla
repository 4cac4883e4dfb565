--------------------------- MODULE KeyValueStore ---------------------------
(***************************************************************************)
(* What core/include/embediq_nvm.h promises of the persistent store, as    *)
(* far as core/include/hal/hal_flash.h lets it: every call takes effect at *)
(* once, exactly once, between its start and its return; the saved copy is *)
(* always a whole former state of the store; and the program comes back to *)
(* the saved copy when it dies. A flash write that breaks its contract may *)
(* cost the saved copy, and then all of it.                                *)
(***************************************************************************)
EXTENDS Integers, FiniteSets

CONSTANTS
    Thread, Key, Val,
    Factory,        \* keys that may not be set
    Size(_), MaxSize,
    Call,           \* the calls there are
    None,           \* no value, no call
    Capacity,       \* EMBEDIQ_NVM_MAX_KEYS
    Provisioned     \* what may have been saved before the program first runs

VARIABLES kv, saved, call, answer, got

vars == <<kv, saved, call, answer, got>>

Nothing == [k \in Key |-> None]
InUse(m) == {k \in Key : m[k] # None}
Idle ==
    /\ call = [t \in Thread |-> None] /\ got = call
    /\ answer = [t \in Thread |-> "none"]

Init == saved \in Provisioned /\ kv = saved /\ Idle

Invoke(t) ==
    /\ call[t] = None
    /\ \E c \in Call : call' = [call EXCEPT ![t] = c]
    /\ UNCHANGED <<kv, saved, answer, got>>

Answer(t, res) ==
    /\ call[t] # None /\ answer[t] = "none"
    /\ answer' = [answer EXCEPT ![t] = res]
    /\ UNCHANGED <<saved, call>>

Yields(t, v) == got' = [got EXCEPT ![t] = v]

(* What is too long is refused, and so is a factory key, and a new key     *)
(* when the store is full.                                                 *)
Set(t) ==
    LET k == call[t].key
        after == [kv EXCEPT ![k] = call[t].val] IN
    /\ call[t].op = "set"
    /\ IF \/ Size(call[t].val) > MaxSize
          \/ k \in Factory
          \/ Cardinality(InUse(after)) > Capacity
         THEN Answer(t, "err") /\ UNCHANGED kv
         ELSE Answer(t, "ok") /\ kv' = after
    /\ UNCHANGED got

(* A get of what is there and fits the caller's buffer yields it.          *)
Get(t) ==
    LET v == kv[call[t].key] IN
    /\ call[t].op = "get"
    /\ \/ v # None /\ Size(v) <= call[t].room /\ Answer(t, "ok") /\ Yields(t, v)
       \/ (v # None => Size(v) > call[t].room) /\ Answer(t, "err") /\ UNCHANGED got
    /\ UNCHANGED kv

Delete(t) ==
    /\ call[t].op = "delete" /\ Answer(t, "ok")
    /\ kv' = [kv EXCEPT ![call[t].key] = None]
    /\ UNCHANGED got

Flush(t) == call[t].op = "flush" /\ Answer(t, "ok") /\ UNCHANGED <<kv, got>>

Reset(t) == call[t].op = "reset" /\ Answer(t, "ok") /\ kv' = Nothing /\ UNCHANGED got

Return(t) ==
    /\ answer[t] # "none"
    /\ call' = [call EXCEPT ![t] = None] /\ answer' = [answer EXCEPT ![t] = "none"]
    /\ Yields(t, None)
    /\ UNCHANGED <<kv, saved>>

Save == saved' = kv /\ UNCHANGED <<kv, call, answer, got>>
Lose == saved' = Nothing /\ UNCHANGED <<kv, call, answer, got>>
Crash == kv' = saved /\ UNCHANGED saved /\ Idle'

Next ==
    \/ \E t \in Thread : \/ Invoke(t) \/ Return(t)
                         \/ call[t] # None /\ (Set(t) \/ Get(t) \/ Delete(t) \/ Flush(t) \/ Reset(t))
    \/ Save \/ Lose \/ Crash

Spec == Init /\ [][Next]_vars
=============================================================================
