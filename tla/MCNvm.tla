------------------------------- MODULE MCNvm -------------------------------
(* Instances of Cfg and Nvm: more keys than slots, one of them a factory   *)
(* key, and keys that are written and read as values of several types.     *)
EXTENDS Cfg

CONSTANTS device_id, mode, level, \* keys
          t1, t2,                 \* threads
          short, long, minus, yes \* values

MCSize(x) == Len(Bytes(x))
MCType(x) == CASE x = minus -> "i32" [] x = yes -> "bool" [] OTHER -> "str"
MCValue(x) == CASE x = minus -> -1 [] x = yes -> TRUE [] x = short -> <<1>> [] x = long -> <<1, 2, 1, 2, 1>>

SetTo(k, x) == [op |-> "set", key |-> k, val |-> x]
GetAs(k, type, default) == [op |-> "get", key |-> k, type |-> type, default |-> default]
GetStr(k, len) == [op |-> "get", key |-> k, type |-> "str", default |-> <<2>>, len |-> len]
DeleteOf(k) == [op |-> "delete", key |-> k]

(* One thread changes the store in every way, the other reads, and writes  *)
(* a key of the first one's as another type.                               *)
MCRequests == [t \in {t1, t2} |->
    IF t = t1 THEN {SetTo(device_id, short), SetTo(mode, minus), SetTo(level, short), SetTo(level, long),
                    DeleteOf(mode)}
    ELSE {SetTo(mode, yes), GetAs(mode, "i32", 0), GetAs(mode, "bool", FALSE), GetStr(level, 2)}]

MCCalls == [t \in {t1, t2} |-> IF t = t1 THEN [op : {"flush", "reset"}] ELSE {}]

(* No store at all, or one with nothing in it but the factory key.         *)
MCProvisioned ==
    {NoBlob, [s \in Slot |-> IF s = 1 THEN [key |-> device_id, val |-> short] ELSE Free]}
MCTrash == <<1, 1, 1, 1>>
=============================================================================
