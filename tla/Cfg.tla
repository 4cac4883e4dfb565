-------------------------------- MODULE Cfg --------------------------------
(***************************************************************************)
(* The typed configuration helper (core/src/cfg/embediq_cfg.c) over the    *)
(* store of Nvm: getters that answer a default when the store has nothing  *)
(* that fits, setters and delete that tell whether the store took it.      *)
(*                                                                         *)
(* A value in the store is its bytes. It is kept as a name for the typed   *)
(* value it was set from, so that properties can tell where the bytes come *)
(* from; the code sees Bytes(x) and nothing else. A byte is a digit to the *)
(* base Base; a float is a word, as it is copied bit by bit.               *)
(***************************************************************************)
EXTENDS Nvm, Sequences

CONSTANTS
    Base,                   \* how many values a byte has
    TypeOf(_), ValueOf(_),  \* what the members of Val name
    Requests,       \* the typed calls each thread may make
    Trash           \* bytes of a getter's buffer that nothing was copied to

Words == {"i32", "u32"}
Width == 4      \* sizeof(int32_t)
Range32 == Base * Base * Base * Base

ASSUME CfgAssumption ==
    /\ Base \in Nat \ {0, 1}
    /\ Trash \in [1 .. Width -> 0 .. Base - 1]
    /\ \A t \in Thread : \A r \in Requests[t] :
          r.op \in {"set", "get", "delete"} /\ (r.op = "get" => r.type \in Words \cup {"bool", "str"})

VARIABLE asked      \* the typed call each thread is in, or None

cfgVars == <<vars, asked>>

(* memcpy() from a word, the lowest byte first, and back.                  *)
Digits(n) ==
    LET high == n \div Base
        higher == high \div Base IN
    <<n % Base, high % Base, higher % Base, (higher \div Base) % Base>>
Unsigned(bytes) == bytes[1] + Base * (bytes[2] + Base * (bytes[3] + Base * bytes[4]))
Signed(bytes) ==
    IF Unsigned(bytes) < Range32 \div 2 THEN Unsigned(bytes) ELSE Unsigned(bytes) - Range32

(* What the setters store.                                                 *)
Bytes(x) ==
    CASE TypeOf(x) \in Words -> Digits(ValueOf(x) % Range32)
      [] TypeOf(x) = "bool" -> <<IF ValueOf(x) THEN 1 ELSE 0>>
      [] TypeOf(x) = "str" -> ValueOf(x)

(* embediq_cfg_get_str() reads into a buffer that every value fits.        *)
Room(r) == CASE r.type \in Words -> Width [] r.type = "bool" -> 1 [] r.type = "str" -> MaxSize

NvmCall(r) ==
    CASE r.op = "set" -> [op |-> "set", key |-> r.key, val |-> r.val]
      [] r.op = "get" -> [op |-> "get", key |-> r.key, room |-> Room(r)]
      [] r.op = "delete" -> [op |-> "delete", key |-> r.key]

(* What the types hold, and what a slot does. No byte of a string is NUL.  *)
Holds(type) ==
    CASE type = "i32" -> -(Range32 \div 2) .. Range32 \div 2 - 1
      [] type = "u32" -> 0 .. Range32 - 1
      [] type = "bool" -> BOOLEAN
      [] type = "str" -> Seq(1 .. Base - 1)
ASSUME ValueAssumption ==
    /\ \A x \in Val : /\ TypeOf(x) \in Words \cup {"bool", "str"} /\ ValueOf(x) \in Holds(TypeOf(x))
                      /\ Size(x) = Len(Bytes(x))
    /\ \A tab \in Provisioned \ {NoBlob} : \A s \in Slot : tab[s] # Free => Size(tab[s].val) <= MaxSize

(* A value of every type fits a slot.                                      *)
ASSUME NvmCallAssumption == \A t \in Thread : \A r \in Requests[t] : NvmCall(r) \in Call

Fits_Always(r, bytes) == TRUE
(* A value of another width is not what the caller asks for.               *)
Fits(r, bytes) == r.type \in Words \cup {"bool"} => Len(bytes) = Room(r)

Cut(s, n) == SubSeq(s, 1, IF Len(s) < n THEN Len(s) ELSE n)

Decoded(r, bytes) ==
    LET buffer == [i \in 1 .. Width |-> IF i <= Len(bytes) THEN bytes[i] ELSE Trash[i]] IN
    CASE r.type = "i32" -> Signed(buffer)
      [] r.type = "u32" -> Unsigned(buffer)
      [] r.type = "bool" -> bytes[1] # 0
      [] r.type = "str" -> Cut(bytes, r.len - 1)

Default(r) == IF r.type = "str" THEN Cut(r.default, r.len - 1) ELSE r.default

(* What the typed call returns when the store has answered.                *)
Answer(t) ==
    LET r == asked[t] IN
    IF r.op = "get"
      THEN IF result[t] = "ok" /\ Fits(r, Bytes(out[t])) THEN Decoded(r, Bytes(out[t])) ELSE Default(r)
      ELSE result[t] = "ok"

Ask(t) ==
    \E r \in Requests[t] : Invoke(t, NvmCall(r)) /\ asked' = [asked EXCEPT ![t] = r]

CfgInit == Init /\ asked = [t \in Thread |-> None]

CfgNext ==
    \/ (NvmInit \/ \E t \in Thread : Enter(t)) /\ UNCHANGED asked
    \/ Crash /\ asked' = [t \in Thread |-> None]
    \/ \E t \in Thread : \/ Ask(t)
                         \/ Return(t) /\ asked' = [asked EXCEPT ![t] = None]
                         \/ Work(t) /\ ~Return(t) /\ UNCHANGED asked

CfgSpec == CfgInit /\ [][CfgNext]_cfgVars /\ \A t \in Thread : SF_vars(Work(t))

-----------------------------------------------------------------------------
(* A getter answers the value that is in effect under its key if a setter  *)
(* of the same type stored it, in this run or in one before, and a string  *)
(* as much of it as the buffer takes; and the default if there is none or  *)
(* one of another width. (A word stored as one type and read as another is *)
(* taken bit by bit: nothing tells i32, u32 and float apart.)              *)
TypedReadBack ==
    [][\A t \in Thread :
        LET r == asked[t] IN
        (r # None /\ asked'[t] = None /\ ready' /\ r.op = "get") =>
            LET x == Content(mem)[r.key] IN
            CASE x = None -> Answer(t) = Default(r)
              [] x # None /\ TypeOf(x) = r.type ->
                    Answer(t) = IF r.type = "str" THEN Cut(ValueOf(x), r.len - 1) ELSE ValueOf(x)
              [] x # None /\ r.type # "str" /\ Size(x) # Room(r) -> Answer(t) = Default(r)
              [] OTHER -> TRUE]_cfgVars

(* "Never block" (embediq_cfg.h, of the getters): it waits for g_mutex,    *)
(* which a setter holds while it writes the file.                          *)
GettersDoNotBlock ==
    \A t \in Thread : at[t] = "enter" /\ call[t].op = "get" => Unlocked
=============================================================================
