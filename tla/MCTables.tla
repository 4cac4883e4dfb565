------------------------------ MODULE MCTables ------------------------------
(* Three parts that share no state, of which a behaviour shows one: the    *)
(* subscription table, the library registry and the CRC tables.            *)
(*                                                                         *)
(* Three FBs declare at most two of three ids each, in any order and with  *)
(* repeats; the table has room for five of the six possible entries, and   *)
(* one id has no subscriber. Three libraries compete for two entries. Two  *)
(* threads compute any of the three CRCs, of up to two bytes and of one.   *)
EXTENDS SubscriptionTable, Platform, Crc

VARIABLE part

partVars == <<part, vars, libVars, crcVars>>

MCMsgId == {2, 4, 6}
MCPubId == {1, 2, 4, 6, 7}
MCSubLists == {<<>>} \cup {<<a>> : a \in MCMsgId} \cup {<<a, b>> : a, b \in MCMsgId}

MCVariants == {CRC8, CRC16, CRC32}
MCMaxLen == [t \in {"t1", "t2"} |-> IF t = "t1" THEN 2 ELSE 1]

PartInit ==
    /\ part \in {"subscriptions", "libraries", "crc"}
    /\ IF part = "subscriptions" THEN Init ELSE Init /\ subscriptions = [e \in EP |-> <<>>]
    /\ LibInit
    /\ IF part = "crc" THEN CrcInit ELSE CrcInit /\ variant = [t \in Caller |-> CRC8]

PartNext ==
    /\ UNCHANGED part
    /\ \/ part = "subscriptions" /\ Next /\ UNCHANGED <<libVars, crcVars>>
       \/ part = "libraries" /\ LibNext /\ UNCHANGED <<vars, crcVars>>
       \/ part = "crc" /\ CrcNext /\ UNCHANGED <<vars, libVars>>

PartSpec == PartInit /\ [][PartNext]_partVars
=============================================================================
