-------------------------------- MODULE Crc --------------------------------
(***************************************************************************)
(* The CRC component (components/embediq_crc/embediq_crc.c): CRC-8,        *)
(* CRC-16/CCITT-FALSE and CRC-32/ISO-HDLC by table look-up. The tables are *)
(* static and are built by the first call that finds the flag of its       *)
(* variant clear, so calls of several threads (or of an interrupt and what *)
(* it interrupts) share them without a lock.                               *)
(*                                                                         *)
(* A word is the set of the positions of its 1 bits: exclusive or is the   *)
(* symmetric difference. Stores are taken to be seen in program order. All *)
(* builders store the same value at an index and go up from 0, so a table  *)
(* is known by how many entries have been stored.                          *)
(***************************************************************************)
EXTENDS Integers, Sequences, FiniteSetsExt

CONSTANTS
    Caller,     \* threads that compute a CRC
    Variants,   \* which ones they compute
    Byte,       \* the bytes they feed
    MaxLen,     \* bound: how many bytes each feeds
    Stride      \* bound: a builder is interrupted only after so many entries

TableSize == 256    \* CRC_TABLE_SIZE

CRC8 == [width |-> 8, reflected |-> FALSE, poly |-> {2, 1, 0}, init |-> {}, xorout |-> {}]
CRC16 == [width |-> 16, reflected |-> FALSE, poly |-> {12, 5, 0}, init |-> 0 .. 15, xorout |-> {}]
CRC32 == [width |-> 32, reflected |-> TRUE,
          poly |-> {31, 30, 29, 27, 26, 24, 23, 21, 20, 19, 15, 9, 8, 5},
          init |-> 0 .. 31, xorout |-> 0 .. 31]

ASSUME CrcAssumption ==
    /\ Variants \subseteq {CRC8, CRC16, CRC32}
    /\ Byte \subseteq 0 .. TableSize - 1
    /\ MaxLen \in [Caller -> Nat]
    /\ Stride \in 1 .. TableSize /\ TableSize % Stride = 0

VARIABLES
    ready,      \* s_crcN_ready
    filled,     \* how many entries of s_crcN_table have been stored
    doing,      \* where each thread is
    variant,    \* what it computes
    pos,        \* its index i while it builds
    acc,        \* its accumulator
    eaten       \* what it has fed (only properties read it)

crcVars == <<ready, filled, doing, variant, pos, acc, eaten>>

CrcInit ==
    /\ ready = [v \in Variants |-> FALSE]
    /\ filled = [v \in Variants |-> 0]
    /\ doing = [t \in Caller |-> "idle"]
    /\ variant \in [Caller -> Variants]
    /\ pos = [t \in Caller |-> 0]
    /\ acc = [t \in Caller |-> {}]
    /\ eaten = [t \in Caller |-> <<>>]

-----------------------------------------------------------------------------
(* The arithmetic.                                                         *)
Bits(n) == {b \in 0 .. 7 : (n \div 2^b) % 2 = 1}
Number(w) ==
    LET bit(b) == IF b \in w THEN 1 ELSE 0
    IN  bit(0) + 2 * bit(1) + 4 * bit(2) + 8 * bit(3)
          + 16 * bit(4) + 32 * bit(5) + 64 * bit(6) + 128 * bit(7)
Up(v, w, n) == {b \in n .. v.width - 1 : b - n \in w}
Down(w, n) == {b - n : b \in {c \in w : c >= n}}

(* One of the eight rounds that make a table entry, and the entry at the   *)
(* index whose bits are i.                                                 *)
RoundUp(v, w) == IF v.width - 1 \in w THEN SymDiff(Up(v, w, 1), v.poly) ELSE Up(v, w, 1)
RoundDown(v, w) == IF 0 \in w THEN SymDiff(v.poly, Down(w, 1)) ELSE Down(w, 1)
TableEntry(v, i) ==
    LET crc[j \in Nat] ==
            IF j = 0 THEN (IF v.reflected THEN i ELSE Up(v, i, v.width - 8))
            ELSE LET w == crc[j - 1] IN IF v.reflected THEN RoundDown(v, w) ELSE RoundUp(v, w)
    IN  crc[8]

(* A table starts as zeros.                                                *)
LookUp(v, i) == IF Number(i) < filled[v] THEN TableEntry(v, i) ELSE {}

(* One byte of embediq_crcN_update().                                      *)
FeedUp(v, w, p) == SymDiff(Up(v, w, 8), LookUp(v, SymDiff(Down(w, v.width - 8), Bits(p))))
FeedDown(v, w, p) == SymDiff(Down(w, 8), LookUp(v, SymDiff(w, Bits(p)) \cap 0 .. 7))

-----------------------------------------------------------------------------
Move(t, where) == doing' = [doing EXCEPT ![t] = where]
IfReady(t, v, where) == Move(t, IF ready[v] THEN where ELSE "build")

(* embediq_crcN_init()                                                     *)
Open(t) ==
    /\ doing[t] = "idle"
    /\ \E v \in Variants :
         /\ variant' = [variant EXCEPT ![t] = v]
         /\ acc' = [acc EXCEPT ![t] = v.init]
         /\ IfReady(t, v, "open")
    /\ eaten' = [eaten EXCEPT ![t] = <<>>]
    /\ UNCHANGED <<ready, filled, pos>>

Published_AtOnce(n) == TRUE
(* The flag is set when the loop is over.                                  *)
Published(n) == n = TableSize

(* crcN_build()                                                            *)
Build(t) ==
    LET v == variant[t]
        n == pos[t] + Stride IN
    /\ doing[t] = "build"
    /\ filled' = [filled EXCEPT ![v] = IF @ > n THEN @ ELSE n]
    /\ ready' = [ready EXCEPT ![v] = @ \/ Published(n)]
    /\ pos' = [pos EXCEPT ![t] = n % TableSize]
    /\ IF n = TableSize THEN Move(t, "open") ELSE UNCHANGED doing
    /\ UNCHANGED <<variant, acc, eaten>>

(* embediq_crcN_update() with the next fragment, of which it takes one     *)
(* byte after the other, and its return.                                   *)
Update(t) ==
    /\ doing[t] = "open"
    /\ IfReady(t, variant[t], "bytes")
    /\ UNCHANGED <<ready, filled, variant, pos, acc, eaten>>

Feed(t) ==
    LET v == variant[t] IN
    /\ doing[t] = "bytes" /\ Len(eaten[t]) < MaxLen[t]
    /\ \E p \in Byte :
         /\ acc' = [acc EXCEPT ![t] = IF v.reflected THEN FeedDown(v, @, p) ELSE FeedUp(v, @, p)]
         /\ eaten' = [eaten EXCEPT ![t] = Append(@, p)]
    /\ UNCHANGED <<ready, filled, doing, variant, pos>>

EndUpdate(t) ==
    /\ doing[t] = "bytes"
    /\ Move(t, "open")
    /\ UNCHANGED <<ready, filled, variant, pos, acc, eaten>>

(* embediq_crcN_final()                                                    *)
Final(t) ==
    /\ doing[t] = "open"
    /\ acc' = [acc EXCEPT ![t] = SymDiff(@, variant[t].xorout)]
    /\ Move(t, "done")
    /\ UNCHANGED <<ready, filled, variant, pos, eaten>>

Again(t) == doing[t] = "done" /\ Move(t, "idle") /\ UNCHANGED <<ready, filled, variant, pos, acc, eaten>>

CrcNext == \E t \in Caller :
    Open(t) \/ Build(t) \/ Update(t) \/ Feed(t) \/ EndUpdate(t) \/ Final(t) \/ Again(t)

CrcSpec == CrcInit /\ [][CrcNext]_crcVars

-----------------------------------------------------------------------------
(* The definition of a CRC: the remainder of a polynomial over GF(2),      *)
(* which is the set of the exponents of its terms. Long division takes n   *)
(* steps for a polynomial of a degree below width + n.                     *)
Shift(P, n) == {e + n : e \in P}
Modulo(P, G, width, n) ==
    LET rest[k \in Nat] ==
            IF k = 0 THEN P
            ELSE LET p == rest[k - 1]
                 IN  IF width + n - k \in p THEN SymDiff(p, Shift(G, n - k)) ELSE p
    IN  rest[n]

(* In a reflected variant the lowest bit comes first.                      *)
AsPolynomial(v, w, width) == IF v.reflected THEN {width - 1 - b : b \in w} ELSE w
Generator(v) == {v.width} \cup AsPolynomial(v, v.poly, v.width)

(* A message is divided with zeros after it and the initial value added to *)
(* its first bits.                                                         *)
Dividend(v, m) ==
    LET byte(n) == Shift(AsPolynomial(v, Bits(m[n]), 8), v.width + 8 * (Len(m) - n))
        preset == Shift(AsPolynomial(v, v.init, v.width), 8 * Len(m))
    IN  SymDiff(UNION {byte(n) : n \in DOMAIN m}, preset)
CrcOf(v, m) ==
    LET rest == Modulo(Dividend(v, m), Generator(v), v.width, 8 * Len(m))
    IN  SymDiff(AsPolynomial(v, rest, v.width), v.xorout)

(* Every digest is the CRC of what was fed, in whatever fragments, also    *)
(* when several callers find the table unbuilt or half built at once       *)
(* ("safe to call from any context including ISR", embediq_crc.h).         *)
DigestIsCrc == \A t \in Caller : doing[t] = "done" => acc[t] = CrcOf(variant[t], eaten[t])
=============================================================================
