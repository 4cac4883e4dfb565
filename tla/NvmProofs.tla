----------------------------- MODULE NvmProofs -----------------------------
(* For any keys, values, threads and slots, whatever file operations fail  *)
(* and whenever the process dies: what finished calls have stored survives, *)
(* the NVM driver implements KeyValueStore, and a typed getter answers the *)
(* value that a setter of its type has stored.                             *)
EXTENDS Cfg, FunctionTheorems, FiniteSetTheorems, WellFoundedInduction, TLAPS

Persisting == {"open", "write", "close", "rename"}
Stage == {"idle", "enter", "unlock"} \cup Persisting

IsTable(t) == t \in Table /\ OneSlotEach(t)
IsFile(f) == f = NoBlob \/ IsTable(f)

TypesOK ==
    /\ ready \in BOOLEAN /\ faulted \in BOOLEAN
    /\ IsTable(mem) /\ IsFile(file) /\ IsFile(tmp)
    /\ lock \subseteq Thread
    /\ at \in [Thread -> Stage]
    /\ call \in [Thread -> Call \cup {None}]
    /\ result \in [Thread -> {"ok", "err"}]
    /\ out \in [Thread -> Val \cup {None}]

(* A thread is in a call or not, and one that is past its entry has g_mutex *)
(* unless it was refused.                                                  *)
ThreadsOK ==
    /\ \A t \in Thread :
          /\ at[t] = "idle" => call[t] = None /\ out[t] = None
          /\ at[t] = "enter" => out[t] = None
          /\ at[t] # "idle" => call[t] \in Call /\ ready
          /\ t \in lock => at[t] \in Persisting \cup {"unlock"}
          /\ at[t] \in Persisting => t \in lock
    /\ \A t, o \in lock : t = o

(* What the store holds: before the temporary file is in its place, what   *)
(* was there when g_mutex was taken, and then the table.                   *)
Saving(t) == t \in lock /\ at[t] \in Persisting
SavedOK ==
    /\ \A t \in Thread : at[t] = "rename" => tmp \in {mem, NoBlob} /\ (~faulted => tmp = mem)
    /\ ready /\ lock = {} => acked = Content(mem)
    /\ ready /\ ~faulted =>
          /\ (\E t \in Thread : Saving(t)) => Content(Loaded(file)) = acked
          /\ ~(\E t \in Thread : Saving(t)) => Content(Loaded(file)) = Content(mem)
    /\ ~ready /\ ~faulted => Content(Loaded(file)) \in {acked, dying}

NvmInv == TypesOK /\ ThreadsOK /\ SavedOK

-----------------------------------------------------------------------------
(* Tables and the maps they stand for                                      *)

(* The slots are numbered.                                                 *)
LEMMA SlotNumbers == Slot \subseteq Nat /\ IsFiniteSet(Slot) /\ Cardinality(Slot) = NumSlots
  <1>1. IsFiniteSet(1 .. NumSlots) /\ Cardinality(1 .. NumSlots) = IF 1 > NumSlots THEN 0 ELSE NumSlots - 1 + 1
    BY NvmAssumption, FS_Interval DEF NvmAssumption
  <1> QED
    BY <1>1, NvmAssumption DEF NvmAssumption, Slot

(* First() is the least of some slots.                                     *)
LEMMA FirstIsIn ==
  ASSUME NEW S \in SUBSET Nat, S # {}
  PROVE  First(S) \in S
  <1>1. PICK j \in S : \A f \in S : <<f, j>> \notin OpToRel(<, Nat)
    BY WFMin, NatLessThanWellFounded, Zenon
  <1>2. \A f \in S : ~(f < j)
    BY <1>1, Zenon DEF OpToRel
  <1>3. \E i \in S : \A f \in S : i <= f
    BY <1>2
  <1> QED
    BY <1>3, Zenon DEF First

(* Slots hold entries, and an entry is no free slot.                       *)
LEMMA Entries ==
  ASSUME NEW t, IsTable(t), NEW s \in Slot
  PROVE  /\ DOMAIN t = Slot
         /\ t[s] # Free => t[s] \in Entry /\ t[s].key \in Key /\ t[s].val \in Val /\ t[s].val # None
         /\ Free \notin Entry
  BY NvmAssumption DEF NvmAssumption, IsTable, Table, Entry

(* A key is in one slot, which tells its value, or in none.                *)
LEMMA KeyInOneSlot ==
  ASSUME NEW t, IsTable(t), NEW k \in Key
  PROVE  /\ SlotsOf(t, k) = {} => Content(t)[k] = None
         /\ \A s \in SlotsOf(t, k) :
               /\ SlotsOf(t, k) = {s} /\ First(SlotsOf(t, k)) = s
               /\ Content(t)[k] = t[s].val /\ t[s].val \in Val /\ t[s].val # None
  <1>1. SlotsOf(t, k) = {} => Content(t)[k] = None
    BY DEF Content
  <1>2. ASSUME NEW s \in SlotsOf(t, k)
        PROVE  /\ SlotsOf(t, k) = {s} /\ First(SlotsOf(t, k)) = s
               /\ Content(t)[k] = t[s].val /\ t[s].val \in Val /\ t[s].val # None
    <2>1. s \in Slot /\ t[s] # Free /\ t[s].key = k
      BY DEF SlotsOf
    <2>2. SlotsOf(t, k) = {s}
      BY <2>1 DEF SlotsOf, IsTable, OneSlotEach
    <2>3. First(SlotsOf(t, k)) = s
      BY <2>1, <2>2, SlotNumbers, FirstIsIn
    <2>4. Content(t)[k] = t[s].val
      BY <2>2, <2>3 DEF Content
    <2> QED
      BY <2>1, <2>2, <2>3, <2>4, Entries
  <1> QED
    BY <1>1, <1>2

(* An empty table stands for the empty map.                                *)
LEMMA EmptyIsNothing == IsTable(EmptyTable) /\ Content(EmptyTable) = Promise!Nothing
  BY DEF IsTable, Table, EmptyTable, OneSlotEach, Content, SlotsOf, Promise!Nothing

(* Two maps are the same if they agree on every key.                       *)
LEMMA SameContent ==
  ASSUME NEW t, NEW m, m = [k \in Key |-> m[k]], \A k \in Key : Content(t)[k] = m[k]
  PROVE  Content(t) = m
  BY DEF Content

(* The slot of a key, or a free one when it has none.                      *)
MayHold(t, k, s) == s \in SlotsOf(t, k) \/ (SlotsOf(t, k) = {} /\ t[s] = Free)

(* Storing there changes the value of that key and nothing else.           *)
LEMMA Storing ==
  ASSUME NEW t, IsTable(t), NEW e \in Entry, NEW s \in Slot, MayHold(t, e.key, s)
  PROVE  /\ IsTable([t EXCEPT ![s] = e])
         /\ Content([t EXCEPT ![s] = e]) = [Content(t) EXCEPT ![e.key] = e.val]
  <1>1. PICK u, k, v : u = [t EXCEPT ![s] = e] /\ k = e.key /\ v = e.val
    OBVIOUS
  <1>2. k \in Key /\ v \in Val /\ MayHold(t, k, s)
    BY <1>1 DEF Entry
  <1>3. DOMAIN t = Slot /\ u[s] = e /\ e # Free
        /\ \A o \in Slot \ {s} : u[o] = t[o]
    BY <1>1, Entries
  <1>4. u \in Table
    BY <1>1 DEF Table, IsTable
  <1>5. \A o \in Slot \ {s} : t[o] # Free => t[o].key # k
    <2>1. SlotsOf(t, k) = {s} \/ SlotsOf(t, k) = {}
      BY <1>2, KeyInOneSlot DEF MayHold
    <2> QED
      BY <2>1 DEF SlotsOf
  <1>6. OneSlotEach(u)
    BY <1>1, <1>2, <1>3, <1>5 DEF OneSlotEach, IsTable
  <1>7. IsTable(u)
    BY <1>4, <1>6 DEF IsTable
  <1>8. SlotsOf(u, k) = {s}
    BY <1>1, <1>2, <1>3, <1>5 DEF SlotsOf
  <1>9. Content(u)[k] = v
    BY <1>1, <1>2, <1>3, <1>7, <1>8, KeyInOneSlot
  <1>10. ASSUME NEW o \in Key, o # k
        PROVE  Content(u)[o] = Content(t)[o]
    <2>1. SlotsOf(u, o) = SlotsOf(t, o)
      BY <1>1, <1>2, <1>3, <1>10 DEF SlotsOf, MayHold
    <2>2. CASE SlotsOf(u, o) = {}
      BY <1>7, <2>1, <2>2, KeyInOneSlot
    <2>3. CASE SlotsOf(u, o) # {}
      <3>1. PICK i \in SlotsOf(u, o) : TRUE
        BY <2>3
      <3>2. i \in Slot \ {s}
        BY <1>1, <1>3, <1>10, <3>1 DEF SlotsOf
      <3>3. Content(u)[o] = u[i].val
        BY <1>7, <3>1, KeyInOneSlot
      <3>4. Content(t)[o] = t[i].val
        BY <2>1, <3>1, KeyInOneSlot
      <3> QED
        BY <1>3, <3>2, <3>3, <3>4
    <2> QED
      BY <2>2, <2>3
  <1>11. Content(t) = [o \in Key |-> Content(t)[o]]
    BY DEF Content
  <1> DEFINE m == [Content(t) EXCEPT ![k] = v]
  <1>12. m = [o \in Key |-> m[o]] /\ \A o \in Key : Content(u)[o] = m[o]
    BY <1>9, <1>10, <1>11
  <1> HIDE DEF m
  <1>13. Content(u) = m
    BY <1>12 DEF Content
  <1> QED
    BY <1>1, <1>7, <1>13 DEF m

(* Freeing the slot of a key.                                              *)
LEMMA Freeing ==
  ASSUME NEW t, IsTable(t), NEW k \in Key, NEW s \in SlotsOf(t, k), NEW u, u = [t EXCEPT ![s] = Free]
  PROVE  IsTable(u) /\ Content(u) = [Content(t) EXCEPT ![k] = None]
  <1>1. s \in Slot /\ DOMAIN t = Slot /\ u[s] = Free /\ \A o \in Slot \ {s} : u[o] = t[o]
    BY Entries DEF SlotsOf
  <1>2. IsTable(u)
    BY <1>1 DEF Table, IsTable, OneSlotEach
  <1>3. SlotsOf(u, k) = {}
    <2>1. SlotsOf(t, k) = {s}
      BY KeyInOneSlot
    <2> QED
      BY <1>1, <2>1 DEF SlotsOf
  <1>4. Content(u)[k] = None
    BY <1>2, <1>3, KeyInOneSlot
  <1>5. ASSUME NEW o \in Key, o # k
        PROVE  Content(u)[o] = Content(t)[o]
    <2>1. SlotsOf(u, o) = SlotsOf(t, o)
      BY <1>1, <1>5 DEF SlotsOf
    <2>2. CASE SlotsOf(u, o) = {}
      BY <1>2, <2>1, <2>2, KeyInOneSlot
    <2>3. CASE SlotsOf(u, o) # {}
      <3>1. PICK i \in SlotsOf(u, o) : TRUE
        BY <2>3
      <3>2. i \in Slot \ {s}
        BY <1>1, <3>1 DEF SlotsOf
      <3> QED
        BY <1>1, <1>2, <2>1, <3>1, <3>2, KeyInOneSlot
    <2> QED
      BY <2>2, <2>3
  <1>6. Content(t) = [o \in Key |-> Content(t)[o]]
    BY DEF Content
  <1> DEFINE m == [Content(t) EXCEPT ![k] = None]
  <1>7. m = [o \in Key |-> m[o]] /\ \A o \in Key : Content(u)[o] = m[o]
    BY <1>4, <1>5, <1>6
  <1> HIDE DEF m
  <1>8. Content(u) = m
    BY <1>7, SameContent
  <1> QED
    BY <1>2, <1>8 DEF m

(* A table has room for NumSlots keys, and holds as many when it is full.  *)
LEMMA KeysFit ==
  ASSUME NEW t, IsTable(t), NEW U, U = Promise!InUse(Content(t))
  PROVE  /\ IsFiniteSet(U) /\ Cardinality(U) \in Nat /\ Cardinality(U) <= NumSlots
         /\ FreeSlots(t) = {} => Cardinality(U) = NumSlots
  <1> DEFINE Used == Slot \ FreeSlots(t)
             KeyOf == [s \in Used |-> t[s].key]
  <1>1. U = {k \in Key : SlotsOf(t, k) # {}}
    BY KeyInOneSlot DEF Promise!InUse
  <1>2. KeyOf \in [Used -> U]
    BY <1>1, Entries DEF FreeSlots, SlotsOf
  <1>3. \A a, b \in Used : KeyOf[a] = KeyOf[b] => a = b
    BY DEF FreeSlots, IsTable, OneSlotEach
  <1>4. \A k \in U : \E s \in Used : KeyOf[s] = k
    BY <1>1 DEF FreeSlots, SlotsOf
  <1> HIDE DEF KeyOf
  <1>5. KeyOf \in Bijection(Used, U) /\ ExistsBijection(Used, U)
    <2>1. KeyOf \in Bijection(Used, U)
      BY <1>2, <1>3, <1>4, Fun_IsBij, Zenon
    <2> QED
      BY <2>1, Zenon DEF ExistsBijection
  <1>6. IsFiniteSet(Used) /\ Cardinality(Used) <= NumSlots
    BY SlotNumbers, FS_Subset, Used \in SUBSET Slot
  <1>7. IsFiniteSet(U) /\ Cardinality(U) = Cardinality(Used)
    BY <1>5, <1>6, FS_Bijection
  <1>8. FreeSlots(t) = {} => Used = Slot
    OBVIOUS
  <1> QED
    BY <1>6, <1>7, <1>8, SlotNumbers, FS_CardinalityType

-----------------------------------------------------------------------------
(* The steps of a thread: each preserves the invariant and is a step of    *)
(* KeyValueStore or none.                                                  *)

(* KeyValueStore counts keys with the same operator.                       *)
LEMMA SameCardinality == \A S : Promise!Cardinality(S) = Cardinality(S)
  BY Zenon DEF Cardinality, Promise!Cardinality

(* In the beginning the store is what the program was provisioned with.    *)
LEMMA Starting == Init => NvmInv /\ Promise!Init
  <1> SUFFICES ASSUME Init
               PROVE  NvmInv /\ Promise!Init
    OBVIOUS
  <1>1. IsFile(file) /\ Content(Loaded(file)) \in {Content(Loaded(f)) : f \in Provisioned}
    BY NvmAssumption DEF Init, IsFile, IsTable, NvmAssumption
  <1>2. NvmInv
    BY <1>1, EmptyIsNothing
       DEF Init, NvmInv, TypesOK, ThreadsOK, SavedOK, Saving, Stage, Persisting, IsFile
  <1>3. Promise!Init
    BY <1>1 DEF Init, Promise!Init, Promise!Idle
  <1> QED
    BY <1>2, <1>3

(* What a file holds is a table, if only the empty one.                    *)
LEMMA LoadedIsTable ==
  ASSUME NEW f, IsFile(f)
  PROVE  IsTable(Loaded(f))
  BY EmptyIsNothing DEF IsFile, Loaded, Readable

(* The process comes up with what the store holds.                         *)
LEMMA StepNvmInit ==
  ASSUME NvmInv, NvmInit
  PROVE  NvmInv' /\ UNCHANGED Promise!vars
  <1>1. IsTable(mem')
    BY LoadedIsTable DEF NvmInv, TypesOK, NvmInit
  <1>2. \A t \in Thread : at[t] = "idle" /\ t \notin lock
    BY DEF NvmInv, TypesOK, ThreadsOK, NvmInit, Persisting
  <1>3. TypesOK' /\ ThreadsOK'
    BY <1>1, <1>2 DEF NvmInv, TypesOK, ThreadsOK, NvmInit, callVars
  <1>4. SavedOK'
    BY <1>2 DEF NvmInv, TypesOK, SavedOK, Saving, NvmInit, callVars
  <1>5. UNCHANGED Promise!vars
    BY DEF Promise!vars, NvmInit, callVars
  <1> QED
    BY <1>3, <1>4, <1>5 DEF NvmInv

(* The process dies: what the store holds is what it held when the call in *)
(* progress began, or what it would have held at its end.                  *)
LEMMA StepCrash ==
  ASSUME NvmInv, Crash
  PROVE  NvmInv' /\ Promise!Crash
  <1>1. TypesOK' /\ ThreadsOK'
    BY EmptyIsNothing DEF NvmInv, TypesOK, ThreadsOK, Crash, Persisting, Stage
  <1>2. SavedOK'
    BY DEF NvmInv, TypesOK, SavedOK, Saving, Crash
  <1>3. Promise!Crash
    BY DEF Promise!Crash, Promise!Idle, Crash
  <1> QED
    BY <1>1, <1>2, <1>3 DEF NvmInv

(* A thread calls.                                                         *)
LEMMA StepInvoke ==
  ASSUME NvmInv, NEW t \in Thread, NEW c \in Call, Invoke(t, c)
  PROVE  NvmInv' /\ Promise!Invoke(t)
  <1>1. t \notin lock /\ call[t] = None /\ ready
    BY DEF NvmInv, ThreadsOK, Invoke, Persisting
  <1>2. TypesOK'
    BY DEF NvmInv, TypesOK, Invoke, Stage, histVars
  <1>3. ThreadsOK'
    BY <1>1 DEF NvmInv, TypesOK, ThreadsOK, Invoke, Persisting
  <1>4. SavedOK'
    BY <1>1 DEF NvmInv, TypesOK, SavedOK, Saving, Invoke, histVars, Persisting
  <1>5. Promise!Invoke(t)
    BY <1>1 DEF NvmInv, TypesOK, Promise!Invoke, Invoke
  <1> QED
    BY <1>2, <1>3, <1>4, <1>5 DEF NvmInv

(* A thread takes g_mutex and has the answer of its call, which it changed *)
(* the table for if it goes on to write it.                                *)
LEMMA Entering ==
  ASSUME NvmInv, NEW t \in Thread, NEW stage \in {"open", "unlock"}, NEW res \in {"ok", "err"},
         at[t] = "enter", Unlocked, Goes(t, stage, res),
         IsTable(mem'), stage = "unlock" => mem' = mem,
         out' \in [Thread -> Val \cup {None}], \A o \in Thread \ {t} : out'[o] = out[o]
  PROVE  NvmInv' /\ Promise!Answer(t, res) /\ ready /\ ready'
  <1>1. ready /\ call[t] \in Call /\ call[t] # None
    BY NvmAssumption DEF NvmInv, ThreadsOK, NvmAssumption
  <1>2. lock' = {t} /\ lock = {} /\ at' = [at EXCEPT ![t] = stage]
    BY DEF Goes, Unlocked
  <1>3. TypesOK'
    BY <1>2 DEF NvmInv, TypesOK, Goes, Stage, Persisting, histVars
  <1>4. ThreadsOK'
    BY <1>1, <1>2 DEF NvmInv, TypesOK, ThreadsOK, Goes, Persisting
  <1>5. \A o \in Thread : ~Saving(o) /\ at[o] # "rename"
    BY <1>2 DEF NvmInv, ThreadsOK, Saving, Persisting
  <1>6. \A o \in Thread : Saving(o)' <=> o = t /\ stage = "open"
    BY <1>2 DEF NvmInv, TypesOK, Saving, Persisting
  <1>7. SavedOK'
    BY <1>1, <1>2, <1>5, <1>6 DEF NvmInv, TypesOK, SavedOK, Goes, histVars
  <1>8. Promise!Answer(t, res)
    BY <1>1, <1>2 DEF NvmInv, TypesOK, Promise!Answer, Goes
  <1> QED
    BY <1>1, <1>3, <1>4, <1>7, <1>8 DEF NvmInv, Goes

(* A value that is too long is refused.                                    *)
LEMMA StepRefuse ==
  ASSUME NvmInv, NEW t \in Thread, Refuse(t)
  PROVE  NvmInv' /\ call[t] # None /\ Promise!Set(t)
  <1>1. ready /\ call[t] \in Call /\ call[t] # None /\ t \notin lock
    BY NvmAssumption DEF NvmInv, ThreadsOK, NvmAssumption, Refuse, Persisting
  <1>2. TypesOK'
    BY DEF NvmInv, TypesOK, Refuse, Stage, histVars
  <1>3. ThreadsOK'
    BY <1>1 DEF NvmInv, TypesOK, ThreadsOK, Refuse, Persisting
  <1>4. SavedOK'
    BY <1>1 DEF NvmInv, TypesOK, SavedOK, Saving, Refuse, histVars, Persisting
  <1>5. Promise!Answer(t, "err")
    BY <1>1 DEF NvmInv, TypesOK, Promise!Answer, Refuse
  <1>6. Promise!Set(t)
    BY <1>1, <1>5 DEF Promise!Set, Refuse, TooLong
  <1> QED
    BY <1>1, <1>2, <1>3, <1>4, <1>6 DEF NvmInv

(* Setting a key.                                                          *)
LEMMA StepSet ==
  ASSUME NvmInv, NEW t \in Thread, Set(t)
  PROVE  NvmInv' /\ call[t] # None /\ Promise!Set(t)
  <1> DEFINE k == call[t].key
             v == call[t].val
             after == [Content(mem) EXCEPT ![k] = v]
             U == Promise!InUse(Content(mem))
             V == Promise!InUse(after)
  <1>1. ready /\ call[t] \in Call /\ call[t] # None /\ IsTable(mem)
    BY NvmAssumption DEF NvmInv, TypesOK, ThreadsOK, NvmAssumption, Set
  <1>2. k \in Key /\ v \in Val /\ v # None
    BY <1>1, NvmAssumption DEF Set, Call, NvmAssumption
  <1>3. Size(v) \in Nat /\ MaxSize \in Nat /\ ~(Size(v) > MaxSize)
    BY <1>2, NvmAssumption DEF Set, TooLong, NvmAssumption
  <1>4. IsFiniteSet(U) /\ Cardinality(U) \in Nat /\ Cardinality(U) <= NumSlots
        /\ (FreeSlots(mem) = {} => Cardinality(U) = NumSlots)
    BY <1>1, KeysFit
  <1>5. V = U \cup {k}
    BY <1>2 DEF Promise!InUse, Content
  <1>6. SlotsOf(mem, k) = {} <=> k \notin U
    BY <1>1, <1>2, KeyInOneSlot DEF Promise!InUse
  <1> HIDE DEF U, V
  <1>7. CASE Immutable(k) \/ Places(k) = {}
    <2>1. Goes(t, "unlock", "err") /\ mem' = mem /\ out' = out
      BY <1>7 DEF Set
    <2>2. NvmInv' /\ Promise!Answer(t, "err") /\ ready'
      BY <1>1, <2>1, Entering DEF Set, NvmInv, TypesOK
    <2>3. Places(k) = {} => Cardinality(V) > NumSlots
      <3>1. SUFFICES ASSUME Places(k) = {}
                     PROVE  Cardinality(V) > NumSlots
        OBVIOUS
      <3>2. k \notin U /\ FreeSlots(mem) = {}
        BY <1>6, <3>1 DEF Places
      <3>3. Cardinality(V) = Cardinality(U) + 1
        BY <1>4, <1>5, <3>2, FS_AddElement
      <3> QED
        BY <1>4, <3>2, <3>3, NvmAssumption DEF NvmAssumption
    <2>4. k \in Factory \/ Cardinality(V) > NumSlots
      BY <1>7, <2>3 DEF Immutable
    <2>5. Promise!Set(t)
      BY <1>1, <2>1, <2>2, <2>4, SameCardinality DEF Promise!Set, Set, V
    <2> QED
      BY <1>1, <2>2, <2>5
  <1>8. CASE ~Immutable(k) /\ Places(k) # {}
    <2> DEFINE s == First(Places(k))
    <2>1. mem' = [mem EXCEPT ![s] = [key |-> k, val |-> v]] /\ Goes(t, "open", "ok") /\ out' = out
      BY <1>8 DEF Set
    <2>2. s \in Places(k)
      BY <1>8, SlotNumbers, FirstIsIn DEF Places, SlotsOf, FreeSlots
    <2>3. s \in Slot /\ MayHold(mem, k, s)
      BY <2>2 DEF Places, SlotsOf, FreeSlots, MayHold
    <2> HIDE DEF s
    <2>4. IsTable(mem') /\ Content(mem') = after
      <3>1. PICK e \in Entry : e = [key |-> k, val |-> v]
        BY <1>2 DEF Entry
      <3>2. e.key = k /\ e.val = v /\ mem' = [mem EXCEPT ![s] = e]
        BY <2>1, <3>1
      <3> HIDE DEF k, v
      <3> QED
        BY <1>1, <2>3, <3>2, Storing
    <2>5. NvmInv' /\ Promise!Answer(t, "ok") /\ ready'
      BY <1>1, <2>1, <2>4, Entering DEF Set, NvmInv, TypesOK
    <2>6. V = Promise!InUse(Content(mem'))
      BY <2>4 DEF V
    <2>7. Cardinality(V) \in Nat /\ Cardinality(V) <= NumSlots
      BY <2>4, <2>6, KeysFit
    <2>8. ~(k \in Factory) /\ ~(Cardinality(V) > NumSlots)
      BY <1>8, <2>7, NvmAssumption DEF Immutable, NvmAssumption
    <2>9. Promise!Set(t)
      BY <1>1, <1>3, <2>1, <2>4, <2>5, <2>8, SameCardinality DEF Promise!Set, Set, V
    <2> QED
      BY <1>1, <2>5, <2>9
  <1> QED
    BY <1>7, <1>8

(* Getting a key.                                                          *)
LEMMA StepGet ==
  ASSUME NvmInv, NEW t \in Thread, Get(t)
  PROVE  NvmInv' /\ call[t] # None /\ Promise!Get(t)
  <1> DEFINE k == call[t].key
             found == SlotsOf(mem, k)
             val == mem[First(found)].val
  <1>1. ready /\ call[t] \in Call /\ call[t] # None /\ IsTable(mem)
    BY NvmAssumption DEF NvmInv, TypesOK, ThreadsOK, NvmAssumption, Get
  <1>2. k \in Key /\ call[t].room \in Nat
    BY <1>1, NvmAssumption DEF Get, Call, NvmAssumption
  <1>3. found = {} => Content(mem)[k] = None
    BY <1>1, <1>2, KeyInOneSlot
  <1>4. found # {} => Content(mem)[k] = val /\ val \in Val /\ val # None /\ Size(val) \in Nat
    BY <1>1, <1>2, KeyInOneSlot, NvmAssumption DEF NvmAssumption
  <1>5. CASE found = {} \/ (found # {} /\ Size(val) > call[t].room)
    <2>1. Goes(t, "unlock", "err") /\ mem' = mem /\ out' = out
      BY <1>5 DEF Get
    <2>2. NvmInv' /\ Promise!Answer(t, "err") /\ ready'
      BY <1>1, <2>1, Entering DEF Get, NvmInv, TypesOK
    <2>3. Promise!Get(t)
      BY <1>1, <1>3, <1>4, <1>5, <2>1, <2>2 DEF Promise!Get, Get
    <2> QED
      BY <1>1, <2>2, <2>3
  <1>6. CASE ~(found = {} \/ (found # {} /\ Size(val) > call[t].room))
    <2>1. Goes(t, "unlock", "ok") /\ mem' = mem /\ out' = [out EXCEPT ![t] = val]
      BY <1>6 DEF Get
    <2>2. NvmInv' /\ Promise!Answer(t, "ok") /\ ready'
      BY <1>1, <1>4, <1>6, <2>1, Entering DEF Get, NvmInv, TypesOK
    <2>3. Content(mem)[k] # None /\ Size(Content(mem)[k]) <= call[t].room
          /\ out' = [out EXCEPT ![t] = Content(mem)[k]]
      <3>1. found # {} /\ ~(Size(val) > call[t].room)
        BY <1>6
      <3> HIDE DEF k, found, val
      <3>2. Size(val) <= call[t].room
        BY <1>2, <1>4, <3>1
      <3> QED
        BY <1>4, <2>1, <3>1, <3>2
    <2>4. Promise!Get(t)
      <3> HIDE DEF found, val
      <3> QED
        BY <1>1, <2>1, <2>2, <2>3 DEF Promise!Get, Promise!Yields, Get
    <2> QED
      BY <1>1, <2>2, <2>4
  <1> QED
    BY <1>5, <1>6

(* Deleting a key.                                                         *)
LEMMA StepDelete ==
  ASSUME NvmInv, NEW t \in Thread, Delete(t)
  PROVE  NvmInv' /\ call[t] # None /\ Promise!Delete(t)
  <1> DEFINE k == call[t].key
             found == SlotsOf(mem, k)
  <1>1. ready /\ call[t] \in Call /\ call[t] # None /\ IsTable(mem)
    BY NvmAssumption DEF NvmInv, TypesOK, ThreadsOK, NvmAssumption, Delete
  <1>2. k \in Key
    BY <1>1 DEF Delete, Call
  <1>3. CASE found = {}
    <2>1. Goes(t, "unlock", "ok") /\ mem' = mem /\ out' = out
      BY <1>3 DEF Delete
    <2>2. NvmInv' /\ Promise!Answer(t, "ok") /\ ready'
      BY <1>1, <2>1, Entering DEF Delete, NvmInv, TypesOK
    <2>3. Content(mem) = [Content(mem) EXCEPT ![k] = None]
      BY <1>1, <1>2, <1>3, KeyInOneSlot DEF Content
    <2>4. Promise!Delete(t)
      BY <1>1, <2>1, <2>2, <2>3 DEF Promise!Delete, Delete
    <2> QED
      BY <1>1, <2>2, <2>4
  <1>4. CASE found # {}
    <2> DEFINE s == First(found)
    <2>1. mem' = [mem EXCEPT ![s] = Free] /\ Goes(t, "open", "ok") /\ out' = out
      BY <1>4 DEF Delete
    <2>2. s \in SlotsOf(mem, k)
      BY <1>4, SlotNumbers, FirstIsIn DEF SlotsOf
    <2> HIDE DEF s
    <2>3. IsTable(mem') /\ Content(mem') = [Content(mem) EXCEPT ![k] = None]
      BY <1>1, <1>2, <2>1, <2>2, Freeing
    <2>4. NvmInv' /\ Promise!Answer(t, "ok") /\ ready'
      BY <1>1, <2>1, <2>3, Entering DEF Delete, NvmInv, TypesOK
    <2>5. Promise!Delete(t)
      BY <1>1, <2>1, <2>3, <2>4 DEF Promise!Delete, Delete
    <2> QED
      BY <1>1, <2>4, <2>5
  <1> QED
    BY <1>3, <1>4

(* Flushing the store and resetting it.                                    *)
LEMMA StepFlush ==
  ASSUME NvmInv, NEW t \in Thread, Flush(t)
  PROVE  NvmInv' /\ call[t] # None /\ Promise!Flush(t)
  <1>1. call[t] # None /\ IsTable(mem)
    BY NvmAssumption DEF NvmInv, TypesOK, ThreadsOK, NvmAssumption, Flush
  <1>2. NvmInv' /\ Promise!Answer(t, "ok") /\ ready /\ ready'
    BY <1>1, Entering DEF Flush, NvmInv, TypesOK
  <1> QED
    BY <1>1, <1>2 DEF Promise!Flush, Flush

(* Resetting the store.                                                    *)
LEMMA StepReset ==
  ASSUME NvmInv, NEW t \in Thread, Reset(t)
  PROVE  NvmInv' /\ call[t] # None /\ Promise!Reset(t)
  <1>1. call[t] # None
    BY NvmAssumption DEF NvmInv, ThreadsOK, NvmAssumption, Reset
  <1>2. NvmInv' /\ Promise!Answer(t, "ok") /\ ready /\ ready'
    BY EmptyIsNothing, Entering DEF Reset, NvmInv, TypesOK
  <1> QED
    BY <1>1, <1>2, EmptyIsNothing DEF Promise!Reset, Reset

(* The steps of nvm_persist() up to the renaming do not touch the store.   *)
LEMMA StepOpen ==
  ASSUME NvmInv, NEW t \in Thread, Open(t)
  PROVE  NvmInv' /\ UNCHANGED Promise!vars
  <1>1. t \in lock /\ lock = {t} /\ ready /\ file' = file /\ mem' = mem /\ lock' = lock
    BY DEF NvmInv, ThreadsOK, Open, Fails, Persisting
  <1>2. TypesOK'
    BY DEF NvmInv, TypesOK, Open, Fails, Stage, Persisting, IsFile
  <1>3. at' \in [Thread -> Stage] /\ at'[t] \in {"write", "unlock"} /\ \A o \in Thread \ {t} : at'[o] = at[o]
    BY DEF NvmInv, TypesOK, Open, Fails, Stage, Persisting
  <1>4. ThreadsOK'
    BY <1>1, <1>3 DEF NvmInv, TypesOK, ThreadsOK, Open, Persisting
  <1>5. SavedOK'
    BY <1>1, <1>3 DEF NvmInv, TypesOK, ThreadsOK, SavedOK, Saving, Open, Fails, Persisting
  <1>6. UNCHANGED Promise!vars
    BY <1>1, <1>3 DEF Promise!vars, Open
  <1> QED
    BY <1>2, <1>4, <1>5, <1>6 DEF NvmInv

(* Writing the blob.                                                       *)
LEMMA StepWrite ==
  ASSUME NvmInv, NEW t \in Thread, Write(t)
  PROVE  NvmInv' /\ UNCHANGED Promise!vars
  <1>1. t \in lock /\ lock = {t} /\ ready /\ file' = file /\ mem' = mem /\ lock' = lock
    BY DEF NvmInv, ThreadsOK, Write, Fails, Persisting
  <1>2. TypesOK'
    BY DEF NvmInv, TypesOK, Write, Fails, Stage, Persisting, AfterWrite
  <1>3. at' \in [Thread -> Stage] /\ at'[t] \in {"close", "unlock"} /\ \A o \in Thread \ {t} : at'[o] = at[o]
    BY DEF NvmInv, TypesOK, Write, Fails, Stage, Persisting, AfterWrite
  <1>4. ThreadsOK'
    BY <1>1, <1>3 DEF NvmInv, TypesOK, ThreadsOK, Write, Persisting
  <1>5. SavedOK'
    BY <1>1, <1>3 DEF NvmInv, TypesOK, ThreadsOK, SavedOK, Saving, Write, Fails, Persisting, AfterWrite
  <1>6. UNCHANGED Promise!vars
    BY <1>1, <1>3 DEF Promise!vars, Write
  <1> QED
    BY <1>2, <1>4, <1>5, <1>6 DEF NvmInv

(* Closing the temporary file: it holds the table, or no blob.             *)
LEMMA StepClose ==
  ASSUME NvmInv, NEW t \in Thread, Close(t)
  PROVE  NvmInv' /\ UNCHANGED Promise!vars
  <1>1. t \in lock /\ lock = {t} /\ ready /\ file' = file /\ mem' = mem /\ lock' = lock
    BY DEF NvmInv, ThreadsOK, Close, Persisting
  <1>2. TypesOK'
    BY DEF NvmInv, TypesOK, Close, Stage, Persisting, IsFile
  <1>3. at' \in [Thread -> Stage] /\ at'[t] = "rename" /\ \A o \in Thread \ {t} : at'[o] = at[o]
    BY DEF NvmInv, TypesOK, Close, Stage, Persisting
  <1>4. ThreadsOK'
    BY <1>1, <1>3 DEF NvmInv, TypesOK, ThreadsOK, Close, Persisting
  <1>5. SavedOK'
    BY <1>1, <1>3 DEF NvmInv, TypesOK, ThreadsOK, SavedOK, Saving, Close, Persisting
  <1>6. UNCHANGED Promise!vars
    BY <1>1, <1>3 DEF Promise!vars, Close
  <1> QED
    BY <1>2, <1>4, <1>5, <1>6 DEF NvmInv

(* The renaming saves the table or, if the temporary file holds no blob,   *)
(* loses what was saved.                                                   *)
LEMMA StepRename ==
  ASSUME NvmInv, NEW t \in Thread, Rename(t)
  PROVE  NvmInv' /\ (Promise!Save \/ Promise!Lose \/ UNCHANGED Promise!vars)
  <1>1. t \in lock /\ lock = {t} /\ ready /\ mem' = mem /\ lock' = lock /\ tmp \in {mem, NoBlob}
        /\ (~faulted => tmp = mem) /\ IsTable(mem) /\ mem # NoBlob
    BY NvmAssumption
       DEF NvmInv, TypesOK, ThreadsOK, SavedOK, Rename, Fails, Persisting, NvmAssumption, IsTable
  <1>2. TypesOK'
    BY <1>1 DEF NvmInv, TypesOK, Rename, Fails, Stage, Persisting, IsFile
  <1>3. at' \in [Thread -> Stage] /\ at'[t] = "unlock" /\ \A o \in Thread \ {t} : at'[o] = at[o]
    BY DEF NvmInv, TypesOK, Rename, Fails, Stage, Persisting
  <1>4. ThreadsOK'
    BY <1>1, <1>3 DEF NvmInv, TypesOK, ThreadsOK, Rename, Persisting
  <1>5. \A o \in Thread : ~Saving(o)' /\ at'[o] # "rename"
    BY <1>1, <1>3 DEF NvmInv, ThreadsOK, Saving, Persisting
  <1>6. Loaded(mem) = mem /\ Loaded(NoBlob) = EmptyTable
    BY <1>1 DEF Loaded, Readable
  <1>7. UNCHANGED <<call, result, out, acked, dying, ready>>
    BY DEF Rename
  <1>8. CASE file' = tmp /\ faulted' = (faulted /\ tmp = NoBlob)
    <2>1. ~faulted' => Content(Loaded(file')) = Content(mem)
      BY <1>1, <1>6, <1>8
    <2>2. SavedOK'
      BY <1>1, <1>5, <1>7, <2>1 DEF SavedOK
    <2>3. Content(Loaded(file')) \in {Content(mem), Promise!Nothing}
      BY <1>1, <1>6, <1>8, EmptyIsNothing
    <2>4. Promise!Save \/ Promise!Lose
      BY <1>1, <1>3, <1>7, <2>3, Rename(t) DEF Promise!Save, Promise!Lose, Rename
    <2> QED
      BY <1>2, <1>4, <2>2, <2>4 DEF NvmInv
  <1>9. CASE Fails(t, "rename")
    <2>1. file' = file /\ faulted' = TRUE
      BY <1>9 DEF Fails
    <2>2. SavedOK'
      BY <1>1, <1>5, <1>7, <2>1 DEF SavedOK
    <2>3. UNCHANGED Promise!vars
      BY <1>1, <1>3, <1>7, <2>1, Rename(t) DEF Promise!vars, Rename
    <2> QED
      BY <1>2, <1>4, <2>2, <2>3 DEF NvmInv
  <1> QED
    BY <1>8, <1>9 DEF Rename

(* A call returns, and releases g_mutex if it holds it.                    *)
LEMMA StepReturn ==
  ASSUME NvmInv, NEW t \in Thread, Return(t)
  PROVE  NvmInv' /\ Promise!Return(t)
  <1>1. ready /\ lock \subseteq Thread /\ lock' = lock \ {t} /\ (t \in lock => lock = {t})
    BY DEF NvmInv, TypesOK, ThreadsOK, Return, Released
  <1>2. TypesOK'
    BY <1>1 DEF NvmInv, TypesOK, Return, Stage
  <1>3. at' = [at EXCEPT ![t] = "idle"] /\ at[t] = "unlock" /\ UNCHANGED <<mem, file, faulted, ready, tmp>>
    BY DEF Return
  <1>4. ThreadsOK'
    BY <1>1 DEF NvmInv, TypesOK, ThreadsOK, Return, Persisting
  <1>5. \A o \in Thread : Saving(o)' <=> Saving(o)
    BY <1>1, <1>3 DEF NvmInv, TypesOK, Saving, Persisting
  <1>6. acked' = IF t \in lock THEN Content(mem) ELSE acked
    BY DEF Return
  <1>7. (\E o \in Thread : Saving(o)) => t \notin lock
    BY <1>1, <1>3 DEF Saving, Persisting
  <1>8. SavedOK'
    BY <1>1, <1>3, <1>5, <1>6, <1>7 DEF NvmInv, TypesOK, SavedOK
  <1>9. Promise!Return(t)
    BY <1>1 DEF NvmInv, TypesOK, Promise!Return, Promise!Yields, Return
  <1> QED
    BY <1>2, <1>4, <1>8, <1>9 DEF NvmInv

-----------------------------------------------------------------------------
(* The theorems, for the store under its plain interface (Spec) and under  *)
(* that of the typed configuration (CfgSpec).                              *)

NvmStep ==
    NvmInit \/ Crash \/ \E t \in Thread : (\E c \in Call : Invoke(t, c)) \/ Work(t)

(* Every step preserves the invariant and implements one of the abstract   *)
(* store or leaves that unchanged.                                         *)
LEMMA Stepping ==
  ASSUME NvmInv, NvmStep
  PROVE  NvmInv' /\ [Promise!Next]_Promise!vars
  <1>1. CASE NvmInit
    BY <1>1, StepNvmInit
  <1>2. CASE Crash
    BY <1>2, StepCrash DEF Promise!Next
  <1>3. ASSUME NEW t \in Thread, NEW c \in Call, Invoke(t, c)
        PROVE  NvmInv' /\ [Promise!Next]_Promise!vars
    BY <1>3, StepInvoke DEF Promise!Next
  <1>4. ASSUME NEW t \in Thread, Work(t)
        PROVE  NvmInv' /\ [Promise!Next]_Promise!vars
    <2>1. CASE Refuse(t)
      BY <2>1, StepRefuse DEF Promise!Next
    <2>2. CASE Set(t)
      BY <2>2, StepSet DEF Promise!Next
    <2>3. CASE Get(t)
      BY <2>3, StepGet DEF Promise!Next
    <2>4. CASE Delete(t)
      BY <2>4, StepDelete DEF Promise!Next
    <2>5. CASE Flush(t)
      BY <2>5, StepFlush DEF Promise!Next
    <2>6. CASE Reset(t)
      BY <2>6, StepReset DEF Promise!Next
    <2>7. CASE Open(t)
      BY <2>7, StepOpen
    <2>8. CASE Write(t)
      BY <2>8, StepWrite
    <2>9. CASE Close(t)
      BY <2>9, StepClose
    <2>10. CASE Rename(t)
      BY <2>10, StepRename DEF Promise!Next
    <2>11. CASE Return(t)
      BY <2>11, StepReturn DEF Promise!Next
    <2> QED
      BY <1>4, <2>1, <2>2, <2>3, <2>4, <2>5, <2>6, <2>7, <2>8, <2>9, <2>10, <2>11
         DEF Work, Persist, HalWrite
  <1> QED
    BY <1>1, <1>2, <1>3, <1>4 DEF NvmStep

(* A step in which nothing of the store changes.                           *)
LEMMA Stuttering ==
  ASSUME NvmInv, UNCHANGED vars
  PROVE  NvmInv' /\ UNCHANGED Promise!vars
  <1>1. NvmInv'
    BY DEF vars, callVars, histVars, NvmInv, TypesOK, ThreadsOK, SavedOK, Saving
  <1>2. UNCHANGED Promise!vars
    BY DEF vars, callVars, histVars, Promise!vars
  <1> QED
    BY <1>1, <1>2

(* The steps of both specifications are steps of the store.                *)
LEMMA StepsOfStore ==
  ASSUME [Next]_vars \/ [CfgNext]_cfgVars
  PROVE  [NvmStep]_vars
  <1>1. ASSUME NEW t \in Thread, Enter(t)
        PROVE  NvmStep
    BY <1>1, NvmAssumption DEF Enter, NvmStep, NvmAssumption
  <1>2. ASSUME NEW t \in Thread, Ask(t)
        PROVE  NvmStep
    BY <1>2, NvmCallAssumption DEF Ask, NvmStep, NvmCallAssumption
  <1>3. ASSUME NEW t \in Thread, Return(t)
        PROVE  NvmStep
    BY <1>3 DEF Work, NvmStep
  <1> QED
    BY <1>1, <1>2, <1>3 DEF Next, CfgNext, cfgVars, NvmStep

(* The inductive invariant: types, who holds g_mutex, and what the file    *)
(* and the temporary file hold at which point of nvm_persist().            *)
THEOREM NvmInvariant == CfgSpec => []NvmInv
  <1>1. CfgInit => NvmInv
    BY Starting DEF CfgInit
  <1>2. NvmInv /\ [CfgNext]_cfgVars => NvmInv'
    BY StepsOfStore, Stepping, Stuttering
  <1> QED
    BY <1>1, <1>2, PTL DEF CfgSpec

(* If no file operation has failed since the last good write, a process    *)
(* that dies at any step comes back with everything its finished calls     *)
(* have stored, and with the call it died in as a whole or not at all.     *)
THEOREM StoreSurvives == CfgSpec => Survives
  <1>1. NvmInv /\ [CfgNext]_cfgVars
          => [~ready /\ ready' /\ ~faulted => Content(mem') \in {acked, dying}]_vars
    <2> SUFFICES ASSUME NvmInv, [NvmStep]_vars, ~ready, ready', ~faulted, vars' # vars
                 PROVE  Content(mem') \in {acked, dying}
      BY StepsOfStore
    <2>1. NvmInit
      BY DEF NvmStep, Crash, Invoke, Work, NvmInv, ThreadsOK, Refuse, Set, Get, Delete, Flush, Reset,
             Persist, HalWrite, Open, Write, Close, Rename, Return
    <2>2. mem' = Loaded(file)
      BY <2>1 DEF NvmInit
    <2> QED
      BY <2>2 DEF NvmInv, SavedOK
  <1> QED
    BY <1>1, NvmInvariant, PTL DEF CfgSpec, Survives

(* Whatever fails and whenever the process dies, the driver implements     *)
(* KeyValueStore: for any keys, values, threads, slots and calls.          *)
THEOREM StoreRefined == CfgSpec => StoreSpec
  <1>1. CfgInit => Promise!Init
    BY Starting DEF CfgInit
  <1>2. NvmInv /\ [CfgNext]_cfgVars => [Promise!Next]_Promise!vars
    BY StepsOfStore, Stepping, Stuttering
  <1> QED
    BY <1>1, <1>2, NvmInvariant, PTL DEF CfgSpec, StoreSpec, Promise!Spec

(* The same for the plain interface.                                       *)
THEOREM PlainStoreRefined == Spec => StoreSpec
  <1>1. Init => NvmInv /\ Promise!Init
    BY Starting
  <1>2. NvmInv /\ [Next]_vars => NvmInv' /\ [Promise!Next]_Promise!vars
    BY StepsOfStore, Stepping, Stuttering
  <1> QED
    BY <1>1, <1>2, PTL DEF Spec, StoreSpec, Promise!Spec

-----------------------------------------------------------------------------
(* The typed configuration: what the bytes of a value are read back as.    *)

(* Division by the base.                                                   *)
LEMMA LowDigit ==
  ASSUME NEW n \in Nat
  PROVE  /\ n \div Base \in Nat /\ n % Base \in 0 .. Base - 1
         /\ n = (n % Base) + Base * (n \div Base)
         /\ \A m \in Nat : n < Base * m => n \div Base < m
  <1>1. Base \in Nat /\ Base > 1
    BY CfgAssumption DEF CfgAssumption
  <1>2. n \div Base \in Nat /\ n % Base \in 0 .. Base - 1
    BY <1>1
  <1>3. n = (n % Base) + Base * (n \div Base)
    BY <1>1
  <1>4. ASSUME NEW m \in Nat, n < Base * m PROVE n \div Base < m
    <2> DEFINE q == n \div Base
    <2>1. q \in Nat /\ Base * q <= n
      <3> DEFINE rest == n % Base
      <3>1. q \in Nat /\ rest \in Nat /\ n = rest + Base * q
        BY <1>1, <1>2, <1>3
      <3> HIDE DEF q, rest
      <3>2. Base * q \in Nat
        BY <1>1, <3>1
      <3> QED
        BY <3>1, <3>2
    <2> HIDE DEF q
    <2>2. ASSUME q >= m PROVE FALSE
      <3>1. PICK d \in Nat : q = m + d
        BY <2>1, <2>2
      <3>2. Base * q = Base * m + Base * d /\ Base * d >= 0 /\ Base * m \in Nat
        BY <1>1, <3>1
      <3> QED
        BY <1>1, <1>4, <2>1, <3>2
    <2> QED
      BY <2>1, <2>2 DEF q
  <1> QED
    BY <1>2, <1>3, <1>4

(* The four bytes of a word, put together again.                           *)
LEMMA WordBack ==
  ASSUME NEW n \in 0 .. Range32 - 1
  PROVE  Unsigned(Digits(n)) = n /\ Len(Digits(n)) = Width
  <1> DEFINE a == n \div Base
             b == a \div Base
             c == b \div Base
  <1>1. Base \in Nat /\ Base > 1
    BY CfgAssumption DEF CfgAssumption
  <1> DEFINE B2 == Base * Base
             B3 == Base * B2
  <1>2. B2 \in Nat /\ B3 \in Nat /\ Range32 = Base * B3 /\ Range32 \in Nat /\ n \in Nat /\ n < Base * B3
    <2>1. B2 \in Nat
      BY <1>1
    <2>2. Base * Base * Base * Base = Base * B3
      BY <1>1
    <2> HIDE DEF B2
    <2>3. B3 \in Nat
      BY <1>1, <2>1
    <2> HIDE DEF B3
    <2>4. Base * B3 \in Nat
      BY <1>1, <2>3
    <2> QED
      BY <2>1, <2>2, <2>3, <2>4 DEF Range32
  <1> HIDE DEF B2
  <1>3. a \in Nat /\ a < Base * B2 /\ n = (n % Base) + Base * a
    <2> HIDE DEF B3
    <2>1. n \div Base < B3
      BY <1>2, LowDigit
    <2> QED
      BY <1>2, <2>1, LowDigit DEF B3
  <1> HIDE DEF a
  <1>4. b \in Nat /\ b < Base * Base /\ a = (a % Base) + Base * b
    BY <1>1, <1>2, <1>3, LowDigit DEF B2
  <1> HIDE DEF b
  <1>5. c \in Nat /\ c < Base /\ b = (b % Base) + Base * c
    BY <1>1, <1>4, LowDigit
  <1> HIDE DEF c
  <1>6. c % Base = c
    BY <1>1, <1>5
  <1>7. Digits(n) = <<n % Base, a % Base, b % Base, c % Base>>
    BY DEF Digits, a, b, c
  <1>8. Unsigned(Digits(n)) = (n % Base) + Base * ((a % Base) + Base * ((b % Base) + Base * c))
    BY <1>6, <1>7 DEF Unsigned
  <1>9. Unsigned(Digits(n)) = n
    BY <1>3, <1>4, <1>5, <1>8
  <1> QED
    BY <1>7, <1>9 DEF Width

(* A word has the range of its type.                                       *)
LEMMA RangeIs == Range32 \in Nat /\ Range32 > 1 /\ Range32 \div 2 \in Nat /\ Range32 \div 2 < Range32
  <1>1. Base \in Nat /\ Base > 1
    BY CfgAssumption DEF CfgAssumption
  <1>2. \A x, y \in Nat : x > 1 /\ y > 1 => x * y \in Nat /\ x * y > 1
    <2> TAKE x \in Nat, y \in Nat
    <2> HAVE x > 1 /\ y > 1
    <2>1. PICK d \in Nat : y = 2 + d
      BY y - 2 \in Nat
    <2>2. x * y = x + x + x * d /\ x * d \in Nat
      BY <2>1
    <2> QED
      BY <2>2
  <1>3. Base * Base \in Nat /\ Base * Base > 1
    BY <1>1, <1>2
  <1>4. Base * Base * Base \in Nat /\ Base * Base * Base > 1
    <2> DEFINE q == Base * Base
    <2> HIDE DEF q
    <2>1. q * Base \in Nat /\ q * Base > 1
      BY <1>1, <1>2, <1>3 DEF q
    <2> QED
      BY <2>1 DEF q
  <1>5. Range32 \in Nat /\ Range32 > 1
    <2> DEFINE q == Base * Base * Base
    <2> HIDE DEF q
    <2>1. q * Base \in Nat /\ q * Base > 1
      BY <1>1, <1>2, <1>4 DEF q
    <2> QED
      BY <2>1 DEF q, Range32
  <1> QED
    BY <1>5

(* A getter of the type a value was set as gets that value.                *)
LEMMA ValueBack ==
  ASSUME NEW x \in Val, NEW r, r.type = TypeOf(x)
  PROVE  /\ r.type # "str" => Size(x) = Room(r) /\ Fits(r, Bytes(x))
         /\ Decoded(r, Bytes(x)) = IF r.type = "str" THEN Cut(ValueOf(x), r.len - 1) ELSE ValueOf(x)
  <1>1. /\ TypeOf(x) \in Words \cup {"bool", "str"} /\ ValueOf(x) \in Holds(TypeOf(x)) /\ Size(x) = Len(Bytes(x))
    BY ValueAssumption DEF ValueAssumption
  <1>2. CASE TypeOf(x) \in Words
    <2> DEFINE n == ValueOf(x) % Range32
               bytes == Digits(n)
               buffer == [i \in 1 .. Width |-> IF i <= Len(bytes) THEN bytes[i] ELSE Trash[i]]
    <2>1. Bytes(x) = bytes
      BY <1>2 DEF Bytes, Words
    <2>2. ValueOf(x) \in Int
      BY <1>1, <1>2, RangeIs DEF Holds, Words
    <2>3. n \in 0 .. Range32 - 1
      BY <2>2, RangeIs
    <2>4. Unsigned(bytes) = n /\ Len(bytes) = Width
      BY <2>3, WordBack
    <2>5. Unsigned(buffer) = n
      <3>1. \A i \in 1 .. 4 : buffer[i] = bytes[i]
        BY <2>4 DEF Width
      <3> HIDE DEF buffer, bytes
      <3> QED
        BY <2>4, <3>1 DEF Unsigned
    <2>6. Room(r) = Width /\ r.type # "str" /\ r.type # "bool"
      BY <1>2 DEF Room, Words
    <2> HIDE DEF bytes, n
    <2>7. Size(x) = Room(r) /\ Fits(r, Bytes(x))
      BY <1>1, <2>1, <2>4, <2>6 DEF Fits
    <2>8. CASE TypeOf(x) = "u32"
      <3>1. ValueOf(x) \in 0 .. Range32 - 1
        BY <1>1, <2>8 DEF Holds
      <3>2. n = ValueOf(x)
        BY <3>1, RangeIs DEF n
      <3>3. Decoded(r, Bytes(x)) = Unsigned(buffer)
        BY <2>1, <2>8 DEF Decoded
      <3> QED
        BY <2>5, <2>6, <2>7, <3>2, <3>3
    <2>9. CASE TypeOf(x) = "i32"
      <3>1. ValueOf(x) \in -(Range32 \div 2) .. Range32 \div 2 - 1
        BY <1>1, <2>9 DEF Holds
      <3>2. Signed(buffer) = ValueOf(x)
        <4>1. CASE ValueOf(x) >= 0
          <5>1. n = ValueOf(x)
            BY <3>1, <4>1, RangeIs DEF n
          <5>2. n < Range32 \div 2
            BY <3>1, <5>1, RangeIs
          <5> HIDE DEF buffer
          <5> QED
            BY <2>5, <5>1, <5>2 DEF Signed
        <4>2. CASE ValueOf(x) < 0
          <5>1. n = ValueOf(x) + Range32
            BY <3>1, <4>2, RangeIs DEF n
          <5>2. ~(n < Range32 \div 2)
            BY <3>1, <5>1, RangeIs
          <5> HIDE DEF buffer
          <5> QED
            BY <2>2, <2>5, <5>1, <5>2, RangeIs DEF Signed
        <4> QED
          BY <2>2, <4>1, <4>2
      <3>3. Decoded(r, Bytes(x)) = Signed(buffer)
        BY <2>1, <2>9 DEF Decoded
      <3> QED
        BY <2>6, <2>7, <3>2, <3>3
    <2> QED
      BY <1>2, <2>8, <2>9 DEF Words
  <1>3. CASE TypeOf(x) = "bool"
    <2>1. Bytes(x) = <<IF ValueOf(x) THEN 1 ELSE 0>> /\ r.type \notin Words /\ Room(r) = 1
      BY <1>3 DEF Bytes, Words, Room
    <2>2. Len(Bytes(x)) = 1 /\ Bytes(x)[1] = IF ValueOf(x) THEN 1 ELSE 0
      BY <2>1
    <2>3. ValueOf(x) \in BOOLEAN
      BY <1>1, <1>3 DEF Holds
    <2>4. Decoded(r, Bytes(x)) = (Bytes(x)[1] # 0)
      BY <1>3, <2>1 DEF Decoded, Words
    <2>5. (Bytes(x)[1] # 0) = ValueOf(x)
      BY <2>2, <2>3
    <2> QED
      BY <1>1, <1>3, <2>1, <2>2, <2>4, <2>5 DEF Fits
  <1>4. CASE TypeOf(x) = "str"
    BY <1>4 DEF Bytes, Decoded, Words
  <1> QED
    BY <1>1, <1>2, <1>3, <1>4

(* While a thread is in a typed call, the store is in the call that stands *)
(* for it, and once the store has answered a get, the answer is that of    *)
(* what is still in effect, for the thread holds g_mutex.                  *)
AskedInv ==
    /\ asked = [t \in Thread |-> asked[t]]
    /\ \A t \in Thread :
          /\ at[t] = "idle" => asked[t] = None
          /\ asked[t] # None => asked[t] \in Requests[t] /\ call[t] = NvmCall(asked[t])

Answered(t) ==
    LET x == Content(mem)[call[t].key] IN
    IF x # None /\ Size(x) <= call[t].room THEN result[t] = "ok" /\ out[t] = x ELSE result[t] = "err"
AnswerInv == \A t \in Thread : call[t].op = "get" =>
    /\ at[t] \notin Persisting
    /\ at[t] = "unlock" => t \in lock /\ Answered(t)

(* No table has a value that is too long for a slot.                       *)
Fitting(tab) == \A s \in Slot : tab[s] # Free => Size(tab[s].val) <= MaxSize
FitInv == Fitting(mem) /\ (file # NoBlob => Fitting(file)) /\ (tmp # NoBlob => Fitting(tmp))

CfgInv == NvmInv /\ AskedInv /\ AnswerInv /\ FitInv

(* It holds before the first boot.                                         *)
LEMMA CfgStarts == CfgInit => CfgInv
  <1> SUFFICES ASSUME CfgInit PROVE CfgInv
    OBVIOUS
  <1>1. NvmInv
    BY Starting DEF CfgInit
  <1>2. Fitting(mem)
    BY DEF CfgInit, Init, Fitting, EmptyTable
  <1>3. (file # NoBlob => Fitting(file)) /\ tmp = NoBlob
    BY ValueAssumption DEF CfgInit, Init, Fitting, ValueAssumption
  <1>4. AskedInv
    BY DEF CfgInit, Init, AskedInv
  <1>5. AnswerInv
    BY DEF CfgInit, Init, AnswerInv, Persisting
  <1> QED
    BY <1>1, <1>2, <1>3, <1>4, <1>5 DEF CfgInv, FitInv

(* Nothing too long is stored, loaded or saved.                            *)
LEMMA FitKept == CfgInv /\ [NvmStep]_vars => FitInv'
  <1> SUFFICES ASSUME CfgInv, [NvmStep]_vars PROVE FitInv'
    OBVIOUS
  <1>1. Fitting(EmptyTable)
    BY DEF Fitting, EmptyTable
  <1>2. Fitting(mem) /\ (file # NoBlob => Fitting(file)) /\ (tmp # NoBlob => Fitting(tmp)) /\ IsTable(mem)
    BY DEF CfgInv, FitInv, NvmInv, TypesOK
  <1>3. CASE NvmInit
    BY <1>1, <1>2, <1>3 DEF NvmInit, Loaded, Readable, FitInv
  <1>4. CASE Crash
    BY <1>1, <1>2, <1>4 DEF Crash, FitInv
  <1>5. ASSUME NEW t \in Thread, NEW c \in Call, Invoke(t, c) PROVE FitInv'
    BY <1>2, <1>5 DEF Invoke, FitInv
  <1>6. ASSUME NEW t \in Thread, Set(t) PROVE FitInv'
    <2> DEFINE k == call[t].key
               s == First(Places(k))
               e == [key |-> k, val |-> call[t].val]
    <2>1. UNCHANGED <<file, tmp>> /\ mem' \in {mem, [mem EXCEPT ![s] = e]}
      BY <1>6 DEF Set, Goes
    <2>2. call[t] \in Call /\ call[t].op = "set" /\ ~(Size(call[t].val) > MaxSize)
      BY <1>6 DEF Set, TooLong, CfgInv, NvmInv, ThreadsOK
    <2>3. Size(call[t].val) \in Nat /\ MaxSize \in Nat
      BY <2>2, NvmAssumption DEF Call, NvmAssumption
    <2>4. Size(e.val) <= MaxSize
      BY <2>2, <2>3
    <2> HIDE DEF s, e
    <2>5. Fitting([mem EXCEPT ![s] = e])
      BY <1>2, <2>4 DEF Fitting, IsTable, Table
    <2> QED
      BY <1>2, <2>1, <2>5 DEF FitInv
  <1>7. ASSUME NEW t \in Thread, Delete(t) PROVE FitInv'
    <2> DEFINE s == First(SlotsOf(mem, call[t].key))
    <2>1. UNCHANGED <<file, tmp>> /\ mem' \in {mem, [mem EXCEPT ![s] = Free]}
      BY <1>7 DEF Delete, Goes
    <2> HIDE DEF s
    <2>2. Fitting([mem EXCEPT ![s] = Free])
      BY <1>2 DEF Fitting, IsTable, Table
    <2> QED
      BY <1>2, <2>1, <2>2 DEF FitInv
  <1>8. ASSUME NEW t \in Thread, Refuse(t) \/ Get(t) \/ Flush(t) \/ Reset(t) \/ Return(t) PROVE FitInv'
    <2>1. UNCHANGED <<file, tmp>> /\ mem' \in {mem, EmptyTable}
      BY <1>8 DEF Refuse, Get, Flush, Reset, Return, Goes
    <2> QED
      BY <1>1, <1>2, <2>1 DEF FitInv
  <1>9. ASSUME NEW t \in Thread, Persist(t) PROVE FitInv'
    <2>1. mem' = mem /\ tmp' \in {tmp, mem, NoBlob} /\ file' \in {file, tmp}
      BY <1>9 DEF Persist, HalWrite, Open, Write, Close, Rename, Fails
    <2> QED
      BY <1>2, <2>1 DEF FitInv
  <1>10. CASE UNCHANGED vars
    BY <1>2, <1>10 DEF vars, FitInv
  <1> QED
    BY <1>3, <1>4, <1>5, <1>6, <1>7, <1>8, <1>9, <1>10 DEF NvmStep, Work

(* An answer stays true until its caller has it.                           *)
LEMMA AnswerKept == CfgInv /\ [NvmStep]_vars => AnswerInv'
  <1> SUFFICES ASSUME CfgInv, [NvmStep]_vars, NEW t \in Thread, call'[t].op = "get"
               PROVE  at'[t] \notin Persisting /\ (at'[t] = "unlock" => t \in lock' /\ Answered(t)')
    BY DEF AnswerInv
  <1>0. at'[t] \notin Persisting
    <2>1. at[t] \in Stage /\ (call[t].op = "get" => at[t] \notin Persisting) /\ at \in [Thread -> Stage]
      BY DEF CfgInv, NvmInv, TypesOK, AnswerInv
    <2>2. CASE at'[t] = at[t] /\ call'[t] = call[t]
      BY <2>1, <2>2
    <2>3. ASSUME NEW o \in Thread, NEW c \in Call, Invoke(o, c) PROVE at'[t] \notin Persisting
      BY <2>1, <2>2, <2>3 DEF Invoke, Persisting, CfgInv, NvmInv, TypesOK
    <2>4. CASE NvmInit \/ Crash
      BY <2>2, <2>4 DEF NvmInit, Crash, callVars, Persisting
    <2>5. ASSUME NEW o \in Thread, Work(o), o # t PROVE at'[t] \notin Persisting
      <3>1. at'[t] = at[t] /\ call'[t] = call[t]
        BY <2>1, <2>5 DEF Work, Refuse, Set, Get, Delete, Flush, Reset, Goes, Return, Persist, HalWrite, Open, Write,
                          Close, Rename, Fails, CfgInv, NvmInv, TypesOK
      <3> QED
        BY <2>2, <3>1
    <2>6. CASE Work(t)
      <3>1. CASE Return(t) \/ Get(t) \/ Refuse(t)
        BY <2>1, <3>1 DEF Return, Get, Refuse, Goes, Persisting
      <3>2. ~(Set(t) \/ Delete(t) \/ Flush(t) \/ Reset(t))
        BY DEF Set, Delete, Flush, Reset, Goes
      <3>3. ~Persist(t)
        BY <2>1 DEF Persist, HalWrite, Open, Write, Close, Rename, Persisting
      <3> QED
        BY <2>6, <3>1, <3>2, <3>3 DEF Work
    <2>7. CASE UNCHANGED vars
      BY <2>2, <2>7 DEF vars, callVars
    <2> QED
      BY <2>3, <2>4, <2>5, <2>6, <2>7 DEF NvmStep
  <1> SUFFICES ASSUME at'[t] = "unlock"
               PROVE  t \in lock' /\ Answered(t)'
    BY <1>0
  <1>1. /\ IsTable(mem) /\ at \in [Thread -> Stage] /\ call \in [Thread -> Call \cup {None}]
        /\ result \in [Thread -> {"ok", "err"}] /\ out \in [Thread -> Val \cup {None}] /\ lock \subseteq Thread
        /\ \A o \in Thread : (at[o] # "idle" => call[o] \in Call) /\ (at[o] \in Persisting => o \in lock)
        /\ \A o, p \in lock : o = p
        /\ at[t] = "unlock" /\ call[t].op = "get" => t \in lock /\ Answered(t)
        /\ at[t] \in Persisting => call[t].op # "get"
    BY DEF CfgInv, NvmInv, TypesOK, ThreadsOK, AnswerInv
  <1>2. ASSUME UNCHANGED <<mem, lock>>, at'[t] = at[t], call'[t] = call[t], result'[t] = result[t], out'[t] = out[t]
        PROVE  t \in lock' /\ Answered(t)'
    BY <1>1, <1>2 DEF Answered
  <1>3. CASE NvmInit
    <2>1. FALSE
      BY <1>3 DEF NvmInit, callVars, CfgInv, NvmInv, ThreadsOK
    <2> QED
      BY <2>1
  <1>4. CASE Crash
    BY <1>4 DEF Crash
  <1>5. ASSUME NEW o \in Thread, NEW c \in Call, Invoke(o, c) PROVE t \in lock' /\ Answered(t)'
    <2>1. o # t
      BY <1>1, <1>5 DEF Invoke
    <2> QED
      BY <1>1, <1>2, <1>5, <2>1 DEF Invoke
  <1>6. ASSUME NEW o \in Thread, Work(o), o # t PROVE t \in lock' /\ Answered(t)'
    <2>1. at'[t] = at[t] /\ call'[t] = call[t] /\ result'[t] = result[t] /\ out'[t] = out[t]
      BY <1>1, <1>6 DEF Work, Refuse, Set, Get, Delete, Flush, Reset, Goes, Return, Persist, HalWrite, Open, Write,
                        Close, Rename, Fails
    <2>2. t \in lock /\ o \notin lock /\ Answered(t)
      BY <1>1, <1>6, <2>1
    <2>3. mem' = mem /\ t \in lock'
      BY <1>1, <1>6, <2>2 DEF Work, Refuse, Set, Get, Delete, Flush, Reset, Return, Released, Unlocked, Persist, HalWrite,
                              Open, Write, Close, Rename, Persisting
    <2> QED
      BY <2>1, <2>2, <2>3 DEF Answered
  <1>7. CASE Work(t)
    <2>1. CASE Get(t)
      <3> DEFINE k == call[t].key
                 found == SlotsOf(mem, k)
                 val == mem[First(found)].val
                 x == Content(mem)[k]
      <3>1. call[t] \in Call /\ call' = call /\ mem' = mem /\ lock' = lock \cup {t}
        BY <1>1, <2>1 DEF Get, Goes
      <3>2. k \in Key /\ call[t].room \in Nat
        BY <3>1, <2>1, NvmAssumption DEF Get, Call, NvmAssumption
      <3>3. found = {} => x = None
        BY <1>1, <3>2, KeyInOneSlot
      <3>4. found # {} => x = val /\ val # None /\ Size(val) \in Nat
        BY <1>1, <3>2, KeyInOneSlot, NvmAssumption DEF NvmAssumption
      <3>5. IF found = {} \/ (found # {} /\ Size(val) > call[t].room)
              THEN result'[t] = "err" ELSE result'[t] = "ok" /\ out'[t] = val
        BY <1>1, <2>1 DEF Get, Goes
      <3> HIDE DEF k, found, val, x
      <3>6. IF x # None /\ Size(x) <= call[t].room THEN result'[t] = "ok" /\ out'[t] = x ELSE result'[t] = "err"
        BY <3>2, <3>3, <3>4, <3>5
      <3> QED
        BY <3>1, <3>6 DEF Answered, k, x
    <2>2. ~(Set(t) \/ Delete(t) \/ Flush(t) \/ Reset(t) \/ Refuse(t))
      BY <1>1 DEF Set, Delete, Flush, Reset, Refuse, TooLong, Goes
    <2>3. ~Return(t)
      BY <1>1 DEF Return
    <2>4. CASE Persist(t)
      <3>1. call'[t] = call[t] /\ at[t] \in Persisting
        BY <2>4 DEF Persist, HalWrite, Open, Write, Close, Rename, Persisting
      <3> QED
        BY <1>1, <3>1
    <2> QED
      BY <1>7, <2>1, <2>2, <2>3, <2>4 DEF Work
  <1>8. CASE UNCHANGED vars
    BY <1>2, <1>8 DEF vars, callVars
  <1> QED
    BY <1>3, <1>4, <1>5, <1>6, <1>7, <1>8 DEF NvmStep

(* A thread is asked what it calls.                                        *)
LEMMA AskedKept == CfgInv /\ [CfgNext]_cfgVars => AskedInv'
  <1> SUFFICES ASSUME CfgInv, [CfgNext]_cfgVars PROVE AskedInv'
    OBVIOUS
  <1>1. at \in [Thread -> Stage] /\ call \in [Thread -> Call \cup {None}] /\ AskedInv
    BY DEF CfgInv, NvmInv, TypesOK
  <1>2. CASE UNCHANGED asked /\ UNCHANGED <<at, call>>
    BY <1>1, <1>2 DEF AskedInv
  <1>3. CASE NvmInit /\ UNCHANGED asked
    BY <1>2, <1>3 DEF NvmInit, callVars
  <1>4. CASE Crash /\ asked' = [t \in Thread |-> None]
    BY <1>4 DEF AskedInv
  <1>5. ASSUME NEW t \in Thread, NEW c, Invoke(t, c), UNCHANGED asked PROVE AskedInv'
    BY <1>1, <1>5 DEF Invoke, AskedInv
  <1>6. ASSUME NEW t \in Thread, NEW r \in Requests[t], Invoke(t, NvmCall(r)), asked' = [asked EXCEPT ![t] = r]
        PROVE  AskedInv'
    BY <1>1, <1>6 DEF Invoke, AskedInv
  <1>7. ASSUME NEW t \in Thread, Return(t), asked' = [asked EXCEPT ![t] = None] PROVE AskedInv'
    BY <1>1, <1>7 DEF Return, AskedInv
  <1>8. ASSUME NEW t \in Thread, Work(t), ~Return(t), UNCHANGED asked PROVE AskedInv'
    <2>1. /\ call' = call /\ at[t] # "idle"
          /\ \A o \in Thread : at'[o] = "idle" => at[o] = "idle"
      BY <1>1, <1>8 DEF Work, Refuse, Set, Get, Delete, Flush, Reset, Goes, Persist, HalWrite, Open, Write, Close,
                        Rename, Fails, AfterWrite, Stage, Persisting
    <2> QED
      BY <1>1, <1>8, <2>1 DEF AskedInv
  <1>9. CASE UNCHANGED cfgVars
    BY <1>2, <1>9 DEF cfgVars, vars, callVars
  <1> QED
    BY <1>3, <1>4, <1>5, <1>6, <1>7, <1>8, <1>9 DEF CfgNext, Enter, Ask

(* The inductive invariant of the typed configuration.                     *)
THEOREM CfgInvariant == CfgSpec => []CfgInv
  <1>1. CfgInv /\ [CfgNext]_cfgVars => CfgInv'
    <2> SUFFICES ASSUME CfgInv, [CfgNext]_cfgVars PROVE CfgInv'
      OBVIOUS
    <2>1. [NvmStep]_vars
      BY StepsOfStore
    <2>2. NvmInv'
      BY <2>1, Stepping, Stuttering DEF CfgInv
    <2> QED
      BY <2>1, <2>2, AskedKept, FitKept, AnswerKept DEF CfgInv
  <1> QED
    BY <1>1, CfgStarts, PTL DEF CfgSpec

(* What a getter returns once the store has answered.                      *)
LEMMA GetReturns ==
  ASSUME CfgInv, NEW t \in Thread, asked[t] # None, asked[t].op = "get", at[t] = "unlock",
         NEW x, x = Content(mem)[asked[t].key], NEW r, r = asked[t]
  PROVE  /\ x = None => Answer(t) = Default(r)
         /\ x # None /\ TypeOf(x) = r.type =>
               Answer(t) = IF r.type = "str" THEN Cut(ValueOf(x), r.len - 1) ELSE ValueOf(x)
         /\ x # None /\ r.type # "str" /\ Size(x) # Room(r) => Answer(t) = Default(r)
  <1>1. r \in Requests[t] /\ call[t] = NvmCall(r) /\ r.op = "get" /\ call[t] \in Call
    BY DEF CfgInv, AskedInv, NvmInv, ThreadsOK
  <1>2. call[t] = [op |-> "get", key |-> r.key, room |-> Room(r)]
    BY <1>1 DEF NvmCall
  <1>3. r.key \in Key /\ Room(r) \in Nat /\ r.type \in Words \cup {"bool", "str"}
    <2>1. call[t].key \in Key /\ call[t].room \in 0 .. MaxSize
      BY <1>1, <1>2 DEF Call
    <2> QED
      BY <1>1, <1>2, <2>1, CfgAssumption, NvmAssumption DEF CfgAssumption, NvmAssumption
  <1>4. IF x # None /\ Size(x) <= Room(r) THEN result[t] = "ok" /\ out[t] = x ELSE result[t] = "err"
    BY <1>2 DEF CfgInv, AnswerInv, Answered
  <1>5. Answer(t) = IF result[t] = "ok" /\ Fits(r, Bytes(out[t])) THEN Decoded(r, Bytes(out[t])) ELSE Default(r)
    BY <1>1 DEF Answer
  <1>6. CASE x = None
    BY <1>4, <1>5, <1>6
  <1>7. CASE x # None
    <2>1. x \in Val /\ Size(x) <= MaxSize
      <3>1. IsTable(mem) /\ Fitting(mem)
        BY DEF CfgInv, NvmInv, TypesOK, FitInv
      <3>2. PICK s \in SlotsOf(mem, r.key) : TRUE
        BY <1>3, <1>7, <3>1, KeyInOneSlot
      <3>3. x = mem[s].val /\ x \in Val
        BY <1>3, <3>1, <3>2, KeyInOneSlot
      <3> QED
        BY <3>1, <3>2, <3>3 DEF Fitting, SlotsOf
    <2>2. Size(x) = Len(Bytes(x)) /\ Size(x) \in Nat
      BY <2>1, ValueAssumption, NvmAssumption DEF ValueAssumption, NvmAssumption
    <2>3. ASSUME TypeOf(x) = r.type
          PROVE  Answer(t) = IF r.type = "str" THEN Cut(ValueOf(x), r.len - 1) ELSE ValueOf(x)
      <3>1. /\ r.type # "str" => Size(x) = Room(r) /\ Fits(r, Bytes(x))
            /\ Decoded(r, Bytes(x)) = IF r.type = "str" THEN Cut(ValueOf(x), r.len - 1) ELSE ValueOf(x)
        BY <2>1, <2>3, ValueBack
      <3>2. Size(x) <= Room(r) /\ Fits(r, Bytes(x))
        <4>1. CASE r.type = "str"
          BY <2>1, <4>1 DEF Room, Fits, Words
        <4>2. CASE r.type # "str"
          BY <1>3, <3>1, <4>2
        <4> QED
          BY <4>1, <4>2
      <3>3. result[t] = "ok" /\ out[t] = x
        BY <1>4, <1>7, <3>2
      <3>4. Answer(t) = Decoded(r, Bytes(x))
        BY <1>5, <3>2, <3>3
      <3> QED
        BY <3>1, <3>4
    <2>4. ASSUME r.type # "str", Size(x) # Room(r) PROVE Answer(t) = Default(r)
      <3>1. ~Fits(r, Bytes(x))
        BY <1>3, <2>2, <2>4 DEF Fits
      <3>2. CASE Size(x) <= Room(r)
        <4>1. result[t] = "ok" /\ out[t] = x
          BY <1>4, <1>7, <3>2
        <4> QED
          BY <1>5, <3>1, <4>1
      <3>3. CASE ~(Size(x) <= Room(r))
        <4>1. result[t] = "err"
          BY <1>4, <3>3
        <4> QED
          BY <1>5, <4>1
      <3> QED
        BY <3>2, <3>3
    <2> QED
      BY <1>7, <2>3, <2>4
  <1> QED
    BY <1>6, <1>7

(* For any values of the four types, any keys and threads, whatever fails  *)
(* and whenever the process dies: a getter answers the value in effect if  *)
(* a setter of its type stored it, and its default if there is none or     *)
(* one of another width.                                                   *)
THEOREM TypedValuesReadBack == CfgSpec => TypedReadBack
  <1> DEFINE Reads == \A t \in Thread :
        LET r == asked[t] IN
        (r # None /\ asked'[t] = None /\ ready' /\ r.op = "get") =>
            LET x == Content(mem)[r.key] IN
            CASE x = None -> Answer(t) = Default(r)
              [] x # None /\ TypeOf(x) = r.type ->
                    Answer(t) = IF r.type = "str" THEN Cut(ValueOf(x), r.len - 1) ELSE ValueOf(x)
              [] x # None /\ r.type # "str" /\ Size(x) # Room(r) -> Answer(t) = Default(r)
              [] OTHER -> TRUE
  <1>1. CfgInv /\ [CfgNext]_cfgVars => [Reads]_cfgVars
    <2> SUFFICES ASSUME CfgInv, CfgNext, NEW t \in Thread, NEW r, r = asked[t],
                        r # None, asked'[t] = None, ready', r.op = "get", NEW x, x = Content(mem)[r.key]
                 PROVE  CASE x = None -> Answer(t) = Default(r)
                          [] x # None /\ TypeOf(x) = r.type ->
                                Answer(t) = IF r.type = "str" THEN Cut(ValueOf(x), r.len - 1) ELSE ValueOf(x)
                          [] x # None /\ r.type # "str" /\ Size(x) # Room(r) -> Answer(t) = Default(r)
                          [] OTHER -> TRUE
      OBVIOUS
    <2>1. asked = [o \in Thread |-> asked[o]]
      BY DEF CfgInv, AskedInv
    <2>2. at[t] # "idle"
      BY DEF CfgInv, AskedInv
    <2>3. asked' # asked /\ ~Crash
      BY DEF Crash
    <2>4. ASSUME NEW o \in Thread, Ask(o) PROVE o # t
      BY <2>2, <2>4 DEF Ask, Invoke
    <2>5. ~(\E o \in Thread : Ask(o))
      BY <2>1, <2>4 DEF Ask
    <2>6. Return(t)
      BY <2>1, <2>3, <2>5 DEF CfgNext
    <2>7. at[t] = "unlock"
      BY <2>6 DEF Return
    <2>8. /\ x = None => Answer(t) = Default(r)
          /\ x # None /\ TypeOf(x) = r.type =>
                Answer(t) = IF r.type = "str" THEN Cut(ValueOf(x), r.len - 1) ELSE ValueOf(x)
          /\ x # None /\ r.type # "str" /\ Size(x) # Room(r) => Answer(t) = Default(r)
      BY <2>7, GetReturns
    <2> QED
      BY <2>8
  <1> QED
    BY <1>1, CfgInvariant, PTL DEF CfgSpec, TypedReadBack
=============================================================================
