------------------------- MODULE EngineBootProofs -------------------------
(* Boot of the FB engine for every set of FBs, names and dependencies: the *)
(* depth-first search of topo_dfs() orders each phase or finds its cycle,  *)
(* and sub-functions run in the order their FB's init_fn has asked for.    *)
EXTENDS EngineBoot, SequenceTheorems, FiniteSetTheorems, WellFoundedInduction, TLAPS

Colors == {"WHITE", "GRAY", "BLACK"}
Frame == [fb : FBs, d : Nat \ {0}]

(* The e-th dependency of FB i is FB o.                                    *)
Uses(i, e, o) == e \in 1 .. Len(reg[i].deps) /\ Find(reg[i].deps[e]) = o

-----------------------------------------------------------------------------
(* The search.                                                             *)

(* An FB is gray while its call is on the stack, once, and black when it   *)
(* has been appended, once; FBs of other phases are not looked at.         *)
ColorsMean ==
    /\ \A i \in FBs : colors[i] = "GRAY" <=> \E m \in 1 .. Len(stack) : stack[m].fb = i
    /\ \A m, n \in 1 .. Len(stack) : stack[m].fb = stack[n].fb => m = n
    /\ \A i \in FBs : colors[i] = "BLACK" <=> \E b \in 1 .. Len(sorted) : sorted[b] = i
    /\ \A i \in FBs : colors[i] # "WHITE" => reg[i].phase = phase

(* A call that is under way has made sure of the dependencies it has come  *)
(* past, but for the one whose call is next on the stack.                  *)
CallsChain ==
    \A m \in 1 .. Len(stack), e \in Nat, o \in FBs :
        Uses(stack[m].fb, e, o) /\ e < stack[m].d /\ reg[o].phase = phase =>
            colors[o] = "BLACK" \/ (m < Len(stack) /\ stack[m + 1].fb = o)

CallsDepend ==
    \A m \in 1 .. Len(stack) - 1 : DependsOn(stack[m].fb, stack[m + 1].fb)

(* What has been appended comes after everything it depends on.            *)
SortedIsOrder ==
    /\ \A a, b \in 1 .. Len(sorted) : sorted[a] = sorted[b] => a = b
    /\ \A i, o \in FBs, b \in 1 .. Len(sorted) :
         sorted[b] = i /\ DependsOn(i, o) /\ reg[o].phase = phase =>
             \E a \in 1 .. b - 1 : sorted[a] = o

SearchInv ==
    pc = "sort" =>
        /\ colors \in [FBs -> Colors] /\ stack \in Seq(Frame) /\ sorted \in Seq(FBs)
        /\ ColorsMean /\ CallsChain /\ CallsDepend /\ SortedIsOrder

(* The whole phase has been sorted when its init functions are called.     *)
InitInv ==
    pc \in {"init", "body"} =>
        /\ sorted \in Seq(FBs) /\ SortedIsOrder
        /\ \A i \in FBs : reg[i].phase = phase <=> \E b \in 1 .. Len(sorted) : sorted[b] = i
        /\ next \in 1 .. Len(sorted) + 1
        /\ pc = "body" => next <= Len(sorted)

-----------------------------------------------------------------------------
(* The boot order.                                                         *)

(* The FBs whose init functions have returned.                             *)
Past(i) ==
    \/ reg[i].phase \in 1 .. phase - 1
    \/ pc \in {"init", "body"} /\ \E b \in 1 .. next - 1 : sorted[b] = i

OrderInv ==
    /\ order \in Seq(FBs)
    /\ \A a, b \in 1 .. Len(order) : order[a] = order[b] => a = b
    /\ pc # "open" => \A i \in FBs : Past(i) <=> \E b \in 1 .. Len(order) : order[b] = i
    /\ pc # "open" =>
         \A i, o \in FBs, b \in 1 .. Len(order) :
             order[b] = i /\ DependsOn(i, o) /\ reg[o].phase = reg[i].phase =>
                 \E a \in 1 .. b - 1 : order[a] = o

PhaseInv ==
    /\ pc \in {"open", "phase", "sort", "init", "body", "booted"}
    /\ outcome \in {"none", "missing", "cycle"}
    /\ phase \in 0 .. 5
    /\ pc = "phase" => phase \in 1 .. 5
    /\ pc \in {"sort", "init", "body"} => phase \in 1 .. 4
    /\ pc = "booted" => phase = 5
    /\ pc # "open" => outcome = "none" /\ ~MissingDep
    /\ outcome = "missing" => order = <<>>
    /\ outcome = "cycle" =>
         /\ phase \in 1 .. 4 /\ Cyclic(phase)
         /\ \A b \in 1 .. Len(order) : reg[order[b]].phase < phase

RegInv == reg \in Seq(Config)

BootInv == RegInv /\ PhaseInv /\ SearchInv /\ InitInv /\ OrderInv

-----------------------------------------------------------------------------
(* Sub-functions.                                                          *)

SubFn == [order : Nat, subs : SUBSET MsgId, serial : Nat]

(* The array of an FB is ordered, and holds every sub-function once.       *)
Arranged(s) ==
    /\ s \in Seq(SubFn)
    /\ \A a, b \in 1 .. Len(s) :
         a < b => s[a].order < s[b].order \/ (s[a].order = s[b].order /\ s[a].serial < s[b].serial)
    /\ \A a \in 1 .. Len(s) : s[a].serial \in 1 .. Len(s)
    /\ \A n \in 1 .. Len(s) : \E a \in 1 .. Len(s) : s[a].serial = n

SubFnInv == DOMAIN subfns = FBs /\ \A i \in FBs : Arranged(subfns[i])

-----------------------------------------------------------------------------
(* Names and dependencies.                                                 *)

(* A set of numbers that is not empty has a least one.                     *)
LEMMA LeastNumber ==
  ASSUME NEW S \in SUBSET Nat, S # {}
  PROVE  \E j \in S : \A f \in S : j <= f
  <1>1. PICK j \in S : \A f \in S : <<f, j>> \notin OpToRel(<, Nat)
    BY WFMin, NatLessThanWellFounded, Zenon
  <1>2. \A f \in S : ~(f < j)
    BY <1>1, Zenon DEF OpToRel
  <1> QED
    BY <1>2

(* A name is found at the first FB that has it.                            *)
LEMMA Finding ==
  ASSUME RegInv, NEW n
  PROVE  /\ HasName(n) = {} => Find(n) = 0
         /\ HasName(n) # {} => Find(n) \in HasName(n) /\ \A o \in HasName(n) : Find(n) <= o
  <1>1. HasName(n) \in SUBSET Nat
    BY LenProperties DEF HasName, FBs, RegInv
  <1>2. HasName(n) # {} => \E j \in HasName(n) : \A f \in HasName(n) : j <= f
    BY <1>1, LeastNumber
  <1> QED
    BY <1>2, Zenon DEF Find

(* What is found is an FB of that name, or 0.                              *)
LEMMA FoundIsFB ==
  ASSUME RegInv, NEW n
  PROVE  Find(n) # 0 => Find(n) \in FBs /\ reg[Find(n)].name = n
  BY Finding DEF HasName

(* A dependency is one that the loop of topo_dfs() comes to.               *)
LEMMA DependsIsUses ==
  ASSUME RegInv, NEW i \in FBs, NEW o
  PROVE  DependsOn(i, o) <=> \E e \in Nat : Uses(i, e, o)
  <1>1. reg[i].deps \in Seq(Name)
    <2>1. reg[i] \in Config
      BY ElementOfSeq DEF RegInv, FBs
    <2> QED
      BY <2>1 DEF Config
  <1>2. DOMAIN reg[i].deps = 1 .. Len(reg[i].deps) /\ Len(reg[i].deps) \in Nat
    BY <1>1, LenProperties
  <1>3. DependsOn(i, o) <=> \E e \in 1 .. Len(reg[i].deps) : Find(reg[i].deps[e]) = o
    BY <1>2, Zenon DEF DependsOn, Range
  <1> QED
    BY <1>2, <1>3 DEF Uses

(* Nothing about dependencies changes while the registry does not.         *)
LEMMA Frozen ==
  ASSUME reg' = reg
  PROVE  /\ FBs' = FBs
         /\ \A n : Find(n)' = Find(n)
         /\ \A i, o : DependsOn(i, o)' <=> DependsOn(i, o)
         /\ \A i, e, o : Uses(i, e, o)' <=> Uses(i, e, o)
         /\ \A p : PhaseSet(p)' = PhaseSet(p)
         /\ \A p : Cyclic(p)' <=> Cyclic(p)
         /\ MissingDep' <=> MissingDep
  <1>1. FBs' = FBs
    BY DEF FBs
  <1>2. ASSUME NEW n PROVE Find(n)' = Find(n)
    <2>1. HasName(n)' = HasName(n)
      BY <1>1 DEF HasName
    <2> QED
      BY <2>1 DEF Find
  <1>3. ASSUME NEW i, NEW o PROVE DependsOn(i, o)' <=> DependsOn(i, o)
    BY <1>2, Zenon DEF DependsOn
  <1>4. ASSUME NEW i, NEW e, NEW o PROVE Uses(i, e, o)' <=> Uses(i, e, o)
    BY <1>2, Zenon DEF Uses
  <1>5. ASSUME NEW p PROVE PhaseSet(p)' = PhaseSet(p)
    BY <1>1 DEF PhaseSet
  <1>6. ASSUME NEW p PROVE Cyclic(p)' <=> Cyclic(p)
    BY <1>3, <1>5, Zenon DEF Cyclic
  <1>7. MissingDep' <=> MissingDep
    BY <1>1, <1>2, Zenon DEF MissingDep
  <1> QED
    BY <1>1, <1>2, <1>3, <1>4, <1>5, <1>6, <1>7, Zenon

(* FBs are numbered, and each has a phase.                                 *)
LEMMA Registered ==
  ASSUME RegInv
  PROVE  /\ Len(reg) \in Nat /\ FBs \subseteq Nat
         /\ \A i \in FBs : reg[i] \in Config /\ reg[i].phase \in 0 .. 4
  <1>1. Len(reg) \in Nat /\ FBs \subseteq Nat
    BY LenProperties DEF RegInv, FBs
  <1>2. \A i \in FBs : reg[i] \in Config
    BY ElementOfSeq DEF RegInv, FBs
  <1> QED
    BY <1>1, <1>2 DEF Config

-----------------------------------------------------------------------------
(* One lemma per action.                                                   *)

(* The first FB of a name stays the first when another is registered.      *)
LEMMA RegisterKeepsFinding ==
  ASSUME BootInv, Register, NEW n, Find(n) # 0
  PROVE  Find(n)' = Find(n)
  <1>1. PICK c \in Configs : reg' = Append(reg, c)
    BY DEF Register
  <1>2. c \in Config
    BY EngineBootAssumption DEF EngineBootAssumption
  <1>3. RegInv /\ RegInv'
    BY <1>1, <1>2, AppendProperties DEF BootInv, RegInv
  <1>4. Len(reg) \in Nat /\ Len(reg') = Len(reg) + 1 /\ \A i \in FBs : reg'[i] = reg[i]
    BY <1>1, <1>2, <1>3, AppendProperties, LenProperties DEF RegInv, FBs
  <1>5. FBs' = FBs \cup {Len(reg) + 1}
    BY <1>4 DEF FBs
  <1>6. HasName(n) # {}
    BY <1>3, Finding
  <1>7. Find(n) \in HasName(n) /\ \A o \in HasName(n) : Find(n) <= o
    BY <1>3, <1>6, Finding
  <1>8. HasName(n) \subseteq HasName(n)' /\ HasName(n)' \subseteq HasName(n) \cup {Len(reg) + 1}
    BY <1>4, <1>5 DEF HasName
  <1>9. Find(n)' \in HasName(n)' /\ \A o \in HasName(n)' : Find(n)' <= o
    <2>1. (HasName(n) # {} => Find(n) \in HasName(n) /\ \A o \in HasName(n) : Find(n) <= o)'
      BY <1>3, Finding, PTL
    <2> QED
      BY <2>1, <1>6, <1>8
  <1>10. HasName(n) \subseteq 1 .. Len(reg)
    BY DEF HasName, FBs
  <1> QED
    BY <1>4, <1>7, <1>8, <1>9, <1>10
(* A new FB takes nothing away from what depends on what.                  *)
LEMMA RegisterKeeps ==
  ASSUME BootInv, Register
  PROVE  BootInv'
  <1>1. PICK c \in Configs : reg' = Append(reg, c)
    BY DEF Register
  <1>2. c \in Config
    BY EngineBootAssumption DEF EngineBootAssumption
  <1>3. RegInv /\ RegInv'
    BY <1>1, <1>2, AppendProperties DEF BootInv, RegInv
  <1>4. Len(reg) \in Nat /\ Len(reg') = Len(reg) + 1 /\ \A i \in FBs : reg'[i] = reg[i]
    BY <1>1, <1>2, <1>3, AppendProperties, LenProperties DEF RegInv, FBs
  <1>5. FBs \subseteq FBs'
    BY <1>4 DEF FBs
  <1>6. UNCHANGED <<pc, outcome, phase, order>> /\ pc = "open"
    BY DEF Register
  <1>7. Cyclic(phase) => Cyclic(phase)'
    <2>1. SUFFICES ASSUME NEW S \in SUBSET PhaseSet(phase), S # {},
                          \A i \in S : \E o \in S : DependsOn(i, o)
                   PROVE  Cyclic(phase)'
      BY Zenon DEF Cyclic
    <2>2. S \in SUBSET PhaseSet(phase)'
      BY <1>4, <1>5, <1>6, <2>1 DEF PhaseSet
    <2>3. ASSUME NEW i \in S, NEW o \in S, DependsOn(i, o)
          PROVE  DependsOn(i, o)'
      <3>1. PICK n \in Range(reg[i].deps) : Find(n) = o
        BY <2>3 DEF DependsOn
      <3>2. i \in FBs /\ o \in FBs
        BY DEF PhaseSet
      <3>3. o # 0
        BY <3>2 DEF FBs
      <3>4. Find(n)' = o
        BY <3>1, <3>3, RegisterKeepsFinding
      <3>5. Range(reg[i].deps) = Range(reg[i].deps)'
        BY <1>4, <3>2
      <3> QED
        BY <3>1, <3>4, <3>5, Zenon DEF DependsOn
    <2> QED
      BY <2>1, <2>2, <2>3, Zenon DEF Cyclic
  <1>8. order \in Seq(FBs) /\ \A b \in 1 .. Len(order) : order[b] \in FBs
    BY ElementOfSeq DEF BootInv, OrderInv
  <1>9. PhaseInv'
    <2>1. outcome = "cycle" =>
            /\ phase \in 1 .. 4 /\ Cyclic(phase)'
            /\ \A b \in 1 .. Len(order) : reg'[order[b]].phase < phase
      BY <1>4, <1>7, <1>8 DEF BootInv, PhaseInv
    <2> QED
      BY <1>6, <2>1 DEF BootInv, PhaseInv
  <1>10. OrderInv'
    <2>1. order \in Seq(FBs')
      BY <1>5, <1>8, SeqDef
    <2> QED
      BY <1>6, <2>1 DEF BootInv, OrderInv
  <1> QED
    BY <1>3, <1>6, <1>9, <1>10 DEF BootInv, SearchInv, InitInv

(* A call of embediq_engine_boot() starts with nothing initialised.        *)
LEMMA BootKeeps ==
  ASSUME BootInv, Boot
  PROVE  BootInv'
  <1>1. UNCHANGED reg /\ phase' = 1 /\ order' = <<>> /\ pc' \in {"open", "phase"}
    BY DEF Boot, regVars, BootInv, PhaseInv
  <1>2. RegInv /\ RegInv' /\ (MissingDep' <=> MissingDep) /\ FBs' = FBs
    BY <1>1, Frozen DEF BootInv, RegInv
  <1>3. PhaseInv'
    BY <1>1, <1>2 DEF Boot, PhaseInv
  <1>4. \A i : ~Past(i)'
    BY <1>1 DEF Past
  <1>5. order' \in Seq(FBs') /\ Len(order') = 0
    BY <1>1, EmptySeq
  <1>6. OrderInv'
    BY <1>4, <1>5 DEF OrderInv
  <1> QED
    BY <1>1, <1>2, <1>3, <1>6 DEF BootInv, SearchInv, InitInv

(* A new phase is sorted from the beginning.                               *)
LEMMA EnterPhaseKeeps ==
  ASSUME BootInv, EnterPhase
  PROVE  BootInv'
  <1>1. UNCHANGED <<reg, order, outcome>> /\ pc = "phase" /\ phase \in 1 .. 5
    BY DEF EnterPhase, regVars, BootInv, PhaseInv
  <1>2. RegInv /\ RegInv'
    BY <1>1 DEF BootInv, RegInv
  <1>3. /\ FBs' = FBs /\ (MissingDep' <=> MissingDep)
        /\ \A i, o : DependsOn(i, o)' <=> DependsOn(i, o)
    BY <1>1, Frozen
  <1>4. /\ outcome' = "none" /\ ~MissingDep'
    BY <1>1, <1>3 DEF BootInv, PhaseInv
  <1>5. PhaseInv'
    BY <1>1, <1>4 DEF EnterPhase, PhaseInv
  <1>6. ASSUME NEW i \in FBs PROVE Past(i)' <=> Past(i)
    BY <1>1, <1>2, <1>6, Registered DEF EnterPhase, Past, PhaseSet
  <1>7. OrderInv'
    BY <1>1, <1>3, <1>6 DEF BootInv, OrderInv
  <1>8. SearchInv'
    <2> SUFFICES ASSUME pc' = "sort" PROVE SearchInv'
      BY DEF SearchInv
    <2>1. colors' = [i \in FBs |-> "WHITE"] /\ stack' = <<>> /\ sorted' = <<>>
      BY <1>1 DEF EnterPhase
    <2>2. /\ colors' \in [FBs' -> Colors] /\ stack' \in Seq(Frame') /\ sorted' \in Seq(FBs')
          /\ Len(stack') = 0 /\ Len(sorted') = 0
      BY <1>3, <2>1, EmptySeq DEF Colors
    <2>3. ColorsMean'
      BY <1>3, <2>1, <2>2 DEF ColorsMean
    <2> QED
      BY <2>2, <2>3 DEF SearchInv, CallsChain, CallsDepend, SortedIsOrder
  <1>9. InitInv'
    BY <1>1 DEF EnterPhase, InitInv
  <1> QED
    BY <1>2, <1>5, <1>7, <1>8, <1>9 DEF BootInv

(* What a step of the search knows and leaves alone.                       *)
LEMMA Searching ==
  ASSUME BootInv, pc = "sort"
  PROVE  /\ RegInv /\ phase \in 1 .. 4 /\ outcome = "none" /\ ~MissingDep
         /\ colors \in [FBs -> Colors] /\ stack \in Seq(Frame) /\ sorted \in Seq(FBs)
         /\ ColorsMean /\ CallsChain /\ CallsDepend /\ SortedIsOrder
         /\ Len(stack) \in Nat /\ Len(sorted) \in Nat
         /\ \A m \in 1 .. Len(stack) : stack[m] \in Frame
         /\ \A b \in 1 .. Len(sorted) : sorted[b] \in FBs
  <1>1. /\ RegInv /\ phase \in 1 .. 4 /\ outcome = "none" /\ ~MissingDep
        /\ colors \in [FBs -> Colors] /\ stack \in Seq(Frame) /\ sorted \in Seq(FBs)
        /\ ColorsMean /\ CallsChain /\ CallsDepend /\ SortedIsOrder
    BY DEF BootInv, PhaseInv, SearchInv
  <1> QED
    BY <1>1, LenProperties, ElementOfSeq

(* The boot order is not touched by a step of the search.                  *)
LEMMA SearchLeavesOrder ==
  ASSUME BootInv, pc = "sort", UNCHANGED <<reg, order, phase>>,
         pc' \in {"sort", "open"}
  PROVE  OrderInv'
  <1>1. /\ FBs' = FBs
        /\ \A i, o : DependsOn(i, o)' <=> DependsOn(i, o)
    BY Frozen
  <1>2. ASSUME NEW i PROVE Past(i)' <=> Past(i)
    BY DEF Past
  <1> QED
    BY <1>1, <1>2 DEF BootInv, OrderInv

(* Nothing is appended, and what has been stays in order.                  *)
LEMMA SameSorted ==
  ASSUME UNCHANGED <<reg, phase, sorted>>, SortedIsOrder
  PROVE  SortedIsOrder'
  <1>1. FBs' = FBs /\ \A i, o : DependsOn(i, o)' <=> DependsOn(i, o)
    BY Frozen
  <1> QED
    BY <1>1 DEF SortedIsOrder

(* A search starts at a white FB, or the phase is sorted.                  *)
LEMMA RootKeeps ==
  ASSUME BootInv, Root
  PROVE  BootInv'
  <1> DEFINE white == {i \in PhaseSet(phase) : colors[i] = "WHITE"}
  <1>1. pc = "sort" /\ stack = <<>> /\ Len(stack) = 0 /\ UNCHANGED <<reg, order, outcome, phase>>
    BY EmptySeq DEF Root, regVars
  <1>2. /\ FBs' = FBs /\ (MissingDep' <=> MissingDep)
        /\ \A i, o : DependsOn(i, o)' <=> DependsOn(i, o)
        /\ \A i, e, o : Uses(i, e, o)' <=> Uses(i, e, o)
    BY <1>1, Frozen
  <1>3. RegInv' /\ FBs \subseteq Nat
    BY <1>1, Registered DEF BootInv, RegInv
  <1>4. CASE white = {}
    <2>1. pc' = "init" /\ next' = 1 /\ UNCHANGED sorted
      BY <1>4 DEF Root, sortVars
    <2>2. PhaseInv' /\ SearchInv'
      BY <1>1, <1>2, <2>1, Searching DEF PhaseInv, SearchInv
    <2>3. \A i \in FBs : reg[i].phase = phase <=> \E b \in 1 .. Len(sorted) : sorted[b] = i
      <3> SUFFICES ASSUME NEW i \in FBs
                   PROVE  reg[i].phase = phase <=> \E b \in 1 .. Len(sorted) : sorted[b] = i
        OBVIOUS
      <3>1. colors[i] \in Colors /\ colors[i] # "GRAY"
        BY <1>1, Searching DEF ColorsMean
      <3>2. colors[i] = "BLACK" <=> \E b \in 1 .. Len(sorted) : sorted[b] = i
        BY <1>1, Searching DEF ColorsMean
      <3>3. colors[i] # "WHITE" => reg[i].phase = phase
        BY <1>1, Searching DEF ColorsMean
      <3>4. reg[i].phase = phase => colors[i] # "WHITE"
        BY <1>4 DEF PhaseSet
      <3> QED
        BY <3>1, <3>2, <3>3, <3>4 DEF Colors
    <2>4. SortedIsOrder'
      BY <1>1, <2>1, Searching, SameSorted
    <2>5. InitInv'
      BY <1>1, <1>2, <2>1, <2>3, <2>4, Searching DEF InitInv
    <2>6. \A i : Past(i)' <=> Past(i)
      BY <1>1, <2>1 DEF Past
    <2>7. OrderInv'
      BY <1>1, <1>2, <2>6 DEF BootInv, OrderInv
    <2> QED
      BY <1>3, <2>2, <2>5, <2>7 DEF BootInv
  <1>5. CASE white # {}
    <2> DEFINE i == CHOOSE w \in white : \A o \in white : w <= o
    <2>1. i \in white
      <3>1. white \in SUBSET Nat
        BY <1>3 DEF PhaseSet
      <3>2. \E j \in white : \A o \in white : j <= o
        BY <1>5, <3>1, LeastNumber
      <3> QED
        BY <3>2, Zenon
    <2>2. colors' = [colors EXCEPT ![i] = "GRAY"] /\ stack' = Call(i) /\ UNCHANGED <<pc, sorted>>
      BY <1>5 DEF Root
    <2> HIDE DEF i
    <2>3. i \in FBs /\ colors[i] = "WHITE" /\ reg[i].phase = phase
      BY <2>1 DEF PhaseSet
    <2>4. stack' = <<[fb |-> i, d |-> 1]>>
      BY <1>1, <2>2 DEF Call
    <2>5. Len(stack') = 1 /\ stack'[1] = [fb |-> i, d |-> 1] /\ stack' \in Seq(Frame')
      BY <1>2, <2>3, <2>4 DEF Frame
    <2>6. colors' \in [FBs' -> Colors] /\ \A o \in FBs : colors'[o] = IF o = i THEN "GRAY" ELSE colors[o]
      BY <1>1, <1>2, <2>2, <2>3, Searching DEF Colors
    <2>7. ColorsMean'
      <3>1. \A o \in FBs : colors[o] # "GRAY"
        BY <1>1, Searching DEF ColorsMean
      <3>2. \A o \in FBs : colors'[o] = "GRAY" <=> \E m \in 1 .. Len(stack') : stack'[m].fb = o
        BY <2>5, <2>6, <3>1
      <3>3. \A o \in FBs : colors'[o] = "BLACK" <=> \E b \in 1 .. Len(sorted) : sorted[b] = o
        BY <1>1, <2>3, <2>6, Searching DEF ColorsMean
      <3>4. \A o \in FBs : colors'[o] # "WHITE" => reg[o].phase = phase
        BY <1>1, <2>3, <2>6, Searching DEF ColorsMean
      <3> QED
        BY <1>1, <1>2, <2>2, <2>5, <3>2, <3>3, <3>4 DEF ColorsMean
    <2>8. CallsChain' /\ CallsDepend'
      BY <2>5 DEF CallsChain, CallsDepend, Uses
    <2>9. SortedIsOrder'
      BY <1>1, <2>2, Searching, SameSorted
    <2>10. SearchInv' /\ PhaseInv' /\ InitInv'
      BY <1>1, <1>2, <2>2, <2>5, <2>6, <2>7, <2>8, <2>9, Searching DEF SearchInv, PhaseInv, InitInv
    <2> QED
      BY <1>1, <1>3, <2>2, <2>10, SearchLeavesOrder DEF BootInv
  <1> QED
    BY <1>4, <1>5

(* The call on top of the stack, and the stack after its loop has advanced. *)
LEMMA OnTop ==
  ASSUME BootInv, pc = "sort", stack # <<>>
  PROVE  /\ Len(stack) \in Nat \ {0} /\ Top = stack[Len(stack)] /\ Top \in Frame
         /\ NextDep \in Seq(Frame) /\ Len(NextDep) = Len(stack)
         /\ \A m \in 1 .. Len(stack) :
              /\ NextDep[m].fb = stack[m].fb
              /\ NextDep[m].d = IF m = Len(stack) THEN Top.d + 1 ELSE stack[m].d
  <1>1. stack \in Seq(Frame) /\ Len(stack) \in Nat /\ \A m \in 1 .. Len(stack) : stack[m] \in Frame
    BY Searching
  <1>2. Len(stack) # 0
    BY <1>1, EmptySeq
  <1>3. Top = stack[Len(stack)] /\ Top \in Frame
    BY <1>1, <1>2 DEF Top, Last
  <1>4. DOMAIN stack = 1 .. Len(stack)
    BY <1>1, LenProperties
  <1> DEFINE f == [Top EXCEPT !.d = @ + 1]
  <1>5. f \in Frame /\ f.fb = Top.fb /\ f.d = Top.d + 1
    BY <1>3 DEF Frame
  <1>6. NextDep = [stack EXCEPT ![Len(stack)] = f]
    BY <1>3 DEF NextDep
  <1>7. \A m \in 1 .. Len(stack) : NextDep[m] = IF m = Len(stack) THEN f ELSE stack[m]
    BY <1>4, <1>6
  <1> HIDE DEF f
  <1>8. NextDep \in Seq(Frame) /\ Len(NextDep) = Len(stack)
    BY <1>1, <1>2, <1>5, <1>6, ExceptSeq
  <1> QED
    BY <1>1, <1>2, <1>3, <1>5, <1>7, <1>8

(* A dependency that is gray closes a cycle: the FBs whose calls are on the *)
(* stack from its own call up all depend on one another.                   *)
LEMMA GrayIsCycle ==
  ASSUME BootInv, pc = "sort", stack # <<>>, Top.d <= Len(Deps), Verdict(Dep) = "cycle"
  PROVE  Cyclic(phase)
  <1> DEFINE n == Len(stack)
  <1>1. n \in Nat \ {0} /\ Top = stack[n] /\ Top \in Frame
    BY OnTop
  <1>2. Dep \in FBs /\ colors[Dep] = "GRAY"
    BY DEF Verdict, PhaseSet
  <1>3. PICK p \in 1 .. n : stack[p].fb = Dep
    BY <1>2, Searching DEF ColorsMean
  <1> DEFINE S == {stack[m].fb : m \in p .. n}
  <1>4. S \in SUBSET PhaseSet(phase)
    <2> SUFFICES ASSUME NEW m \in p .. n PROVE stack[m].fb \in PhaseSet(phase)
      OBVIOUS
    <2>1. m \in 1 .. n
      BY <1>1, <1>3
    <2>2. stack[m].fb \in FBs
      BY <2>1, Searching DEF Frame
    <2>3. colors[stack[m].fb] = "GRAY"
      BY <2>1, <2>2, Searching DEF ColorsMean
    <2> QED
      BY <2>2, <2>3, Searching DEF ColorsMean, PhaseSet
  <1>5. ASSUME NEW m \in p .. n
        PROVE  \E o \in S : DependsOn(stack[m].fb, o)
    <2>1. CASE m < n
      <3>1. m \in 1 .. n - 1 /\ m + 1 \in p .. n
        BY <1>1, <1>3, <2>1
      <3> QED
        BY <3>1, Searching DEF CallsDepend
    <2>2. CASE m = n
      <3>1. Top.fb \in FBs /\ Top.d \in Nat \ {0}
        BY <1>1 DEF Frame
      <3>2. Uses(Top.fb, Top.d, Dep)
        BY <3>1 DEF Uses, Deps, Dep
      <3>3. DependsOn(Top.fb, Dep)
        BY <3>1, <3>2, Searching, DependsIsUses
      <3>4. Dep \in S
        BY <1>1, <1>3
      <3> QED
        BY <1>1, <2>2, <3>3, <3>4
    <2> QED
      BY <1>1, <1>3, <2>1, <2>2
  <1>6. S # {}
    BY <1>1, <1>3
  <1>7. \A i \in S : \E o \in S : DependsOn(i, o)
    BY <1>5
  <1> HIDE DEF S
  <1> QED
    BY <1>4, <1>6, <1>7, Zenon DEF Cyclic

(* Whatever has been initialised is of an earlier phase.                   *)
LEMMA OrderIsEarlier ==
  ASSUME BootInv, pc = "sort", NEW b \in 1 .. Len(order)
  PROVE  reg[order[b]].phase < phase
  <1>1. order[b] \in FBs
    BY ElementOfSeq DEF BootInv, OrderInv
  <1>2. Past(order[b])
    BY <1>1 DEF BootInv, OrderInv
  <1>3. reg[order[b]].phase \in 1 .. phase - 1
    BY <1>2 DEF Past
  <1> QED
    BY <1>3, Searching

(* A cycle ends the boot.                                                  *)
LEMMA CycleKeeps ==
  ASSUME BootInv, Visit, Verdict(Dep) = "cycle"
  PROVE  BootInv'
  <1>1. /\ pc = "sort" /\ stack # <<>> /\ Top.d <= Len(Deps)
        /\ pc' = "open" /\ outcome' = "cycle" /\ UNCHANGED <<reg, order, phase>>
    BY DEF Visit, regVars
  <1>2. Cyclic(phase)'
    <2>1. Cyclic(phase)
      BY <1>1, GrayIsCycle
    <2>2. Cyclic(phase)' <=> Cyclic(phase')
      BY <1>1, Frozen
    <2> QED
      BY <1>1, <2>1, <2>2, Zenon
  <1>3. PhaseInv'
    BY <1>1, <1>2, OrderIsEarlier, Searching DEF PhaseInv
  <1> QED
    BY <1>1, <1>3, SearchLeavesOrder DEF BootInv, RegInv, SearchInv, InitInv

(* The dependencies the call on top has come past are appended.            *)
LEMMA TopChain ==
  ASSUME BootInv, pc = "sort", stack # <<>>,
         NEW e \in Nat, NEW o \in FBs, Uses(Top.fb, e, o), e < Top.d, reg[o].phase = phase
  PROVE  colors[o] = "BLACK"
  BY OnTop, Searching DEF CallsChain

(* The dependency the loop looks at.                                       *)
LEMMA DepIsUsed ==
  ASSUME BootInv, pc = "sort", stack # <<>>,
         NEW o, Uses(Top.fb, Top.d, o)
  PROVE  Dep = o
  BY Zenon DEF Uses, Deps, Dep

(* A dependency that needs no search is passed over.                       *)
LEMMA SkipKeeps ==
  ASSUME BootInv, Visit, Verdict(Dep) = "skip"
  PROVE  BootInv'
  <1>1. /\ pc = "sort" /\ stack # <<>> /\ pc' = "sort" /\ stack' = NextDep
        /\ UNCHANGED <<reg, order, phase, outcome, colors, sorted>>
    BY DEF Visit, regVars
  <1>2. /\ FBs' = FBs /\ (MissingDep' <=> MissingDep)
        /\ \A i, o : DependsOn(i, o)' <=> DependsOn(i, o)
        /\ \A i, e, o : Uses(i, e, o)' <=> Uses(i, e, o)
    BY <1>1, Frozen
  <1>3. /\ Len(stack) \in Nat \ {0} /\ Len(stack') = Len(stack) /\ stack' \in Seq(Frame')
        /\ \A m \in 1 .. Len(stack) :
             /\ stack'[m].fb = stack[m].fb
             /\ stack'[m].d = IF m = Len(stack) THEN Top.d + 1 ELSE stack[m].d
    BY <1>1, <1>2, OnTop DEF Frame
  <1>4. ColorsMean'
    BY <1>1, <1>2, <1>3, Searching DEF ColorsMean
  <1>5. CallsDepend'
    <2> SUFFICES ASSUME NEW m \in 1 .. Len(stack) - 1
                 PROVE  DependsOn(stack'[m].fb, stack'[m + 1].fb)
      BY <1>2, <1>3 DEF CallsDepend
    <2>1. m \in 1 .. Len(stack) /\ m + 1 \in 1 .. Len(stack)
      BY <1>3
    <2>2. DependsOn(stack[m].fb, stack[m + 1].fb)
      BY <1>1, Searching DEF CallsDepend
    <2> QED
      BY <1>3, <2>1, <2>2
  <1>6. CallsChain'
    <2> SUFFICES ASSUME NEW m \in 1 .. Len(stack), NEW e \in Nat, NEW o \in FBs,
                        Uses(stack[m].fb, e, o), e < stack'[m].d, reg[o].phase = phase
                 PROVE  colors[o] = "BLACK" \/ (m < Len(stack) /\ stack[m + 1].fb = o)
      BY <1>1, <1>2, <1>3 DEF CallsChain
    <2>1. CASE m # Len(stack)
      BY <1>1, <1>3, <2>1, Searching DEF CallsChain
    <2>2. CASE m = Len(stack)
      <3>1. Top = stack[m] /\ Top.d \in Nat /\ e <= Top.d
        BY <1>1, <1>3, <2>2, OnTop DEF Frame
      <3>2. CASE e < Top.d
        BY <1>1, <3>1, <3>2, TopChain
      <3>3. CASE e = Top.d
        <4>1. Dep = o
          BY <1>1, <3>1, <3>3, DepIsUsed
        <4> QED
          BY <4>1 DEF Verdict, PhaseSet
      <3> QED
        BY <3>1, <3>2, <3>3
    <2> QED
      BY <2>1, <2>2
  <1>7. SortedIsOrder'
    BY <1>1, Searching, SameSorted
  <1>8. SearchInv' /\ PhaseInv' /\ InitInv' /\ RegInv'
    BY <1>1, <1>2, <1>3, <1>4, <1>5, <1>6, <1>7, Searching DEF SearchInv, PhaseInv, InitInv, RegInv
  <1> QED
    BY <1>1, <1>8, SearchLeavesOrder DEF BootInv

(* A white dependency is searched first.                                   *)
LEMMA SearchKeeps ==
  ASSUME BootInv, Visit, Verdict(Dep) = "search"
  PROVE  BootInv'
  <1> DEFINE n == Len(stack)
             f == [fb |-> Dep, d |-> 1]
  <1>1. /\ pc = "sort" /\ stack # <<>> /\ pc' = "sort" /\ stack' = Append(NextDep, f)
        /\ colors' = [colors EXCEPT ![Dep] = "GRAY"]
        /\ Top.d <= Len(Deps)
        /\ UNCHANGED <<reg, order, phase, outcome, sorted>>
    BY DEF Visit, regVars
  <1>2. /\ FBs' = FBs /\ (MissingDep' <=> MissingDep)
        /\ \A i, o : DependsOn(i, o)' <=> DependsOn(i, o)
        /\ \A i, e, o : Uses(i, e, o)' <=> Uses(i, e, o)
    BY <1>1, Frozen
  <1>3. Dep \in FBs /\ reg[Dep].phase = phase /\ colors[Dep] = "WHITE"
    <2>1. Dep \in FBs /\ reg[Dep].phase = phase /\ colors[Dep] # "BLACK" /\ colors[Dep] # "GRAY"
      BY DEF Verdict, PhaseSet
    <2> QED
      BY <1>1, <2>1, Searching DEF Colors
  <1>4. f \in Frame /\ f.fb = Dep /\ f.d = 1
    BY <1>3 DEF Frame
  <1>5. /\ n \in Nat \ {0} /\ Top = stack[n] /\ Top \in Frame
        /\ NextDep \in Seq(Frame) /\ Len(NextDep) = n
    BY <1>1, OnTop
  <1> HIDE DEF f
  <1>6. /\ Len(stack') = n + 1 /\ stack' \in Seq(Frame) /\ stack'[n + 1] = f
        /\ \A m \in 1 .. n : stack'[m] = NextDep[m]
    BY <1>1, <1>4, <1>5, AppendProperties
  <1>7. /\ \A m \in 1 .. n : stack'[m].fb = stack[m].fb
        /\ \A m \in 1 .. n : stack'[m].d = IF m = n THEN Top.d + 1 ELSE stack[m].d
        /\ stack'[n + 1].fb = Dep /\ stack'[n + 1].d = 1
    BY <1>1, <1>4, <1>6, OnTop
  <1>8. /\ colors' \in [FBs -> Colors]
        /\ \A o \in FBs : colors'[o] = IF o = Dep THEN "GRAY" ELSE colors[o]
    BY <1>1, <1>3, Searching DEF Colors
  <1>9. \A m \in 1 .. n : stack[m].fb \in FBs /\ stack[m].fb # Dep
    BY <1>1, <1>3, Searching DEF ColorsMean, Frame
  <1>10. ColorsMean'
    <2>1. \A o \in FBs : colors'[o] = "GRAY" <=> \E m \in 1 .. n + 1 : stack'[m].fb = o
      <3> SUFFICES ASSUME NEW o \in FBs
                   PROVE  colors'[o] = "GRAY" <=> \E m \in 1 .. n + 1 : stack'[m].fb = o
        OBVIOUS
      <3>1. CASE o = Dep
        BY <1>5, <1>7, <1>8, <3>1
      <3>2. CASE o # Dep
        <4>1. colors'[o] = "GRAY" <=> \E m \in 1 .. n : stack[m].fb = o
          BY <1>1, <1>8, <3>2, Searching DEF ColorsMean
        <4>2. (\E m \in 1 .. n : stack[m].fb = o) <=> \E m \in 1 .. n + 1 : stack'[m].fb = o
          BY <1>5, <1>7, <3>2
        <4> QED
          BY <4>1, <4>2
      <3> QED
        BY <3>1, <3>2
    <2>2. \A m, k \in 1 .. n + 1 : stack'[m].fb = stack'[k].fb => m = k
      <3>1. \A m, k \in 1 .. n : stack[m].fb = stack[k].fb => m = k
        BY <1>1, Searching DEF ColorsMean
      <3> QED
        BY <1>5, <1>7, <1>9, <3>1
    <2>3. \A o \in FBs : colors'[o] = "BLACK" <=> \E b \in 1 .. Len(sorted) : sorted[b] = o
      BY <1>1, <1>3, <1>8, Searching DEF ColorsMean
    <2>4. \A o \in FBs : colors'[o] # "WHITE" => reg[o].phase = phase
      BY <1>1, <1>3, <1>8, Searching DEF ColorsMean
    <2> QED
      BY <1>1, <1>2, <1>6, <2>1, <2>2, <2>3, <2>4 DEF ColorsMean
  <1>11. CallsDepend'
    <2> SUFFICES ASSUME NEW m \in 1 .. n
                 PROVE  DependsOn(stack'[m].fb, stack'[m + 1].fb)
      BY <1>2, <1>5, <1>6 DEF CallsDepend
    <2>1. CASE m # n
      <3>1. m \in 1 .. n - 1 /\ m + 1 \in 1 .. n
        BY <1>5, <2>1
      <3> QED
        BY <1>1, <1>7, <3>1, Searching DEF CallsDepend
    <2>2. CASE m = n
      <3>1. Top.fb \in FBs /\ Top.d \in Nat \ {0}
        BY <1>5 DEF Frame
      <3>2. Uses(Top.fb, Top.d, Dep)
        BY <1>1, <3>1 DEF Uses, Deps, Dep
      <3>3. DependsOn(Top.fb, Dep)
        BY <1>1, <3>1, <3>2, Searching, DependsIsUses
      <3> QED
        BY <1>5, <1>7, <2>2, <3>3
    <2> QED
      BY <2>1, <2>2
  <1>12. CallsChain'
    <2> SUFFICES ASSUME NEW m \in 1 .. n + 1, NEW e \in Nat, NEW o \in FBs,
                        Uses(stack'[m].fb, e, o), e < stack'[m].d, reg[o].phase = phase
                 PROVE  colors'[o] = "BLACK" \/ (m < n + 1 /\ stack'[m + 1].fb = o)
      BY <1>1, <1>2, <1>6 DEF CallsChain
    <2>1. \A q \in FBs : colors[q] = "BLACK" => colors'[q] = "BLACK"
      BY <1>3, <1>8
    <2>2. CASE m < n
      <3>1. m \in 1 .. n /\ m + 1 \in 1 .. n
        BY <1>5, <2>2
      <3>2. colors[o] = "BLACK" \/ stack[m + 1].fb = o
        <4>1. Uses(stack[m].fb, e, o) /\ e < stack[m].d
          BY <1>7, <2>2, <3>1
        <4> QED
          BY <1>1, <3>1, <4>1, Searching DEF CallsChain
      <3> QED
        BY <1>7, <2>1, <2>2, <3>1, <3>2
    <2>3. CASE m = n
      <3>1. Top.d \in Nat /\ e <= Top.d /\ Uses(Top.fb, e, o)
        BY <1>5, <1>7, <2>3 DEF Frame
      <3>2. CASE e < Top.d
        BY <1>1, <2>1, <3>1, <3>2, TopChain
      <3>3. CASE e = Top.d
        <4>1. Dep = o
          BY <1>1, <3>1, <3>3, DepIsUsed
        <4> QED
          BY <1>5, <1>7, <2>3, <4>1
      <3> QED
        BY <3>1, <3>2, <3>3
    <2>4. CASE m = n + 1
      BY <1>7, <2>4 DEF Uses
    <2> QED
      BY <1>5, <2>2, <2>3, <2>4
  <1>13. SortedIsOrder'
    BY <1>1, Searching, SameSorted
  <1>14. stack' \in Seq(Frame')
    BY <1>2, <1>6 DEF Frame
  <1>15. SearchInv' /\ PhaseInv' /\ InitInv' /\ RegInv'
    BY <1>1, <1>2, <1>8, <1>10, <1>11, <1>12, <1>13, <1>14, Searching
       DEF SearchInv, PhaseInv, InitInv, RegInv
  <1> QED
    BY <1>1, <1>15, SearchLeavesOrder DEF BootInv

(* An FB is appended when everything it depends on has been.               *)
LEMMA ReturnKeeps ==
  ASSUME BootInv, Return
  PROVE  BootInv'
  <1> DEFINE n == Len(stack)
             t == Top.fb
             k == Len(sorted)
  <1>1. /\ pc = "sort" /\ stack # <<>> /\ pc' = "sort" /\ stack' = Front(stack)
        /\ colors' = [colors EXCEPT ![t] = "BLACK"] /\ sorted' = Append(sorted, t)
        /\ Top.d > Len(Deps)
        /\ UNCHANGED <<reg, order, phase, outcome>>
    BY DEF Return, regVars, Leave
  <1>2. /\ FBs' = FBs /\ (MissingDep' <=> MissingDep)
        /\ \A i, o : DependsOn(i, o)' <=> DependsOn(i, o)
        /\ \A i, e, o : Uses(i, e, o)' <=> Uses(i, e, o)
    BY <1>1, Frozen
  <1>3. n \in Nat \ {0} /\ Top = stack[n] /\ Top \in Frame /\ t \in FBs
    BY <1>1, OnTop DEF Frame
  <1>4. /\ stack' \in Seq(Frame) /\ Len(stack') = n - 1
        /\ \A m \in 1 .. n - 1 : stack'[m] = stack[m]
    <2> DEFINE u == SubSeq(stack, 1, n - 1)
    <2>1. stack' = u
      BY <1>1 DEF Front
    <2>2. n - 1 \in Int /\ \A m \in 1 .. n - 1 : stack[m] \in Frame
      BY <1>1, <1>3, Searching
    <2>3. u \in Seq(Frame) /\ \A m \in 1 .. (n - 1) - 1 + 1 : u[m] = stack[1 + m - 1]
      BY <2>2, SubSeqProperties
    <2>4. Len(u) = IF 1 <= n - 1 THEN (n - 1) - 1 + 1 ELSE 0
      BY <2>2, SubSeqProperties
    <2>5. n \in Nat \ {0}
      BY <1>3
    <2> HIDE DEF u
    <2>6. \A m \in 1 .. n - 1 : m \in 1 .. (n - 1) - 1 + 1 /\ 1 + m - 1 = m
      BY <1>3
    <2>7. \A m \in 1 .. n - 1 : u[m] = stack[m]
      BY <2>3, <2>6
    <2>8. Len(u) = n - 1
      BY <2>4, <2>5
    <2> QED
      BY <2>1, <2>3, <2>7, <2>8
  <1>5. /\ k \in Nat /\ sorted' \in Seq(FBs) /\ Len(sorted') = k + 1 /\ sorted'[k + 1] = t
        /\ \A b \in 1 .. k : sorted'[b] = sorted[b]
    BY <1>1, <1>3, Searching, AppendProperties
  <1>6. colors[t] = "GRAY" /\ reg[t].phase = phase
    <2>1. colors[t] = "GRAY"
      BY <1>1, <1>3, Searching DEF ColorsMean
    <2> QED
      BY <1>1, <1>3, <2>1, Searching DEF ColorsMean
  <1>7. /\ colors' \in [FBs -> Colors]
        /\ \A o \in FBs : colors'[o] = IF o = t THEN "BLACK" ELSE colors[o]
    BY <1>1, <1>3, Searching DEF Colors
  <1>8. \A m \in 1 .. n - 1 : stack[m].fb # t
    BY <1>1, <1>3, Searching DEF ColorsMean
  <1>9. \A b \in 1 .. k : sorted[b] # t
    BY <1>1, <1>3, <1>6, Searching DEF ColorsMean
  <1>10. ColorsMean'
    <2>1. \A o \in FBs : colors'[o] = "GRAY" <=> \E m \in 1 .. n - 1 : stack'[m].fb = o
      <3> SUFFICES ASSUME NEW o \in FBs
                   PROVE  colors'[o] = "GRAY" <=> \E m \in 1 .. n - 1 : stack'[m].fb = o
        OBVIOUS
      <3>1. CASE o = t
        BY <1>4, <1>7, <1>8, <3>1
      <3>2. CASE o # t
        <4>1. colors'[o] = "GRAY" <=> \E m \in 1 .. n : stack[m].fb = o
          BY <1>1, <1>7, <3>2, Searching DEF ColorsMean
        <4>2. (\E m \in 1 .. n : stack[m].fb = o) <=> \E m \in 1 .. n - 1 : stack'[m].fb = o
          BY <1>3, <1>4, <3>2
        <4> QED
          BY <4>1, <4>2
      <3> QED
        BY <3>1, <3>2
    <2>2. \A m, l \in 1 .. n - 1 : stack'[m].fb = stack'[l].fb => m = l
      <3>1. \A m, l \in 1 .. n : stack[m].fb = stack[l].fb => m = l
        BY <1>1, Searching DEF ColorsMean
      <3> QED
        BY <1>3, <1>4, <3>1
    <2>3. \A o \in FBs : colors'[o] = "BLACK" <=> \E b \in 1 .. k + 1 : sorted'[b] = o
      <3> SUFFICES ASSUME NEW o \in FBs
                   PROVE  colors'[o] = "BLACK" <=> \E b \in 1 .. k + 1 : sorted'[b] = o
        OBVIOUS
      <3>1. colors[o] = "BLACK" <=> \E b \in 1 .. k : sorted[b] = o
        BY <1>1, Searching DEF ColorsMean
      <3> QED
        BY <1>5, <1>7, <3>1
    <2>4. \A o \in FBs : colors'[o] # "WHITE" => reg[o].phase = phase
      BY <1>1, <1>6, <1>7, Searching DEF ColorsMean
    <2> QED
      BY <1>1, <1>2, <1>4, <1>5, <2>1, <2>2, <2>3, <2>4 DEF ColorsMean
  <1>11. CallsDepend'
    <2> SUFFICES ASSUME NEW m \in 1 .. n - 1 - 1
                 PROVE  DependsOn(stack'[m].fb, stack'[m + 1].fb)
      BY <1>2, <1>4 DEF CallsDepend
    <2>1. m \in 1 .. n - 1 /\ m + 1 \in 1 .. n - 1
      BY <1>3
    <2>2. DependsOn(stack[m].fb, stack[m + 1].fb)
      BY <1>1, <2>1, Searching DEF CallsDepend
    <2> QED
      BY <1>4, <2>1, <2>2
  <1>12. CallsChain'
    <2> SUFFICES ASSUME NEW m \in 1 .. n - 1, NEW e \in Nat, NEW o \in FBs,
                        Uses(stack[m].fb, e, o), e < stack[m].d, reg[o].phase = phase
                 PROVE  colors'[o] = "BLACK" \/ (m < n - 1 /\ stack'[m + 1].fb = o)
      BY <1>1, <1>2, <1>4 DEF CallsChain
    <2>1. m \in 1 .. n /\ m < n
      BY <1>3
    <2>2. colors[o] = "BLACK" \/ stack[m + 1].fb = o
      BY <1>1, <2>1, Searching DEF CallsChain
    <2>3. colors[o] = "BLACK" => colors'[o] = "BLACK"
      BY <1>7
    <2>4. CASE m + 1 = n
      BY <1>3, <1>7, <2>2, <2>3, <2>4
    <2>5. CASE m + 1 # n
      <3>1. m + 1 \in 1 .. n - 1 /\ m < n - 1
        BY <1>3, <2>5
      <3> QED
        BY <1>4, <2>2, <2>3, <3>1
    <2> QED
      BY <2>4, <2>5
  <1>13. SortedIsOrder'
    <2>1. \A a, b \in 1 .. k + 1 : sorted'[a] = sorted'[b] => a = b
      <3>1. \A a, b \in 1 .. k : sorted[a] = sorted[b] => a = b
        BY <1>1, Searching DEF SortedIsOrder
      <3> QED
        BY <1>5, <1>9, <3>1
    <2>2. ASSUME NEW i \in FBs, NEW o \in FBs, NEW b \in 1 .. k + 1,
                 sorted'[b] = i, DependsOn(i, o), reg[o].phase = phase
          PROVE  \E a \in 1 .. b - 1 : sorted'[a] = o
      <3>1. CASE b \in 1 .. k
        <4>1. \E a \in 1 .. b - 1 : sorted[a] = o
          BY <1>1, <1>5, <2>2, <3>1, Searching DEF SortedIsOrder
        <4> QED
          BY <1>5, <3>1, <4>1
      <3>2. CASE b = k + 1
        <4>1. i = t
          BY <1>5, <2>2, <3>2
        <4>2. PICK e \in Nat : Uses(t, e, o)
          BY <1>1, <1>3, <2>2, <4>1, Searching, DependsIsUses
        <4>3. e <= Len(Deps) /\ Len(Deps) \in Nat /\ Top.d \in Nat
          <5>1. e \in 1 .. Len(Deps)
            BY <4>2 DEF Uses, Deps
          <5>2. reg[t] \in Config
            BY <1>1, <1>3, Searching, Registered
          <5>3. Deps \in Seq(Name)
            BY <5>2 DEF Deps, Config
          <5> QED
            BY <1>3, <5>1, <5>3, LenProperties DEF Frame
        <4>4. e < Top.d
          BY <1>1, <4>3
        <4>5. colors[o] = "BLACK"
          BY <1>1, <2>2, <4>2, <4>4, TopChain
        <4>6. \E a \in 1 .. k : sorted[a] = o
          BY <1>1, <4>5, Searching DEF ColorsMean
        <4> QED
          BY <1>5, <3>2, <4>6
      <3> QED
        BY <1>5, <3>1, <3>2
    <2> QED
      BY <1>1, <1>2, <1>5, <2>1, <2>2 DEF SortedIsOrder
  <1>14. stack' \in Seq(Frame')
    BY <1>2, <1>4 DEF Frame
  <1>15. SearchInv' /\ PhaseInv' /\ InitInv' /\ RegInv'
    BY <1>1, <1>2, <1>5, <1>7, <1>10, <1>11, <1>12, <1>13, <1>14, Searching
       DEF SearchInv, PhaseInv, InitInv, RegInv
  <1> QED
    BY <1>1, <1>15, SearchLeavesOrder DEF BootInv

(* What holds while a phase is initialised.                                *)
LEMMA Initialising ==
  ASSUME BootInv, pc \in {"init", "body"}
  PROVE  /\ RegInv /\ phase \in 1 .. 4 /\ outcome = "none" /\ ~MissingDep
         /\ sorted \in Seq(FBs) /\ SortedIsOrder /\ Len(sorted) \in Nat
         /\ \A b \in 1 .. Len(sorted) : sorted[b] \in FBs
         /\ \A i \in FBs : reg[i].phase = phase <=> \E b \in 1 .. Len(sorted) : sorted[b] = i
         /\ next \in 1 .. Len(sorted) + 1
         /\ pc = "body" => next <= Len(sorted)
         /\ pc = "body" => Current \in FBs /\ reg[Current].phase = phase
  <1>1. /\ RegInv /\ phase \in 1 .. 4 /\ outcome = "none" /\ ~MissingDep
        /\ sorted \in Seq(FBs) /\ SortedIsOrder
        /\ \A i \in FBs : reg[i].phase = phase <=> \E b \in 1 .. Len(sorted) : sorted[b] = i
        /\ next \in 1 .. Len(sorted) + 1
        /\ pc = "body" => next <= Len(sorted)
    BY DEF BootInv, PhaseInv, InitInv
  <1>2. Len(sorted) \in Nat /\ \A b \in 1 .. Len(sorted) : sorted[b] \in FBs
    BY <1>1, LenProperties, ElementOfSeq
  <1> QED
    BY <1>1, <1>2 DEF Current

(* The next init function is called, or the phase is over.                 *)
LEMMA BeginInitKeeps ==
  ASSUME BootInv, BeginInit
  PROVE  BootInv'
  <1>1. pc = "init" /\ UNCHANGED <<reg, order, outcome, sorted, next>>
    BY DEF BeginInit, regVars, sortVars
  <1>2. /\ FBs' = FBs /\ (MissingDep' <=> MissingDep)
        /\ \A i, o : DependsOn(i, o)' <=> DependsOn(i, o)
    BY <1>1, Frozen
  <1>3. CASE next <= Len(sorted)
    <2>1. pc' = "body" /\ phase' = phase
      BY <1>3 DEF BeginInit
    <2>2. SortedIsOrder'
      BY <1>1, <2>1, Initialising, SameSorted
    <2>3. \A i : Past(i)' <=> Past(i)
      BY <1>1, <2>1 DEF Past
    <2>4. OrderInv'
      BY <1>1, <1>2, <2>1, <2>3 DEF BootInv, OrderInv
    <2> QED
      BY <1>1, <1>2, <1>3, <2>1, <2>2, <2>4, Initialising
         DEF BootInv, RegInv, PhaseInv, SearchInv, InitInv
  <1>4. CASE ~(next <= Len(sorted))
    <2>1. pc' = "phase" /\ phase' = phase + 1
      BY <1>4 DEF BeginInit
    <2>2. next = Len(sorted) + 1
      BY <1>1, <1>4, Initialising
    <2>3. ASSUME NEW i \in FBs PROVE Past(i)' <=> Past(i)
      <3>1. reg[i].phase = phase <=> \E b \in 1 .. next - 1 : sorted[b] = i
        BY <1>1, <2>2, Initialising
      <3>2. reg[i].phase \in 0 .. 4 /\ phase \in 1 .. 4
        BY <1>1, Initialising, Registered
      <3> QED
        BY <1>1, <2>1, <3>1, <3>2 DEF Past
    <2>4. OrderInv'
      BY <1>1, <1>2, <2>1, <2>3 DEF BootInv, OrderInv
    <2> QED
      BY <1>1, <1>2, <2>1, <2>4, Initialising
         DEF BootInv, RegInv, PhaseInv, SearchInv, InitInv
  <1> QED
    BY <1>3, <1>4

(* The FB whose init function runs has not been initialised before, and    *)
(* what it depends on has.                                                 *)
LEMMA CurrentIsNew ==
  ASSUME BootInv, pc = "body"
  PROVE  /\ \A b \in 1 .. Len(order) : order[b] # Current
         /\ \A o \in FBs : DependsOn(Current, o) /\ reg[o].phase = phase =>
              \E b \in 1 .. Len(order) : order[b] = o
         /\ \A o \in FBs : reg[o].phase \in 1 .. phase - 1 =>
              \E b \in 1 .. Len(order) : order[b] = o
  <1>1. /\ next \in 1 .. Len(sorted) /\ Len(sorted) \in Nat
        /\ Current \in FBs /\ reg[Current].phase = phase /\ phase \in 1 .. 4 /\ SortedIsOrder
    BY Initialising
  <1>2. \A i \in FBs : Past(i) <=> \E b \in 1 .. Len(order) : order[b] = i
    BY DEF BootInv, OrderInv
  <1>3. ~Past(Current)
    BY <1>1 DEF Past, Current, SortedIsOrder
  <1>4. ASSUME NEW o \in FBs, DependsOn(Current, o), reg[o].phase = phase
        PROVE  Past(o)
    <2>1. \E a \in 1 .. next - 1 : sorted[a] = o
      BY <1>1, <1>4 DEF SortedIsOrder, Current
    <2> QED
      BY <2>1 DEF Past
  <1>5. \A o \in FBs : reg[o].phase \in 1 .. phase - 1 => Past(o)
    BY DEF Past
  <1> QED
    BY <1>1, <1>2, <1>3, <1>4, <1>5

(* An init function returns.                                               *)
LEMMA EndInitKeeps ==
  ASSUME BootInv, EndInit
  PROVE  BootInv'
  <1> DEFINE k == Len(order)
  <1>1. /\ pc = "body" /\ pc' = "init" /\ next' = next + 1 /\ order' = Append(order, Current)
        /\ UNCHANGED <<reg, phase, outcome, sorted>>
    BY DEF EndInit, regVars, sortVars
  <1>2. /\ FBs' = FBs /\ (MissingDep' <=> MissingDep)
        /\ \A i, o : DependsOn(i, o)' <=> DependsOn(i, o)
    BY <1>1, Frozen
  <1>3. next \in 1 .. Len(sorted) /\ Len(sorted) \in Nat /\ Current \in FBs
    BY <1>1, Initialising
  <1>4. /\ k \in Nat /\ order' \in Seq(FBs) /\ Len(order') = k + 1 /\ order'[k + 1] = Current
        /\ \A b \in 1 .. k : order'[b] = order[b]
    BY <1>1, <1>3, AppendProperties, LenProperties DEF BootInv, OrderInv
  <1>5. ASSUME NEW i \in FBs PROVE Past(i)' <=> Past(i) \/ i = Current
    <2>1. (\E b \in 1 .. next' - 1 : sorted[b] = i) <=> (\E b \in 1 .. next - 1 : sorted[b] = i) \/ i = Current
      BY <1>1, <1>3 DEF Current
    <2> QED
      BY <1>1, <2>1 DEF Past
  <1>6. OrderInv'
    <2>1. \A a, b \in 1 .. k + 1 : order'[a] = order'[b] => a = b
      <3>1. \A a, b \in 1 .. k : order[a] = order[b] => a = b
        BY DEF BootInv, OrderInv
      <3> QED
        BY <1>1, <1>4, <3>1, CurrentIsNew
    <2>2. \A i \in FBs : Past(i)' <=> \E b \in 1 .. k + 1 : order'[b] = i
      <3>1. \A i \in FBs : Past(i) <=> \E b \in 1 .. k : order[b] = i
        BY <1>1 DEF BootInv, OrderInv
      <3> QED
        BY <1>4, <1>5, <3>1
    <2>3. ASSUME NEW i \in FBs, NEW o \in FBs, NEW b \in 1 .. k + 1,
                 order'[b] = i, DependsOn(i, o), reg[o].phase = reg[i].phase
          PROVE  \E a \in 1 .. b - 1 : order'[a] = o
      <3>1. CASE b \in 1 .. k
        <4>1. \E a \in 1 .. b - 1 : order[a] = o
          BY <1>1, <1>4, <2>3, <3>1 DEF BootInv, OrderInv
        <4> QED
          BY <1>4, <3>1, <4>1
      <3>2. CASE b = k + 1
        <4>1. i = Current /\ reg[o].phase = phase
          BY <1>1, <1>4, <2>3, <3>2, Initialising
        <4>2. \E a \in 1 .. k : order[a] = o
          BY <1>1, <2>3, <4>1, CurrentIsNew
        <4> QED
          BY <1>4, <3>2, <4>2
      <3> QED
        BY <1>4, <3>1, <3>2
    <2> QED
      BY <1>1, <1>2, <1>4, <2>1, <2>2, <2>3 DEF OrderInv
  <1>7. SortedIsOrder'
    BY <1>1, Initialising, SameSorted
  <1> QED
    BY <1>1, <1>2, <1>3, <1>6, <1>7, Initialising
       DEF BootInv, RegInv, PhaseInv, SearchInv, InitInv

(* A step that is not the boot's leaves the boot alone.                    *)
LEMMA AsideKeeps ==
  ASSUME BootInv, UNCHANGED <<regVars, pc, outcome, phase, sortVars, next, order>>
  PROVE  BootInv'
  <1>1. UNCHANGED <<reg, pc, outcome, phase, colors, stack, sorted, next, order>>
    BY DEF regVars, sortVars
  <1>2. /\ FBs' = FBs /\ (MissingDep' <=> MissingDep)
        /\ \A i, o : DependsOn(i, o)' <=> DependsOn(i, o)
        /\ \A i, e, o : Uses(i, e, o)' <=> Uses(i, e, o)
        /\ \A p : Cyclic(p)' <=> Cyclic(p)
    BY <1>1, Frozen
  <1>3. \A i : Past(i)' <=> Past(i)
    BY <1>1 DEF Past
  <1>4. OrderInv'
    BY <1>1, <1>2, <1>3 DEF BootInv, OrderInv
  <1>5. Cyclic(phase)' <=> Cyclic(phase)
    <2>1. Cyclic(phase)' <=> Cyclic(phase')
      BY <1>1, Frozen
    <2> QED
      BY <1>1, <2>1, Zenon
  <1>6. PhaseInv'
    BY <1>1, <1>2, <1>5 DEF BootInv, PhaseInv
  <1>7. SortedIsOrder' <=> SortedIsOrder
    BY <1>1, <1>2 DEF SortedIsOrder
  <1>8. SearchInv'
    <2>1. (ColorsMean' <=> ColorsMean) /\ Frame' = Frame
      BY <1>1, <1>2 DEF ColorsMean, Frame
    <2>2. (CallsDepend' <=> CallsDepend) /\ (CallsChain' <=> CallsChain)
      BY <1>1, <1>2 DEF CallsDepend, CallsChain
    <2> QED
      BY <1>1, <1>2, <1>7, <2>1, <2>2 DEF BootInv, SearchInv
  <1>9. InitInv'
    BY <1>1, <1>2, <1>7 DEF BootInv, InitInv
  <1> QED
    BY <1>1, <1>4, <1>6, <1>8, <1>9 DEF BootInv, RegInv

-----------------------------------------------------------------------------
(* What holds in every reachable state of the boot.                        *)

(* The invariant of the boot holds initially and every step preserves it.  *)
THEOREM BootInvariant == Spec => []BootInv
  <1>1. Init => BootInv
    <2> SUFFICES ASSUME Init PROVE BootInv
      OBVIOUS
    <2>1. RegInv
      BY EmptySeq DEF Init, RegInv
    <2>2. PhaseInv /\ SearchInv /\ InitInv
      BY DEF Init, PhaseInv, SearchInv, InitInv
    <2>3. OrderInv
      BY EmptySeq DEF Init, OrderInv
    <2> QED
      BY <2>1, <2>2, <2>3 DEF BootInv
  <1>2. BootInv /\ [Next]_vars => BootInv'
    <2> SUFFICES ASSUME BootInv, [Next]_vars PROVE BootInv'
      OBVIOUS
    <2>1. CASE Register
      BY <2>1, RegisterKeeps
    <2>2. CASE Boot
      BY <2>2, BootKeeps
    <2>3. CASE EnterPhase
      BY <2>3, EnterPhaseKeeps
    <2>4. CASE Root
      BY <2>4, RootKeeps
    <2>5. CASE Visit
      <3>1. Verdict(Dep) \in {"cycle", "search", "skip"}
        BY DEF Verdict
      <3> QED
        BY <2>5, <3>1, CycleKeeps, SearchKeeps, SkipKeeps
    <2>6. CASE Return
      BY <2>6, ReturnKeeps
    <2>7. CASE BeginInit
      BY <2>7, BeginInitKeeps
    <2>8. CASE RegisterSubFn
      BY <2>8, AsideKeeps DEF RegisterSubFn
    <2>9. CASE ReportFault
      BY <2>9, AsideKeeps DEF ReportFault
    <2>10. CASE EndInit
      BY <2>10, EndInitKeeps
    <2>11. CASE UNCHANGED vars
      BY <2>11, AsideKeeps DEF vars
    <2> QED
      BY <2>1, <2>2, <2>3, <2>4, <2>5, <2>6, <2>7, <2>8, <2>9, <2>10, <2>11 DEF Next, Booting
  <1> QED
    BY <1>1, <1>2, PTL DEF Spec

(* An init_fn runs after everything its FB depends on: the sort of each    *)
(* phase of embediq_engine_boot() does what it is for.                     *)
THEOREM ReadyWhenInitialised == Spec => []DependenciesReady
  <1>1. BootInv => DependenciesReady
    <2> SUFFICES ASSUME BootInv, pc = "body", NEW o \in FBs
                 PROVE  /\ DependsOn(Current, o) /\ reg[o].phase \in 1 .. phase => Initialised(o)
                        /\ reg[o].phase \in 1 .. phase - 1 => Initialised(o)
      BY DEF DependenciesReady
    <2>1. (\E b \in 1 .. Len(order) : order[b] = o) => Initialised(o)
      BY LenProperties DEF BootInv, OrderInv, Initialised, Range
    <2>2. phase \in 1 .. 4 /\ reg[o].phase \in 0 .. 4
      BY Initialising, Registered
    <2> QED
      BY <2>1, <2>2, CurrentIsNew
  <1> QED
    BY <1>1, BootInvariant, PTL

(* A completed boot has run the init_fn of every FB of the four phases,    *)
(* and of no FB twice.                                                     *)
THEOREM InitialisedOnce == Spec => []BootComplete
  <1>1. BootInv => BootComplete
    <2> SUFFICES ASSUME BootInv PROVE BootComplete
      OBVIOUS
    <2>1. DOMAIN order = 1 .. Len(order) /\ \A b \in 1 .. Len(order) : order[b] \in FBs
      BY LenProperties, ElementOfSeq DEF BootInv, OrderInv
    <2>2. IsInjective(order)
      BY <2>1 DEF BootInv, OrderInv, IsInjective
    <2>3. \A i : Initialised(i) <=> \E b \in 1 .. Len(order) : order[b] = i
      BY <2>1 DEF Initialised, Range
    <2>4. pc = "body" => ~Initialised(Current)
      BY <2>3, CurrentIsNew
    <2>5. ASSUME pc = "booted"
          PROVE  Range(order) = {i \in FBs : reg[i].phase \in 1 .. 4}
      <3>1. phase = 5
        BY <2>5 DEF BootInv, PhaseInv
      <3>2. \A i \in FBs : reg[i].phase \in 1 .. 4 <=> \E b \in 1 .. Len(order) : order[b] = i
        BY <2>5, <3>1 DEF BootInv, OrderInv, Past
      <3>3. \A i : i \in Range(order) <=> \E b \in 1 .. Len(order) : order[b] = i
        BY <2>3 DEF Initialised
      <3> QED
        BY <2>1, <3>2, <3>3
    <2> QED
      BY <2>2, <2>4, <2>5 DEF BootComplete
  <1> QED
    BY <1>1, BootInvariant, PTL

(* A set of FBs that all depend on one another cannot have been ordered.   *)
LEMMA OrderedIsAcyclic ==
  ASSUME BootInv, pc = "booted", NEW p \in 1 .. 4
  PROVE  ~Cyclic(p)
  <1> SUFFICES ASSUME NEW S \in SUBSET PhaseSet(p), S # {},
                      \A i \in S : \E o \in S : DependsOn(i, o)
               PROVE  FALSE
    BY Zenon DEF Cyclic
  <1> DEFINE B == {b \in 1 .. Len(order) : order[b] \in S}
  <1>1. phase = 5 /\ Len(order) \in Nat
    BY LenProperties DEF BootInv, PhaseInv, OrderInv
  <1>2. \A i \in S : i \in FBs /\ reg[i].phase = p
    BY DEF PhaseSet
  <1>3. B \in SUBSET Nat /\ B # {}
    <2>1. PICK i \in S : TRUE
      OBVIOUS
    <2>2. Past(i)
      BY <1>1, <1>2 DEF Past
    <2>3. \E b \in 1 .. Len(order) : order[b] = i
      BY <1>2, <2>2 DEF BootInv, OrderInv
    <2> QED
      BY <1>1, <2>3
  <1>4. PICK b \in B : \A f \in B : b <= f
    BY <1>3, LeastNumber
  <1>5. PICK o \in S : DependsOn(order[b], o)
    BY <1>4
  <1>6. \E a \in 1 .. b - 1 : order[a] = o
    BY <1>2, <1>4, <1>5 DEF BootInv, OrderInv
  <1> QED
    BY <1>1, <1>4, <1>6

(* embediq_engine_boot() fails for a missing dependency or a cycle if and  *)
(* only if there is one, whatever the order of registration.               *)
THEOREM FailsForAReason == Spec => []FailsExactly
  <1>1. BootInv => FailsExactly
    <2> SUFFICES ASSUME BootInv PROVE FailsExactly
      OBVIOUS
    <2>1. DOMAIN order = 1 .. Len(order)
      BY LenProperties DEF BootInv, OrderInv
    <2>2. CycleExact
      <3>1. outcome = "cycle" => Cyclic(phase) /\ \A i \in Range(order) : reg[i].phase < phase
        BY <2>1 DEF BootInv, PhaseInv, Range
      <3> QED
        BY <3>1, OrderedIsAcyclic DEF CycleExact
    <2>3. MissingFirst
      <3>1. ASSUME pc = "booted", NEW i \in FBs, NEW n \in Range(reg[i].deps)
            PROVE  \E o \in FBs : reg[o].name = n
        <4>1. n \in Name
          <5>1. reg[i].deps \in Seq(Name)
            BY Registered DEF BootInv, Config
          <5> QED
            BY <3>1, <5>1, LenProperties, ElementOfSeq DEF Range
        <4>2. ~MissingDep
          BY <3>1 DEF BootInv, PhaseInv
        <4>3. Find(n) # 0
          BY <3>1, <4>1, <4>2, Zenon DEF MissingDep
        <4> QED
          BY <4>3, FoundIsFB DEF BootInv
      <3>2. outcome = "missing" => order = <<>>
        BY DEF BootInv, PhaseInv
      <3> QED
        BY <3>1, <3>2 DEF MissingFirst
    <2> QED
      BY <2>2, <2>3 DEF FailsExactly
  <1> QED
    BY <1>1, BootInvariant, PTL

-----------------------------------------------------------------------------
(* Sub-functions.                                                          *)

(* What insertion into a sequence gives.                                   *)
LEMMA Inserting ==
  ASSUME NEW S, NEW s \in Seq(S), NEW p \in 1 .. Len(s) + 1, NEW e \in S
  PROVE  /\ InsertAt(s, p, e) \in Seq(S)
         /\ Len(InsertAt(s, p, e)) = Len(s) + 1
         /\ \A i \in 1 .. Len(s) + 1 :
              InsertAt(s, p, e)[i] = IF i < p THEN s[i] ELSE IF i = p THEN e ELSE s[i - 1]
  <1> DEFINE u == SubSeq(s, 1, p - 1)
             v == SubSeq(s, p, Len(s))
             w == u \o <<e>>
  <1>1. Len(s) \in Nat /\ \A i \in 1 .. Len(s) : s[i] \in S
    BY LenProperties, ElementOfSeq
  <1>2. /\ u \in Seq(S) /\ Len(u) = p - 1
        /\ \A i \in 1 .. p - 1 : u[i] = s[i]
    <2>1. p - 1 \in Int /\ \A i \in 1 .. p - 1 : s[i] \in S
      BY <1>1
    <2>2. u \in Seq(S) /\ \A i \in 1 .. (p - 1) - 1 + 1 : u[i] = s[1 + i - 1]
      BY <2>1, SubSeqProperties
    <2>3. Len(u) = IF 1 <= p - 1 THEN (p - 1) - 1 + 1 ELSE 0
      BY <2>1, SubSeqProperties
    <2> HIDE DEF u
    <2>4. p \in Nat \ {0}
      BY <1>1
    <2>5. Len(u) = p - 1
      BY <2>3, <2>4
    <2>6. \A i \in 1 .. p - 1 : i \in 1 .. (p - 1) - 1 + 1 /\ 1 + i - 1 = i
      BY <2>4
    <2> QED
      BY <2>2, <2>5, <2>6
  <1>3. /\ v \in Seq(S) /\ Len(v) = Len(s) - p + 1
        /\ \A i \in 1 .. Len(s) - p + 1 : v[i] = s[p + i - 1]
    <2>1. p \in Int /\ Len(s) \in Int /\ \A i \in p .. Len(s) : s[i] \in S
      BY <1>1
    <2>2. v \in Seq(S) /\ \A i \in 1 .. Len(s) - p + 1 : v[i] = s[p + i - 1]
      BY <2>1, SubSeqProperties
    <2>3. Len(v) = IF p <= Len(s) THEN Len(s) - p + 1 ELSE 0
      BY <2>1, SubSeqProperties
    <2> HIDE DEF v
    <2> QED
      BY <1>1, <2>2, <2>3
  <1> HIDE DEF u, v
  <1>4. <<e>> \in Seq(S) /\ Len(<<e>>) = 1 /\ <<e>>[1] = e
    OBVIOUS
  <1>5. /\ w \in Seq(S) /\ Len(w) = p
        /\ \A i \in 1 .. p - 1 : w[i] = s[i]
        /\ w[p] = e
    <2> DEFINE one == <<e>>
    <2> HIDE DEF one
    <2>1. one \in Seq(S) /\ Len(one) = 1 /\ one[1] = e
      BY <1>4 DEF one
    <2>2. /\ u \o one \in Seq(S) /\ Len(u \o one) = Len(u) + Len(one)
          /\ \A i \in 1 .. Len(u) + Len(one) :
               (u \o one)[i] = IF i <= Len(u) THEN u[i] ELSE one[i - Len(u)]
      BY <1>2, <2>1, ConcatProperties
    <2>3. w = u \o one
      BY DEF one
    <2> HIDE DEF w
    <2> QED
      BY <1>1, <1>2, <2>1, <2>2, <2>3
  <1>6. InsertAt(s, p, e) = w \o v
    BY DEF InsertAt, u, v
  <1> HIDE DEF w
  <1>7. /\ w \o v \in Seq(S) /\ Len(w \o v) = Len(w) + Len(v)
        /\ \A i \in 1 .. Len(w) + Len(v) :
             (w \o v)[i] = IF i <= Len(w) THEN w[i] ELSE v[i - Len(w)]
    BY <1>3, <1>5, ConcatProperties
  <1> DEFINE r == w \o v
  <1> HIDE DEF r
  <1>8. r \in Seq(S) /\ Len(r) = Len(s) + 1
    BY <1>1, <1>3, <1>5, <1>7 DEF r
  <1>9. \A i \in 1 .. Len(s) + 1 : r[i] = IF i <= p THEN w[i] ELSE v[i - p]
    BY <1>1, <1>3, <1>5, <1>7 DEF r
  <1>10. \A i \in 1 .. Len(s) + 1 : r[i] = IF i < p THEN s[i] ELSE IF i = p THEN e ELSE s[i - 1]
    <2> SUFFICES ASSUME NEW i \in 1 .. Len(s) + 1
                 PROVE  r[i] = IF i < p THEN s[i] ELSE IF i = p THEN e ELSE s[i - 1]
      OBVIOUS
    <2>1. CASE i <= p
      BY <1>1, <1>5, <1>9, <2>1
    <2>2. CASE i > p
      <3>1. i - p \in 1 .. Len(s) - p + 1 /\ p + (i - p) - 1 = i - 1
        BY <1>1, <2>2
      <3>2. r[i] = v[i - p]
        BY <1>1, <1>9, <2>2
      <3>3. v[i - p] = s[p + (i - p) - 1]
        BY <1>3, <3>1
      <3> QED
        BY <1>1, <2>2, <3>1, <3>2, <3>3
    <2> QED
      BY <1>1, <2>1, <2>2
  <1> QED
    BY <1>6, <1>8, <1>10 DEF r

(* embediq_subfn_register() finds the place behind every sub-function of   *)
(* the same or a smaller order.                                            *)
LEMMA PlaceOf ==
  ASSUME NEW s, Arranged(s), NEW c, c.order \in Nat
  PROVE  /\ Position(s, c) \in 0 .. Len(s)
         /\ \A q \in 1 .. Len(s) : s[q].order <= c.order <=> q <= Position(s, c)
  <1> DEFINE Q == {q \in 1 .. Len(s) : s[q].order <= c.order}
             U == (1 .. Len(s)) \ Q
  <1>1. Len(s) \in Nat /\ DOMAIN s = 1 .. Len(s) /\ \A q \in 1 .. Len(s) : s[q].order \in Nat
    <2>1. s \in Seq(SubFn)
      BY DEF Arranged
    <2>2. \A q \in 1 .. Len(s) : s[q] \in SubFn
      BY <2>1, ElementOfSeq
    <2> QED
      BY <2>1, <2>2, LenProperties DEF SubFn
  <1>2. Position(s, c) = Cardinality(Q)
    BY <1>1 DEF Position
  <1>3. \A a, b \in 1 .. Len(s) : a <= b => s[a].order <= s[b].order
    <2> SUFFICES ASSUME NEW a \in 1 .. Len(s), NEW b \in 1 .. Len(s), a <= b
                 PROVE  s[a].order <= s[b].order
      OBVIOUS
    <2>1. s[a].order \in Nat /\ s[b].order \in Nat
      BY <1>1
    <2>2. a < b => s[a].order < s[b].order \/ s[a].order = s[b].order
      BY DEF Arranged
    <2> QED
      BY <1>1, <2>1, <2>2
  <1>4. PICK k \in 0 .. Len(s) : Q = 1 .. k
    <2>1. CASE U = {}
      BY <1>1, <2>1
    <2>2. CASE U # {}
      <3>1. U \in SUBSET Nat
        BY <1>1
      <3>2. PICK j \in U : \A f \in U : j <= f
        BY <2>2, <3>1, LeastNumber
      <3>3. \A q \in 1 .. Len(s) : q \in Q <=> q < j
        BY <1>1, <1>3, <3>2
      <3>4. Q = 1 .. j - 1
        BY <1>1, <3>2, <3>3
      <3>5. j - 1 \in 0 .. Len(s)
        BY <1>1, <3>2
      <3> QED
        BY <3>4, <3>5
    <2> QED
      BY <2>1, <2>2
  <1>5. Cardinality(1 .. k) = k
    <2>1. k \in Int /\ 1 \in Int /\ k \in Nat
      BY <1>1
    <2>2. Cardinality(1 .. k) = IF 1 > k THEN 0 ELSE k - 1 + 1
      BY <2>1, FS_Interval
    <2> QED
      BY <2>1, <2>2
  <1>6. \A q \in 1 .. Len(s) : q \in Q <=> q <= k
    BY <1>1, <1>4
  <1> QED
    BY <1>2, <1>4, <1>5, <1>6

(* Insertion keeps the array of an FB arranged.                            *)
LEMMA InsertArranged ==
  ASSUME NEW s, Arranged(s), NEW c \in SubFnConfig
  PROVE  Arranged(InsertAt(s, Position(s, c) + 1,
                           [order |-> c.order, subs |-> c.subs, serial |-> Len(s) + 1]))
  <1> DEFINE n == Len(s)
             p == Position(s, c) + 1
             e == [order |-> c.order, subs |-> c.subs, serial |-> Len(s) + 1]
             r == InsertAt(s, p, e)
  <1>1. /\ s \in Seq(SubFn) /\ n \in Nat
        /\ \A q \in 1 .. n : s[q].order \in Nat /\ s[q].serial \in 1 .. n
    <2>1. s \in Seq(SubFn)
      BY DEF Arranged
    <2>2. \A q \in 1 .. Len(s) : s[q] \in SubFn
      BY <2>1, ElementOfSeq
    <2> QED
      BY <2>1, <2>2, LenProperties DEF SubFn, Arranged
  <1>2. c.order \in Nat /\ e \in SubFn /\ e.order = c.order /\ e.serial = n + 1
    BY <1>1 DEF SubFnConfig, SubFn
  <1>3. p \in 1 .. n + 1 /\ \A q \in 1 .. n : s[q].order <= e.order <=> q < p
    <2>1. Position(s, c) \in 0 .. n /\ \A q \in 1 .. n : s[q].order <= c.order <=> q <= Position(s, c)
      BY <1>2, PlaceOf
    <2> HIDE DEF e
    <2> QED
      BY <1>1, <1>2, <2>1
  <1> HIDE DEF p, e
  <1>4. /\ r \in Seq(SubFn) /\ Len(r) = n + 1
        /\ \A i \in 1 .. n + 1 : r[i] = IF i < p THEN s[i] ELSE IF i = p THEN e ELSE s[i - 1]
    BY <1>1, <1>2, <1>3, Inserting
  <1> HIDE DEF r
  <1> DEFINE L(x, y) == x.order < y.order \/ (x.order = y.order /\ x.serial < y.serial)
  <1>5. \A a, b \in 1 .. n : a < b => L(s[a], s[b])
    BY DEF Arranged
  <1>6. ASSUME NEW a \in 1 .. n + 1, NEW b \in 1 .. n + 1, a < b
        PROVE  L(r[a], r[b])
    <2>1. CASE b < p
      <3>1. a \in 1 .. n /\ b \in 1 .. n /\ r[a] = s[a] /\ r[b] = s[b]
        BY <1>1, <1>3, <1>4, <1>6, <2>1
      <3> QED
        BY <1>5, <1>6, <3>1
    <2>2. CASE b = p
      <3>1. a \in 1 .. n /\ r[a] = s[a] /\ r[b] = e /\ a < p
        BY <1>1, <1>3, <1>4, <1>6, <2>2
      <3>2. s[a].order <= e.order /\ s[a].serial < e.serial
        BY <1>1, <1>2, <1>3, <3>1
      <3> QED
        BY <1>1, <1>2, <3>1, <3>2
    <2>3. CASE a = p
      <3>1. b - 1 \in 1 .. n /\ r[b] = s[b - 1] /\ r[a] = e /\ ~(b - 1 < p)
        BY <1>1, <1>3, <1>4, <1>6, <2>3
      <3>2. ~(s[b - 1].order <= e.order)
        BY <1>3, <3>1
      <3> QED
        BY <1>1, <1>2, <3>1, <3>2
    <2>4. CASE a < p /\ p < b
      <3>1. a \in 1 .. n /\ b - 1 \in 1 .. n /\ a < b - 1 /\ r[a] = s[a] /\ r[b] = s[b - 1]
        BY <1>1, <1>3, <1>4, <2>4
      <3> QED
        BY <1>5, <3>1
    <2>5. CASE p < a
      <3>1. a - 1 \in 1 .. n /\ b - 1 \in 1 .. n /\ a - 1 < b - 1 /\ r[a] = s[a - 1] /\ r[b] = s[b - 1]
        BY <1>1, <1>3, <1>4, <1>6, <2>5
      <3> QED
        BY <1>5, <3>1
    <2> QED
      BY <1>3, <1>6, <2>1, <2>2, <2>3, <2>4, <2>5
  <1>7. ASSUME NEW a \in 1 .. n + 1 PROVE r[a].serial \in 1 .. n + 1
    <2>1. CASE a < p
      <3>1. a \in 1 .. n /\ r[a] = s[a]
        BY <1>1, <1>3, <1>4, <2>1
      <3> QED
        BY <1>1, <3>1
    <2>2. CASE a = p
      BY <1>1, <1>2, <1>4, <2>2
    <2>3. CASE a > p
      <3>1. a - 1 \in 1 .. n /\ r[a] = s[a - 1]
        BY <1>1, <1>3, <1>4, <2>3
      <3> QED
        BY <1>1, <3>1
    <2> QED
      BY <1>3, <2>1, <2>2, <2>3
  <1>8. ASSUME NEW m \in 1 .. n + 1 PROVE \E a \in 1 .. n + 1 : r[a].serial = m
    <2>1. CASE m = n + 1
      BY <1>1, <1>2, <1>3, <1>4, <2>1
    <2>2. CASE m # n + 1
      <3>1. PICK a \in 1 .. n : s[a].serial = m
        BY <1>1, <2>2 DEF Arranged
      <3>2. CASE a < p
        <4>1. r[a] = s[a] /\ a \in 1 .. n + 1
          BY <1>1, <1>4, <3>2
        <4> QED
          BY <3>1, <4>1
      <3>3. CASE ~(a < p)
        <4>1. r[a + 1] = s[a] /\ a + 1 \in 1 .. n + 1
          BY <1>1, <1>3, <1>4, <3>3
        <4> QED
          BY <3>1, <4>1
      <3> QED
        BY <3>2, <3>3
    <2> QED
      BY <2>1, <2>2
  <1>9. Arranged(r)
    BY <1>4, <1>6, <1>7, <1>8 DEF Arranged
  <1> QED
    BY <1>9 DEF r, p, e

(* The arrays stay arranged.                                               *)
THEOREM SubFnInvariant == Spec => []SubFnInv
  <1>1. Init => SubFnInv
    BY DEF Init, SubFnInv, FBs
  <1>2. BootInv /\ SubFnInv /\ [Next]_vars => SubFnInv'
    <2> SUFFICES ASSUME BootInv, SubFnInv, [Next]_vars PROVE SubFnInv'
      OBVIOUS
    <2>1. CASE UNCHANGED <<reg, subfns>>
      BY <2>1 DEF SubFnInv, FBs
    <2>2. CASE Register
      <3>1. PICK c \in Configs : reg' = Append(reg, c) /\ subfns' = Append(subfns, <<>>)
        BY <2>2 DEF Register
      <3>2. Len(reg') = Len(reg) + 1 /\ Len(reg) \in Nat
        BY <3>1, LenProperties, AppendProperties, EngineBootAssumption
           DEF EngineBootAssumption, BootInv, RegInv
      <3>3. Len(subfns) = Len(reg)
        BY <3>2 DEF SubFnInv, FBs
      <3>4. /\ DOMAIN subfns' = 1 .. Len(reg) + 1
            /\ \A i \in 1 .. Len(reg) + 1 : subfns'[i] = IF i = Len(reg) + 1 THEN <<>> ELSE subfns[i]
        BY <3>1, <3>2, <3>3
      <3>5. Arranged(<<>>)
        BY EmptySeq DEF Arranged
      <3> QED
        BY <3>2, <3>4, <3>5 DEF SubFnInv, FBs
    <2>3. CASE RegisterSubFn
      <3>1. Current \in FBs /\ reg[Current] \in Config
        BY <2>3, Initialising, Registered DEF RegisterSubFn
      <3> DEFINE s == subfns[Current]
                 e(c) == [order |-> c.order, subs |-> c.subs, serial |-> Len(s) + 1]
      <3>2. PICK c \in SubFns[reg[Current].name] :
              subfns' = [subfns EXCEPT ![Current] = InsertAt(s, Position(s, c) + 1, e(c))]
        BY <2>3 DEF RegisterSubFn
      <3>3. c \in SubFnConfig
        BY <3>1, EngineBootAssumption DEF EngineBootAssumption, Config
      <3>4. Arranged(InsertAt(s, Position(s, c) + 1, e(c)))
        BY <3>1, <3>3, InsertArranged DEF SubFnInv
      <3>5. UNCHANGED reg
        BY <2>3 DEF RegisterSubFn, regVars
      <3> HIDE DEF s, e
      <3> DEFINE r == InsertAt(s, Position(s, c) + 1, e(c))
      <3> HIDE DEF r
      <3>6. subfns' = [subfns EXCEPT ![Current] = r] /\ Arranged(r)
        BY <3>2, <3>4 DEF r, s, e
      <3> QED
        BY <3>1, <3>5, <3>6 DEF SubFnInv, FBs
    <2> QED
      BY <2>1, <2>2, <2>3
         DEF Next, Booting, Boot, EnterPhase, Root, Visit, Return, BeginInit, EndInit, ReportFault,
             regVars, fbVars, vars
  <1> QED
    BY <1>1, <1>2, BootInvariant, PTL DEF Spec

(* Sub-functions run in ascending init_order, those of one order as they   *)
(* were registered, and none is lost or runs twice (R-sub-ORDER).          *)
THEOREM RunInOrder == Spec => []RunOrder
  <1>1. SubFnInv => RunOrder
    <2> SUFFICES ASSUME SubFnInv, NEW i \in FBs, NEW id \in MsgId
                 PROVE  LET s == subfns[i] IN
                        /\ \A a, b \in Runs(i, id) :
                             a < b => s[a].order < s[b].order \/ (s[a].order = s[b].order /\ s[a].serial < s[b].serial)
                        /\ {r.serial : r \in Range(s)} = 1 .. Len(s)
      BY DEF RunOrder
    <2> DEFINE s == subfns[i]
    <2>1. Arranged(s)
      BY DEF SubFnInv
    <2>2. DOMAIN s = 1 .. Len(s)
      BY <2>1, LenProperties DEF Arranged
    <2>3. Runs(i, id) \subseteq 1 .. Len(s)
      BY <2>2 DEF Runs
    <2> HIDE DEF s
    <2>4. {r.serial : r \in Range(s)} = {s[a].serial : a \in 1 .. Len(s)}
      BY <2>2 DEF Range
    <2>5. {s[a].serial : a \in 1 .. Len(s)} = 1 .. Len(s)
      BY <2>1 DEF Arranged
    <2>6. \A a, b \in Runs(i, id) :
            a < b => s[a].order < s[b].order \/ (s[a].order = s[b].order /\ s[a].serial < s[b].serial)
      BY <2>1, <2>3 DEF Arranged
    <2> QED
      BY <2>4, <2>5, <2>6 DEF s
  <1> QED
    BY <1>1, SubFnInvariant, PTL
=============================================================================
