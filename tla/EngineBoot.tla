---------------------------- MODULE EngineBoot ----------------------------
(***************************************************************************)
(* The FB engine up to the end of boot (core/src/registry/fb_engine.c):    *)
(* embediq_fb_register(), embediq_engine_boot() with its dependency check, *)
(* its four phases and the depth-first sort of each, the init_fn calls,    *)
(* and what an init_fn may do meanwhile: register sub-functions            *)
(* (embediq_subfn_register()) and report a fault                           *)
(* (embediq_fb_report_fault()).                                            *)
(*                                                                         *)
(* The C recursion of topo_dfs() is a stack here, one frame per call, and  *)
(* one action is one iteration of its loop. FBs are numbered from 1 where  *)
(* the registry counts from 0, and 0 stands for "not found". A dependency  *)
(* is a name, looked up in the registry whenever the code does.            *)
(***************************************************************************)
EXTENDS Integers, Sequences, FiniteSets, SequencesExt

CONSTANTS
    Name,           \* FB names
    Configs,        \* the configurations an application may register
    MaxEndpoints,   \* EMBEDIQ_MAX_ENDPOINTS
    MaxSubFns,      \* EMBEDIQ_MAX_SUBFNS_PER_FB
    SubFns,         \* the sub-functions the init_fn of an FB of each name may register
    MsgId,          \* the message ids they subscribe to
    MaxBoots        \* bound: calls of embediq_engine_boot()

(* boot_phase is an enum of 1..4 in a zero-initialised struct, so an FB    *)
(* that declares none has 0.                                               *)
Config == [name : Name, phase : 0 .. 4, deps : Seq(Name)]
SubFnConfig == [order : Nat, subs : SUBSET MsgId]

ASSUME EngineBootAssumption ==
    /\ Configs \subseteq Config
    /\ MaxEndpoints \in Nat
    /\ MaxSubFns \in Nat
    /\ SubFns \in [Name -> SUBSET SubFnConfig]
    /\ MaxBoots \in Nat

VARIABLES
    reg,        \* g_registry[..].config
    state,      \* g_registry[..].state
    subfns,     \* g_registry[..].subfns, each with a serial number only properties read
    pc,         \* where embediq_engine_boot() is; "open": not called or returned -1
    outcome,    \* what the last call returned -1 for
    boots,      \* calls so far (bounds the model)
    phase,      \* k_phases[p]
    colors,     \* colors[]
    stack,      \* the calls of topo_dfs() under way: FB and loop index d
    sorted,     \* sorted[0 .. sorted_count-1]
    next,       \* loop index of the init_fn loop
    order       \* g_boot_order[0 .. g_boot_count-1]

regVars == <<reg, boots>>
fbVars == <<state, subfns>>
sortVars == <<colors, stack, sorted>>
vars == <<regVars, fbVars, pc, outcome, phase, sortVars, next, order>>

FBs == 1 .. Len(reg)

Init ==
    /\ reg = <<>> /\ state = <<>> /\ subfns = <<>>
    /\ pc = "open" /\ outcome = "none" /\ boots = 0
    /\ phase = 0
    /\ colors = <<>> /\ stack = <<>> /\ sorted = <<>>
    /\ next = 1
    /\ order = <<>>

-----------------------------------------------------------------------------
(* Names resolve to the first FB registered under them.                    *)
HasName(n) == {i \in FBs : reg[i].name = n}
Find(n) == IF HasName(n) = {} THEN 0 ELSE CHOOSE i \in HasName(n) : \A o \in HasName(n) : i <= o

Register ==
    /\ pc = "open"
    /\ Len(reg) < MaxEndpoints
    /\ \E c \in Configs : reg' = Append(reg, c)
    /\ state' = Append(state, "IDLE")
    /\ subfns' = Append(subfns, <<>>)
    /\ UNCHANGED <<boots, pc, outcome, phase, sortVars, next, order>>

MissingDep == \E i \in FBs, n \in Name : n \in Range(reg[i].deps) /\ Find(n) = 0

(* embediq_engine_boot() is called; the dependency check comes before any  *)
(* init_fn.                                                                *)
Boot ==
    /\ pc = "open"
    /\ boots < MaxBoots
    /\ boots' = boots + 1
    /\ order' = <<>>
    /\ phase' = 1
    /\ IF MissingDep THEN outcome' = "missing" /\ UNCHANGED pc
                     ELSE outcome' = "none" /\ pc' = "phase"
    /\ UNCHANGED <<reg, fbVars, sortVars, next>>

PhaseSet(p) == {i \in FBs : reg[i].phase = p}

(* Head of the phase loop; after phase 4 boot is complete.                 *)
EnterPhase ==
    /\ pc = "phase"
    /\ IF phase > 4 THEN pc' = "booted" /\ UNCHANGED <<phase, sortVars>>
       ELSE IF PhaseSet(phase) = {} THEN phase' = phase + 1 /\ UNCHANGED <<pc, sortVars>>
       ELSE /\ colors' = [i \in FBs |-> "WHITE"]
            /\ stack' = <<>> /\ sorted' = <<>>
            /\ pc' = "sort"
            /\ UNCHANGED phase
    /\ UNCHANGED <<regVars, fbVars, outcome, next, order>>

-----------------------------------------------------------------------------
(* topo_dfs()                                                              *)

Call(i) == Append(stack, [fb |-> i, d |-> 1])

(* The loop over the phase's FBs starts a search at the first white one.   *)
Root ==
    /\ pc = "sort" /\ stack = <<>>
    /\ LET white == {i \in PhaseSet(phase) : colors[i] = "WHITE"} IN
         IF white = {}
           THEN pc' = "init" /\ next' = 1 /\ UNCHANGED sortVars
           ELSE LET i == CHOOSE w \in white : \A o \in white : w <= o IN
                /\ colors' = [colors EXCEPT ![i] = "GRAY"]
                /\ stack' = Call(i)
                /\ UNCHANGED <<pc, sorted, next>>
    /\ UNCHANGED <<regVars, fbVars, outcome, phase, order>>

Top == Last(stack)
Deps == reg[Top.fb].deps
Dep == Find(Deps[Top.d])

(* What the loop does about the dependency on FB i: one outside the phase  *)
(* or already sorted is skipped, a gray one closes a cycle.                *)
Verdict_NoBlack(i) ==
    IF i \notin PhaseSet(phase) THEN "skip" ELSE IF colors[i] = "GRAY" THEN "cycle" ELSE "search"
Verdict_NoCycle(i) ==
    IF i \in PhaseSet(phase) /\ colors[i] = "WHITE" THEN "search" ELSE "skip"
Verdict(i) ==
    IF i \notin PhaseSet(phase) \/ colors[i] = "BLACK" THEN "skip"
    ELSE IF colors[i] = "GRAY" THEN "cycle" ELSE "search"

NextDep == [stack EXCEPT ![Len(stack)].d = @ + 1]

(* One iteration of the loop over the dependencies of the FB on top.       *)
Visit ==
    /\ pc = "sort" /\ stack # <<>> /\ Top.d <= Len(Deps)
    /\ \/ /\ Verdict(Dep) = "cycle"
          /\ outcome' = "cycle" /\ pc' = "open"
          /\ UNCHANGED <<colors, stack>>
       \/ /\ Verdict(Dep) = "search"
          /\ colors' = [colors EXCEPT ![Dep] = "GRAY"]
          /\ stack' = Append(NextDep, [fb |-> Dep, d |-> 1])
          /\ UNCHANGED <<pc, outcome>>
       \/ /\ Verdict(Dep) = "skip"
          /\ stack' = NextDep
          /\ UNCHANGED <<colors, pc, outcome>>
    /\ UNCHANGED <<regVars, fbVars, phase, sorted, next, order>>

(* All dependencies searched: topo_dfs() appends the FB and returns.       *)
Leave_PreOrder(i) == <<i>> \o sorted
Leave(i) == Append(sorted, i)

Return ==
    /\ pc = "sort" /\ stack # <<>> /\ Top.d > Len(Deps)
    /\ colors' = [colors EXCEPT ![Top.fb] = "BLACK"]
    /\ sorted' = Leave(Top.fb)
    /\ stack' = Front(stack)
    /\ UNCHANGED <<regVars, fbVars, pc, outcome, phase, next, order>>

-----------------------------------------------------------------------------
(* Calling the init functions.                                             *)

Current == sorted[next]

BeginInit ==
    /\ pc = "init"
    /\ IF next <= Len(sorted)
         THEN /\ state' = [state EXCEPT ![Current] = "INITIALISING"]
              /\ pc' = "body"
              /\ UNCHANGED phase
         ELSE phase' = phase + 1 /\ pc' = "phase" /\ UNCHANGED state
    /\ UNCHANGED <<regVars, subfns, outcome, sortVars, next, order>>

(* Insertion behind every sub-function of the same or a smaller order.     *)
Position_Unstable(s, c) == Cardinality({q \in DOMAIN s : s[q].order < c.order})
Position(s, c) == Cardinality({q \in DOMAIN s : s[q].order <= c.order})

(* embediq_subfn_register(): only while the FB's own init_fn runs (I-10),  *)
(* and while there is room.                                                *)
RegisterSubFn ==
    /\ pc = "body"
    /\ Len(subfns[Current]) < MaxSubFns
    /\ \E c \in SubFns[reg[Current].name] :
         LET s == subfns[Current]
             new == [order |-> c.order, subs |-> c.subs, serial |-> Len(s) + 1]
         IN subfns' = [subfns EXCEPT ![Current] = InsertAt(s, Position(s, c) + 1, new)]
    /\ UNCHANGED <<regVars, state, pc, outcome, phase, sortVars, next, order>>

(* embediq_fb_report_fault(), from an init_fn or, after boot, from         *)
(* whatever thread finds the FB broken.                                    *)
ReportFault ==
    /\ \E i \in FBs :
         /\ pc = "booted" \/ (pc = "body" /\ i = Current)
         /\ state' = [state EXCEPT ![i] = "FAULT"]
    /\ UNCHANGED <<regVars, subfns, pc, outcome, phase, sortVars, next, order>>

(* The init_fn returns.                                                    *)
EndInit ==
    /\ pc = "body"
    /\ state' = [state EXCEPT ![Current] = "RUNNING"]
    /\ order' = Append(order, Current)
    /\ next' = next + 1
    /\ pc' = "init"
    /\ UNCHANGED <<regVars, subfns, outcome, phase, sortVars>>

-----------------------------------------------------------------------------
Booting == EnterPhase \/ Root \/ Visit \/ Return \/ BeginInit \/ EndInit

Next == Register \/ Boot \/ Booting \/ RegisterSubFn \/ ReportFault

(* The booting thread is scheduled, and init functions return.             *)
Spec == Init /\ [][Next]_vars /\ WF_vars(Booting)

-----------------------------------------------------------------------------
(* dispatch_msg_to_fb(): the sub-functions of an FB that run for a message *)
(* are those that subscribe to it, in the order of the array.              *)
Runs(i, id) == {n \in DOMAIN subfns[i] : id \in subfns[i][n].subs}

Before(i, o) == \E a, b \in DOMAIN order : a < b /\ order[a] = i /\ order[b] = o
Initialised(i) == i \in Range(order)

DependsOn(i, o) == \E n \in Range(reg[i].deps) : Find(n) = o

(* When an init_fn runs, everything the FB depends on in its own phase and *)
(* in earlier ones has been initialised, and all of the earlier phases.    *)
DependenciesReady ==
    pc = "body" => \A o \in FBs :
        /\ DependsOn(Current, o) /\ reg[o].phase \in 1 .. phase => Initialised(o)
        /\ reg[o].phase \in 1 .. phase - 1 => Initialised(o)

(* A boot initialises every FB of the four phases once, and no other.      *)
BootComplete ==
    /\ IsInjective(order)
    /\ pc = "body" => ~Initialised(Current)
    /\ pc = "booted" => Range(order) = {i \in FBs : reg[i].phase \in 1 .. 4}

(* A phase cannot be ordered if some of its FBs all depend on one another. *)
Cyclic(p) ==
    \E S \in SUBSET PhaseSet(p) : S # {} /\ \A i \in S : \E o \in S : DependsOn(i, o)

(* Boot fails with a cycle exactly when a phase has one, and before any FB *)
(* of that phase is initialised.                                           *)
CycleExact ==
    /\ outcome = "cycle" => Cyclic(phase) /\ \A i \in Range(order) : reg[i].phase < phase
    /\ pc = "booted" => \A p \in 1 .. 4 : ~Cyclic(p)

(* A boot that finds a dependency missing has initialised nothing.         *)
MissingFirst ==
    /\ pc = "booted" => \A i \in FBs : \A n \in Range(reg[i].deps) : \E o \in FBs : reg[o].name = n
    /\ outcome = "missing" => order = <<>>

(* Boot fails for a reason, and none that has a reason to fail succeeds.   *)
FailsExactly == CycleExact /\ MissingFirst

(* Messages reach the sub-functions in ascending init_order, and those of  *)
(* one order as they were registered (R-sub-ORDER); each that subscribes   *)
(* runs once.                                                              *)
RunOrder ==
    \A i \in FBs, id \in MsgId :
        LET s == subfns[i] IN
        /\ \A a, b \in Runs(i, id) :
             a < b => s[a].order < s[b].order \/ (s[a].order = s[b].order /\ s[a].serial < s[b].serial)
        /\ {r.serial : r \in Range(s)} = 1 .. Len(s)

(* "boot_phase defaults to APPLICATION if not explicitly set": every       *)
(* registered FB is started.                                               *)
DefaultPhase == pc = "booted" => \A i \in FBs : state[i] # "IDLE"

(* The lifecycle goes one way: an FB that reported a fault is not running  *)
(* afterwards.                                                             *)
FaultIsFinal == [][\A i \in FBs : state[i] = "FAULT" => state'[i] # "RUNNING"]_vars
=============================================================================
