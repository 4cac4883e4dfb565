------------------------------ MODULE Platform ------------------------------
(***************************************************************************)
(* The library registry (core/src/embediq_platform.c): libraries declare   *)
(* an init and a deinit function, embediq_platform_lib_init_all() calls    *)
(* the former in the order of declaration and _deinit_all() the latter in  *)
(* reverse. The functions are called in the middle of the two loops and    *)
(* may declare libraries themselves, so a declaration can come between any *)
(* two iterations.                                                         *)
(***************************************************************************)
EXTENDS Integers, Sequences, SequencesExt

CONSTANTS
    InitFn,         \* init functions
    DeinitFn,       \* deinit functions
    Null,           \* NULL
    MaxLibs,        \* EMBEDIQ_MAX_LIB_INITS
    MaxDeclares     \* bound: how many declarations are made

ASSUME PlatformAssumption == Null \notin InitFn \cup DeinitFn /\ {MaxLibs, MaxDeclares} \subseteq Nat

VARIABLES
    libs,           \* s_libs[0 .. s_count-1]
    phase, next,    \* which loop runs, and its index
    declares,       \* declarations so far (bounds the model)
    inited, torn,   \* libraries whose functions were called, in order (only properties read them)
    agreed          \* declarations answered OK, and if in time for init_all (likewise)

libVars == <<libs, phase, next, declares, inited, torn, agreed>>

LibInit ==
    /\ libs = <<>>
    /\ phase = "before" /\ next = 0
    /\ declares = 0
    /\ inited = <<>> /\ torn = <<>> /\ agreed = {}

Known_Never(f) == {}
Known(f) == {n \in DOMAIN libs : libs[n].init = f}

Ok(f, d) ==
    /\ f # Null
    /\ IF Known(f) # {} THEN \A n \in Known(f) : libs[n].deinit = d ELSE Len(libs) < MaxLibs

(* embediq_platform_lib_declare()                                          *)
Declare(f, d) ==
    /\ declares < MaxDeclares /\ declares' = declares + 1
    /\ libs' = IF Ok(f, d) /\ Known(f) = {} THEN Append(libs, [init |-> f, deinit |-> d]) ELSE libs
    /\ agreed' = IF Ok(f, d)
                 THEN agreed \cup {[init |-> f, deinit |-> d, early |-> phase \in {"before", "init"}]}
                 ELSE agreed
    /\ UNCHANGED <<phase, next, inited, torn>>

(* embediq_platform_lib_init_all(): s_count is read in every iteration.    *)
InitAll ==
    \/ /\ phase = "before"
       /\ phase' = "init" /\ next' = 1
       /\ UNCHANGED <<libs, declares, inited, torn, agreed>>
    \/ /\ phase = "init"
       /\ IF next <= Len(libs)
          THEN /\ inited' = Append(inited, libs[next].init)
               /\ next' = next + 1
               /\ UNCHANGED phase
          ELSE phase' = "up" /\ UNCHANGED <<next, inited>>
       /\ UNCHANGED <<libs, declares, torn, agreed>>

(* embediq_platform_lib_deinit_all(): from the libraries there are at its  *)
(* start, in reverse.                                                      *)
DeinitAll ==
    \/ /\ phase = "up"
       /\ phase' = "deinit" /\ next' = Len(libs)
       /\ UNCHANGED <<libs, declares, inited, torn, agreed>>
    \/ /\ phase = "deinit"
       /\ IF next > 0
          THEN /\ torn' = IF libs[next].deinit # Null THEN Append(torn, libs[next].init) ELSE torn
               /\ next' = next - 1
               /\ UNCHANGED phase
          ELSE phase' = "down" /\ UNCHANGED <<next, torn>>
       /\ UNCHANGED <<libs, declares, inited, agreed>>

(* embediq_platform_lib_reset(), between two tests.                        *)
Reset ==
    /\ phase = "down"
    /\ libs' = <<>> /\ phase' = "before" /\ next' = 0
    /\ inited' = <<>> /\ torn' = <<>> /\ agreed' = {}
    /\ UNCHANGED declares

LibNext ==
    \/ \E f \in InitFn \cup {Null}, d \in DeinitFn \cup {Null} : Declare(f, d)
    \/ InitAll \/ DeinitAll \/ Reset

LibSpec == LibInit /\ [][LibNext]_libVars

-----------------------------------------------------------------------------
TornDown(f) == \E a \in agreed : a.init = f /\ a.deinit # Null

(* The teardown of what was initialised, each once and the last first.     *)
MirrorsSetup ==
    /\ \A f \in ToSet(inited) : f \in ToSet(torn) <=> TornDown(f)
    /\ \A m, n \in DOMAIN torn, k, l \in DOMAIN inited :
          (torn[m] = inited[k] /\ torn[n] = inited[l]) => (m < n <=> l < k)

(* Who was told OK in time is initialised once, no matter how often and by *)
(* whom it was declared; nobody is told OK for a teardown that will not be *)
(* called; and what was initialised is torn down in the opposite order.    *)
TeardownMirrorsSetup ==
    /\ IsInjective(inited)
    /\ \A a, b \in agreed : a.init = b.init => a.deinit = b.deinit
    /\ phase \in {"up", "deinit", "down"} => \A a \in agreed : a.early => a.init \in ToSet(inited)
    /\ phase = "down" => MirrorsSetup
=============================================================================
