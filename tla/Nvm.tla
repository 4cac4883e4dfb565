-------------------------------- MODULE Nvm --------------------------------
(***************************************************************************)
(* The NVM driver FB (fbs/drivers/fb_nvm.c) over the POSIX flash           *)
(* (hal/posix/peripherals/hal_flash_posix.c): a table of key-value slots   *)
(* in RAM, guarded by g_mutex, of which every change writes the whole as   *)
(* one blob with magic and CRC, to a temporary file that is then renamed.  *)
(* Any step of the write may fail, and the process may die between any two *)
(* steps; what it has handed to the kernel survives it.                    *)
(*                                                                         *)
(* The caller's critical section up to the file operations touches nothing *)
(* another process state shows and is one action; every file operation is  *)
(* one more. The blob is composed in s_persist_buf under the same mutex,   *)
(* so it is the table. A file is the table it holds or, if it is absent,   *)
(* short or damaged so that magic or CRC do not fit, NoBlob.               *)
(***************************************************************************)
EXTENDS Integers, FiniteSets

CONSTANTS
    Thread,         \* threads that call the API
    Key,
    Factory,        \* keys of mutability CFG_MUT_FACTORY in the schema
    Val,
    Size(_),        \* of a value, in bytes
    MaxSize,        \* EMBEDIQ_NVM_VAL_SIZE
    NumSlots,       \* EMBEDIQ_NVM_MAX_KEYS
    Calls,          \* what each thread may call
    Faults,         \* the file operations that may fail
    Provisioned,    \* what the store may hold before the program first runs
    Free,           \* an inactive slot
    NoBlob,
    None            \* no value, or no call

Slot == 1 .. NumSlots
Entry == [key : Key, val : Val]
Table == [Slot -> Entry \cup {Free}]
EmptyTable == [s \in Slot |-> Free]

(* What the driver writes: no key is in two slots.                         *)
OneSlotEach(t) == \A s, o \in Slot : t[s] # Free /\ t[o] # Free /\ t[s].key = t[o].key => s = o

Call ==
    [op : {"set"}, key : Key, val : Val] \cup [op : {"get"}, key : Key, room : 0 .. MaxSize]
    \cup [op : {"delete"}, key : Key] \cup [op : {"flush", "reset"}]

ASSUME NvmAssumption ==
    /\ Factory \subseteq Key
    /\ NumSlots \in Nat \ {0} /\ MaxSize \in Nat /\ \A v \in Val : Size(v) \in Nat
    /\ Calls \in [Thread -> SUBSET Call]
    /\ Faults \subseteq {"open", "write", "close", "rename"}
    /\ \A t \in Provisioned \ {NoBlob} : t \in Table /\ OneSlotEach(t)
    /\ Free \notin Entry /\ NoBlob \notin Table /\ None \notin Val \cup Call

VARIABLES
    ready,      \* g_mutex # NULL
    mem,        \* g_nvm
    lock,       \* the thread that holds g_mutex, as a set
    at,         \* where a thread is
    call,       \* what it has called
    result,     \* what that returns
    out,        \* what a get has copied to its caller
    tmp, file,  \* the temporary file and the store
    acked,      \* contents when g_mutex was last released (only properties read it)
    dying,      \* contents when the process died (likewise)
    faulted     \* an operation failed since the last good write (likewise)

callVars == <<at, call, result, out>>
histVars == <<acked, dying, faulted>>
vars == <<ready, mem, lock, callVars, tmp, file, histVars>>

(* find_slot(), find_free_slot() and the map the table stands for.         *)
SlotsOf(t, k) == {s \in Slot : t[s] # Free /\ t[s].key = k}
FreeSlots(t) == {s \in Slot : t[s] = Free}
First(S) == CHOOSE s \in S : \A o \in S : s <= o

Content(t) ==
    [k \in Key |-> IF SlotsOf(t, k) = {} THEN None ELSE t[First(SlotsOf(t, k))].val]

(* hal_flash_read(): bytes that are not there read as zeros, and no blob.  *)
Readable(f) == f # NoBlob

(* nvm_load(): a store that cannot be read back is an empty one.           *)
Loaded(f) == IF Readable(f) THEN f ELSE EmptyTable

Init ==
    /\ ready = FALSE
    /\ file \in Provisioned /\ tmp = NoBlob
    /\ mem = EmptyTable
    /\ lock = {}
    /\ at = [t \in Thread |-> "idle"]
    /\ call = [t \in Thread |-> None]
    /\ result = [t \in Thread |-> "ok"]
    /\ out = [t \in Thread |-> None]
    /\ acked = Content(Loaded(file)) /\ dying = Content(EmptyTable) /\ faulted = FALSE

(* nvm_init(): from engine boot, before anybody can call the API.          *)
NvmInit ==
    /\ ~ready
    /\ ready' = TRUE
    /\ mem' = Loaded(file)
    /\ acked' = Content(mem') /\ dying' = Content(EmptyTable)
    /\ faulted' = FALSE
    /\ UNCHANGED <<lock, callVars, tmp, file>>

(* A thread calls and waits for g_mutex.                                   *)
Invoke(t, c) ==
    /\ ready /\ at[t] = "idle"
    /\ call' = [call EXCEPT ![t] = c]
    /\ at' = [at EXCEPT ![t] = "enter"]
    /\ UNCHANGED <<ready, mem, lock, result, out, tmp, file, histVars>>

Enter(t) == \E c \in Calls[t] : Invoke(t, c)

-----------------------------------------------------------------------------
(* The body of a call, from the lock to nvm_persist() or the return.       *)

Unlocked == lock = {}

Goes(t, stage, res) ==
    /\ lock' = lock \cup {t}
    /\ at' = [at EXCEPT ![t] = stage]
    /\ result' = [result EXCEPT ![t] = res]
    /\ UNCHANGED <<ready, call, tmp, file, histVars>>

(* A value that is too long is refused before the lock is taken.           *)
TooLong(t) == call[t].op = "set" /\ Size(call[t].val) > MaxSize

Refuse(t) ==
    /\ at[t] = "enter" /\ TooLong(t)
    /\ at' = [at EXCEPT ![t] = "unlock"]
    /\ result' = [result EXCEPT ![t] = "err"]
    /\ UNCHANGED <<ready, mem, lock, call, out, tmp, file, histVars>>

(* Mutability guard.                                                       *)
Immutable_Never(k) == FALSE
Immutable(k) == k \in Factory

(* Where embediq_nvm_set() puts a key: its slot, or else the first free one.*)
Places(k) == IF SlotsOf(mem, k) # {} THEN SlotsOf(mem, k) ELSE FreeSlots(mem)

Set(t) ==
    /\ at[t] = "enter" /\ Unlocked /\ call[t].op = "set" /\ ~TooLong(t)
    /\ LET k == call[t].key IN
         IF Immutable(k) \/ Places(k) = {}
           THEN Goes(t, "unlock", "err") /\ UNCHANGED mem
           ELSE /\ mem' = [mem EXCEPT ![First(Places(k))] = [key |-> k, val |-> call[t].val]]
                /\ Goes(t, "open", "ok")
    /\ UNCHANGED out

(* What does not fit the caller's buffer is not copied.                    *)
Get(t) ==
    /\ at[t] = "enter" /\ Unlocked /\ call[t].op = "get"
    /\ LET found == SlotsOf(mem, call[t].key)
           val == mem[First(found)].val IN
         IF found = {} \/ (found # {} /\ Size(val) > call[t].room)
           THEN Goes(t, "unlock", "err") /\ UNCHANGED out
           ELSE Goes(t, "unlock", "ok") /\ out' = [out EXCEPT ![t] = val]
    /\ UNCHANGED mem

(* Deleting what is not there changes nothing and writes nothing.          *)
Delete(t) ==
    /\ at[t] = "enter" /\ Unlocked /\ call[t].op = "delete"
    /\ LET found == SlotsOf(mem, call[t].key) IN
         IF found = {}
           THEN Goes(t, "unlock", "ok") /\ UNCHANGED mem
           ELSE mem' = [mem EXCEPT ![First(found)] = Free] /\ Goes(t, "open", "ok")
    /\ UNCHANGED out

Flush(t) ==
    /\ at[t] = "enter" /\ Unlocked /\ call[t].op = "flush"
    /\ Goes(t, "open", "ok")
    /\ UNCHANGED <<mem, out>>

Reset(t) ==
    /\ at[t] = "enter" /\ Unlocked /\ call[t].op = "reset"
    /\ mem' = EmptyTable
    /\ Goes(t, "open", "ok")
    /\ UNCHANGED out

-----------------------------------------------------------------------------
(* nvm_persist(): hal_flash_write() of the blob. Whatever that returns, the *)
(* call goes on to its end.                                                *)

Fails(t, step) ==
    /\ step \in Faults
    /\ at' = [at EXCEPT ![t] = "unlock"]
    /\ faulted' = TRUE
    /\ UNCHANGED file

(* fopen(.., "wb") empties the temporary file.                             *)
Open(t) ==
    /\ at[t] = "open"
    /\ \/ /\ tmp' = NoBlob
          /\ at' = [at EXCEPT ![t] = "write"]
          /\ UNCHANGED <<file, faulted>>
       \/ Fails(t, "open") /\ UNCHANGED tmp
    /\ UNCHANGED <<ready, mem, lock, call, result, out, acked, dying>>

(* fwrite(): the tail of the blob is still in the stdio buffer.            *)
AfterWrite_Rename == "rename"
AfterWrite == "close"

Write(t) ==
    /\ at[t] = "write"
    /\ \/ at' = [at EXCEPT ![t] = AfterWrite] /\ UNCHANGED <<file, faulted>>
       \/ Fails(t, "write")
    /\ UNCHANGED <<ready, mem, lock, call, result, out, tmp, acked, dying>>

(* fclose() hands it to the kernel; the result is not looked at.           *)
Close(t) ==
    /\ at[t] = "close"
    /\ \/ tmp' = mem /\ UNCHANGED faulted
       \/ "close" \in Faults /\ tmp' = NoBlob /\ faulted' = TRUE
    /\ at' = [at EXCEPT ![t] = "rename"]
    /\ UNCHANGED <<ready, mem, lock, call, result, out, file, acked, dying>>

(* A whole blob in place makes good for every write that failed before.    *)
Rename(t) ==
    /\ at[t] = "rename"
    /\ \/ /\ file' = tmp /\ tmp' = NoBlob
          /\ faulted' = (faulted /\ tmp = NoBlob)
          /\ at' = [at EXCEPT ![t] = "unlock"]
       \/ Fails(t, "rename") /\ UNCHANGED tmp
    /\ UNCHANGED <<ready, mem, lock, call, result, out, acked, dying>>

(* hal_flash_write() of the whole store, which leaves nothing to overlay.  *)
HalWrite(t) == Open(t) \/ Write(t) \/ Close(t) \/ Rename(t)
Persist(t) == HalWrite(t)

(* Every path, the early returns too, unlocks.                             *)
Released_OnSuccess(t) == IF result[t] = "ok" THEN {} ELSE lock
Released(t) == lock \ {t}

Return(t) ==
    /\ at[t] = "unlock"
    /\ lock' = Released(t)
    /\ at' = [at EXCEPT ![t] = "idle"]
    /\ call' = [call EXCEPT ![t] = None]
    /\ result' = [result EXCEPT ![t] = "ok"]
    /\ out' = [out EXCEPT ![t] = None]
    /\ acked' = IF t \in lock THEN Content(mem) ELSE acked
    /\ UNCHANGED <<ready, mem, tmp, file, dying, faulted>>

Crash ==
    /\ ready
    /\ ready' = FALSE
    /\ mem' = EmptyTable
    /\ lock' = {}
    /\ at' = [t \in Thread |-> "idle"]
    /\ call' = [t \in Thread |-> None]
    /\ result' = [t \in Thread |-> "ok"]
    /\ out' = [t \in Thread |-> None]
    /\ dying' = Content(mem)
    /\ UNCHANGED <<tmp, file, acked, faulted>>

Work(t) == Refuse(t) \/ Set(t) \/ Get(t) \/ Delete(t) \/ Flush(t) \/ Reset(t) \/ Persist(t) \/ Return(t)

Next == NvmInit \/ Crash \/ \E t \in Thread : Enter(t) \/ Work(t)

(* Threads are scheduled and the mutex is handed to every waiter in the    *)
(* end; nobody has to call, and no process has to die or to come back.     *)
Spec == Init /\ [][Next]_vars /\ \A t \in Thread : SF_vars(Work(t))

-----------------------------------------------------------------------------
(* If the file operations have done what they were asked to, a process that *)
(* dies comes back with everything its finished calls have stored, and the *)
(* call it died in has happened as a whole or not at all.                  *)
Survives ==
    [][~ready /\ ready' /\ ~faulted => Content(mem') \in {acked, dying}]_vars

(* A call returns unless the process dies, from every early return too.    *)
CallReturns == \A t \in Thread : (at[t] # "idle") ~> (at[t] = "idle")

(* Whatever fails and whenever the process dies, the store is a            *)
(* KeyValueStore: each call takes effect at once, on its own key only, and *)
(* answers truly, no factory key gets a new value, and what comes back is  *)
(* a state the store once had, or nothing.                                 *)
Promise == INSTANCE KeyValueStore WITH
    kv <- IF ready THEN Content(mem) ELSE Content(Loaded(file)),
    saved <- Content(Loaded(file)),
    answer <- [t \in Thread |-> IF at[t] \in {"idle", "enter"} THEN "none" ELSE result[t]],
    got <- out,
    Capacity <- NumSlots,
    Provisioned <- {Content(Loaded(f)) : f \in Provisioned}
StoreSpec == Promise!Spec

(* "EMBEDIQ_OK if all data is safely persisted, EMBEDIQ_ERR on I/O error"  *)
(* (embediq_nvm_flush()).                                                  *)
FlushedMeansSaved ==
    [][\A t \in Thread :
          (at[t] = "unlock" /\ at'[t] = "idle" /\ ready' /\ call[t].op = "flush" /\ result[t] = "ok")
            => Content(Loaded(file)) = Content(mem)]_vars
=============================================================================
