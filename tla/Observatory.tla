---------------------------- MODULE Observatory ----------------------------
(***************************************************************************)
(* The Observatory on the host (core/src/observatory/obs.c) and the binary *)
(* stream under it (hal/posix/peripherals/hal_obs_stream_posix.c): events  *)
(* get a sequence number, go into a ring that overwrites the oldest and    *)
(* reports what it overwrote with the next event, and are captured to a    *)
(* file of TLV records.                                                    *)
(*                                                                         *)
(* A stream operation that fails is itself an event, so that emitting may  *)
(* lead to emitting: stack holds the calls a thread is in, innermost last, *)
(* each with the step it does next. obs.c has no lock. What an emit does   *)
(* to the counters and the ring is one action all the same, as if several  *)
(* threads did not race there, and each stream operation is one more.      *)
(***************************************************************************)
EXTENDS Integers, Sequences, FiniteSets, SequencesExt

CONSTANTS
    Thread,         \* threads that call the Observatory
    Depth,          \* EMBEDIQ_OBS_RING_DEPTH, a power of two
    Wrap16,         \* 2^16, the range of msg_id
    Kinds,          \* families of the events emitted
    Levels,         \* verbosity levels that are set
    Transports,     \* transports that are set by embediq_obs_set_transport()
    Faults,         \* stream operations that may fail
    MaxSeq,         \* bound: the application calls while seq is below it
    MaxDepth        \* bound: the calls there is stack space for

Family == {"FAULT", "SYSTEM", "MESSAGE", "STATE", "OTHER"}

ASSUME ObservatoryAssumption ==
    /\ Depth \in Nat \ {0} /\ Wrap16 \in Nat \ {0, 1}
    /\ Kinds \subseteq Family
    /\ Levels \subseteq Nat
    /\ Transports \subseteq {"NULL", "STDOUT", "FILE"}
    /\ Faults \subseteq {"open", "write", "flush", "close"}
    /\ MaxSeq \in Nat /\ MaxDepth \in Nat \ {0}

VARIABLES
    ring,       \* g_ring, g_ring_head, g_ring_count
    seq,        \* g_sequence
    overflow,   \* g_overflow
    transport,  \* g_transport
    level,      \* g_level
    session,    \* g_session_valid
    open,       \* g_stream # NULL
    failed,     \* s_write_error
    file,       \* what is in the capture file, one element per write
    stack,      \* the calls each thread is in
    dropped,    \* events overwritten in the ring (only properties read it)
    reported    \* drops the OVERFLOW events told of (likewise)

ringVars == <<ring, seq, overflow, dropped, reported>>
cfgVars == <<transport, level, session>>
streamVars == <<open, failed, file>>
obsVars == <<ringVars, cfgVars, streamVars, stack>>

Event == [kind : Family \cup {"OVERFLOW"}, seq : Nat]
NoEvent == [kind |-> "OTHER", seq |-> 0]

ObsInit ==
    /\ ring = [slots |-> [s \in 0 .. Depth - 1 |-> NoEvent], head |-> 0, count |-> 0]
    /\ seq = 0 /\ overflow = 0
    /\ transport = "STDOUT" /\ level = 2 /\ session = FALSE
    /\ open = FALSE /\ failed = FALSE /\ file = <<>>
    /\ stack = [t \in Thread |-> <<>>]
    /\ dropped = 0 /\ reported = 0

-----------------------------------------------------------------------------
(* Calls                                                                   *)

Frame(step, kind) == [step |-> step, kind |-> kind, seq |-> 0]
Top(t) == Last(stack[t])
At(t, step) == stack[t] # <<>> /\ Top(t).step = step

Calls(t, step, kind) ==
    /\ stack[t] = <<>> /\ seq < MaxSeq
    /\ stack' = [stack EXCEPT ![t] = <<Frame(step, kind)>>]

(* The innermost call goes on with step; "done" returns.                   *)
Goes(t, step) == [stack EXCEPT ![t][Len(stack[t])].step = step]

(* The same, after the event of a stream operation that has failed. When   *)
(* there is no stack space left for it the program stops here.             *)
EmitsFault(t, step) ==
    /\ Len(stack[t]) < MaxDepth
    /\ stack' = [stack EXCEPT ![t] = Append(Goes(t, step)[t], Frame("emit", "FAULT"))]

Return(t) ==
    /\ At(t, "done")
    /\ stack' = [stack EXCEPT ![t] = Front(@)]
    /\ UNCHANGED <<ringVars, cfgVars, streamVars>>

-----------------------------------------------------------------------------
(* embediq_obs_emit()                                                      *)

Passes(kind) ==
    \/ level >= 2
    \/ kind \in {"FAULT", "SYSTEM"}
    \/ level = 1 /\ kind \in {"MESSAGE", "STATE"}

Full(r) == r.count = Depth

(* ring_push(): a full ring loses its oldest event.                        *)
NewHead_Stays(r) == r.head
NewHead(r) == IF Full(r) THEN (r.head + 1) % Depth ELSE r.head

Push(r, e) ==
    LET count == IF Full(r) THEN r.count ELSE r.count + 1
        slot == ((NewHead(r) + count) - 1) % Depth
    IN [slots |-> [r.slots EXCEPT ![slot] = e], head |-> NewHead(r), count |-> count]

(* The drops are reported before the next event that passes the filter.    *)
Recovers_Never == FALSE
Recovers == overflow > 0

(* What is left of g_overflow when it has been reported.                   *)
Pending == IF Recovers THEN 0 ELSE overflow

CallEmit(t) ==
    /\ \E kind \in Kinds : Calls(t, "emit", kind)
    /\ UNCHANGED <<ringVars, cfgVars, streamVars>>

Skip(t) ==
    /\ At(t, "emit")
    /\ transport = "NULL" \/ ~Passes(Top(t).kind)
    /\ stack' = Goes(t, "done")
    /\ UNCHANGED <<ringVars, cfgVars, streamVars>>

Record(t) ==
    /\ At(t, "emit")
    /\ transport # "NULL" /\ Passes(Top(t).kind)
    /\ LET r == IF Recovers THEN Push(ring, [kind |-> "OVERFLOW", seq |-> seq]) ELSE ring
           s == IF Recovers THEN seq + 1 ELSE seq
       IN /\ ring' = Push(r, [kind |-> Top(t).kind, seq |-> s])
          /\ seq' = s + 1
          /\ overflow' = Pending + (IF Full(r) THEN 1 ELSE 0)
          /\ dropped' = dropped + (IF Full(r) THEN 1 ELSE 0)
                                + (IF Recovers /\ Full(ring) THEN 1 ELSE 0)
          /\ reported' = IF Recovers THEN reported + (overflow % Wrap16) ELSE reported
          /\ LET step == IF transport = "FILE" THEN "EVENT header" ELSE "done"
             IN stack' = [stack EXCEPT ![t] = Append(Front(@), [Top(t) EXCEPT !.step = step, !.seq = s])]
    /\ UNCHANGED <<cfgVars, streamVars>>

-----------------------------------------------------------------------------
(* Writes to the stream: the file header and, by write_tlv(), header and   *)
(* payload of each record. A step stands for the piece it writes.          *)

Pieces == {"MAGIC", "SESSION header", "SESSION", "EVENT header", "EVENT", "STREAM_END"}

AfterPiece(p) ==
    CASE p = "MAGIC" -> "SESSION header"
      [] p = "SESSION header" -> "SESSION"
      [] p = "SESSION" -> "flush begun"
      [] p = "EVENT header" -> "EVENT"
      [] p = "EVENT" -> "done"
      [] p = "STREAM_END" -> "flush ended"

(* A capture that cannot begin is given up; the rest is carried on with.   *)
AfterFailure(p) ==
    CASE p \in {"MAGIC", "SESSION header", "SESSION"} -> "abort"
      [] p \in {"EVENT header", "EVENT"} -> "done"
      [] p = "STREAM_END" -> "flush ended"

(* One failed write silences the stream until it is opened again.          *)
Latched_Never == FALSE
Latched == failed

Torn == [piece |-> "torn", seq |-> 0]

(* write() of the stream. Without a stream it fails, and says so each time.*)
Write(t) ==
    LET p == Top(t).step IN
    /\ stack[t] # <<>> /\ p \in Pieces
    /\ \/ /\ open /\ ~Latched
          /\ file' = Append(file, [piece |-> p, seq |-> Top(t).seq])
          /\ stack' = Goes(t, AfterPiece(p))
          /\ UNCHANGED failed
       \/ /\ open /\ ~Latched /\ "write" \in Faults
          /\ file' \in {file, Append(file, Torn)}
          /\ failed' = TRUE
          /\ EmitsFault(t, AfterFailure(p))
       \/ /\ open /\ Latched
          /\ stack' = Goes(t, AfterFailure(p))
          /\ UNCHANGED <<file, failed>>
       \/ /\ ~open
          /\ EmitsFault(t, AfterFailure(p))
          /\ UNCHANGED <<file, failed>>
    /\ UNCHANGED <<ringVars, cfgVars, open>>

-----------------------------------------------------------------------------
(* embediq_obs_capture_begin() and embediq_obs_capture_end()               *)

CallBegin(t) ==
    /\ session
    /\ Calls(t, "open", "OTHER")
    /\ UNCHANGED <<ringVars, cfgVars, streamVars>>

(* Opening closes what is open, and truncates.                             *)
Opened == <<>>

Open(t) ==
    /\ At(t, "open")
    /\ \/ open' = TRUE /\ failed' = FALSE /\ file' = Opened /\ stack' = Goes(t, "MAGIC")
       \/ /\ "open" \in Faults
          /\ open' = FALSE
          /\ EmitsFault(t, "done")
          /\ UNCHANGED <<failed, file>>
    /\ UNCHANGED <<ringVars, cfgVars>>

Flush(t, step, next) ==
    /\ At(t, step)
    /\ \/ open /\ stack' = Goes(t, next) /\ UNCHANGED failed
       \/ open /\ ~failed /\ "flush" \in Faults /\ EmitsFault(t, next) /\ failed' = TRUE
       \/ ~open /\ EmitsFault(t, next) /\ UNCHANGED failed
    /\ UNCHANGED <<ringVars, cfgVars, open, file>>

Close(t, step, next) ==
    /\ At(t, step)
    /\ \/ stack' = Goes(t, next)
       \/ open /\ "close" \in Faults /\ EmitsFault(t, next)
    /\ open' = FALSE
    /\ failed' = (failed /\ ~open)
    /\ UNCHANGED <<ringVars, cfgVars, file>>

Switch(t, step, tr) ==
    /\ At(t, step)
    /\ transport' = tr
    /\ stack' = Goes(t, "done")
    /\ UNCHANGED <<ringVars, level, session, streamVars>>

Begin(t) ==
    Open(t) \/ Close(t, "abort", "done") \/ Flush(t, "flush begun", "to file")
    \/ Switch(t, "to file", "FILE")

CallEnd(t) ==
    /\ Calls(t, "STREAM_END", "OTHER")
    /\ UNCHANGED <<ringVars, cfgVars, streamVars>>

End(t) ==
    Flush(t, "flush ended", "close") \/ Close(t, "close", "to null") \/ Switch(t, "to null", "NULL")

(* embediq_obs_set_transport(), _set_level(), _session_begin()             *)
Configure ==
    /\ \E t \in Thread : stack[t] = <<>>
    /\ \/ transport' \in Transports /\ UNCHANGED <<level, session>>
       \/ level' \in Levels /\ UNCHANGED <<transport, session>>
       \/ session' = TRUE /\ UNCHANGED <<transport, level>>
    /\ UNCHANGED <<ringVars, streamVars, stack>>

-----------------------------------------------------------------------------
ObsNext ==
    \/ Configure
    \/ \E t \in Thread :
         \/ CallEmit(t) \/ Skip(t) \/ Record(t) \/ Write(t) \/ Return(t)
         \/ CallBegin(t) \/ Begin(t) \/ CallEnd(t) \/ End(t)

ObsSpec == ObsInit /\ [][ObsNext]_obsVars

-----------------------------------------------------------------------------
(* obs__ring_read(): the ring, oldest first.                               *)
Read(n) == ring.slots[(ring.head + n) % Depth]

(* The ring holds the latest events there were, in the order of their      *)
(* sequence numbers and with no gap between them (I-13).                   *)
RingIsLatest ==
    \A n \in 0 .. ring.count - 1 : Read(n).seq = seq - ring.count + n

(* "An overflow event tells the auditor: audit data was lost here"         *)
(* (iqtrace_format.md): whatever the ring has lost is reported or about to *)
(* be, except one event for each report, that which the report displaces.  *)
(* And no report claims more than was lost, nor more than its 16 bits hold.*)
DropsReported ==
    /\ reported + overflow <= dropped
    /\ dropped <= 2 * reported + overflow
    /\ overflow < Wrap16

(* What may follow what in a capture file.                                 *)
Follows == {
    <<"MAGIC", "SESSION header">>, <<"SESSION header", "SESSION">>,
    <<"SESSION", "EVENT header">>, <<"SESSION", "STREAM_END">>,
    <<"EVENT header", "EVENT">>, <<"EVENT", "EVENT header">>, <<"EVENT", "STREAM_END">>}

(* Every capture file, whatever fails, is a header, a session record and   *)
(* whole event records, cut off at the first write that failed.            *)
WellFormed ==
    \A n \in DOMAIN file :
        /\ n = 1 => file[n].piece \in {"MAGIC", "torn"}
        /\ n > 1 => <<file[n - 1].piece, file[n].piece>> \in Follows
                    \/ (file[n].piece = "torn" /\ file[n - 1].piece # "torn")

(* The records of events in the file, by their place.                      *)
Captured == {n \in DOMAIN file : file[n].piece = "EVENT"}

(* "Records appear in ascending sequence order within the file"            *)
(* (iqtrace_format.md).                                                    *)
CaptureInOrder ==
    \A m, n \in Captured : m < n => file[m].seq < file[n].seq

(* With one emitting thread they do, and between two of them nothing is    *)
(* missing but the report of an overflow, which goes to the ring only.     *)
(* Level and NULL transport take no number; what is emitted to stdout in   *)
(* the middle of a capture does, hence Transports without STDOUT.          *)
Contiguous ==
    \A m, n \in Captured :
        (m < n /\ \A o \in Captured : o <= m \/ n <= o) => file[n].seq - file[m].seq \in 1 .. 2

(* A capture can be replayed: it parses, and nothing of it is missing.     *)
CaptureSound == WellFormed /\ Contiguous

(* "latch: set on first write failure [...] suppress storm"                *)
(* (hal_obs_stream_posix.c): the event of a failure does not fail in turn, *)
(* report that, and so on.                                                 *)
NoRunaway == \A t \in Thread : Len(stack[t]) <= 2
=============================================================================
