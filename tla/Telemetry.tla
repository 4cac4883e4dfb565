----------------------------- MODULE Telemetry -----------------------------
(***************************************************************************)
(* The telemetry service FB (fbs/services/fb_telemetry.c), driven by the   *)
(* 1 s message of the timer: samples are aggregated in a table of metrics, *)
(* and after a window of seconds the table is published in batches and     *)
(* emptied. Samples and seconds reach the FB through one NORMAL queue that *)
(* drops its oldest message when full (BusDispatch has the detail).        *)
(*                                                                         *)
(* A sample is what its publisher wrote at the start of the payload and    *)
(* what stands a message header (20 bytes) further on, because the         *)
(* handlers read that: fb_dispatch_loop() hands them the payload and they  *)
(* take it for the message. FBs of the device clear the message first, so  *)
(* that they read zeros; a bridge client may send anything there.          *)
(*                                                                         *)
(* Metric ids are numbers because a slot is free when it holds the id      *)
(* TEL_SLOT_FREE. Averages are kept as sum and divisor, and of the floats  *)
(* only the order and the sums are modelled. Tags are left out: they are   *)
(* stored and never sent.                                                  *)
(***************************************************************************)
EXTENDS Timer, Sequences, FiniteSets

CONSTANTS
    Sample,         \* the samples that are published
    FreeId,         \* TEL_SLOT_FREE
    MaxMetrics,     \* EMBEDIQ_TELEMETRY_MAX_METRICS
    PerBatch,       \* TEL_ENTRIES_PER_BATCH
    Window,         \* EMBEDIQ_TELEMETRY_WINDOW_SEC
    CountCap,       \* UINT16_MAX
    TotalWrap,      \* 2^32
    Depth,          \* EMBEDIQ_NORMAL_QUEUE_DEPTH
    MaxSamples      \* bound: samples published in a window

Inf == 1000         \* TEL_FLT_MAX: no value is beyond

ASSUME TelemetryAssumption ==
    /\ Sample \subseteq [type : {"gauge", "counter", "histogram"},
                         sent : Nat \X Nat, rest : Nat \X (0 .. Inf)]
    /\ {FreeId, CountCap} \subseteq Nat
    /\ {MaxMetrics, PerBatch, Window, TotalWrap, Depth} \subseteq Nat \ {0}
    /\ MaxSamples \in Nat

VARIABLES
    inbox,          \* the FB's NORMAL queue
    table,          \* s_table
    elapsed,        \* s_elapsed_s
    report,         \* the batches the last step has published
    handled,        \* samples handled in this window (only properties read it)
    reported        \* those of the window the last step has closed (likewise)

telVars == <<inbox, table, elapsed, report, handled, reported>>
vars == <<timerVars, telVars>>

Lesser(a, b) == IF a < b THEN a ELSE b
Greater(a, b) == IF a > b THEN a ELSE b

Fresh(id, type) ==
    [id |-> id, type |-> type, count |-> 0, sum |-> 0,
     min |-> Inf, max |-> -Inf, last |-> 0, total |-> 0]
ResetTable == [i \in 1 .. MaxMetrics |-> Fresh(FreeId, "gauge")]

Init ==
    /\ TimerInit
    /\ inbox = <<>>
    /\ table = ResetTable /\ elapsed = 0
    /\ report = <<>>
    /\ handled = <<>> /\ reported = <<>>

TICK == [type |-> "tick"]
Enqueue(q, m) == Append(IF Len(q) = Depth THEN Tail(q) ELSE q, m)

NoReport == report' = <<>> /\ reported' = <<>>

(* A step of the timer: its 1 s message goes to the FB's queue.            *)
Timed(step) ==
    /\ step
    /\ inbox' = IF "1SEC" \in sent' THEN Enqueue(inbox, TICK) ELSE inbox
    /\ NoReport
    /\ UNCHANGED <<table, elapsed, handled>>

IsSample(m) == m.type # "tick"

Publish ==
    /\ Len(handled) + Len(SelectSeq(inbox, IsSample)) < MaxSamples
    /\ \E s \in Sample : inbox' = Enqueue(inbox, s)
    /\ NoReport
    /\ UNCHANGED <<timerVars, table, elapsed, handled>>

(* The metric and the value that on_gauge(), on_counter(), on_histogram()  *)
(* copy from m->payload, where m points to the payload of the message.     *)
MetricOf(s) == s.rest[1]
ValueOf(s) == s.rest[2]

(* find_or_alloc(): the first slot with the id, else the first free one.   *)
Places(id) ==
    LET known == {i \in DOMAIN table : table[i].id = id}
        free == {i \in DOMAIN table : table[i].id = FreeId}
        first(S) == {i \in S : \A j \in S : i <= j}
    IN  IF known # {} THEN first(known) ELSE first(free)

Claimed_Retyped(slot, s) == Fresh(MetricOf(s), s.type)
Claimed(slot, s) == IF slot.id = MetricOf(s) THEN slot ELSE Fresh(MetricOf(s), s.type)

(* fb_telemetry__agg_gauge(), _counter() and _histogram().                 *)
Aggregate(slot, s) ==
    LET e == [Claimed(slot, s) EXCEPT !.count = @ + 1]
        v == ValueOf(s)
        observed == [e EXCEPT !.sum = @ + v, !.min = Lesser(@, v), !.max = Greater(@, v)]
    IN  CASE s.type = "counter" -> [e EXCEPT !.total = (@ + v) % TotalWrap]
          [] s.type = "gauge" -> [observed EXCEPT !.last = v]
          [] s.type = "histogram" -> observed

(* on_gauge(), on_counter(), on_histogram(): a full table drops the sample.*)
OnSample ==
    /\ inbox # <<>> /\ IsSample(Head(inbox))
    /\ inbox' = Tail(inbox)
    /\ LET s == Head(inbox) IN
       /\ IF Places(MetricOf(s)) = {} THEN UNCHANGED table
          ELSE \E i \in Places(MetricOf(s)) : table' = [table EXCEPT ![i] = Aggregate(@, s)]
       /\ handled' = Append(handled, s)
    /\ NoReport
    /\ UNCHANGED <<timerVars, elapsed>>

(* build_entry().                                                          *)
Entry(e) ==
    [id |-> e.id, type |-> e.type, count |-> Lesser(e.count, CountCap),
     values |-> CASE e.type = "counter" -> <<e.total>>
                  [] e.type = "gauge" -> <<e.sum, e.count, e.last, e.max>>
                  [] e.type = "histogram" -> <<e.sum, e.count, e.min, e.max>>]

Active(e) == e.id # FreeId /\ e.count > 0

(* publish_batch(): groups of up to PerBatch active slots, in table order. *)
Nth(S, k) == CHOOSE i \in S : Cardinality({j \in S : j <= i}) = k
Batches(t) ==
    LET slots == {i \in DOMAIN t : Active(t[i])}
        n == Cardinality(slots)
        entries == [k \in 1 .. n |-> Entry(t[Nth(slots, k)])]
    IN  [b \in 1 .. (n + PerBatch - 1) \div PerBatch |->
            SubSeq(entries, (b - 1) * PerBatch + 1, Lesser(b * PerBatch, n))]

Seconds_Stuck == elapsed
Seconds == elapsed + 1
WindowOver == Seconds >= Window

(* reset_table() at the end of a window.                                   *)
NextTable == ResetTable

(* on_timer().                                                             *)
OnTimer ==
    /\ inbox # <<>> /\ Head(inbox) = TICK
    /\ inbox' = Tail(inbox)
    /\ IF WindowOver
       THEN /\ report' = Batches(table)
            /\ table' = NextTable /\ elapsed' = 0
            /\ reported' = handled /\ handled' = <<>>
       ELSE /\ elapsed' = Seconds
            /\ NoReport
            /\ UNCHANGED <<table, handled>>
    /\ UNCHANGED timerVars

Dispatch == OnSample \/ OnTimer
Next == Timed(TimerNext) \/ Publish \/ Dispatch

(* Time passes, and the timer's and the FB's threads are scheduled.        *)
Spec ==
    /\ Init /\ [][Next]_vars
    /\ WF_vars(Timed(Elapse)) /\ WF_vars(Timed(TimerThread))
    /\ WF_vars(Dispatch)

(***************************************************************************)
(* Properties.                                                             *)
(***************************************************************************)
Earliest(S) == CHOOSE i \in S : \A j \in S : i <= j
Latest(S) == CHOOSE i \in S : \A j \in S : i >= j

(* Where a metric occurs, and the sum of the values at some places.        *)
Own(id, ss) == {i \in DOMAIN ss : MetricOf(ss[i]) = id}
SumAt(ss, S) ==
    LET upto[k \in Nat] ==
            IF k = 0 THEN 0 ELSE upto[k - 1] + (IF k \in S THEN ValueOf(ss[k]) ELSE 0)
    IN  upto[Len(ss)]

(* What a window's samples of one metric amount to. A metric id that is    *)
(* used for several types has one entry, of the type that came first.      *)
Reference(id, ss) ==
    LET own == Own(id, ss)
        of(type) == {i \in own : ss[i].type = type}
        observed == own \ of("counter")
        vs == {ValueOf(ss[i]) : i \in observed}
        first == ss[Earliest(own)].type
        n == Cardinality(own)
        last == IF of("gauge") = {} THEN 0 ELSE ValueOf(ss[Latest(of("gauge"))])
        max == CHOOSE v \in vs \cup {-Inf} : \A w \in vs : v >= w
        min == CHOOSE v \in vs \cup {Inf} : \A w \in vs : v <= w
    IN  [id |-> id, type |-> first, count |-> Lesser(n, CountCap),
         values |-> CASE first = "counter" -> <<SumAt(ss, of("counter")) % TotalWrap>>
                      [] first = "gauge" -> <<SumAt(ss, observed), n, last, max>>
                      [] first = "histogram" -> <<SumAt(ss, observed), n, min, max>>]

(* The metrics that find a place: the first MaxMetrics that appear.        *)
Appears(id, ss) == Earliest(Own(id, ss))
Kept(ss) ==
    LET ids == {MetricOf(ss[i]) : i \in DOMAIN ss} \ {FreeId}
    IN  {id \in ids : Cardinality({o \in ids : Appears(o, ss) < Appears(id, ss)}) < MaxMetrics}

(* The batches of a window hold exactly one entry for every metric that    *)
(* had a place, with the aggregate of what the handlers read of it in this *)
(* window and of no other; only the last batch may have room left.         *)
ReportIsAggregate ==
    LET entries == {p \in (DOMAIN report) \X (1 .. PerBatch) : p[2] <= Len(report[p[1]])}
        at(p) == report[p[1]][p[2]] IN
    /\ {at(p) : p \in entries} = {Reference(id, reported) : id \in Kept(reported)}
    /\ \A p, q \in entries : at(p).id = at(q).id => p = q
    /\ \A b \in DOMAIN report : /\ Len(report[b]) \in 1 .. PerBatch
                                /\ b < Len(report) => Len(report[b]) = PerBatch

(* While the timer runs, what has been handled is reported in the end.     *)
HandledIsReported == (handled # <<>>) ~> (handled = <<>> \/ ~running)

(***************************************************************************)
(* What the code does not keep.                                            *)
(***************************************************************************)
(* What the handlers aggregate is what was published.                      *)
SamplesReadAsSent ==
    \A i \in DOMAIN reported :
        <<MetricOf(reported[i]), ValueOf(reported[i])>> = reported[i].sent
=============================================================================
