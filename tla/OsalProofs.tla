----------------------------- MODULE OsalProofs -----------------------------
(* The blocking primitives of the POSIX OSAL do what their headers promise *)
(* in every step, for any number of threads, capacity and calls: the ring  *)
(* with its sleepers is a bounded FIFO, and signals, semaphores and the    *)
(* mutex are counters. That no caller sleeps through its chance is         *)
(* liveness, and left to the runs.                                         *)
EXTENDS OsalSync, SequenceTheorems, TLAPS

AllCalls == UNION {Calls[t] : t \in Thread}

Cell == Item \cup {NoItem}

(* The items lie between head and tail, around the end of the ring.        *)
RingInv ==
    /\ buf \in [0 .. Depth - 1 -> Cell]
    /\ head \in 0 .. Depth - 1 /\ tail \in 0 .. Depth - 1 /\ count \in 0 .. Depth
    /\ tail = (head + count) % Depth

CallInv == call \in [Thread -> AllCalls \cup {Idle}]

(* Who sleeps or has run out of time is in the call that put it there, and *)
(* who is about to unlock holds the mutex.                                 *)
SyncInv ==
    /\ n \in [Counters -> Nat]
    /\ owner \in Thread \cup {NoOne}
    /\ DOMAIN parked = Counters
    /\ \A c \in Counters : \A t \in parked[c] : t \in Thread /\ Takes(t) /\ On(t) = c
    /\ \A t \in expired : t \in Thread /\ Takes(t) /\ On(t) = Mutex /\ call[t].mode = "timed"
    /\ \A t \in Thread : Gives(t) /\ On(t) = Mutex => owner = t

OsalInv == RingInv /\ CallInv /\ SyncInv

-----------------------------------------------------------------------------
(* Indices of the ring.                                                    *)

(* There is one remainder.                                                 *)
LEMMA OneRemainder ==
  ASSUME NEW w \in Nat \ {0}, NEW q \in Int, NEW r \in 0 .. w - 1
  PROVE  (w * q + r) % w = r
  OBVIOUS

(* An index runs around the ring at most once.                             *)
LEMMA Around ==
  ASSUME NEW w \in Nat \ {0}, NEW a \in 0 .. 2 * w - 1
  PROVE  a % w = IF a < w THEN a ELSE a - w
  <1>1. CASE a < w
    BY <1>1
  <1>2. CASE ~(a < w)
    <2>1. a - w \in 0 .. w - 1
      BY <1>2
    <2>2. (w * 1 + (a - w)) % w = a - w
      BY <2>1, OneRemainder
    <2>3. w * 1 + (a - w) = a
      OBVIOUS
    <2> QED
      BY <1>2, <2>2, <2>3
  <1> QED
    BY <1>1, <1>2

(* The capacity is a number.                                               *)
LEMMA Capacity == Depth \in Nat \ {0}
  BY OsalQueueAssumption DEF OsalQueueAssumption

(* Where the k-th item lies.                                               *)
At(k) == (head + k - 1) % Depth

(* The k-th item is in the ring, where head and k say.                     *)
LEMMA AtIs ==
  ASSUME RingInv, NEW k \in 1 .. Depth + 1
  PROVE  /\ At(k) = IF head + k - 1 < Depth THEN head + k - 1 ELSE (head + k - 1) - Depth
         /\ At(k) \in 0 .. Depth - 1
  <1>1. head + k - 1 \in 0 .. 2 * Depth - 1 /\ Depth \in Nat \ {0} /\ head \in 0 .. Depth - 1
    BY Capacity DEF RingInv
  <1>2. At(k) = IF head + k - 1 < Depth THEN head + k - 1 ELSE (head + k - 1) - Depth
    <2> DEFINE a == head + k - 1
    <2>1. a \in 0 .. 2 * Depth - 1
      BY <1>1
    <2> HIDE DEF a
    <2>2. a % Depth = IF a < Depth THEN a ELSE a - Depth
      BY <1>1, <2>1, Around
    <2> QED
      BY <2>2, Zenon DEF At, a
  <1> QED
    BY <1>1, <1>2

(* The contents of the ring are a sequence of items.                       *)
LEMMA ContentsAre ==
  ASSUME RingInv
  PROVE  /\ Contents \in Seq(Cell) /\ Len(Contents) = count
         /\ \A k \in 1 .. count : Contents[k] = buf[At(k)]
  <1>1. count \in 0 .. Depth /\ Depth \in Nat /\ count \in Nat
    BY Capacity DEF RingInv
  <1>2. \A k \in 1 .. count : At(k) \in 0 .. Depth - 1
    BY <1>1, AtIs
  <1>3. Contents = [k \in 1 .. count |-> buf[At(k)]]
    BY DEF Contents, At
  <1>4. Contents \in [1 .. count -> Cell]
    BY <1>2, <1>3 DEF RingInv
  <1>5. Contents \in Seq(Cell)
    BY <1>1, <1>4, SeqDef
  <1>6. Len(Contents) = count
    BY <1>1, <1>3
  <1> QED
    BY <1>3, <1>5, <1>6

-----------------------------------------------------------------------------
(* A call of the queue as the FIFO sees it.                                *)
Pending(t) == IF call[t] \in QueueCalls THEN call[t] ELSE Idle

Calling == [t \in Thread |-> Pending(t)]

(* And a call of a counter.                                                *)
Synced(t) == IF call[t] \in SyncCalls THEN call[t] ELSE Idle

Syncing == [t \in Thread |-> Synced(t)]

(* What a call is.                                                         *)
LEMMA CallsAre ==
  ASSUME CallInv, NEW t \in Thread
  PROVE  /\ call[t] \in AllCalls \/ call[t] = Idle
         /\ call[t] \in QueueCalls <=> call[t].op \in {"send", "recv"}
         /\ call[t] \in SyncCalls <=> call[t].op \in {"take", "give"}
         /\ Idle \notin QueueCalls /\ Idle \notin SyncCalls /\ Idle.op = "idle"
  <1>1. call[t] \in AllCalls \/ call[t] = Idle
    BY DEF CallInv
  <1>2. Idle.op = "idle"
    BY DEF Idle
  <1>3. Idle \notin QueueCalls /\ Idle \notin SyncCalls
    BY <1>2 DEF QueueCalls, SyncCalls
  <1>4. call[t] \in QueueCalls <=> call[t].op \in {"send", "recv"}
    BY <1>1, <1>2 DEF QueueCalls, AllCalls
  <1>5. call[t] \in SyncCalls <=> call[t].op \in {"take", "give"}
    BY <1>1, <1>2 DEF SyncCalls, AllCalls
  <1> QED
    BY <1>1, <1>2, <1>3, <1>4, <1>5

(* A call that returns is idle, and the others go on.                      *)
LEMMA Returning ==
  ASSUME CallInv, NEW t \in Thread, Return(t)
  PROVE  /\ CallInv'
         /\ Calling' = [Calling EXCEPT ![t] = Idle]
         /\ Syncing' = [Syncing EXCEPT ![t] = Idle]
         /\ call'[t] = Idle /\ \A o \in Thread \ {t} : call'[o] = call[o]
  <1>1. call' = [call EXCEPT ![t] = Idle]
    BY DEF Return
  <1>2. call'[t] = Idle /\ \A o \in Thread \ {t} : call'[o] = call[o]
    BY <1>1 DEF CallInv
  <1>3. CallInv'
    BY <1>1 DEF CallInv
  <1>4. Pending(t)' = Idle /\ \A o \in Thread \ {t} : Pending(o)' = Pending(o)
    BY <1>2 DEF Pending
  <1>5. Calling' = [Calling EXCEPT ![t] = Idle]
    BY <1>4 DEF Calling
  <1>6. Synced(t)' = Idle /\ \A o \in Thread \ {t} : Synced(o)' = Synced(o)
    BY <1>2 DEF Synced
  <1>7. Syncing' = [Syncing EXCEPT ![t] = Idle]
    BY <1>6 DEF Syncing
  <1> QED
    BY <1>2, <1>3, <1>5, <1>7

(* The FIFO calls the same thing idle.                                     *)
LEMMA FifoIdle == Fifo!Idle = Idle
  BY DEF Fifo!Idle, Idle

(* queue_send and queue_recv keep the ring.                                *)
LEMMA SendIsSend ==
  ASSUME RingInv, CallInv, NEW t \in Thread, Send(t), ~Full
  PROVE  /\ RingInv' /\ CallInv'
         /\ Fifo!Send(t)
  <1>1. /\ call[t].op = "send" /\ Return(t) /\ UNCHANGED <<head, out>>
        /\ buf' = [buf EXCEPT ![tail] = call[t].item]
        /\ tail' = (tail + 1) % Depth /\ count' = count + 1
    BY DEF Send, NextSlot
  <1>2. call[t] \in QueueCalls /\ call[t].item \in Item
    <2>1. call[t] \in AllCalls
      BY <1>1, CallsAre
    <2> QED
      BY <1>1, <2>1, CallsAre, OsalQueueAssumption DEF OsalQueueAssumption, AllCalls
  <1>3. Depth \in Nat \ {0} /\ head \in 0 .. Depth - 1 /\ count \in 0 .. Depth - 1
    BY Capacity DEF RingInv, Full
  <1>4. tail = At(count + 1)
    BY <1>3 DEF RingInv, At
  <1>5. tail' = (head + count') % Depth /\ tail' \in 0 .. Depth - 1
    <2>1. tail = IF head + count < Depth THEN head + count ELSE head + count - Depth
      BY <1>3, <1>4, AtIs
    <2>2. tail' = IF tail + 1 < Depth THEN tail + 1 ELSE (tail + 1) - Depth
      <3> DEFINE a == tail + 1
      <3>1. a \in 0 .. 2 * Depth - 1
        BY <1>3 DEF RingInv
      <3> HIDE DEF a
      <3>2. a % Depth = IF a < Depth THEN a ELSE a - Depth
        BY <1>3, <3>1, Around
      <3> QED
        BY <1>1, <3>2, Zenon DEF a
    <2>3. At(count + 2) = IF head + count + 1 < Depth THEN head + count + 1 ELSE head + count + 1 - Depth
      BY <1>3, AtIs
    <2>4. At(count + 2) = (head + count') % Depth
      BY <1>1, <1>3 DEF At
    <2> QED
      BY <1>3, <2>1, <2>2, <2>3, <2>4
  <1>6. RingInv'
    BY <1>1, <1>2, <1>3, <1>5 DEF RingInv, Cell
  <1>7. \A k \in 1 .. count : At(k) # tail
    BY <1>3, <1>4, AtIs
  <1>8. \A k : At(k)' = At(k)
    BY <1>1 DEF At
  <1>9. Contents' = Append(Contents, call[t].item)
    <2>1. /\ Contents \in Seq(Cell) /\ Len(Contents) = count
          /\ \A k \in 1 .. count : Contents[k] = buf[At(k)]
      BY ContentsAre
    <2>2. /\ Contents' \in Seq(Cell) /\ Len(Contents') = count + 1
          /\ \A k \in 1 .. count + 1 : Contents'[k] = buf'[At(k)]
      <3>1. (/\ Contents \in Seq(Cell) /\ Len(Contents) = count
             /\ \A k \in 1 .. count : Contents[k] = buf[At(k)])'
        BY <1>6, ContentsAre, PTL
      <3> QED
        BY <1>1, <1>8, <3>1 DEF Cell
    <2>3. buf'[tail] = call[t].item
      BY <1>1 DEF RingInv
    <2>4. \A k \in 1 .. count : buf'[At(k)] = buf[At(k)]
      <3>1. \A k \in 1 .. count : At(k) \in 0 .. Depth - 1
        BY <1>3, AtIs
      <3> QED
        BY <1>1, <1>7, <3>1 DEF RingInv
    <2> DEFINE c == Contents
               d == Append(Contents, call[t].item)
    <2>5. /\ d \in Seq(Cell) /\ Len(d) = count + 1
          /\ \A k \in 1 .. count : d[k] = c[k]
          /\ d[count + 1] = call[t].item
      BY <1>2, <2>1, AppendProperties DEF Cell
    <2> HIDE DEF d
    <2>6. \A k \in 1 .. count + 1 : Contents'[k] = d[k]
      BY <1>3, <1>4, <2>1, <2>2, <2>3, <2>4, <2>5
    <2>7. Contents' = d
      BY <2>2, <2>5, <2>6, SeqEqual
    <2> QED
      BY <2>7 DEF d
  <1>10. Calling[t] = call[t]
    BY <1>2 DEF Calling, Pending
  <1>11. Len(Contents) < Depth
    BY <1>3, ContentsAre
  <1> QED
    BY <1>1, <1>6, <1>9, <1>10, <1>11, Returning, FifoIdle DEF Fifo!Send, Calling, Pending

(* The item that is received is the oldest, and the others stay in order.  *)
LEMMA RecvIsRecv ==
  ASSUME RingInv, CallInv, NEW t \in Thread, Recv(t), count # 0
  PROVE  /\ RingInv' /\ CallInv'
         /\ Fifo!Recv(t)
  <1>1. /\ call[t].op = "recv" /\ Return(t) /\ UNCHANGED <<buf, tail>>
        /\ out' = [out EXCEPT ![t] = buf[head]]
        /\ head' = (head + 1) % Depth /\ count' = count - 1
    BY DEF Recv, NextSlot
  <1>2. call[t] \in QueueCalls
    BY <1>1, CallsAre
  <1>3. Depth \in Nat \ {0} /\ head \in 0 .. Depth - 1 /\ count \in 1 .. Depth
    BY Capacity DEF RingInv
  <1>4. /\ head' = IF head + 1 < Depth THEN head + 1 ELSE (head + 1) - Depth
        /\ head' \in 0 .. Depth - 1
    <2>1. head' = IF head + 1 < Depth THEN head + 1 ELSE (head + 1) - Depth
      <3> DEFINE a == head + 1
      <3>1. a \in 0 .. 2 * Depth - 1
        BY <1>3
      <3> HIDE DEF a
      <3>2. a % Depth = IF a < Depth THEN a ELSE a - Depth
        BY <1>3, <3>1, Around
      <3> QED
        BY <1>1, <3>2, Zenon DEF a
    <2> QED
      BY <1>3, <2>1
  <1>5. \A k \in 1 .. Depth : At(k)' = At(k + 1)
    <2> SUFFICES ASSUME NEW k \in 1 .. Depth
                 PROVE  At(k)' = At(k + 1)
      OBVIOUS
    <2> DEFINE a == head' + k - 1
               b == head + (k + 1) - 1
    <2>1. At(k)' = a % Depth /\ At(k + 1) = b % Depth
      BY DEF At
    <2>2. a \in 0 .. 2 * Depth - 1 /\ b \in 0 .. 2 * Depth - 1
      BY <1>3, <1>4
    <2>3. b = a \/ b = a + Depth
      BY <1>3, <1>4
    <2> HIDE DEF a, b
    <2>4. /\ a % Depth = IF a < Depth THEN a ELSE a - Depth
          /\ b % Depth = IF b < Depth THEN b ELSE b - Depth
      BY <1>3, <2>2, Around
    <2>5. a % Depth = b % Depth
      BY <1>3, <2>2, <2>3, <2>4
    <2> QED
      BY <2>1, <2>5
  <1>6. RingInv'
    <2>1. (head' + count') % Depth = (head + count) % Depth
      <3> DEFINE a == head' + (count - 1)
                 b == head + count
      <3>1. a \in 0 .. 2 * Depth - 1 /\ b \in 0 .. 2 * Depth - 1
        BY <1>3, <1>4
      <3>2. b = a \/ b = a + Depth
        BY <1>3, <1>4
      <3> HIDE DEF a, b
      <3>3. /\ a % Depth = IF a < Depth THEN a ELSE a - Depth
            /\ b % Depth = IF b < Depth THEN b ELSE b - Depth
        BY <1>3, <3>1, Around
      <3>4. a % Depth = b % Depth
        BY <1>3, <3>1, <3>2, <3>3
      <3> QED
        BY <1>1, <3>4 DEF a, b
    <2> QED
      BY <1>1, <1>3, <1>4, <2>1 DEF RingInv
  <1>7. Head(Contents) = buf[head]
    <2>1. Contents[1] = buf[At(1)] /\ Contents \in Seq(Cell) /\ Len(Contents) # 0
      BY <1>3, ContentsAre
    <2>2. At(1) = head
      BY <1>3, AtIs
    <2> QED
      BY <2>1, <2>2
  <1>8. Contents' = Tail(Contents) /\ Contents # <<>>
    <2>1. /\ Contents \in Seq(Cell) /\ Len(Contents) = count
          /\ \A k \in 1 .. count : Contents[k] = buf[At(k)]
      BY ContentsAre
    <2>2. /\ Contents' \in Seq(Cell) /\ Len(Contents') = count - 1
          /\ \A k \in 1 .. count - 1 : Contents'[k] = buf[At(k + 1)]
      <3>1. (/\ Contents \in Seq(Cell) /\ Len(Contents) = count
             /\ \A k \in 1 .. count : Contents[k] = buf[At(k)])'
        BY <1>6, ContentsAre, PTL
      <3>2. \A k \in 1 .. count - 1 : Contents'[k] = buf[At(k)']
        BY <1>1, <3>1
      <3>3. \A k \in 1 .. count - 1 : At(k)' = At(k + 1)
        BY <1>3, <1>5
      <3> QED
        BY <1>1, <3>1, <3>2, <3>3 DEF Cell
    <2> DEFINE c == Contents
               d == Tail(Contents)
    <2>3. c # <<>>
      BY <1>3, <2>1, EmptySeq
    <2>4. /\ d \in Seq(Cell) /\ Len(d) = count - 1
          /\ \A k \in 1 .. count - 1 : d[k] = c[k + 1]
      BY <2>1, <2>3, HeadTailProperties
    <2> HIDE DEF d
    <2>5. \A k \in 1 .. count - 1 : Contents'[k] = d[k]
      BY <1>3, <2>1, <2>2, <2>4
    <2>6. Contents' = d
      BY <2>2, <2>4, <2>5, SeqEqual
    <2> QED
      BY <2>3, <2>6 DEF d
  <1>9. Calling[t] = call[t]
    BY <1>2 DEF Calling, Pending
  <1> QED
    BY <1>1, <1>6, <1>7, <1>8, <1>9, Returning, FifoIdle DEF Fifo!Recv, Calling, Pending

(* A queue call that comes to nothing: it starts, sleeps, wakes for no     *)
(* reason, or returns a timeout the FIFO allows.                           *)
LEMMA QueueStepIs ==
  ASSUME RingInv, CallInv, Next
  PROVE  /\ RingInv' /\ CallInv'
         /\ [Fifo!Next]_(Fifo!vars)
  <1>1. PICK t \in Thread : Start(t) \/ Send(t) \/ Recv(t) \/ GiveUp(t) \/ SpuriousWake(t)
    BY DEF Next
  <1>2. ASSUME UNCHANGED <<buf, head, tail, count>>
        PROVE  RingInv' /\ Contents' = Contents
    BY <1>2 DEF RingInv, Contents
  <1>3. ASSUME UNCHANGED call
        PROVE  CallInv' /\ Calling' = Calling
    BY <1>3 DEF CallInv, Calling, Pending
  <1>4. ASSUME UNCHANGED <<buf, head, tail, count, out>>, Return(t), Calling[t] # Idle,
               \/ call[t].mode = "timed"
               \/ call[t].mode = "zero" /\ call[t].op = "send" /\ count = Depth
               \/ call[t].mode = "zero" /\ call[t].op = "recv" /\ count = 0
        PROVE  RingInv' /\ CallInv' /\ Fifo!Timeout(t)
    <2>1. RingInv' /\ CallInv' /\ Contents' = Contents /\ Calling' = [Calling EXCEPT ![t] = Idle]
      BY <1>2, <1>4, Returning
    <2>2. Calling[t] = call[t]
      BY <1>4 DEF Calling, Pending
    <2>3. Len(Contents) = count /\ (count = 0 => Contents = <<>>)
      BY ContentsAre, EmptySeq
    <2> QED
      BY <1>4, <2>1, <2>2, <2>3, FifoIdle DEF Fifo!Timeout, Calling, Pending
  <1>5. CASE Start(t)
    <2>1. PICK c \in Calls[t] : /\ c.op \in {"send", "recv"} /\ call' = [call EXCEPT ![t] = c]
                                /\ call[t] = Idle /\ UNCHANGED <<buf, head, tail, count, out>>
      BY <1>5 DEF Start
    <2>2. c \in AllCalls /\ c \in QueueCalls /\ c \in Calls[t] \cap QueueCalls
      BY <2>1 DEF AllCalls, QueueCalls
    <2>3. CallInv' /\ call'[t] = c /\ \A o \in Thread \ {t} : call'[o] = call[o]
      BY <2>1, <2>2 DEF CallInv
    <2>4. Pending(t)' = c /\ \A o \in Thread \ {t} : Pending(o)' = Pending(o)
      BY <2>2, <2>3 DEF Pending
    <2>5. Calling' = [Calling EXCEPT ![t] = c] /\ Calling[t] = Idle
      BY <2>1, <2>4 DEF Calling, Pending
    <2>6. Fifo!Start(t)
      BY <1>2, <2>1, <2>2, <2>5, FifoIdle DEF Fifo!Start, Calling, Pending
    <2> QED
      BY <1>2, <2>1, <2>3, <2>6 DEF Fifo!Next
  <1>6. CASE Send(t)
    <2>1. CASE ~Full
      BY <1>6, <2>1, SendIsSend DEF Fifo!Next
    <2>2. CASE Full /\ call[t].mode = "zero"
      <3>1. Return(t) /\ UNCHANGED <<buf, head, tail, count, out>> /\ call[t].op = "send"
        BY <1>6, <2>2 DEF Send
      <3>2. count = Depth
        BY <2>2, Capacity DEF Full, RingInv
      <3>3. Calling[t] # Idle
        BY <3>1, CallsAre DEF Calling, Pending
      <3> QED
        BY <1>4, <2>2, <3>1, <3>2, <3>3 DEF Fifo!Next
    <2>3. CASE Full /\ call[t].mode # "zero"
      <3>1. UNCHANGED <<buf, head, tail, count, call, out>>
        BY <1>6, <2>3 DEF Send
      <3> QED
        BY <1>2, <1>3, <3>1 DEF Fifo!vars, Calling, Pending
    <2> QED
      BY <2>1, <2>2, <2>3
  <1>7. CASE Recv(t)
    <2>1. CASE count # 0
      BY <1>7, <2>1, RecvIsRecv DEF Fifo!Next
    <2>2. CASE count = 0 /\ call[t].mode = "zero"
      <3>1. Return(t) /\ UNCHANGED <<buf, head, tail, count, out>> /\ call[t].op = "recv"
        BY <1>7, <2>2 DEF Recv
      <3>2. Calling[t] # Idle
        BY <3>1, CallsAre DEF Calling, Pending
      <3> QED
        BY <1>4, <2>2, <3>1, <3>2 DEF Fifo!Next
    <2>3. CASE count = 0 /\ call[t].mode # "zero"
      <3>1. UNCHANGED <<buf, head, tail, count, call, out>>
        BY <1>7, <2>3 DEF Recv
      <3> QED
        BY <1>2, <1>3, <3>1 DEF Fifo!vars, Calling, Pending
    <2> QED
      BY <2>1, <2>2, <2>3
  <1>8. CASE GiveUp(t)
    <2>1. /\ call[t].op \in {"send", "recv"} /\ call[t].mode = "timed" /\ Return(t)
          /\ UNCHANGED <<buf, head, tail, count, out>>
      BY <1>8 DEF GiveUp
    <2>2. Calling[t] # Idle
      BY <2>1, CallsAre DEF Calling, Pending
    <2> QED
      BY <1>4, <2>1, <2>2 DEF Fifo!Next
  <1>9. CASE SpuriousWake(t)
    BY <1>2, <1>3, <1>9 DEF SpuriousWake, Fifo!vars, Calling, Pending
  <1> QED
    BY <1>1, <1>5, <1>6, <1>7, <1>8, <1>9

-----------------------------------------------------------------------------
(* Signals, semaphores and the mutex.                                      *)

(* The value the counter specification sees.                               *)
Value == [c \in Counters \cup {Mutex} |-> IF c = Mutex THEN IF Unowned THEN 1 ELSE 0 ELSE n[c]]

(* The limit of a counter; a mutex is locked once.                         *)
LimitOf == [c \in Counters \cup {Mutex} |-> IF c = Mutex THEN 1 ELSE Limit[c]]

(* The counters call the same thing idle.                                  *)
LEMMA CounterIdle == Counted!Idle = Idle
  BY DEF Counted!Idle, Idle

(* What is called is a counter or the mutex, which is none of them.        *)
LEMMA OnIs ==
  ASSUME CallInv, NEW t \in Thread, Takes(t) \/ Gives(t)
  PROVE  /\ call[t] \in AllCalls /\ On(t) \in Counters \cup {Mutex}
         /\ Syncing[t] = call[t] /\ Mutex \notin Counters /\ Idle # call[t]
  <1>1. call[t].op \in {"take", "give"}
    BY DEF Takes, Gives
  <1>2. call[t] \in AllCalls /\ call[t] \in SyncCalls
    BY <1>1, CallsAre
  <1>3. On(t) \in Counters \cup {Mutex}
    BY <1>1, <1>2, OsalSyncAssumption DEF OsalSyncAssumption, AllCalls, On
  <1> QED
    BY <1>1, <1>2, <1>3, CallsAre, OsalSyncAssumption DEF OsalSyncAssumption, Syncing, Synced

(* A return by one thread leaves what is said of the others.               *)
LEMMA ReturnKeepsSync ==
  ASSUME SyncInv, CallInv, NEW t \in Thread, Return(t),
         n' \in [Counters -> Nat],
         DOMAIN parked' = Counters, \A c \in Counters : parked'[c] \subseteq parked[c] \ {t},
         expired' \subseteq expired \ {t},
         owner' \in Thread \cup {NoOne},
         \A o \in Thread \ {t} : Gives(o) /\ On(o) = Mutex => owner' = owner
  PROVE  SyncInv'
  <1>1. call'[t] = Idle /\ \A o \in Thread \ {t} : call'[o] = call[o]
    BY Returning
  <1>2. Idle.op = "idle"
    BY DEF Idle
  <1>3. \A o \in Thread \ {t} : (Takes(o)' <=> Takes(o)) /\ (Gives(o)' <=> Gives(o)) /\ On(o)' = On(o)
    BY <1>1 DEF Takes, Gives, On
  <1>4. \A c \in Counters : \A o \in parked'[c] : o \in Thread \ {t} /\ Takes(o)' /\ On(o)' = c
    BY <1>3 DEF SyncInv
  <1>5. \A o \in expired' : o \in Thread \ {t} /\ Takes(o)' /\ On(o)' = Mutex /\ call'[o].mode = "timed"
    BY <1>1, <1>3 DEF SyncInv
  <1>6. \A o \in Thread : Gives(o)' /\ On(o)' = Mutex => owner' = o
    <2>1. ~Gives(t)'
      BY <1>1, <1>2 DEF Gives
    <2> QED
      BY <1>3, <2>1 DEF SyncInv
  <1> QED
    BY <1>4, <1>5, <1>6 DEF SyncInv

(* A thread in a call of a counter is parked at most there, and one that   *)
(* is parked has not expired.                                              *)
LEMMA WhereItSleeps ==
  ASSUME SyncInv, NEW t \in Thread
  PROVE  /\ Gives(t) => ~Parked(t) /\ t \notin expired
         /\ Takes(t) /\ On(t) = Mutex => \A c \in Counters : c # Mutex => t \notin parked[c]
         /\ Takes(t) /\ On(t) # Mutex => t \notin expired
         /\ ~Takes(t) => ~Parked(t) /\ t \notin expired
  BY DEF SyncInv, Parked, Takes, Gives

(* A wait that takes effect, or is refused at once because the count is 0. *)
LEMMA WaitIs ==
  ASSUME SyncInv, CallInv, NEW t \in Thread, Wait(t)
  PROVE  /\ SyncInv' /\ CallInv'
         /\ [Counted!Next]_(Counted!vars)
  <1>1. /\ Takes(t) /\ On(t) \in Counters /\ On(t) # Mutex /\ ~Parked(t)
        /\ UNCHANGED <<owner, expired>> /\ Syncing[t] = call[t] /\ Idle # call[t]
    BY OnIs DEF Wait
  <1>2. Value' = [c \in Counters \cup {Mutex} |-> IF c = Mutex THEN Value[Mutex] ELSE n'[c]]
    BY <1>1 DEF Value, Unowned
  <1>3. Value[On(t)] = n[On(t)] /\ n[On(t)] \in Nat /\ n \in [Counters -> Nat]
    BY <1>1 DEF Value, SyncInv
  <1>4. CASE n[On(t)] = 0 /\ call[t].mode = "zero"
    <2>1. Return(t) /\ UNCHANGED <<n, parked>>
      BY <1>4 DEF Wait
    <2>2. \A c \in Counters : parked[c] \subseteq parked[c] \ {t}
      BY <1>1 DEF Parked
    <2>3. SyncInv'
      BY <1>1, <2>1, <2>2, WhereItSleeps, ReturnKeepsSync DEF SyncInv
    <2>4. Value' = Value
      BY <1>1, <2>1 DEF Value, Unowned
    <2>5. Counted!Refuse(t)
      BY <1>1, <1>3, <1>4, <2>1, <2>4, Returning, CounterIdle
         DEF Counted!Refuse, Counted!Return, Value, Syncing, Synced, Takes, On
    <2> QED
      BY <2>1, <2>3, <2>5, Returning DEF Counted!Next
  <1>5. CASE n[On(t)] = 0 /\ call[t].mode # "zero"
    <2>1. UNCHANGED <<n, call, owner, expired>> /\ parked' = [parked EXCEPT ![On(t)] = @ \cup {t}]
      BY <1>1, <1>5 DEF Wait
    <2>2. \A o : (Takes(o)' <=> Takes(o)) /\ (Gives(o)' <=> Gives(o)) /\ On(o)' = On(o)
      BY <2>1 DEF Takes, Gives, On
    <2>3. SyncInv'
      BY <1>1, <2>1, <2>2 DEF SyncInv
    <2>4. CallInv' /\ UNCHANGED Counted!vars
      BY <2>1 DEF CallInv, Counted!vars, Unowned
    <2> QED
      BY <2>3, <2>4
  <1>6. CASE n[On(t)] # 0
    <2>1. Return(t) /\ UNCHANGED parked /\ n' = [n EXCEPT ![On(t)] = @ - 1]
      BY <1>6 DEF Wait
    <2>2. \A c \in Counters : parked[c] \subseteq parked[c] \ {t}
      BY <1>1 DEF Parked
    <2>3. n' \in [Counters -> Nat]
      BY <1>1, <1>3, <1>6, <2>1
    <2>4. SyncInv'
      BY <1>1, <2>1, <2>2, <2>3, WhereItSleeps, ReturnKeepsSync DEF SyncInv
    <2>5. Value' = [Value EXCEPT ![On(t)] = @ - 1]
      BY <1>1, <1>2, <1>3, <2>1 DEF Value
    <2>6. Counted!Take(t)
      <3>1. Syncing[t].op = "take" /\ Syncing[t].on = On(t)
        BY <1>1 DEF Takes, On
      <3>2. Value[Syncing[t].on] > 0
        BY <1>3, <1>6, <3>1
      <3>3. Value' = [Value EXCEPT ![Syncing[t].on] = @ - 1]
        BY <2>5, <3>1
      <3>4. Syncing' = [Syncing EXCEPT ![t] = Counted!Idle]
        BY <2>1, Returning, CounterIdle
      <3> QED
        BY <3>1, <3>2, <3>3, <3>4, Zenon DEF Counted!Take, Counted!Return, Value, Syncing, Synced
    <2> QED
      BY <2>1, <2>4, <2>6, Returning DEF Counted!Next
  <1> QED
    BY <1>4, <1>5, <1>6

(* A post counts up to the limit, whoever it wakes.                        *)
LEMMA PostIs ==
  ASSUME SyncInv, CallInv, NEW t \in Thread, Post(t)
  PROVE  /\ SyncInv' /\ CallInv'
         /\ [Counted!Next]_(Counted!vars)
  <1>1. /\ Gives(t) /\ On(t) \in Counters /\ On(t) # Mutex /\ Return(t)
        /\ UNCHANGED <<owner, expired>>
    BY OnIs DEF Post
  <1>2. ~Parked(t) /\ t \notin expired
    BY <1>1, WhereItSleeps
  <1>3. /\ n \in [Counters -> Nat] /\ DOMAIN parked = Counters
        /\ Limit[On(t)] \in Nat /\ Value[On(t)] = n[On(t)] /\ LimitOf[On(t)] = Limit[On(t)]
    BY <1>1, OsalSyncAssumption DEF OsalSyncAssumption, SyncInv, Value, LimitOf
  <1>4. DOMAIN parked' = Counters /\ \A c \in Counters : parked'[c] \subseteq parked[c] \ {t}
    <2>1. \/ parked' = parked
          \/ \E w : parked' = [parked EXCEPT ![On(t)] = @ \ {w}]
      BY <1>1 DEF Post, Wake
    <2>2. \A c \in Counters : t \notin parked[c]
      BY <1>2 DEF Parked
    <2> QED
      BY <1>3, <2>1, <2>2
  <1>5. n' = [n EXCEPT ![On(t)] = IF LimitOf[On(t)] # 0 /\ @ >= LimitOf[On(t)] THEN @ ELSE @ + 1]
    <2>1. Below(On(t)) <=> ~(LimitOf[On(t)] # 0 /\ n[On(t)] >= LimitOf[On(t)])
      BY <1>1, <1>3 DEF Below
    <2>2. CASE Below(On(t))
      <3>1. n' = [n EXCEPT ![On(t)] = @ + 1]
        BY <2>2 DEF Post
      <3> QED
        BY <2>1, <2>2, <3>1
    <2>3. CASE ~Below(On(t))
      <3>1. n' = n
        BY <2>3 DEF Post
      <3> QED
        BY <1>1, <1>3, <2>1, <2>3, <3>1
    <2> QED
      BY <2>2, <2>3
  <1>6. n' \in [Counters -> Nat]
    BY <1>1, <1>3, <1>5
  <1>7. SyncInv'
    BY <1>1, <1>2, <1>4, <1>6, ReturnKeepsSync DEF SyncInv
  <1>8. Counted!Give(t)
    <2>1. Syncing[t].op = "give" /\ Syncing[t].on = On(t)
      BY <1>1, OnIs DEF Gives, On
    <2>2. Value' = [Value EXCEPT ![On(t)] =
                      IF LimitOf[On(t)] # 0 /\ @ >= LimitOf[On(t)] THEN @ ELSE @ + 1]
      <3>1. \A c \in Counters : c # Mutex
        BY <1>1, OnIs
      <3>2. Value' = [c \in Counters \cup {Mutex} |-> IF c = Mutex THEN Value[Mutex] ELSE n'[c]]
        BY <1>1 DEF Value, Unowned
      <3> DEFINE x == IF LimitOf[On(t)] # 0 /\ n[On(t)] >= LimitOf[On(t)] THEN n[On(t)] ELSE n[On(t)] + 1
      <3>3. n' = [n EXCEPT ![On(t)] = x]
        BY <1>5
      <3> HIDE DEF x
      <3>4. Value' = [Value EXCEPT ![On(t)] = x]
        BY <1>1, <1>3, <3>1, <3>2, <3>3 DEF Value
      <3> QED
        BY <1>3, <3>4 DEF x
    <2>3. Value' = [Value EXCEPT ![Syncing[t].on] =
                      IF LimitOf[Syncing[t].on] # 0 /\ @ >= LimitOf[Syncing[t].on] THEN @ ELSE @ + 1]
      BY <2>1, <2>2
    <2>4. Syncing' = [Syncing EXCEPT ![t] = Counted!Idle]
      BY <1>1, Returning, CounterIdle
    <2> QED
      BY <2>1, <2>3, <2>4, Zenon DEF Counted!Give, Counted!Return, Value, Syncing, Synced, LimitOf
  <1> QED
    BY <1>1, <1>7, <1>8, Returning DEF Counted!Next

(* A timeout of a wait for a counter; a wake-up for no reason.             *)
LEMMA SleepEndIs ==
  ASSUME SyncInv, CallInv, NEW t \in Thread, SyncTimeout(t) \/ SyncSpuriousWake(t)
  PROVE  /\ SyncInv' /\ CallInv'
         /\ [Counted!Next]_(Counted!vars)
  <1>1. /\ UNCHANGED <<n, owner, expired>> /\ Parked(t)
        /\ parked' = [c \in Counters |-> parked[c] \ {t}]
    BY DEF SyncTimeout, SyncSpuriousWake
  <1>2. Value' = Value
    BY <1>1 DEF Value, Unowned
  <1>3. CASE SyncTimeout(t)
    <2>1. Takes(t) /\ call[t].mode = "timed" /\ Return(t)
      BY <1>3 DEF SyncTimeout
    <2>2. On(t) # Mutex
      BY <1>1, <2>1, OnIs DEF Parked, SyncInv
    <2>3. SyncInv'
      BY <1>1, <2>1, <2>2, WhereItSleeps, ReturnKeepsSync DEF SyncInv
    <2>4. Counted!Refuse(t)
      <3>1. Syncing[t].op = "take" /\ Syncing[t].mode = "timed"
        BY <2>1, OnIs DEF Takes
      <3>2. Syncing' = [Syncing EXCEPT ![t] = Counted!Idle]
        BY <2>1, Returning, CounterIdle
      <3> QED
        BY <1>2, <3>1, <3>2, Zenon DEF Counted!Refuse, Counted!Return, Value, Syncing, Synced
    <2> QED
      BY <2>1, <2>3, <2>4, Returning DEF Counted!Next
  <1>4. CASE SyncSpuriousWake(t)
    <2>1. UNCHANGED call
      BY <1>4 DEF SyncSpuriousWake
    <2>2. \A o : (Takes(o)' <=> Takes(o)) /\ (Gives(o)' <=> Gives(o)) /\ On(o)' = On(o)
      BY <2>1 DEF Takes, Gives, On
    <2>3. SyncInv'
      BY <1>1, <2>1, <2>2 DEF SyncInv
    <2>4. CallInv' /\ UNCHANGED Counted!vars
      BY <1>1, <2>1 DEF CallInv, Counted!vars, Unowned
    <2> QED
      BY <2>3, <2>4
  <1> QED
    BY <1>3, <1>4

(* Locking takes the mutex or is refused while another thread holds it, or *)
(* after the deadline.                                                     *)
LEMMA LockIs ==
  ASSUME SyncInv, CallInv, NEW t \in Thread, Lock(t)
  PROVE  /\ SyncInv' /\ CallInv'
         /\ [Counted!Next]_(Counted!vars)
  <1>1. /\ Takes(t) /\ On(t) = Mutex /\ Return(t)
        /\ UNCHANGED <<n, parked>> /\ expired' = expired \ {t}
    BY DEF Lock
  <1>2. Mutex \notin Counters /\ NoOne \notin Thread /\ Syncing[t] = call[t]
    BY <1>1, OnIs, OsalSyncAssumption DEF OsalSyncAssumption
  <1>3. \A c \in Counters : parked[c] \subseteq parked[c] \ {t}
    BY <1>1, <1>2, WhereItSleeps
  <1>4. Syncing' = [Syncing EXCEPT ![t] = Counted!Idle]
    BY <1>1, Returning, CounterIdle
  <1>5. Syncing[t].op = "take" /\ Syncing[t].on = Mutex /\ Syncing[t].mode = call[t].mode
    BY <1>1, <1>2 DEF Takes, On
  <1>6. CASE Unowned /\ owner' = t
    <2>1. \A o \in Thread : ~(Gives(o) /\ On(o) = Mutex)
      BY <1>2, <1>6 DEF SyncInv, Unowned
    <2>2. SyncInv'
      BY <1>1, <1>3, <1>6, <2>1, ReturnKeepsSync DEF SyncInv
    <2>3. Value[Mutex] = 1
      BY <1>6 DEF Value
    <2>4. Value' = [Value EXCEPT ![Syncing[t].on] = @ - 1]
      <3>1. Value' = [Value EXCEPT ![Mutex] = 0]
        BY <1>1, <1>2, <1>6 DEF Value, Unowned
      <3> QED
        BY <1>5, <2>3, <3>1
    <2>5. Value[Syncing[t].on] > 0
      BY <1>5, <2>3
    <2>6. Counted!Take(t)
      BY <1>4, <1>5, <2>4, <2>5, Zenon DEF Counted!Take, Counted!Return, Value, Syncing, Synced
    <2> QED
      BY <1>1, <2>2, <2>6, Returning DEF Counted!Next
  <1>7. CASE ~Unowned /\ (call[t].mode = "zero" \/ t \in expired) /\ UNCHANGED owner
    <2>1. SyncInv'
      BY <1>1, <1>3, <1>7, ReturnKeepsSync DEF SyncInv
    <2>2. Value' = Value /\ Value[Mutex] = 0
      BY <1>1, <1>7 DEF Value, Unowned
    <2>3. Syncing[t].mode = "timed" \/ (Syncing[t].mode = "zero" /\ Value[Syncing[t].on] = 0)
      BY <1>5, <1>7, <2>2 DEF SyncInv
    <2>4. Counted!Refuse(t)
      BY <1>4, <1>5, <2>2, <2>3, Zenon DEF Counted!Refuse, Counted!Return, Value, Syncing, Synced
    <2> QED
      BY <1>1, <2>1, <2>4, Returning DEF Counted!Next
  <1> QED
    BY <1>6, <1>7 DEF Lock

(* Unlocking gives the mutex back.                                         *)
LEMMA UnlockIs ==
  ASSUME SyncInv, CallInv, NEW t \in Thread, Unlock(t)
  PROVE  /\ SyncInv' /\ CallInv'
         /\ [Counted!Next]_(Counted!vars)
  <1>1. /\ Gives(t) /\ On(t) = Mutex /\ Return(t) /\ owner' = NoOne
        /\ UNCHANGED <<n, parked, expired>>
    BY DEF Unlock
  <1>2. Mutex \notin Counters /\ NoOne \notin Thread /\ Syncing[t] = call[t]
    BY <1>1, OnIs, OsalSyncAssumption DEF OsalSyncAssumption
  <1>3. owner = t
    BY <1>1 DEF SyncInv
  <1>4. SyncInv'
    <2>1. \A o \in Thread \ {t} : ~(Gives(o) /\ On(o) = Mutex)
      BY <1>3 DEF SyncInv
    <2>2. ~Parked(t) /\ t \notin expired
      BY <1>1, WhereItSleeps
    <2>3. \A c \in Counters : parked[c] \subseteq parked[c] \ {t}
      BY <2>2 DEF Parked
    <2> QED
      BY <1>1, <2>1, <2>2, <2>3, ReturnKeepsSync DEF SyncInv
  <1>5. Value[Mutex] = 0 /\ LimitOf[Mutex] = 1
    BY <1>2, <1>3 DEF Value, Unowned, LimitOf
  <1>6. Syncing[t].op = "give" /\ Syncing[t].on = Mutex
    BY <1>1, <1>2 DEF Gives, On
  <1>7. Value' = [Value EXCEPT ![Syncing[t].on] =
                    IF LimitOf[Syncing[t].on] # 0 /\ @ >= LimitOf[Syncing[t].on] THEN @ ELSE @ + 1]
    <2>1. Value' = [Value EXCEPT ![Mutex] = 1]
      BY <1>1, <1>2, <1>3 DEF Value, Unowned
    <2>2. (IF LimitOf[Mutex] # 0 /\ Value[Mutex] >= LimitOf[Mutex] THEN Value[Mutex] ELSE Value[Mutex] + 1) = 1
      BY <1>5
    <2> QED
      BY <1>6, <2>1, <2>2
  <1>8. Syncing' = [Syncing EXCEPT ![t] = Counted!Idle]
    BY <1>1, Returning, CounterIdle
  <1>9. Counted!Give(t)
    BY <1>6, <1>7, <1>8, Zenon DEF Counted!Give, Counted!Return, Value, Syncing, Synced, LimitOf
  <1> QED
    BY <1>1, <1>4, <1>9, Returning DEF Counted!Next

(* A deadline passes; a call starts.                                       *)
LEMMA SyncCallIs ==
  ASSUME SyncInv, CallInv, NEW t \in Thread, Deadline(t) \/ SyncStart(t)
  PROVE  /\ SyncInv' /\ CallInv'
         /\ [Counted!Next]_(Counted!vars)
  <1>1. CASE Deadline(t)
    <2>1. /\ UNCHANGED <<n, parked, owner, call>> /\ expired' = expired \cup {t}
          /\ Takes(t) /\ On(t) = Mutex /\ call[t].mode = "timed"
      BY <1>1 DEF Deadline
    <2>2. \A o : (Takes(o)' <=> Takes(o)) /\ (Gives(o)' <=> Gives(o)) /\ On(o)' = On(o)
      BY <2>1 DEF Takes, Gives, On
    <2>3. SyncInv'
      BY <2>1, <2>2 DEF SyncInv
    <2>4. CallInv' /\ UNCHANGED Counted!vars
      BY <2>1 DEF CallInv, Counted!vars, Unowned
    <2> QED
      BY <2>3, <2>4
  <1>2. CASE SyncStart(t)
    <2>1. PICK c \in Calls[t] :
            /\ c.op \in {"take", "give"} /\ call' = [call EXCEPT ![t] = c] /\ call[t] = Idle
            /\ c.on = Mutex => (c.op = "give" <=> owner = t)
            /\ UNCHANGED <<n, parked, owner, expired>>
      BY <1>2 DEF SyncStart, syncVars
    <2>2. c \in AllCalls /\ c \in SyncCalls /\ c \in Calls[t] \cap SyncCalls
      BY <2>1 DEF AllCalls, SyncCalls
    <2>3. CallInv' /\ call'[t] = c /\ \A o \in Thread \ {t} : call'[o] = call[o]
      BY <2>1, <2>2 DEF CallInv
    <2>4. ~Takes(t) /\ ~Gives(t)
      BY <2>1 DEF Takes, Gives, Idle
    <2>5. \A o \in Thread \ {t} : (Takes(o)' <=> Takes(o)) /\ (Gives(o)' <=> Gives(o)) /\ On(o)' = On(o)
      BY <2>3 DEF Takes, Gives, On
    <2>6. Gives(t)' /\ On(t)' = Mutex => owner = t
      BY <2>1, <2>3 DEF Gives, On
    <2>7. /\ \A d \in Counters : \A o \in parked[d] : o \in Thread \ {t}
          /\ \A o \in expired : o \in Thread \ {t}
      BY <2>4 DEF SyncInv
    <2>8. SyncInv'
      BY <2>1, <2>3, <2>5, <2>6, <2>7 DEF SyncInv
    <2>9. Synced(t)' = c /\ \A o \in Thread \ {t} : Synced(o)' = Synced(o)
      BY <2>2, <2>3 DEF Synced
    <2>10. Syncing' = [Syncing EXCEPT ![t] = c] /\ Syncing[t] = Counted!Idle
      BY <2>1, <2>9, CounterIdle DEF Syncing, Synced
    <2>11. Value' = Value
      BY <2>1 DEF Value, Unowned
    <2>12. c \in [o \in Thread |-> Calls[o] \cap SyncCalls][t]
      BY <2>2
    <2>13. Counted!Start(t)
      BY <2>10, <2>11, <2>12, Zenon DEF Counted!Start, Value, Syncing, Synced
    <2> QED
      BY <2>3, <2>8, <2>13 DEF Counted!Next
  <1> QED
    BY <1>1, <1>2

-----------------------------------------------------------------------------
(* The OSAL.                                                               *)

(* A step of the queue is none of the counters, and the other way round.   *)
LEMMA StepIs ==
  ASSUME OsalInv, [OsalNext]_osalVars
  PROVE  /\ OsalInv'
         /\ [Fifo!Next]_(Fifo!vars) /\ [Counted!Next]_(Counted!vars)
  <1>1. CASE UNCHANGED osalVars
    <2>1. UNCHANGED <<buf, head, tail, count, call, out, n, parked, owner, expired>>
      BY <1>1 DEF osalVars, vars, syncVars
    <2>2. OsalInv'
      BY <2>1 DEF OsalInv, RingInv, CallInv, SyncInv, Takes, Gives, On
    <2>3. UNCHANGED Fifo!vars /\ UNCHANGED Counted!vars
      BY <2>1 DEF Fifo!vars, Counted!vars, Contents, Unowned
    <2> QED
      BY <2>2, <2>3
  <1>2. CASE Next /\ UNCHANGED syncVars
    <2>1. UNCHANGED <<n, parked, owner, expired>>
      BY <1>2 DEF syncVars
    <2>2. RingInv' /\ CallInv' /\ [Fifo!Next]_(Fifo!vars)
      BY <1>2, QueueStepIs DEF OsalInv
    <2>3. PICK t \in Thread :
            \/ UNCHANGED call
            \/ Return(t) /\ call[t].op \in {"send", "recv"}
            \/ call[t] = Idle /\ \E c \in Calls[t] : c.op \in {"send", "recv"} /\ call' = [call EXCEPT ![t] = c]
      BY <1>2 DEF Next, Start, Send, Recv, GiveUp, SpuriousWake
    <2>4. CASE UNCHANGED call
      <3>1. SyncInv' /\ UNCHANGED Counted!vars
        BY <2>1, <2>4 DEF OsalInv, SyncInv, Takes, Gives, On, Counted!vars, Unowned
      <3> QED
        BY <2>2, <3>1 DEF OsalInv
    <2>5. CASE ~UNCHANGED call
      <3>1. PICK c \in AllCalls \cup {Idle} :
              call' = [call EXCEPT ![t] = c] /\ c.op \notin {"take", "give"}
        BY <2>3, <2>5 DEF Return, AllCalls, Idle
      <3>2. call[t].op \notin {"take", "give"}
        BY <2>3, <2>5 DEF Idle
      <3>3. call'[t] = c /\ \A o \in Thread \ {t} : call'[o] = call[o]
        BY <3>1 DEF OsalInv, CallInv
      <3>4. \A o \in Thread : (Takes(o)' <=> Takes(o)) /\ (Gives(o)' <=> Gives(o))
        BY <3>1, <3>2, <3>3 DEF Takes, Gives
      <3>5. \A o \in Thread : Takes(o) \/ Gives(o) => call'[o] = call[o] /\ On(o)' = On(o)
        BY <3>2, <3>3 DEF Takes, Gives, On
      <3>6. SyncInv'
        BY <2>1, <3>4, <3>5 DEF OsalInv, SyncInv
      <3>7. Synced(t)' = Idle /\ Synced(t) = Idle
        BY <3>1, <3>2, <3>3 DEF Synced, SyncCalls
      <3>8. \A o \in Thread : Synced(o)' = Synced(o)
        BY <3>3, <3>7 DEF Synced
      <3>9. Syncing' = Syncing /\ Value' = Value
        BY <2>1, <3>8 DEF Syncing, Value, Unowned
      <3>10. UNCHANGED Counted!vars
        BY <3>9 DEF Counted!vars, Syncing, Synced, Value
      <3> QED
        BY <2>2, <3>6, <3>10 DEF OsalInv
    <2> QED
      BY <2>4, <2>5
  <1>3. CASE SyncNext /\ UNCHANGED queueVars
    <2>1. UNCHANGED <<buf, head, tail, count, out>>
      BY <1>3 DEF queueVars
    <2>2. SyncInv' /\ CallInv' /\ [Counted!Next]_(Counted!vars)
      BY <1>3, WaitIs, PostIs, SleepEndIs, LockIs, UnlockIs, SyncCallIs DEF OsalInv, SyncNext
    <2>3. RingInv' /\ Contents' = Contents
      BY <2>1 DEF OsalInv, RingInv, Contents
    <2>4. PICK t \in Thread :
            \/ UNCHANGED call
            \/ Return(t) /\ (Takes(t) \/ Gives(t))
            \/ call[t] = Idle /\ \E c \in Calls[t] : c.op \in {"take", "give"} /\ call' = [call EXCEPT ![t] = c]
      BY <1>3 DEF SyncNext, SyncStart, Wait, Post, SyncTimeout, SyncSpuriousWake, Lock, Deadline, Unlock
    <2>5. Calling' = Calling
      <3>1. CASE UNCHANGED call
        BY <3>1 DEF Calling, Pending
      <3>2. CASE ~UNCHANGED call
        <4>1. PICK c \in AllCalls \cup {Idle} :
                call' = [call EXCEPT ![t] = c] /\ c.op \notin {"send", "recv"}
          BY <2>4, <3>2 DEF Return, AllCalls, Idle
        <4>2. call[t].op \notin {"send", "recv"}
          BY <2>4, <3>2 DEF Idle, Takes, Gives
        <4>3. call'[t] = c /\ \A o \in Thread \ {t} : call'[o] = call[o]
          BY <4>1 DEF OsalInv, CallInv
        <4>4. Pending(t)' = Idle /\ Pending(t) = Idle
          BY <4>1, <4>2, <4>3 DEF Pending, QueueCalls
        <4> QED
          BY <4>3, <4>4 DEF Calling, Pending
      <3> QED
        BY <3>1, <3>2
    <2>6. UNCHANGED Fifo!vars
      BY <2>1, <2>3, <2>5 DEF Fifo!vars, Calling, Pending
    <2> QED
      BY <2>2, <2>3, <2>6 DEF OsalInv
  <1> QED
    BY <1>1, <1>2, <1>3 DEF OsalNext

(* A new ring is empty, and a new counter has its initial value.           *)
LEMMA InitIs ==
  ASSUME OsalInit
  PROVE  OsalInv /\ Fifo!Init /\ Counted!Init
  <1>1. /\ buf = [s \in 0 .. Depth - 1 |-> NoItem]
        /\ head = 0 /\ tail = 0 /\ count = 0
        /\ call = [t \in Thread |-> Idle] /\ out = [t \in Thread |-> NoItem]
        /\ n = [c \in Counters |-> Initial[c]] /\ parked = [c \in Counters |-> {}]
        /\ owner = NoOne /\ expired = {}
    BY DEF OsalInit, Init, SyncInit, Unowned
  <1>2. Depth \in Nat \ {0} /\ Mutex \notin Counters /\ \A c \in Counters : Initial[c] \in Nat
    BY Capacity, OsalSyncAssumption DEF OsalSyncAssumption
  <1>3. RingInv
    <2>1. 0 % Depth = 0
      BY <1>2, Around
    <2> QED
      BY <1>1, <1>2, <2>1 DEF RingInv, Cell
  <1>4. CallInv /\ \A t \in Thread : call[t] = Idle /\ ~Gives(t)
    BY <1>1 DEF CallInv, Gives, Idle
  <1>5. SyncInv
    BY <1>1, <1>2, <1>4 DEF SyncInv
  <1>6. Contents = <<>>
    <2>1. Contents \in Seq(Cell) /\ Len(Contents) = 0
      BY <1>1, <1>3, ContentsAre
    <2> QED
      BY <2>1, EmptySeq
  <1>7. Fifo!Init
    BY <1>1, <1>4, <1>6, FifoIdle DEF Fifo!Init
  <1>8. Counted!Init
    BY <1>1, <1>2, <1>4, CounterIdle DEF Counted!Init, Unowned
  <1> QED
    BY <1>3, <1>4, <1>5, <1>7, <1>8 DEF OsalInv

(* The ring is a ring, and who sleeps or holds the mutex is where it       *)
(* should be.                                                              *)
THEOREM OsalInvariant == OsalSpec => []OsalInv
  BY InitIs, StepIs, PTL DEF OsalSpec

(* Every send and receive of the POSIX queue takes effect as one step of a *)
(* bounded FIFO, or returns a timeout the FIFO allows: no item is lost,    *)
(* doubled, changed or overtaken, and no call with timeout 0 is refused    *)
(* without reason.                                                         *)
THEOREM QueueIsFifo == OsalSpec => Fifo!Safety
  BY InitIs, StepIs, OsalInvariant, PTL DEF OsalSpec, Fifo!Safety

(* Every wait, post, lock and unlock takes effect as one step of a counter *)
(* that stays between 0 and its limit, or returns a timeout: two threads   *)
(* never take the last one, nor hold the mutex together.                   *)
THEOREM PrimitivesCount == OsalSpec => Counted!Safety
  BY InitIs, StepIs, OsalInvariant, PTL DEF OsalSpec, Counted!Safety
=============================================================================
