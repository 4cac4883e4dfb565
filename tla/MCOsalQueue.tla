---------------------------- MODULE MCOsalQueue ----------------------------
(* Producers and consumers that differ in how they wait, around a ring of  *)
(* two slots, a semaphore, a signal and the mutex.                         *)
EXTENDS OsalSync, TLC

SendOf(mode, item) == [op |-> "send", mode |-> mode, item |-> item]
RecvOf(mode) == [op |-> "recv", mode |-> mode]
TakeOf(mode, c) == [op |-> "take", mode |-> mode, on |-> c]
GiveOf(c) == [op |-> "give", on |-> c]

MCThread == {"p1", "p2", "p3", "c1", "c2"}
MCItem == {"a", "b"}

MCInitial == ("sem" :> 1 @@ "sig" :> 0)
MCLimit == ("sem" :> 2 @@ "sig" :> 0)

Locks(mode) == {TakeOf(mode, "mutex"), GiveOf("mutex")}

MCCalls == [t \in MCThread |->
    CASE t = "p1" -> {SendOf("forever", "a"), GiveOf("sem")} \cup Locks("forever")
      [] t = "p2" -> {SendOf("timed", "b"), SendOf("zero", "b"), GiveOf("sem"), GiveOf("sig")}
      [] t = "p3" -> Locks("timed")
      [] t = "c1" -> {RecvOf("forever"), RecvOf("zero"), TakeOf("forever", "sem"), TakeOf("timed", "sig")}
      [] t = "c2" -> {RecvOf("timed"), RecvOf("forever"), TakeOf("forever", "sig"),
                      TakeOf("forever", "sem"), TakeOf("zero", "sem"), TakeOf("zero", "mutex"), GiveOf("mutex")}]
=============================================================================
