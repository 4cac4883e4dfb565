---------------------------- MODULE MCTelemetry ----------------------------
(* A table of two for four metrics: 0 as a gauge and as a counter, which   *)
(* is what samples of FBs are read as, 1 as a gauge, 2 as a histogram and  *)
(* the id that marks free slots.                                           *)
EXTENDS Telemetry

Read(type, id, v) == [type |-> type, sent |-> <<1, 1>>, rest |-> <<id, v>>]
MCSample == {Read("gauge", 0, 0), Read("counter", 0, 2),
             Read("gauge", 1, 1),
             Read("histogram", 2, 2), Read("gauge", 9, 2)}
=============================================================================
