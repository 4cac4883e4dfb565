---------------------------- MODULE MCWatchdog ----------------------------
(* Instances of Watchdog. The clock starts just short of the wrap-around.  *)
EXTENDS Watchdog

CONSTANTS a, b,     \* monitored FBs
          policy    \* an FB that subscribes to missed check-ins and is not monitored

(* Two timeouts, so that one window can be over and the other not.         *)
MCTimeout == [f \in {a, b} |-> IF f = a THEN {1} ELSE {2}]

NearWrap == {Wrap - 3}
=============================================================================
