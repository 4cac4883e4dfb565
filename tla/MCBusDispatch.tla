--------------------------- MODULE MCBusDispatch ---------------------------
(* Instances of BusDispatch: FB 0 is a service, FB 1 an application FB.    *)
(* Queues hold one message so that every overflow happens.                 *)
EXTENDS BusDispatch

CONSTANT x          \* a publishing thread that is no dispatch thread

M(id, prio) == [id |-> id, prio |-> prio]

(* "both" has two subscribers, "nobody" none.                              *)
MCRoutes == [id \in {"svc", "app", "both", "nobody"} |->
    CASE id = "svc" -> <<0>> [] id = "app" -> <<1>>
      [] id = "both" -> <<0, 1>> [] id = "nobody" -> <<>>]
MCMsgId == DOMAIN MCRoutes

Depth1 == [p \in Prio |-> 1]

(* The service answers the application with NORMAL and LOW messages; no    *)
(* handler sends HIGH, so no dispatch thread can block in a publish. The   *)
(* NORMAL queue of FB 1 has two writers.                                   *)
CoreEmits == [t \in {0, 1, x} |->
    CASE t = x -> {M("both", HIGH), M("app", 255), M("svc", 255), M("nobody", LOW)}
      [] t = 0 -> {M("app", NORMAL), M("app", LOW)}
      [] t = 1 -> {}]

CoreMax == [t \in {0, 1, x} |-> IF t = x THEN 2 ELSE 1]

(* HIGH messages down one direction only.                                  *)
HighMax == [t \in {0, 1, x} |-> 2]
HighEmits == [t \in {0, 1, x} |->
    CASE t = x -> {M("svc", HIGH)} [] t = 0 -> {M("app", HIGH)} [] t = 1 -> {}]
=============================================================================
