---------------------------- MODULE StateMachine ----------------------------
(***************************************************************************)
(* The table-driven state machine of core/src/fsm/fsm_engine.c. A row is a *)
(* record with the fields from, event, guard and to; the guards are names, *)
(* and holds is the set of those that are true of the message at hand and  *)
(* the FB's data (guards have no effects, embediq_sm.h). The row without a *)
(* guard has the guard "always".                                           *)
(***************************************************************************)
EXTENDS SequencesExt

(* The row that embediq_sm_process() takes: the first whose state and      *)
(* event match and whose guard holds; 0 when there is none.                *)
FirstMatch(table, state, event, holds) ==
    SelectInSeq(table, LAMBDA r : r.from = state /\ r.event = event
                                  /\ r.guard \in holds \cup {"always"})

NextState_NotCommitted(table, state, event, holds) == state
(* sm->current_state after the call.                                       *)
NextState(table, state, event, holds) ==
    LET k == FirstMatch(table, state, event, holds) IN
    IF k = 0 THEN state ELSE table[k].to
=============================================================================
