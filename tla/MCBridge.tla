----------------------------- MODULE MCBridge -----------------------------
(* Instances of Bridge with one slot: the pool and the hand-over queue are *)
(* full with the second connection.                                        *)
EXTENDS Bridge

CONSTANTS agent,    \* an SDK client that answers promptly
          panel     \* a C client

MCTries == [c \in Client |-> IF c = agent THEN 2 ELSE 1]
MCMaxMsg == [c \in Client |-> 1]
=============================================================================
