----------------------------- MODULE MCGateway -----------------------------
(* A pressure with an upper and a flow with a lower threshold that are     *)
(* exceeded at different times, and an outage longer than the buffer.      *)
EXTENDS Gateway

MCFrames == << (0 :> 5 @@ 1 :> 9), (0 :> 9 @@ 1 :> 9), (0 :> 9 @@ 1 :> 3), (0 :> 5 @@ 1 :> 9) >>
MCHigh == (0 :> 8 @@ 1 :> 1000)
MCLow == (0 :> -1000 @@ 1 :> 5)
=============================================================================
