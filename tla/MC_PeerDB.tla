------------------------------- MODULE MC_PeerDB -------------------------------
(* Three peers, one of them blocked, two connection slots.  One time unit *)
(* stands for a minute-scale step: a record expires two units after it    *)
(* was stamped, Alive saves when the previous stamp is two units old, and *)
(* Dead ages a copy by one unit, at most to -1 (MCTimeFloor).             *)
EXTENDS PeerDB

MCTimeFloor == -1
=============================================================================
