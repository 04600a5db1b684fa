------------------------------- MODULE MCBus --------------------------------
(***************************************************************************)
(* Instances of Bus for TLC.                                               *)
(***************************************************************************)
EXTENDS Bus

Slim == [FLiM |-> FALSE, CANID |-> 0, nodeNum |-> 0]
Flim(nn, id) == [FLiM |-> TRUE, CANID |-> id, nodeNum |-> nn]

\* A node fresh from the factory, or set up before.
FreshOrSet == [Node -> {Slim, Flim(1, 1)}]

\* Set up under two ids, which share a bit of the response map, or under the same one.
TwoSet == [Node -> {Flim(1, 1), Flim(2, 9)}]

AllFresh == [Node -> {Slim}]

=============================================================================
