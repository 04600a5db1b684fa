---------------------------- MODULE MCEventTable ----------------------------
(***************************************************************************)
(* Instances of EventTable for TLC, with the hash function of the code.    *)
(***************************************************************************)
EXTENDS EventTable, EventHash

\* Two events whose hashes collide (8) and two others, of which one is short;
\* four events, more than the slots of the instances hold.
MCEvents == {<<0, 1, 0, 1>>, <<0, 0, 0, 8>>, <<0, 1, 0, 2>>, <<0, 0, 0, 1>>}
asEvent(t) == [k \in 0 .. 3 |-> t[k + 1]]
TheEvents == {asEvent(t) : t \in MCEvents}

\* The colliding pair and one more, for the instances with power loss.
FewEvents == {asEvent(t) : t \in MCEvents \ {<<0, 0, 0, 1>>}}

TheBytes == {0, 1, 2, 8, 255}

\* makeHash as a table, so that TLC computes it once for each event.
hashes == [e \in [0 .. 3 -> TheBytes] |-> eventHash(e)]
TheHash(e) == hashes[e]

=============================================================================
