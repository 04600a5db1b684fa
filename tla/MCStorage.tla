------------------------------ MODULE MCStorage ------------------------------
(***************************************************************************)
(* The instances of Storage that TLC checks: one event.                     *)
(***************************************************************************)
EXTENDS Storage

MCEvents == {<<0, 1, 0, 2>>}

=============================================================================
