---------------------------- MODULE MCDraftTree ----------------------------
(* A small instance of DraftTree for TLC. *)
EXTENDS DraftTree

CONSTANTS good, bad

(* An entity with one navigation row, which has one of its own. *)
MCRows == [k \in 1 .. 3 |-> [up |-> IF k = 1 THEN None ELSE k - 1, val |-> good]]
=============================================================================
