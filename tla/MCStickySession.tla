-------------------------- MODULE MCStickySession --------------------------
(* Small instances of StickySession for TLC. *)
EXTENDS StickySession, TLC

CONSTANTS c1, c2, alice, bob, k1, k2, u1, u2, u3, old, new, bad

(* Two users with one tab each. *)
TwoUsers == c1 :> alice @@ c2 :> bob

(* Both clients work on every key. *)
SameKeys == [c \in Clients |-> Keys]

(* Draft ids are interchangeable. *)
IdSymmetry == Permutations(UUIDs)
=============================================================================
