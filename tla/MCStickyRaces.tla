--------------------------- MODULE MCStickyRaces ---------------------------
(* A small instance of StickyRaces for TLC. *)
EXTENDS MCStickySession, StickyRaces

Same == c1 :> c1 @@ c2 :> c2 @@ alice :> alice @@ bob :> bob
Swap == c1 :> c2 @@ c2 :> c1 @@ alice :> bob @@ bob :> alice

(* The two clients change places together with their users, and the draft  *)
(* ids are interchangeable.                                                *)
PeopleSymmetry == {p @@ q : p \in {Same, Swap}, q \in IdSymmetry}

(* Everything but the history acked, which no action reads. Of the         *)
(* properties only the type does, and each step gives a draft row what it  *)
(* puts into acked.                                                        *)
AllButAcked ==
    <<real, admin, row, issued, ctx, req, alive, sweep, jobs, overtaken>>
=============================================================================
