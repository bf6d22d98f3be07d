----------------------------- MODULE UniqueIds -----------------------------
(***************************************************************************)
(* What a source of primary keys promises, whatever produces them: every   *)
(* id it hands out is new.  The ids handed out so far are listed in the    *)
(* order of the answers.                                                   *)
(***************************************************************************)
EXTENDS Sequences

VARIABLE issued

\* Nothing has been handed out yet.
UInit == issued = <<>>

\* One more id is handed out, and it was never handed out before.
Issue == \E id \in {issued'[k] : k \in DOMAIN issued'} :
            /\ \A k \in DOMAIN issued : issued[k] # id
            /\ issued' = Append(issued, id)

USpec == UInit /\ [][Issue]_issued
=============================================================================
