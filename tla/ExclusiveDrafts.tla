--------------------------- MODULE ExclusiveDrafts ---------------------------
(***************************************************************************)
(* What the sticky session promises to the people who edit entities: an    *)
(* entity has at most one draft, and the draft has one holder as long as   *)
(* it lives.  A draft starts from the stored entity, or as a new one; it   *)
(* is stored as it is, when it is valid and not marked for deletion, and a *)
(* new one never replaces a stored entity.  The entity itself can be       *)
(* changed or deleted past its draft.                                      *)
(***************************************************************************)
CONSTANTS Keys, Users, Vals, Valid, None

VARIABLES
    real,    \* the entities: key -> content, None when there is none
    drafts   \* key -> the set of its drafts, with what their holders see

EInit ==
    /\ real \in [Keys -> Valid \cup {None}]
    /\ drafts = [k \in Keys |-> {}]

\* A user opens the stored entity or a new one that nobody has a draft of.
Open(k) ==
    /\ drafts[k] = {}
    /\ \E u \in Users, v \in IF real[k] = None THEN Vals ELSE {real[k]} :
          drafts' = [drafts EXCEPT ![k] =
                       {[user |-> u, val |-> v, new |-> real[k] = None, deleted |-> FALSE]}]
    /\ UNCHANGED real

\* The holder changes the contents of the draft, or marks it for deletion.
Change(k) ==
    /\ \E d \in drafts[k], v \in Vals, gone \in BOOLEAN :
          /\ drafts[k] = {d}
          /\ gone => v = d.val
          /\ drafts' = [drafts EXCEPT ![k] =
                          {[user |-> d.user, val |-> v, new |-> d.new, deleted |-> gone]}]
    /\ UNCHANGED real

\* The draft becomes the entity.
Store(k) ==
    \E d \in drafts[k] :
        /\ drafts[k] = {d}
        /\ d.val \in Valid /\ ~d.deleted
        /\ d.new => real[k] = None
        /\ real' = [real EXCEPT ![k] = d.val]
        /\ drafts' = [drafts EXCEPT ![k] = {}]

\* Drafts are given up, by their holders, with a session or by clearDraft.
Drop ==
    /\ \E S \in SUBSET Keys :
          drafts' = [k \in Keys |-> IF k \in S THEN {} ELSE drafts[k]]
    /\ UNCHANGED real

\* A stored entity is changed or deleted without a draft.
Bypass(k) ==
    /\ real[k] # None
    /\ \E v \in Vals \cup {None} : real' = [real EXCEPT ![k] = v]
    /\ UNCHANGED drafts

ENext ==
    \/ \E k \in Keys : Open(k) \/ Change(k) \/ Store(k) \/ Bypass(k)
    \/ Drop

ESpec == EInit /\ [][ENext]_<<real, drafts>>
=============================================================================
