----------------------------- MODULE DraftTree -----------------------------
(***************************************************************************)
(* The tree of drafts behind one sticky session.  EditAction copies the    *)
(* entity and two levels of its navigations into drafts, NewAction creates *)
(* a draft and its cascade navigations, the client adds, changes and       *)
(* deletes navigation drafts at any depth, and SaveAction verifies the     *)
(* tree, writes the entity and two levels of navigations to the real       *)
(* database and clears the drafts.                                         *)
(*                                                                         *)
(* The session is alone here (StickySession has the races between          *)
(* sessions) but for the DELETE of a navigation, which goes past the       *)
(* drafts.  Each request runs in one transaction, so a step is a request.  *)
(* A navigation is a collection reached by one relation, without a Groovy  *)
(* handler, a handler node or preCreate.                                   *)
(***************************************************************************)
EXTENDS Naturals, FiniteSets, Functions

CONSTANTS
    Ids,        \* draft UUIDs (bound)
    Keys,       \* primary keys of real rows (bound)
    FirstRows,  \* the real rows at the start: key -> [up, val]
    Vals,       \* contents
    Valid,      \* the contents that have every required property
    MaxDepth,   \* bound on the depth of navigation drafts
    MaxRequests, \* bound on the requests before SaveAction and DiscardAction
    Cascades,   \* what NewAction may create: numbers of cascade navigations
    None        \* null

ASSUME TreeAssumption ==
    /\ Ids \subseteq Nat /\ Keys \subseteq Nat /\ IsFiniteSet(Ids \cup Keys)
    /\ DOMAIN FirstRows \subseteq Keys
    /\ \A k \in DOMAIN FirstRows :
          FirstRows[k] \in [up : Keys \cup {None}, val : Vals]
    /\ Valid \subseteq Vals /\ Valid # {}
    /\ MaxDepth \in Nat /\ MaxDepth >= 2 /\ MaxRequests \in Nat /\ Cascades \subseteq {0, 1}
    /\ None \notin Ids \cup Keys

VARIABLES
    drafts,  \* DraftAdministrativeData with its draft row: UUID -> Draft
    rows,    \* the real database: key -> [up |-> parent key, val |-> content]
    root,    \* the SAP-ContextId of the session, None when there is none
    answer,  \* the outcome of the last SaveAction
    requests \* counts them (for MaxRequests)

vars == <<drafts, rows, root, answer, requests>>

(* flag: isActiveEntity and hasDraftEntity, "copy" is Y/N, "draft" N/Y and  *)
(* "deleted" N/N.  row: entityKeyMap.  rekeyed: the client has changed a    *)
(* key property.  depth is history: how deep the draft was created.         *)
Draft == [parent : Ids \cup {None}, row : Keys \cup {None}, val : Vals,
          flag : {"copy", "draft", "deleted"}, rekeyed : BOOLEAN,
          depth : 0 .. MaxDepth]
Row == [up : Keys \cup {None}, val : Vals]

TypeOK ==
    /\ DOMAIN drafts \subseteq Ids /\ Range(drafts) \subseteq Draft
    /\ DOMAIN rows \subseteq Keys /\ Range(rows) \subseteq Row
    /\ root \in DOMAIN drafts \cup {None}
    /\ answer \in {"none", "saved", "rejected", "failed"}
    /\ requests \in 0 .. MaxRequests

-----------------------------------------------------------------------------

Kids(d) == {e \in DOMAIN drafts : drafts[e].parent = d}
KidsOf(S) == UNION {Kids(d) : d \in S}

(* The drafts a client of the session can name. *)
Tree == {root} \cup Kids(root) \cup KidsOf(Kids(root))
               \cup KidsOf(KidsOf(Kids(root)))

Deleted(d) == drafts[d].flag = "deleted"

(* The real row that entityKeyMap names is there. *)
HasRow(d) == drafts[d].row \in DOMAIN rows

(* n ids of S that nothing uses, the smallest ones first. *)
Fresh(S, used, n) ==
    CHOOSE F \in SUBSET (S \ used) :
        /\ Cardinality(F) = n
        /\ \A x \in F, y \in S \ (used \cup F) : x < y

UsedIds == DOMAIN drafts \cup {drafts[d].parent : d \in DOMAIN drafts}
UsedKeys == DOMAIN rows \cup {rows[k].up : k \in DOMAIN rows}
                        \cup {drafts[d].row : d \in DOMAIN drafts}
RoomFor(S, used, n) == Cardinality(S \ used) >= n

(* A one-to-one assignment of the ids F to the members of S. *)
Assign(S, F) == CHOOSE f \in [S -> F] : IsInjective(f)

(* The draft of a navigation that has no real row yet. *)
NewDraft(p, v, depth) ==
    [parent |-> p, row |-> None, val |-> v, flag |-> "draft",
     rekeyed |-> FALSE, depth |-> depth]

(* The drafts with the drafts new, of ids that nothing uses. *)
With(new) ==
    [d \in DOMAIN drafts \cup DOMAIN new |->
        IF d \in DOMAIN new THEN new[d] ELSE drafts[d]]

(* The keys of the rows under the keys of S. *)
RowsUnder(S) == {k \in DOMAIN rows : rows[k].up \in S}

Init ==
    /\ rows = FirstRows
    /\ drafts = << >>
    /\ root = None
    /\ answer = "none"
    /\ requests = 0

(* One more request, which leaves the real rows alone. *)
Request ==
    /\ requests < MaxRequests
    /\ requests' = requests + 1
    /\ answer' = "none"
    /\ UNCHANGED rows

-----------------------------------------------------------------------------

(* copyEntityToDraft and copyNavigationToDraft: the entity and two levels.  *)
Copied(k) == {k} \cup RowsUnder({k}) \cup RowsUnder(RowsUnder({k}))

(* EditAction of an entity that has no draft yet. *)
Edit(k) ==
    LET copies == Copied(k)
        n == Cardinality(copies)
        f == Assign(copies, Fresh(Ids, UsedIds, n))
        DepthOf(r) == IF r = k THEN 0 ELSE IF rows[r].up = k THEN 1 ELSE 2
        Copy(r) == [parent |-> IF r = k THEN None ELSE f[rows[r].up],
                    row |-> r, val |-> rows[r].val, flag |-> "copy",
                    rekeyed |-> FALSE, depth |-> DepthOf(r)]
    IN  /\ root = None
        /\ k \in DOMAIN rows /\ rows[k].up = None
        /\ RoomFor(Ids, UsedIds, n)
        /\ root' = f[k]
        /\ drafts' = With([d \in Range(f) |-> Copy(CHOOSE r \in copies : f[r] = d)])
        /\ Request

(* NewAction, with createCascade for n cascade navigations. *)
New(v, n) ==
    /\ root = None
    /\ RoomFor(Ids, UsedIds, 1 + n)
    /\ \E d \in Fresh(Ids, UsedIds, 1 + n) :
        /\ root' = d
        /\ drafts' = With([e \in Fresh(Ids, UsedIds, 1 + n) |->
                               IF e = d THEN NewDraft(None, v, 0)
                                        ELSE NewDraft(d, v, 1)])
    /\ Request

(* POST to a navigation of draft p: DraftReaderAndWriter.createEntityData.  *)
(* The parent is read whatever its flags are.                               *)
AddNav(p, v) ==
    /\ p \in Tree
    /\ drafts[p].depth < MaxDepth
    /\ RoomFor(Ids, UsedIds, 1)
    /\ \E d \in Fresh(Ids, UsedIds, 1) :
        drafts' = With([e \in {d} |-> NewDraft(p, v, drafts[p].depth + 1)])
    /\ Request
    /\ UNCHANGED root

(* PATCH of a draft: updateEntityData sets the flags N/Y, those of a        *)
(* deleted draft too.  rekey: it changes a key property, which Save looks   *)
(* at in a navigation draft that was copied from a row.                     *)
Patch(d, v, rekey) ==
    /\ d \in Tree
    /\ rekey => d # root /\ drafts[d].row # None
    /\ drafts' = [drafts EXCEPT ![d].val = v, ![d].flag = "draft",
                                ![d].rekeyed = @ \/ rekey]
    /\ Request
    /\ UNCHANGED root

(* DELETE of a navigation draft by its entity set (one path segment), with  *)
(* the SAP-ContextId: deleteEntityData sets the flags N/N.                  *)
Delete(d) ==
    /\ d \in Tree \ {root}
    /\ drafts' = [drafts EXCEPT ![d].flag = "deleted"]
    /\ Request
    /\ UNCHANGED root

(* DELETE of a navigation row by a path (Parents(k)/navigation(k)): the     *)
(* entity processor passes deleteRelatedEntity no SAP-ContextId, and the    *)
(* real row goes although a draft of it may be open.  (With a live header   *)
(* the path is read from the drafts; the key of what it finds is its UUID,  *)
(* by which unbindNavigationLink finds no real row: the request fails.)     *)
DeleteRelated(k) ==
    /\ k \in DOMAIN rows
    /\ rows[k].up \in DOMAIN rows
    /\ requests < MaxRequests
    /\ requests' = requests + 1
    /\ rows' = Restrict(rows, DOMAIN rows \ {k})
    /\ answer' = "none"
    /\ UNCHANGED <<drafts, root>>

-----------------------------------------------------------------------------

(* verifyProperty descends from the root at level 0, and hands each child a *)
(* level that it increments before the call: the first child gets level 1,  *)
(* the second 2 and a later one more; children are visited up to level 2.   *)
(* The database lists siblings in any order: c1 and c2 are the first two    *)
(* children of the root, g the first one of c1, None when there are fewer.  *)
Order(c1, c2, g) ==
    LET OneOf(S) == IF S = {} THEN {None} ELSE S
    IN  /\ c1 \in OneOf(Kids(root))
        /\ c2 \in OneOf(Kids(root) \ {c1})
        /\ g \in OneOf(IF c1 = None \/ Deleted(c1) THEN {} ELSE Kids(c1))

\* Mutant of Descended: children are visited up to level 1 only.
DescendedLevelOne(c1, c2, g) == {d \in {root, c1} \ {None} : ~Deleted(d)}

(* The drafts whose children are visited: a deleted one returns earlier. *)
Descended(c1, c2, g) ==
    {d \in {root, c1, c2, g} \ {None} : ~Deleted(d)}

(* Every visited draft that is not deleted has its required properties. *)
Verified(c1, c2, g) ==
    \A d \in {root} \cup KidsOf(Descended(c1, c2, g)) :
        ~Deleted(d) => drafts[d].val \in Valid

(* SaveAction refused by verifyProperty. *)
SaveRejected ==
    /\ root # None
    /\ \E c1, c2, g \in Tree \cup {None} :
        Order(c1, c2, g) /\ ~Verified(c1, c2, g)
    /\ answer' = "rejected"
    /\ UNCHANGED <<drafts, rows, root, requests>>

(* persistentTwoLevelNavEntity: the drafts handed to persistentNavEntity.   *)
(* It returns null for a deleted draft without a row, and its children are  *)
(* skipped; the children of another deleted draft are not.                  *)
Persisted ==
    Kids(root) \cup KidsOf({d \in Kids(root) : ~Deleted(d) \/ HasRow(d)})

\* Mutant of Removes: rows of deleted drafts stay.
RemovesOnlyRekeyed(d) == HasRow(d) /\ ~Deleted(d) /\ drafts[d].rekeyed

(* persistentNavEntity: a deleted draft, or one whose key has changed,      *)
(* removes the row; a draft without a row, or with a new key, creates one.  *)
Removes(d) == HasRow(d) /\ (Deleted(d) \/ drafts[d].rekeyed)
Creates(d) == ~Deleted(d) /\ (~HasRow(d) \/ drafts[d].rekeyed)

(* createEntitySetRelatedEntityData does not find the parent's row that     *)
(* this Save has removed.                                                   *)
LacksParent == \E d \in Persisted : Creates(d) /\ Deleted(drafts[d].parent)

(* The drafts whose rows the Save creates, and those of them that get a new *)
(* key; the others keep the one of the row that has been deleted meanwhile. *)
MadeBySave ==
    {d \in Persisted : Creates(d)} \cup (IF HasRow(root) THEN {} ELSE {root})
NeedKey == {d \in MadeBySave : drafts[d].row = None \/ drafts[d].rekeyed}

(* The real rows after the Save; f gives the drafts of NeedKey their keys.  *)
RowsSaved(f) ==
    LET made == MadeBySave
        RowKey(d) == IF d \in DOMAIN f THEN f[d] ELSE drafts[d].row
        kept == {d \in Persisted \cup {root} : d \notin made /\ ~Deleted(d)}
        gone == {drafts[d].row : d \in {e \in Persisted : Removes(e)}}
        after == (DOMAIN rows \ gone) \cup {RowKey(d) : d \in made}
        UpOf(d) == IF d = root THEN None ELSE RowKey(drafts[d].parent)
    IN  [k \in after |->
            IF \E d \in made : RowKey(d) = k
            THEN LET d == CHOOSE e \in made : RowKey(e) = k
                 IN  [up |-> UpOf(d), val |-> drafts[d].val]
            ELSE IF \E d \in kept : drafts[d].row = k
            THEN LET d == CHOOSE e \in kept : drafts[e].row = k
                 IN  [rows[k] EXCEPT !.val = drafts[d].val]
            ELSE rows[k]]

\* Mutant of Cleared: the second level of navigation drafts stays.
ClearedOneLevel == {root} \cup Kids(root)

(* clearEntityDraft: the root and two levels below it. *)
Cleared == {root} \cup Kids(root) \cup KidsOf(Kids(root))

\* Mutant of ClearEntityDraft: the context id stays.
ClearKeepsContext ==
    /\ drafts' = Restrict(drafts, DOMAIN drafts \ Cleared)
    /\ UNCHANGED root

ClearEntityDraft ==
    /\ drafts' = Restrict(drafts, DOMAIN drafts \ Cleared)
    /\ root' = None

(* Some row would be left under a parent that this Save removes: a foreign  *)
(* key makes the database refuse it, a relation without one does not.       *)
Dangles(after) ==
    \E k \in DOMAIN after : after[k].up \in DOMAIN rows \ DOMAIN after

Save ==
    LET n == Cardinality(NeedKey)
    IN  /\ root # None
        /\ \E c1, c2, g \in Tree \cup {None} :
            Order(c1, c2, g) /\ Verified(c1, c2, g)
        /\ ~LacksParent
        /\ RoomFor(Keys, UsedKeys, n)
        /\ rows' = RowsSaved(Assign(NeedKey, Fresh(Keys, UsedKeys, n)))
        /\ ClearEntityDraft
        /\ answer' = "saved"
        /\ UNCHANGED requests

(* SaveAction that fails while it writes, and is rolled back. *)
SaveFails ==
    LET n == Cardinality(NeedKey)
    IN  /\ root # None
        /\ \E c1, c2, g \in Tree \cup {None} :
            Order(c1, c2, g) /\ Verified(c1, c2, g)
        /\ RoomFor(Keys, UsedKeys, n)
        /\ \/ LacksParent
           \/ Dangles(RowsSaved(Assign(NeedKey, Fresh(Keys, UsedKeys, n))))
        /\ answer' = "failed"
        /\ UNCHANGED <<drafts, rows, root, requests>>

(* DiscardAction. *)
Discard ==
    /\ root # None
    /\ ClearEntityDraft
    /\ answer' = "none"
    /\ UNCHANGED <<rows, requests>>

Next ==
    \/ \E k \in Keys : Edit(k)
    \/ \E v \in Vals, n \in Cascades : New(v, n)
    \/ \E p \in Ids, v \in Vals : root # None /\ AddNav(p, v)
    \/ \E d \in Ids, v \in Vals, rekey \in BOOLEAN : root # None /\ Patch(d, v, rekey)
    \/ \E d \in Ids : root # None /\ Delete(d)
    \/ \E k \in Keys : DeleteRelated(k)
    \/ SaveRejected
    \/ Save
    \/ SaveFails
    \/ Discard

Spec == Init /\ [][Next]_vars

-----------------------------------------------------------------------------

Saves == root # None /\ answer' = "saved" /\ root' = None

(* clearEntityDraft leaves nothing behind but what was created at the third *)
(* level or deeper: every other draft belongs to the session's tree.        *)
LeftoversAreDeep ==
    \A d \in DOMAIN drafts :
        root = None \/ d \notin Tree => drafts[d].depth >= 3

TopTwo == {d \in Tree : drafts[d].depth \in 1 .. 2}

(* The drafts of the top two levels under the root that a Save carries out. *)
ToCarryOut == {d \in TopTwo : ~Deleted(d) /\ ~Deleted(drafts[d].parent)}

(* The members of ToCarryOut and the root have rows of their own.           *)
CarriedOut ==
    \E f \in [ToCarryOut \cup {root} -> DOMAIN rows'] :
        /\ IsInjective(f)
        /\ \A d \in ToCarryOut \cup {root} : rows'[f[d]].val = drafts[d].val
        /\ \A d \in ToCarryOut :
              ~drafts[drafts[d].parent].rekeyed
                => rows'[f[d]].up = f[drafts[d].parent]

(* A SaveAction that succeeds has carried out the first two levels of the   *)
(* tree: no row of a deleted draft is left, unless its parent is a deleted  *)
(* draft whose row had gone before, and every other draft whose parent is   *)
(* not deleted has its content in a row of its own, under the row of its    *)
(* parent unless that has been given a new key.                             *)
SavedAsDrafted ==
    [][Saves =>
        /\ \A d \in TopTwo :
              Deleted(d) => \/ drafts[d].row \notin DOMAIN rows'
                            \/ /\ Deleted(drafts[d].parent)
                               /\ ~HasRow(drafts[d].parent)
        /\ CarriedOut]_vars

(* SaveAction writes nothing that verifyProperty has not checked, as long   *)
(* as the entity has at most two navigation drafts and none is deleted.     *)
(* (Both conditions are needed: the children of a third sibling and those   *)
(* of a deleted draft are written without a check.)                         *)
WritesVerified ==
    [][Saves /\ Cardinality(Kids(root)) <= 2 /\ (\A d \in Kids(root) : ~Deleted(d))
        => \A k \in DOMAIN rows' :
              \/ rows'[k].val \in Valid
              \/ k \in DOMAIN rows /\ rows'[k] = rows[k]]_vars
=============================================================================
