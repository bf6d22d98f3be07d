--------------------------- MODULE DraftTreeProofs ---------------------------
(***************************************************************************)
(* The tree of drafts, for any number of drafts and real rows, any         *)
(* contents and any order of requests: what clearEntityDraft leaves, what  *)
(* SaveAction carries out and what it writes without a check.  The         *)
(* argument: the depth a draft was created at is its place in the tree, no *)
(* two drafts have one row, and those rows of the copies that nobody has   *)
(* deleted meanwhile hang together as the copies do.                       *)
(***************************************************************************)
EXTENDS DraftTree, FiniteSetTheorems, TLAPS

-----------------------------------------------------------------------------
(* Ids and keys                                                            *)

(* Every set of numbers has a least one.                                   *)
LEMMA LeastNumber ==
  ASSUME NEW S \in SUBSET Nat, S # {}
  PROVE  \E x \in S : \A y \in S : x <= y
<1> DEFINE R == {p \in Nat \X Nat : p[1] < p[2]}
<1>1. IsWellFoundedOn(R, Nat) BY NatLessThanWellFounded DEF OpToRel
<1> HIDE DEF R
<1>2. PICK x \in S : \A y \in S : ~ (<<y, x>> \in R) BY <1>1, WFMin
<1>3. \A y \in S : ~ (y < x) BY <1>2 DEF R
<1> QED BY <1>3

(* F are the n smallest members of S.                                      *)
Smallest(S, n, F) ==
    /\ F \in SUBSET S /\ Cardinality(F) = n
    /\ \A x \in F, y \in S \ F : x < y

HasSmallest(S, n) == \E F : Smallest(S, n, F)

(* A set of numbers has n smallest members, unless it has fewer.           *)
LEMMA SmallestExist ==
  ASSUME NEW S \in SUBSET Nat, IsFiniteSet(S), NEW n \in Nat, n <= Cardinality(S)
  PROVE  HasSmallest(S, n)
<1> DEFINE Bad == {m \in 0 .. Cardinality(S) : ~ HasSmallest(S, m)}
<1>1. Cardinality(S) \in Nat BY FS_CardinalityType
<1>2. SUFFICES ASSUME Bad # {} PROVE FALSE BY <1>1
<1>b. Bad \in SUBSET Nat BY <1>1
<1> HIDE DEF Bad
<1>3. PICK m \in Bad : \A l \in Bad : m <= l BY <1>b, <1>2, LeastNumber
<1> USE DEF Bad
<1>4. m \in 0 .. Cardinality(S) /\ m \in Nat /\ ~ HasSmallest(S, m) BY <1>1, <1>3
<1>5. CASE m = 0
  <2>1. Smallest(S, 0, {}) BY FS_EmptySet DEF Smallest
  <2> QED BY <1>4, <1>5, <2>1 DEF HasSmallest
<1>6. CASE m # 0
  <2>1. m - 1 \in 0 .. Cardinality(S) /\ m - 1 \notin Bad BY <1>1, <1>3, <1>4, <1>6
  <2>2. PICK F : Smallest(S, m - 1, F) BY <2>1 DEF HasSmallest
  <2>3. F \in SUBSET S /\ IsFiniteSet(F) /\ Cardinality(F) = m - 1 BY <2>2, FS_Subset DEF Smallest
  <2>4. S \ F # {}
    <3>1. S # F BY <1>1, <1>4, <2>3
    <3> QED BY <2>3, <3>1
  <2>5. PICK x \in S \ F : \A y \in S \ F : x <= y BY <2>4, LeastNumber
  <2>6. Cardinality(F \cup {x}) = m
    <3>1. Cardinality(F \cup {x}) = Cardinality(F) + 1 BY <2>3, <2>5, FS_AddElement
    <3> QED BY <1>4, <2>3, <3>1
  <2>7. \A y \in F \cup {x}, z \in S \ (F \cup {x}) : y < z BY <2>2, <2>5 DEF Smallest
  <2>8. Smallest(S, m, F \cup {x}) BY <2>3, <2>5, <2>6, <2>7 DEF Smallest
  <2> QED BY <1>4, <2>8 DEF HasSmallest
<1> QED BY <1>5, <1>6

(* Fresh takes n ids that nothing uses.                                    *)
LEMMA FreshIds ==
  ASSUME NEW S \in SUBSET Nat, IsFiniteSet(S), NEW used, NEW n \in Nat, RoomFor(S, used, n)
  PROVE  /\ Fresh(S, used, n) \in SUBSET (S \ used)
         /\ IsFiniteSet(Fresh(S, used, n)) /\ Cardinality(Fresh(S, used, n)) = n
<1>1. S \ used \in SUBSET Nat /\ IsFiniteSet(S \ used) BY FS_Subset
<1>2. PICK F : Smallest(S \ used, n, F) BY <1>1, SmallestExist DEF RoomFor, HasSmallest
<1>3. /\ F \in SUBSET (S \ used) /\ Cardinality(F) = n
      /\ \A x \in F, y \in S \ (used \cup F) : x < y
  BY <1>2 DEF Smallest
<1>4. Fresh(S, used, n) \in SUBSET (S \ used) /\ Cardinality(Fresh(S, used, n)) = n
  BY <1>3 DEF Fresh
<1> QED BY <1>1, <1>4, FS_Subset

(* Assign gives each member of S an id of its own.                         *)
LEMMA Assigned ==
  ASSUME NEW S, NEW F, IsFiniteSet(S), IsFiniteSet(F), Cardinality(S) = Cardinality(F)
  PROVE  Assign(S, F) \in [S -> F] /\ IsInjective(Assign(S, F))
<1>1. Bijection(S, F) # {} BY FS_SameCardinalityBij DEF ExistsBijection
<1>2. \E f \in [S -> F] : IsInjective(f) BY <1>1 DEF Bijection, Injection
<1> QED BY <1>2 DEF Assign

LEMMA FiniteIds == IsFiniteSet(Ids) /\ IsFiniteSet(Keys)
<1>1. Ids \in SUBSET (Ids \cup Keys) /\ Keys \in SUBSET (Ids \cup Keys) OBVIOUS
<1> QED BY <1>1, TreeAssumption, FS_Subset

-----------------------------------------------------------------------------
(* The invariant                                                           *)

(* A draft was created under its parent; one that was created above the    *)
(* third level belongs to the session: it is the root, or has its parent.  *)
Shape(d) ==
    /\ drafts[d].parent \in DOMAIN drafts
          => drafts[d].depth = drafts[drafts[d].parent].depth + 1
    /\ drafts[d].depth <= 2 =>
          /\ root # None
          /\ IF d = root THEN drafts[d].depth = 0 ELSE drafts[d].parent \in DOMAIN drafts

(* Only copies have rows, and the parent of a copy is a copy.  As long as  *)
(* the row is there, it lies under the row of the copy's parent.           *)
RowHeld(d) ==
    drafts[d].row # None =>
        /\ drafts[d].depth <= 2
        /\ d # root =>
              /\ drafts[drafts[d].parent].row # None
              /\ HasRow(d) => rows[drafts[d].row].up = drafts[drafts[d].parent].row

(* A row has one draft.                                                    *)
RowsOnce ==
    \A d, e \in DOMAIN drafts :
        drafts[d].row = drafts[e].row /\ drafts[d].row # None => d = e

(* The root is not deleted.                                                *)
RootIsTop == root # None => drafts[root].depth = 0 /\ ~ Deleted(root)

IInv ==
    /\ TypeOK /\ \A d \in DOMAIN drafts : Shape(d) /\ RowHeld(d)
    /\ RowsOnce /\ RootIsTop

(* The types of the variables, member by member.                           *)
LEMMA Types ==
  ASSUME TypeOK
  PROVE  /\ DOMAIN drafts \subseteq Ids /\ \A d \in DOMAIN drafts : drafts[d] \in Draft
         /\ DOMAIN rows \subseteq Keys /\ \A k \in DOMAIN rows : rows[k] \in Row
         /\ root \in DOMAIN drafts \cup {None}
         /\ None \notin Ids /\ None \notin Keys /\ Ids \subseteq Nat /\ Keys \subseteq Nat
         /\ IsFiniteSet(DOMAIN drafts) /\ IsFiniteSet(DOMAIN rows)
<1>1. /\ DOMAIN drafts \subseteq Ids /\ \A d \in DOMAIN drafts : drafts[d] \in Draft
      /\ DOMAIN rows \subseteq Keys /\ \A k \in DOMAIN rows : rows[k] \in Row
  BY DEF TypeOK, Range
<1>2. IsFiniteSet(DOMAIN drafts) /\ IsFiniteSet(DOMAIN rows) BY <1>1, FiniteIds, FS_Subset
<1> QED BY <1>1, <1>2, TreeAssumption DEF TypeOK

(* The next lemma spells the conjuncts of TypeOK out the other way.        *)
LEMMA TypesSuffice ==
  ASSUME DOMAIN drafts \subseteq Ids, \A d \in DOMAIN drafts : drafts[d] \in Draft,
         DOMAIN rows \subseteq Keys, \A k \in DOMAIN rows : rows[k] \in Row,
         root \in DOMAIN drafts \cup {None},
         answer \in {"none", "saved", "rejected", "failed"}, requests \in 0 .. MaxRequests
  PROVE  TypeOK
BY DEF TypeOK, Range

(* What is known of the places in the tree.                                *)
LEMMA TreeDepths ==
  ASSUME IInv, root # None
  PROVE  /\ Tree \subseteq DOMAIN drafts /\ root \in Cleared /\ Cleared \subseteq Tree
         /\ \A d \in DOMAIN drafts : d \in Cleared <=> drafts[d].depth <= 2
         /\ Kids(root) = {d \in DOMAIN drafts : drafts[d].depth = 1}
         /\ KidsOf(Kids(root)) = {d \in DOMAIN drafts : drafts[d].depth = 2}
         /\ \A d \in Kids(root) : drafts[d].parent = root
         /\ \A d \in KidsOf(Kids(root)) : drafts[d].parent \in Kids(root)
<1> DEFINE L1 == {d \in DOMAIN drafts : drafts[d].parent = root}
           L2 == {d \in DOMAIN drafts : drafts[d].parent \in L1}
           L3 == {d \in DOMAIN drafts : drafts[d].parent \in L2}
<1>1. /\ Kids(root) = L1 /\ KidsOf(Kids(root)) = L2 /\ KidsOf(KidsOf(Kids(root))) = L3
  <2>1. \A S : KidsOf(S) = {d \in DOMAIN drafts : drafts[d].parent \in S}
    BY DEF KidsOf, Kids
  <2> QED BY <2>1 DEF Kids
<1>2. Tree = {root} \cup L1 \cup L2 \cup L3 /\ Cleared = {root} \cup L1 \cup L2
  BY <1>1 DEF Tree, Cleared
<1>3. root \in DOMAIN drafts /\ drafts[root].depth = 0
  BY Types DEF IInv, RootIsTop
<1>4. \A d \in DOMAIN drafts : drafts[d].depth \in Nat
  BY Types, TreeAssumption DEF IInv, Draft
<1>5. \A d \in DOMAIN drafts : Shape(d) BY DEF IInv
<1>6. \A d \in DOMAIN drafts : drafts[d].depth = 0 <=> d = root
  BY <1>3, <1>4, <1>5 DEF Shape
<1>7. L1 = {d \in DOMAIN drafts : drafts[d].depth = 1}
  BY <1>3, <1>4, <1>5, <1>6 DEF Shape
<1>8. L2 = {d \in DOMAIN drafts : drafts[d].depth = 2}
  <2> HIDE DEF L1
  <2> QED BY <1>3, <1>4, <1>5, <1>6, <1>7 DEF Shape
<1>9. \A d \in DOMAIN drafts :
        drafts[d].depth <= 2 <=> drafts[d].depth = 0 \/ drafts[d].depth = 1 \/ drafts[d].depth = 2
  BY <1>4
<1>10. \A d \in DOMAIN drafts : d \in Cleared <=> drafts[d].depth <= 2
  <2> HIDE DEF L1, L2, L3
  <2> QED BY <1>2, <1>6, <1>7, <1>8, <1>9
<1>11. \A d \in Kids(root) : drafts[d].parent = root BY DEF Kids
<1>12. \A d \in KidsOf(Kids(root)) : drafts[d].parent \in Kids(root) BY <1>1
<1>13. Tree \subseteq DOMAIN drafts /\ root \in Cleared /\ Cleared \subseteq Tree BY <1>2, <1>3
<1> HIDE DEF L1, L2, L3
<1> QED BY <1>1, <1>7, <1>8, <1>10, <1>11, <1>12, <1>13

-----------------------------------------------------------------------------
(* Steps that add drafts                                                   *)

(* The drafts N are added, of ids that were not in use.                    *)
Grown(N) ==
    /\ N \subseteq Ids /\ N \cap UsedIds = {} /\ DOMAIN drafts' = DOMAIN drafts \cup N
    /\ \A d \in DOMAIN drafts : drafts'[d] = drafts[d]
    /\ rows' = rows
    /\ root # None => root' = root
    /\ answer' = "none" /\ requests' \in 0 .. MaxRequests

(* What With adds.                                                         *)
LEMMA Joined ==
  ASSUME NEW g, DOMAIN g \cap DOMAIN drafts = {}
  PROVE  /\ DOMAIN With(g) = DOMAIN drafts \cup DOMAIN g
         /\ \A x \in DOMAIN drafts : With(g)[x] = drafts[x]
         /\ \A x \in DOMAIN g : With(g)[x] = g[x]
BY DEF With

LEMMA RequestType ==
  ASSUME TypeOK, Request
  PROVE  rows' = rows /\ answer' = "none" /\ requests' \in 0 .. MaxRequests
<1>1. requests \in 0 .. MaxRequests /\ MaxRequests \in Nat BY TreeAssumption DEF TypeOK
<1> QED BY <1>1 DEF Request

(* The drafts that were there keep their places and their rows.            *)
LEMMA GrownOld ==
  ASSUME IInv, NEW N, Grown(N), NEW d \in DOMAIN drafts
  PROVE  Shape(d)' /\ RowHeld(d)'
<1>1. Shape(d) /\ RowHeld(d) BY DEF IInv
<1>2. d \in DOMAIN drafts' /\ drafts'[d] = drafts[d] BY DEF Grown
<1>3. drafts[d].parent \in DOMAIN drafts' => drafts[d].parent \in DOMAIN drafts
  BY DEF Grown, UsedIds
<1>4. \A p \in DOMAIN drafts : drafts'[p] = drafts[p] /\ p \in DOMAIN drafts' BY DEF Grown
<1>5. Shape(d)'
  <2>1. root # None => root' = root BY DEF Grown
  <2>2. root \in Ids \cup {None} BY Types DEF IInv
  <2> QED BY <1>1, <1>2, <1>3, <1>4, <2>1, <2>2 DEF Shape
<1>6. RowHeld(d)'
  <2>1. SUFFICES ASSUME drafts[d].row # None PROVE RowHeld(d)' BY <1>2 DEF RowHeld
  <2>2. drafts[d].depth <= 2 /\ root # None /\ root' = root /\ rows' = rows
    BY <1>1, <2>1 DEF RowHeld, Shape, Grown
  <2>3. d # root => drafts[d].parent \in DOMAIN drafts BY <1>1, <2>2 DEF Shape
  <2> QED BY <1>1, <1>2, <1>4, <2>2, <2>3 DEF RowHeld, HasRow
<1> QED BY <1>5, <1>6

LEMMA GrownInv ==
  ASSUME IInv, NEW N, Grown(N), root' \in DOMAIN drafts',
         \A d \in N : drafts'[d] \in Draft /\ Shape(d)' /\ RowHeld(d)',
         \A d \in N : drafts'[d].row # None
                        => root = None /\ \A e \in N : drafts'[e].row = drafts'[d].row => e = d,
         root = None => drafts'[root'].depth = 0 /\ drafts'[root'].flag # "deleted"
  PROVE  IInv'
<1>1. /\ DOMAIN drafts' = DOMAIN drafts \cup N /\ N \subseteq Ids
      /\ \A d \in DOMAIN drafts : drafts'[d] = drafts[d]
      /\ rows' = rows /\ answer' = "none" /\ requests' \in 0 .. MaxRequests
      /\ root # None => root' = root
  BY DEF Grown
<1>2. /\ DOMAIN drafts \subseteq Ids /\ \A d \in DOMAIN drafts : drafts[d] \in Draft
      /\ DOMAIN rows \subseteq Keys /\ \A k \in DOMAIN rows : rows[k] \in Row
      /\ root \in DOMAIN drafts \cup {None}
  BY Types DEF IInv
<1>3. TypeOK'
  <2>1. \A d \in DOMAIN drafts' : drafts'[d] \in Draft BY <1>1, <1>2
  <2> QED BY <1>1, <1>2, <2>1 DEF TypeOK, Range
<1>4. \A d \in DOMAIN drafts' : Shape(d)' /\ RowHeld(d)' BY <1>1, GrownOld
<1>5. RowsOnce'
  <2>1. SUFFICES ASSUME NEW d \in DOMAIN drafts', NEW e \in DOMAIN drafts',
                        drafts'[d].row = drafts'[e].row, drafts'[d].row # None
                 PROVE  d = e
    BY DEF RowsOnce
  <2>2. root = None => \A c \in DOMAIN drafts : drafts[c].row = None
    BY DEF IInv, Shape, RowHeld
  <2>3. CASE d \in DOMAIN drafts /\ e \in DOMAIN drafts
    BY <1>1, <2>1, <2>3 DEF IInv, RowsOnce
  <2>4. CASE d \in N /\ e \in N BY <2>1, <2>4
  <2>5. CASE d \in N /\ e \in DOMAIN drafts BY <1>1, <2>1, <2>2, <2>5
  <2>6. CASE d \in DOMAIN drafts /\ e \in N BY <1>1, <2>1, <2>2, <2>6
  <2> QED BY <1>1, <2>3, <2>4, <2>5, <2>6
<1>6. RootIsTop'
  <2>1. CASE root = None BY <2>1 DEF RootIsTop, Deleted
  <2>2. CASE root # None
    BY <1>1, <1>2, <2>2 DEF IInv, RootIsTop, Deleted
  <2> QED BY <2>1, <2>2
<1> QED BY <1>3, <1>4, <1>5, <1>6 DEF IInv

(* A draft of a navigation, created under a draft of the tree.             *)
LEMMA AddNavInv ==
  ASSUME IInv, root # None, NEW p \in Ids, NEW v \in Vals, AddNav(p, v)
  PROVE  IInv'
<1>1. PICK d \in Fresh(Ids, UsedIds, 1) :
        drafts' = With([e \in {d} |-> NewDraft(p, v, drafts[p].depth + 1)])
  BY DEF AddNav
<1>2. d \in Ids /\ d \notin UsedIds
  <2>1. Fresh(Ids, UsedIds, 1) \in SUBSET (Ids \ UsedIds)
    BY FreshIds, FiniteIds, TreeAssumption DEF AddNav
  <2> QED BY <2>1
<1>3. d \notin DOMAIN drafts BY <1>2 DEF UsedIds
<1>4. p \in DOMAIN drafts /\ drafts[p] \in Draft /\ root \in DOMAIN drafts
  BY TreeDepths, Types DEF AddNav, IInv
<1>5. /\ DOMAIN drafts' = DOMAIN drafts \cup {d}
      /\ \A e \in DOMAIN drafts : drafts'[e] = drafts[e]
      /\ drafts'[d] = NewDraft(p, v, drafts[p].depth + 1)
  <2> DEFINE g == [e \in {d} |-> NewDraft(p, v, drafts[p].depth + 1)]
  <2>1. DOMAIN g = {d} /\ g[d] = NewDraft(p, v, drafts[p].depth + 1) OBVIOUS
  <2>2. drafts' = With(g) BY <1>1
  <2> HIDE DEF g
  <2> QED BY <1>3, <2>1, <2>2, Joined
<1>6. Grown({d}) /\ root' = root
  <2>1. rows' = rows /\ answer' = "none" /\ requests' \in 0 .. MaxRequests
    BY RequestType DEF AddNav, IInv
  <2> QED BY <1>2, <1>5, <2>1 DEF Grown, AddNav
<1>7. drafts[p].depth \in Nat /\ drafts[p].depth < MaxDepth /\ MaxDepth \in Nat
  BY <1>4, TreeAssumption DEF AddNav, Draft
<1>8. drafts'[d] = [parent |-> p, row |-> None, val |-> v, flag |-> "draft",
                    rekeyed |-> FALSE, depth |-> drafts[p].depth + 1]
  BY <1>5 DEF NewDraft
<1>9. drafts'[d] \in Draft
  <2>1. drafts[p].depth + 1 \in 0 .. MaxDepth BY <1>7
  <2> QED BY <1>8, <2>1 DEF Draft
<1>10. Shape(d)' /\ RowHeld(d)'
  BY <1>3, <1>4, <1>5, <1>6, <1>8 DEF Shape, RowHeld
<1> QED BY <1>4, <1>5, <1>6, <1>8, <1>9, <1>10, GrownInv

(* NewAction, with a cascade navigation or without.                        *)
LEMMA NewInv ==
  ASSUME IInv, NEW v \in Vals, NEW n \in Cascades, New(v, n)
  PROVE  IInv'
<1> DEFINE N == Fresh(Ids, UsedIds, 1 + n)
<1>1. PICK d \in N :
        /\ root' = d
        /\ drafts' = With([e \in N |-> IF e = d THEN NewDraft(None, v, 0)
                                                 ELSE NewDraft(d, v, 1)])
  BY DEF New
<1>2. N \subseteq Ids /\ N \cap UsedIds = {}
  <2>1. n \in Nat /\ 1 + n \in Nat BY TreeAssumption
  <2>2. N \in SUBSET (Ids \ UsedIds)
    BY <2>1, FreshIds, FiniteIds, TreeAssumption DEF New
  <2> QED BY <2>2
<1> HIDE DEF N
<1>3. N \cap DOMAIN drafts = {} /\ root = None BY <1>2 DEF UsedIds, New
<1>4. /\ DOMAIN drafts' = DOMAIN drafts \cup N
      /\ \A e \in DOMAIN drafts : drafts'[e] = drafts[e]
      /\ \A e \in N : drafts'[e] = IF e = d THEN NewDraft(None, v, 0) ELSE NewDraft(d, v, 1)
  <2> DEFINE g == [e \in N |-> IF e = d THEN NewDraft(None, v, 0) ELSE NewDraft(d, v, 1)]
  <2>1. /\ DOMAIN g = N
        /\ \A e \in N : g[e] = IF e = d THEN NewDraft(None, v, 0) ELSE NewDraft(d, v, 1)
    OBVIOUS
  <2>2. drafts' = With(g) BY <1>1
  <2> HIDE DEF g
  <2> QED BY <1>3, <2>1, <2>2, Joined
<1>5. Grown(N)
  <2>1. rows' = rows /\ answer' = "none" /\ requests' \in 0 .. MaxRequests
    BY RequestType DEF New, IInv
  <2> QED BY <1>2, <1>3, <1>4, <2>1 DEF Grown
<1>6. None \notin DOMAIN drafts'
  <2>1. DOMAIN drafts \subseteq Ids /\ None \notin Ids BY Types DEF IInv
  <2> QED BY <1>2, <1>4, <2>1
<1>7. d \in DOMAIN drafts' /\ d # None /\ drafts'[d] = NewDraft(None, v, 0) BY <1>1, <1>4, <1>6
<1>8. ASSUME NEW e \in N
      PROVE  /\ drafts'[e].row = None /\ drafts'[e] \in Draft
             /\ Shape(e)' /\ RowHeld(e)'
  <2>1. 0 \in 0 .. MaxDepth /\ 1 \in 0 .. MaxDepth BY TreeAssumption
  <2>2. d \in Ids BY <1>1, <1>2
  <2>3. NewDraft(None, v, 0) \in Draft /\ NewDraft(d, v, 1) \in Draft
    BY <2>1, <2>2 DEF NewDraft, Draft
  <2>4. NewDraft(None, v, 0).row = None /\ NewDraft(d, v, 1).row = None BY DEF NewDraft
  <2>5. drafts'[e] \in Draft /\ drafts'[e].row = None
    <3>1. drafts'[e] = NewDraft(None, v, 0) \/ drafts'[e] = NewDraft(d, v, 1) BY <1>4
    <3> QED BY <2>3, <2>4, <3>1
  <2>6. CASE e = d BY <1>1, <1>6, <1>7, <2>5, <2>6 DEF NewDraft, Shape, RowHeld
  <2>7. CASE e # d
    <3>1. drafts'[e] = NewDraft(d, v, 1) BY <1>4, <2>7
    <3> QED BY <1>1, <1>7, <2>5, <2>7, <3>1 DEF NewDraft, Shape, RowHeld
  <2> QED BY <2>5, <2>6, <2>7
<1>9. drafts'[root'].depth = 0 /\ drafts'[root'].flag # "deleted" BY <1>1, <1>7 DEF NewDraft
<1> QED BY <1>1, <1>5, <1>7, <1>8, <1>9, GrownInv

(* The draft that EditAction of k makes of the row r, when f gives each    *)
(* row that is copied the id of its draft.                                 *)
CopyOf(k, f, r) ==
    [parent |-> IF r = k THEN None ELSE f[rows[r].up],
     row |-> r, val |-> rows[r].val, flag |-> "copy", rekeyed |-> FALSE,
     depth |-> IF r = k THEN 0 ELSE IF rows[r].up = k THEN 1 ELSE 2]

LEMMA CopyFields ==
  ASSUME NEW k, NEW f, NEW r
  PROVE  /\ CopyOf(k, f, r).row = r /\ CopyOf(k, f, r).flag = "copy"
         /\ CopyOf(k, f, r).parent = IF r = k THEN None ELSE f[rows[r].up]
         /\ CopyOf(k, f, r).depth = IF r = k THEN 0 ELSE IF rows[r].up = k THEN 1 ELSE 2
<1> DEFINE p == IF r = k THEN None ELSE f[rows[r].up]
           t == IF r = k THEN 0 ELSE IF rows[r].up = k THEN 1 ELSE 2
<1>1. CopyOf(k, f, r) = [parent |-> p, row |-> r, val |-> rows[r].val, flag |-> "copy",
                         rekeyed |-> FALSE, depth |-> t]
  BY DEF CopyOf
<1> HIDE DEF p, t
<1>2. /\ CopyOf(k, f, r).row = r /\ CopyOf(k, f, r).flag = "copy"
      /\ CopyOf(k, f, r).parent = p /\ CopyOf(k, f, r).depth = t
  BY <1>1
<1> QED BY <1>2 DEF p, t

(* The rows that are copied are those of two levels under k.               *)
LEMMA CopiedRows ==
  ASSUME TypeOK, NEW k \in DOMAIN rows, rows[k].up = None
  PROVE  /\ Copied(k) \subseteq DOMAIN rows /\ k \in Copied(k) /\ IsFiniteSet(Copied(k))
         /\ \A r \in Copied(k) \ {k} :
              /\ rows[r].up \in Copied(k) /\ rows[r].up # None
              /\ rows[r].up # k => rows[rows[r].up].up = k
<1>1. /\ RowsUnder({k}) = {r \in DOMAIN rows : rows[r].up = k}
      /\ RowsUnder(RowsUnder({k})) = {r \in DOMAIN rows : rows[r].up \in RowsUnder({k})}
  BY DEF RowsUnder
<1>2. Copied(k) = {k} \cup RowsUnder({k}) \cup RowsUnder(RowsUnder({k})) BY DEF Copied
<1>3. None \notin DOMAIN rows /\ IsFiniteSet(DOMAIN rows) BY Types
<1>4. Copied(k) \subseteq DOMAIN rows /\ k \in Copied(k) BY <1>1, <1>2
<1>5. IsFiniteSet(Copied(k)) BY <1>3, <1>4, FS_Subset
<1>6. ASSUME NEW r \in Copied(k) \ {k}
      PROVE  /\ rows[r].up \in Copied(k) /\ rows[r].up # None
             /\ rows[r].up # k => rows[rows[r].up].up = k
  BY <1>1, <1>2, <1>3, <1>6
<1> QED BY <1>4, <1>5, <1>6

(* What EditAction adds.                                                   *)
LEMMA EditEffect ==
  ASSUME IInv, NEW k \in Keys, Edit(k)
  PROVE  \E f \in [Copied(k) -> Ids \ UsedIds] :
           /\ IsInjective(f) /\ root' = f[k] /\ Grown(Range(f))
           /\ \A r \in Copied(k) : drafts'[f[r]] = CopyOf(k, f, r)
<1> DEFINE C == Copied(k)
           n == Cardinality(C)
           F == Fresh(Ids, UsedIds, n)
           f == Assign(C, F)
           g == [d \in Range(f) |-> CopyOf(k, f, CHOOSE r \in C : f[r] = d)]
<1>1. k \in DOMAIN rows /\ rows[k].up = None /\ root = None /\ RoomFor(Ids, UsedIds, n)
  BY DEF Edit
<1>2. IsFiniteSet(C) /\ n \in Nat /\ k \in C
  BY <1>1, CopiedRows, FS_CardinalityType DEF IInv
<1>3. F \in SUBSET (Ids \ UsedIds) /\ IsFiniteSet(F) /\ Cardinality(F) = n
  <2>1. Ids \in SUBSET Nat /\ IsFiniteSet(Ids) BY FiniteIds, TreeAssumption
  <2> HIDE DEF n
  <2> QED BY <1>1, <1>2, <2>1, FreshIds
<1>4. f \in [C -> F] /\ IsInjective(f)
  <2> HIDE DEF C, F
  <2>1. Cardinality(C) = Cardinality(F) BY <1>3
  <2> QED BY <1>2, <1>3, <2>1, Assigned
<1>5. root' = f[k] /\ drafts' = With(g)
  BY DEF Edit, CopyOf
<1> HIDE DEF f, F, n, C
<1>6. Range(f) \subseteq Ids \ UsedIds /\ f \in [C -> Ids \ UsedIds] BY <1>3, <1>4 DEF Range
<1>7. \A r \in C : f[r] \in Range(f) /\ g[f[r]] = CopyOf(k, f, r)
  <2>1. SUFFICES ASSUME NEW r \in C PROVE f[r] \in Range(f) /\ g[f[r]] = CopyOf(k, f, r)
    OBVIOUS
  <2>2. f[r] \in Range(f) BY <1>4 DEF Range
  <2>3. (CHOOSE q \in C : f[q] = f[r]) = r BY <1>4 DEF IsInjective
  <2> QED BY <2>2, <2>3
<1>8. DOMAIN g = Range(f) OBVIOUS
<1> HIDE DEF g
<1>9. /\ DOMAIN drafts' = DOMAIN drafts \cup Range(f)
      /\ \A d \in DOMAIN drafts : drafts'[d] = drafts[d]
      /\ \A d \in Range(f) : drafts'[d] = g[d]
  <2>1. DOMAIN g \cap DOMAIN drafts = {} BY <1>6, <1>8 DEF UsedIds
  <2> QED BY <1>5, <1>8, <2>1, Joined
<1>10. Grown(Range(f))
  <2>1. rows' = rows /\ answer' = "none" /\ requests' \in 0 .. MaxRequests
    BY RequestType DEF Edit, IInv
  <2> QED BY <1>1, <1>6, <1>9, <2>1 DEF Grown
<1>11. \A r \in C : drafts'[f[r]] = CopyOf(k, f, r) BY <1>7, <1>9
<1> QED BY <1>4, <1>5, <1>6, <1>10, <1>11 DEF C

(* EditAction: the copies hang together as the rows do.                    *)
LEMMA EditInv ==
  ASSUME IInv, NEW k \in Keys, Edit(k)
  PROVE  IInv'
<1> DEFINE C == Copied(k)
<1>1. PICK f \in [C -> Ids \ UsedIds] :
        /\ IsInjective(f) /\ root' = f[k] /\ Grown(Range(f))
        /\ \A r \in C : drafts'[f[r]] = CopyOf(k, f, r)
  BY EditEffect
<1>2. /\ k \in DOMAIN rows /\ rows[k].up = None /\ root = None
      /\ C \subseteq DOMAIN rows /\ k \in C
      /\ \A r \in C \ {k} : /\ rows[r].up \in C /\ rows[r].up # None
                            /\ rows[r].up # k => rows[rows[r].up].up = k
  BY CopiedRows DEF Edit, IInv
<1> HIDE DEF C
<1>3. /\ DOMAIN drafts' = DOMAIN drafts \cup Range(f) /\ rows' = rows
      /\ \A r \in C : f[r] \in DOMAIN drafts' /\ f[r] \in Ids
  BY <1>1 DEF Grown, Range
<1>4. \A q, r \in C : f[q] = f[r] => q = r BY <1>1 DEF IsInjective
<1>5. None \notin DOMAIN drafts' /\ None \notin Ids /\ DOMAIN rows \subseteq Keys
      /\ \A r \in DOMAIN rows : rows[r] \in Row
  <2>1. DOMAIN drafts \subseteq Ids /\ None \notin Ids BY Types DEF IInv
  <2> QED BY <1>1, <1>3, <2>1, Types DEF Grown, IInv
<1>6. \A r \in C : /\ drafts'[f[r]].row = r
                   /\ drafts'[f[r]].parent = IF r = k THEN None ELSE f[rows[r].up]
                   /\ drafts'[f[r]].depth = IF r = k THEN 0 ELSE IF rows[r].up = k THEN 1 ELSE 2
                   /\ drafts'[f[r]].flag = "copy"
  BY <1>1, CopyFields
<1>7. ASSUME NEW r \in C
      PROVE  drafts'[f[r]] \in Draft /\ Shape(f[r])' /\ RowHeld(f[r])'
  <2>1. drafts'[f[r]] \in Draft
    <3> DEFINE p == IF r = k THEN None ELSE f[rows[r].up]
               t == IF r = k THEN 0 ELSE IF rows[r].up = k THEN 1 ELSE 2
    <3>1. p \in Ids \cup {None} BY <1>2, <1>3
    <3>2. t \in 0 .. MaxDepth BY TreeAssumption
    <3>3. r \in Keys /\ rows[r].val \in Vals BY <1>2, <1>5 DEF Row
    <3>4. drafts'[f[r]] = [parent |-> p, row |-> r, val |-> rows[r].val, flag |-> "copy",
                           rekeyed |-> FALSE, depth |-> t]
      BY <1>1 DEF CopyOf
    <3> HIDE DEF p, t
    <3> QED BY <3>1, <3>2, <3>3, <3>4 DEF Draft
  <2>2. CASE r = k
    <3>1. drafts'[f[r]].parent = None /\ drafts'[f[r]].depth = 0 /\ drafts'[f[r]].row = k
      BY <1>6, <2>2
    <3>2. root' = f[r] /\ root' # None BY <1>1, <1>3, <1>5, <2>2
    <3>3. Shape(f[r])' BY <1>5, <3>1, <3>2 DEF Shape
    <3>4. RowHeld(f[r])' BY <1>2, <1>3, <3>1, <3>2 DEF RowHeld
    <3> QED BY <2>1, <3>3, <3>4
  <2>3. CASE r # k
    <3> DEFINE u == rows[r].up
    <3>1. u \in C /\ u # None /\ (u # k => rows[u].up = k) BY <1>2, <2>3
    <3> HIDE DEF u
    <3>2. /\ drafts'[f[r]].parent = f[u] /\ drafts'[f[r]].row = r
          /\ drafts'[f[r]].depth = IF u = k THEN 1 ELSE 2
      BY <1>6, <2>3 DEF u
    <3>3. /\ drafts'[f[u]].depth = IF u = k THEN 0 ELSE 1
          /\ drafts'[f[u]].row = u /\ f[u] \in DOMAIN drafts'
      BY <1>3, <1>6, <3>1
    <3>4. root' = f[k] /\ root' # None /\ f[r] # root' BY <1>1, <1>2, <1>3, <1>4, <1>5, <2>3
    <3>5. Shape(f[r])' BY <3>2, <3>3, <3>4 DEF Shape
    <3>6. RowHeld(f[r])'
      <4>1. rows'[r].up = u BY <1>3 DEF u
      <4> QED BY <3>1, <3>2, <3>3, <3>4, <4>1 DEF RowHeld, HasRow
    <3> QED BY <2>1, <3>5, <3>6
  <2> QED BY <2>2, <2>3
<1>8. \A d \in Range(f) : \E r \in C : d = f[r] BY <1>1 DEF Range
<1>9. \A d \in Range(f) : drafts'[d] \in Draft /\ Shape(d)' /\ RowHeld(d)'
  <2>1. SUFFICES ASSUME NEW d \in Range(f)
                 PROVE  drafts'[d] \in Draft /\ Shape(d)' /\ RowHeld(d)'
    OBVIOUS
  <2>2. PICK r \in C : d = f[r] BY <1>8
  <2> QED BY <1>7, <2>2
<1>10. \A d, e \in Range(f) : drafts'[d].row = drafts'[e].row => d = e BY <1>6, <1>8
<1>11. /\ root' \in DOMAIN drafts' /\ drafts'[root'].depth = 0
       /\ drafts'[root'].flag # "deleted"
  BY <1>1, <1>2, <1>3, <1>6
<1> QED BY <1>1, <1>2, <1>9, <1>10, <1>11, GrownInv

-----------------------------------------------------------------------------
(* Steps that change drafts in place, and steps that clear them            *)

(* PATCH and DELETE leave every draft in its place; a real row may go.     *)
LEMMA ChangedInv ==
  ASSUME IInv, DOMAIN drafts' = DOMAIN drafts,
         \A d \in DOMAIN drafts : /\ drafts'[d] \in Draft /\ drafts'[d].row = drafts[d].row
                                  /\ drafts'[d].parent = drafts[d].parent
                                  /\ drafts'[d].depth = drafts[d].depth,
         root # None => drafts'[root].flag # "deleted",
         DOMAIN rows' \subseteq DOMAIN rows, \A k \in DOMAIN rows' : rows'[k] = rows[k],
         root' = root, answer' \in {"none", "saved", "rejected", "failed"}, requests' \in 0 .. MaxRequests
  PROVE  IInv'
<1>1. TypeOK'
  <2>1. \A d \in DOMAIN drafts' : drafts'[d] \in Draft OBVIOUS
  <2>2. DOMAIN rows' \subseteq Keys /\ \A k \in DOMAIN rows' : rows'[k] \in Row
    BY Types DEF IInv
  <2> QED BY <2>1, <2>2, Types DEF IInv, TypeOK, Range
<1>2. ASSUME NEW d \in DOMAIN drafts PROVE Shape(d)' /\ RowHeld(d)'
  <2>1. Shape(d) /\ RowHeld(d) BY DEF IInv
  <2>2. /\ drafts'[d].row = drafts[d].row /\ drafts'[d].parent = drafts[d].parent
        /\ drafts'[d].depth = drafts[d].depth
    OBVIOUS
  <2>3. Shape(d)' BY <2>1, <2>2 DEF Shape
  <2>4. drafts[d].row # None /\ d # root => drafts[d].parent \in DOMAIN drafts
    BY <2>1 DEF Shape, RowHeld
  <2>5. RowHeld(d)' BY <2>1, <2>2, <2>4 DEF RowHeld, HasRow
  <2> QED BY <2>3, <2>5
<1>3. RowsOnce'
  <2>1. \A d, e \in DOMAIN drafts :
          drafts[d].row = drafts[e].row /\ drafts[d].row # None => d = e
    BY DEF IInv, RowsOnce
  <2> QED BY <2>1 DEF RowsOnce
<1>4. RootIsTop'
  <2>1. root # None => root \in DOMAIN drafts /\ drafts[root].depth = 0
    BY Types DEF IInv, RootIsTop
  <2> QED BY <2>1 DEF RootIsTop, Deleted
<1> QED BY <1>1, <1>2, <1>3, <1>4 DEF IInv

LEMMA PatchInv ==
  ASSUME IInv, root # None, NEW d \in Ids, NEW v \in Vals, NEW rekey \in BOOLEAN,
         Patch(d, v, rekey)
  PROVE  IInv'
<1>1. d \in DOMAIN drafts BY TreeDepths DEF Patch
<1>2. \A e \in DOMAIN drafts : drafts[e] \in Draft BY Types DEF IInv
<1>3. /\ UNCHANGED <<rows, root>> /\ answer' = "none" /\ requests' \in 0 .. MaxRequests
  BY RequestType DEF Patch, IInv
<1>4. DOMAIN drafts' = DOMAIN drafts /\ \A e \in DOMAIN drafts \ {d} : drafts'[e] = drafts[e]
  BY DEF Patch
<1>5. drafts'[d] = [drafts[d] EXCEPT !.val = v, !.flag = "draft", !.rekeyed = @ \/ rekey]
  BY <1>1 DEF Patch
<1>6. /\ drafts'[d] \in Draft /\ drafts'[d].row = drafts[d].row
      /\ drafts'[d].parent = drafts[d].parent /\ drafts'[d].depth = drafts[d].depth
      /\ drafts'[d].flag = "draft"
  <2>1. drafts[d] \in Draft BY <1>1, <1>2
  <2>2. (drafts[d].rekeyed \/ rekey) \in BOOLEAN BY <2>1 DEF Draft
  <2> QED BY <1>5, <2>1, <2>2 DEF Draft
<1>7. root \in DOMAIN drafts /\ drafts[root].flag # "deleted"
  BY Types DEF IInv, RootIsTop, Deleted
<1>8. drafts'[root].flag # "deleted" BY <1>4, <1>6, <1>7
<1>9. \A e \in DOMAIN drafts : /\ drafts'[e] \in Draft /\ drafts'[e].row = drafts[e].row
                               /\ drafts'[e].parent = drafts[e].parent
                               /\ drafts'[e].depth = drafts[e].depth
  BY <1>2, <1>4, <1>6
<1> QED BY <1>3, <1>4, <1>8, <1>9, ChangedInv

LEMMA DeleteInv ==
  ASSUME IInv, root # None, NEW d \in Ids, Delete(d)
  PROVE  IInv'
<1>1. d \in DOMAIN drafts /\ d # root BY TreeDepths DEF Delete
<1>2. \A e \in DOMAIN drafts : drafts[e] \in Draft BY Types DEF IInv
<1>3. /\ UNCHANGED <<rows, root>> /\ answer' = "none" /\ requests' \in 0 .. MaxRequests
  BY RequestType DEF Delete, IInv
<1>4. DOMAIN drafts' = DOMAIN drafts /\ \A e \in DOMAIN drafts \ {d} : drafts'[e] = drafts[e]
  BY DEF Delete
<1>5. drafts'[d] = [drafts[d] EXCEPT !.flag = "deleted"] BY <1>1 DEF Delete
<1>6. /\ drafts'[d] \in Draft /\ drafts'[d].row = drafts[d].row
      /\ drafts'[d].parent = drafts[d].parent /\ drafts'[d].depth = drafts[d].depth
  <2>1. drafts[d] \in Draft BY <1>1, <1>2
  <2> QED BY <1>5, <2>1 DEF Draft
<1>7. root \in DOMAIN drafts /\ drafts[root].flag # "deleted"
  BY Types DEF IInv, RootIsTop, Deleted
<1>8. drafts'[root].flag # "deleted" BY <1>1, <1>4, <1>7
<1>9. \A e \in DOMAIN drafts : /\ drafts'[e] \in Draft /\ drafts'[e].row = drafts[e].row
                               /\ drafts'[e].parent = drafts[e].parent
                               /\ drafts'[e].depth = drafts[e].depth
  BY <1>2, <1>4, <1>6
<1> QED BY <1>3, <1>4, <1>8, <1>9, ChangedInv

(* DELETE of a row past the drafts.                                        *)
LEMMA DeleteRelatedInv ==
  ASSUME IInv, NEW k \in Keys, DeleteRelated(k)
  PROVE  IInv'
<1>1. /\ UNCHANGED <<drafts, root>> /\ answer' = "none" /\ requests' \in 0 .. MaxRequests
      /\ DOMAIN rows' \subseteq DOMAIN rows /\ \A r \in DOMAIN rows' : rows'[r] = rows[r]
  <2>1. requests \in 0 .. MaxRequests /\ MaxRequests \in Nat
    BY TreeAssumption DEF IInv, TypeOK
  <2> QED BY <2>1 DEF DeleteRelated, Restrict
<1>2. \A d \in DOMAIN drafts : drafts[d] \in Draft BY Types DEF IInv
<1>3. root # None => drafts[root].flag # "deleted" BY DEF IInv, RootIsTop, Deleted
<1> QED BY <1>1, <1>2, <1>3, ChangedInv

(* clearEntityDraft leaves drafts of the third level and below, which have *)
(* no row.                                                                 *)
LEMMA ClearedInv ==
  ASSUME IInv, root # None, ClearEntityDraft,
         DOMAIN rows' \subseteq Keys, \A k \in DOMAIN rows' : rows'[k] \in Row,
         answer' \in {"none", "saved", "rejected", "failed"}, requests' = requests
  PROVE  IInv'
<1>1. /\ DOMAIN drafts' = DOMAIN drafts \ Cleared /\ root' = None
      /\ \A d \in DOMAIN drafts' : drafts'[d] = drafts[d]
  BY DEF ClearEntityDraft, Restrict
<1>2. \A d \in DOMAIN drafts' : d \in DOMAIN drafts /\ ~ (drafts'[d].depth <= 2)
  BY <1>1, TreeDepths
<1>3. TypeOK'
  <2>1. DOMAIN drafts' \subseteq Ids /\ \A d \in DOMAIN drafts' : drafts'[d] \in Draft
    BY <1>1, Types DEF IInv
  <2>2. requests' \in 0 .. MaxRequests BY DEF IInv, TypeOK
  <2> QED BY <1>1, <2>1, <2>2 DEF TypeOK, Range
<1>4. ASSUME NEW d \in DOMAIN drafts' PROVE Shape(d)' /\ drafts'[d].row = None
  <2>1. Shape(d) /\ RowHeld(d) /\ drafts'[d] = drafts[d] /\ ~ (drafts[d].depth <= 2)
    BY <1>1, <1>2 DEF IInv
  <2>2. drafts[d].parent \in DOMAIN drafts' =>
          drafts[d].parent \in DOMAIN drafts
            /\ drafts'[drafts[d].parent] = drafts[drafts[d].parent]
    BY <1>1
  <2> QED BY <2>1, <2>2 DEF Shape, RowHeld
<1> QED BY <1>1, <1>3, <1>4 DEF IInv, RowHeld, RowsOnce, RootIsTop

-----------------------------------------------------------------------------
(* What SaveAction writes                                                  *)

(* The key that d has after the Save, when f gives out the new ones.       *)
KeyOf(f, d) == IF d \in NeedKey THEN f[d] ELSE drafts[d].row

(* The keys of the rows that the Save makes.                               *)
MadeKeys(f) == {KeyOf(f, d) : d \in MadeBySave}

(* The drafts whose rows get their contents.                               *)
Written == {d \in Persisted \cup {root} : d \notin MadeBySave /\ ~ Deleted(d)}

Gone == {drafts[d].row : d \in {e \in Persisted : Removes(e)}}

Keying(f) == f \in [NeedKey -> Keys \ UsedKeys] /\ IsInjective(f)

(* The drafts SaveAction hands to the database.                            *)
LEMMA PersistedDrafts ==
  ASSUME IInv, root # None
  PROVE  /\ root \in DOMAIN drafts /\ ~ Deleted(root) /\ root \notin Persisted
         /\ Persisted \subseteq DOMAIN drafts
         /\ Persisted = {d \in DOMAIN drafts :
                           \/ drafts[d].depth = 1
                           \/ /\ drafts[d].depth = 2
                              /\ ~ Deleted(drafts[d].parent) \/ HasRow(drafts[d].parent)}
         /\ \A d \in Persisted : drafts[d].parent \in DOMAIN drafts
         /\ MadeBySave \subseteq DOMAIN drafts /\ NeedKey \subseteq MadeBySave
         /\ IsFiniteSet(NeedKey)
         /\ \A d \in MadeBySave : d # root => d \in Persisted
<1> DEFINE K == Kids(root)
           S == {d \in K : ~ Deleted(d) \/ HasRow(d)}
<1>1. /\ root \in DOMAIN drafts /\ drafts[root].depth = 0 /\ ~ Deleted(root)
      /\ K = {d \in DOMAIN drafts : drafts[d].depth = 1}
      /\ KidsOf(K) = {d \in DOMAIN drafts : drafts[d].depth = 2}
      /\ \A d \in KidsOf(K) : drafts[d].parent \in K
      /\ \A d \in K : drafts[d].parent = root
  BY TreeDepths, Types DEF IInv, RootIsTop
<1>2. \A T : KidsOf(T) = {d \in DOMAIN drafts : drafts[d].parent \in T} BY DEF KidsOf, Kids
<1>3. Persisted = K \cup {d \in DOMAIN drafts : drafts[d].parent \in S} BY <1>2 DEF Persisted
<1> HIDE DEF K
<1>4. \A d \in DOMAIN drafts :
        drafts[d].parent \in S
          <=> drafts[d].depth = 2 /\ (~ Deleted(drafts[d].parent) \/ HasRow(drafts[d].parent))
  <2>1. \A d \in DOMAIN drafts : drafts[d].parent \in K <=> drafts[d].depth = 2
    BY <1>1, <1>2
  <2> QED BY <1>1, <2>1
<1>5. Persisted = {d \in DOMAIN drafts :
                     \/ drafts[d].depth = 1
                     \/ /\ drafts[d].depth = 2
                        /\ ~ Deleted(drafts[d].parent) \/ HasRow(drafts[d].parent)}
  <2> HIDE DEF S
  <2> QED BY <1>1, <1>3, <1>4
<1>6. Persisted \subseteq DOMAIN drafts /\ root \notin Persisted BY <1>1, <1>5
<1>7. \A d \in Persisted : drafts[d].parent \in DOMAIN drafts
  BY <1>1, <1>3
<1>8. MadeBySave \subseteq DOMAIN drafts /\ \A d \in MadeBySave : d # root => d \in Persisted
  BY <1>1, <1>6 DEF MadeBySave
<1>9. NeedKey \subseteq MadeBySave /\ IsFiniteSet(NeedKey)
  <2>1. NeedKey \subseteq MadeBySave BY DEF NeedKey
  <2> QED BY <1>8, <2>1, Types, FS_Subset DEF IInv
<1> QED BY <1>1, <1>5, <1>6, <1>7, <1>8, <1>9

(* Save makes up a key for each row it creates under a new one.            *)
LEMMA SaveKeys ==
  ASSUME IInv, root # None, RoomFor(Keys, UsedKeys, Cardinality(NeedKey))
  PROVE  Keying(Assign(NeedKey, Fresh(Keys, UsedKeys, Cardinality(NeedKey))))
<1> DEFINE M == NeedKey
           n == Cardinality(M)
           F == Fresh(Keys, UsedKeys, n)
<1>1. IsFiniteSet(M) /\ n \in Nat BY PersistedDrafts, FS_CardinalityType
<1>2. Keys \in SUBSET Nat /\ IsFiniteSet(Keys) BY FiniteIds, TreeAssumption
<1>3. F \in SUBSET (Keys \ UsedKeys) /\ IsFiniteSet(F) /\ Cardinality(F) = n
  <2>1. RoomFor(Keys, UsedKeys, n) OBVIOUS
  <2> HIDE DEF n
  <2> QED BY <1>1, <1>2, <2>1, FreshIds
<1> HIDE DEF F
<1>4. Assign(M, F) \in [M -> F] /\ IsInjective(Assign(M, F))
  <2>1. Cardinality(M) = Cardinality(F) BY <1>3
  <2> HIDE DEF M
  <2> QED BY <1>1, <1>3, <2>1, Assigned
<1>5. Assign(M, F) \in [M -> Keys \ UsedKeys] BY <1>3, <1>4
<1> HIDE DEF M, n
<1>6. M = NeedKey /\ F = Fresh(Keys, UsedKeys, Cardinality(NeedKey)) BY DEF M, n, F
<1> QED BY <1>4, <1>5, <1>6 DEF Keying

(* A row that Save makes is new, and no two drafts have one key.           *)
LEMMA KeysDiffer ==
  ASSUME IInv, root # None, NEW f, Keying(f)
  PROVE  /\ \A d \in MadeBySave : /\ KeyOf(f, d) \in Keys \ DOMAIN rows
                                  /\ d \in NeedKey \/ drafts[d].row # None
         /\ \A d, e \in DOMAIN drafts :
              /\ d \in NeedKey \/ drafts[d].row # None
              /\ e \in NeedKey \/ drafts[e].row # None
              /\ KeyOf(f, d) = KeyOf(f, e)
              => d = e
<1>1. \A d \in NeedKey : f[d] \in Keys /\ f[d] \notin UsedKeys BY DEF Keying
<1>2. \A d, e \in NeedKey : f[d] = f[e] => d = e BY DEF Keying, IsInjective
<1>3. DOMAIN rows \subseteq UsedKeys /\ \A d \in DOMAIN drafts : drafts[d].row \in UsedKeys
  BY DEF UsedKeys
<1>4. \A d \in DOMAIN drafts : drafts[d].row \in Keys \cup {None} BY Types DEF IInv, Draft
<1>5. \A d, e \in DOMAIN drafts :
        drafts[d].row = drafts[e].row /\ drafts[d].row # None => d = e
  BY DEF IInv, RowsOnce
<1>6. ASSUME NEW d \in MadeBySave
      PROVE  /\ KeyOf(f, d) \in Keys \ DOMAIN rows
             /\ d \in NeedKey \/ drafts[d].row # None
  <2>1. CASE d \in NeedKey BY <1>1, <1>3, <2>1 DEF KeyOf
  <2>2. CASE d \notin NeedKey
    <3>1. d \in DOMAIN drafts BY PersistedDrafts
    <3>2. drafts[d].row # None /\ ~ drafts[d].rekeyed BY <2>2 DEF NeedKey
    <3>3. ~ HasRow(d) BY <3>2 DEF MadeBySave, Creates
    <3> QED BY <1>4, <2>2, <3>1, <3>2, <3>3 DEF KeyOf, HasRow
  <2> QED BY <2>1, <2>2
<1>7. ASSUME NEW d \in DOMAIN drafts, NEW e \in DOMAIN drafts,
             d \in NeedKey \/ drafts[d].row # None,
             e \in NeedKey \/ drafts[e].row # None,
             KeyOf(f, d) = KeyOf(f, e)
      PROVE  d = e
  <2>1. CASE d \in NeedKey /\ e \in NeedKey BY <1>2, <1>7, <2>1 DEF KeyOf
  <2>2. CASE d \notin NeedKey /\ e \notin NeedKey BY <1>5, <1>7, <2>2 DEF KeyOf
  <2>3. CASE d \in NeedKey /\ e \notin NeedKey BY <1>1, <1>3, <1>7, <2>3 DEF KeyOf
  <2>4. CASE d \notin NeedKey /\ e \in NeedKey BY <1>1, <1>3, <1>7, <2>4 DEF KeyOf
  <2> QED BY <2>1, <2>2, <2>3, <2>4
<1> QED BY <1>6, <1>7

(* The rows after the Save.                                                *)
LEMMA SavedRows ==
  ASSUME IInv, root # None, NEW f, Keying(f)
  PROVE  /\ DOMAIN RowsSaved(f) = (DOMAIN rows \ Gone) \cup MadeKeys(f)
         /\ \A d \in MadeBySave :
              RowsSaved(f)[KeyOf(f, d)] =
                [up |-> IF d = root THEN None ELSE KeyOf(f, drafts[d].parent),
                 val |-> drafts[d].val]
         /\ \A d \in Written : drafts[d].row \in DOMAIN rows \ Gone =>
              RowsSaved(f)[drafts[d].row] = [rows[drafts[d].row] EXCEPT !.val = drafts[d].val]
         /\ \A k \in DOMAIN rows \ Gone :
              (\A d \in Written : drafts[d].row # k) => RowsSaved(f)[k] = rows[k]
<1> DEFINE after == (DOMAIN rows \ Gone) \cup MadeKeys(f)
           Maker(k) == CHOOSE e \in MadeBySave : KeyOf(f, e) = k
           Keeper(k) == CHOOSE e \in Written : drafts[e].row = k
           Up(d) == IF d = root THEN None ELSE KeyOf(f, drafts[d].parent)
<1>1. /\ \A d \in MadeBySave : KeyOf(f, d) \notin DOMAIN rows
      /\ \A d, e \in MadeBySave : KeyOf(f, d) = KeyOf(f, e) => d = e
  BY KeysDiffer, PersistedDrafts
<1>2. Written \subseteq DOMAIN drafts BY PersistedDrafts DEF Written
<1>3. None \notin DOMAIN rows BY Types DEF IInv
<1>4. DOMAIN f = NeedKey BY DEF Keying
<1>5. RowsSaved(f) =
        [k \in after |->
           IF \E d \in MadeBySave : KeyOf(f, d) = k
           THEN [up |-> Up(Maker(k)), val |-> drafts[Maker(k)].val]
           ELSE IF \E d \in Written : drafts[d].row = k
           THEN [rows[k] EXCEPT !.val = drafts[Keeper(k)].val]
           ELSE rows[k]]
  BY <1>4 DEF RowsSaved, KeyOf, MadeKeys, Written, Gone
<1> HIDE DEF Up
<1>6. DOMAIN RowsSaved(f) = after BY <1>5
<1>7. ASSUME NEW d \in MadeBySave
      PROVE  RowsSaved(f)[KeyOf(f, d)] = [up |-> Up(d), val |-> drafts[d].val]
  <2>1. KeyOf(f, d) \in after BY DEF MadeKeys
  <2>2. Maker(KeyOf(f, d)) = d BY <1>1
  <2>3. \E e \in MadeBySave : KeyOf(f, e) = KeyOf(f, d) OBVIOUS
  <2> HIDE DEF Maker, Keeper, after
  <2> QED BY <1>5, <2>1, <2>2, <2>3
<1>8. ASSUME NEW k \in DOMAIN rows \ Gone
      PROVE  k \in after /\ ~ \E d \in MadeBySave : KeyOf(f, d) = k
  BY <1>1
<1>9. ASSUME NEW d \in Written, drafts[d].row \in DOMAIN rows \ Gone
      PROVE  RowsSaved(f)[drafts[d].row] = [rows[drafts[d].row] EXCEPT !.val = drafts[d].val]
  <2> DEFINE k == drafts[d].row
  <2>1. k \in after /\ ~ \E e \in MadeBySave : KeyOf(f, e) = k BY <1>8, <1>9
  <2>2. \A e \in Written : drafts[e].row = k => e = d
    BY <1>2, <1>3, <1>9 DEF IInv, RowsOnce
  <2>3. Keeper(k) = d BY <2>2
  <2>4. \E e \in Written : drafts[e].row = k OBVIOUS
  <2> HIDE DEF Maker, Keeper, after, k
  <2>5. RowsSaved(f)[k] = [rows[k] EXCEPT !.val = drafts[d].val] BY <1>5, <2>1, <2>3, <2>4
  <2> QED BY <2>5 DEF k
<1>10. ASSUME NEW k \in DOMAIN rows \ Gone, \A d \in Written : drafts[d].row # k
       PROVE  RowsSaved(f)[k] = rows[k]
  <2>1. k \in after /\ ~ \E e \in MadeBySave : KeyOf(f, e) = k BY <1>8
  <2> HIDE DEF Maker, Keeper, after
  <2> QED BY <1>5, <1>10, <2>1
<1> HIDE DEF Maker, Keeper
<1> QED BY <1>6, <1>7, <1>9, <1>10 DEF Up

(* The rows keep their type.                                               *)
LEMMA SavedRowsTyped ==
  ASSUME IInv, root # None, NEW f, Keying(f)
  PROVE  /\ DOMAIN RowsSaved(f) \subseteq Keys
         /\ \A k \in DOMAIN RowsSaved(f) : RowsSaved(f)[k] \in Row
<1>1. /\ DOMAIN drafts \subseteq Ids /\ \A d \in DOMAIN drafts : drafts[d] \in Draft
      /\ DOMAIN rows \subseteq Keys /\ \A k \in DOMAIN rows : rows[k] \in Row
  BY Types DEF IInv
<1>2. \A d \in NeedKey : f[d] \in Keys BY DEF Keying
<1>3. /\ MadeKeys(f) \subseteq Keys
      /\ \A k \in MadeKeys(f) : \E d \in MadeBySave : KeyOf(f, d) = k
  BY KeysDiffer DEF MadeKeys
<1>4. DOMAIN RowsSaved(f) = (DOMAIN rows \ Gone) \cup MadeKeys(f) BY SavedRows
<1>5. ASSUME NEW d \in MadeBySave PROVE RowsSaved(f)[KeyOf(f, d)] \in Row
  <2> DEFINE u == IF d = root THEN None ELSE KeyOf(f, drafts[d].parent)
  <2>1. d \in DOMAIN drafts /\ drafts[d].val \in Vals BY <1>1, PersistedDrafts DEF Draft
  <2>2. d # root => drafts[d].parent \in DOMAIN drafts BY PersistedDrafts
  <2>3. \A p \in DOMAIN drafts : KeyOf(f, p) \in Keys \cup {None} BY <1>1, <1>2 DEF KeyOf, Draft
  <2>4. u \in Keys \cup {None} BY <2>2, <2>3
  <2>5. RowsSaved(f)[KeyOf(f, d)] = [up |-> u, val |-> drafts[d].val] BY SavedRows
  <2> HIDE DEF u
  <2> QED BY <2>1, <2>4, <2>5 DEF Row
<1>6. ASSUME NEW k \in DOMAIN rows \ Gone PROVE RowsSaved(f)[k] \in Row
  <2>1. CASE \E d \in Written : drafts[d].row = k
    <3>1. PICK d \in Written : drafts[d].row = k BY <2>1
    <3>2. RowsSaved(f)[k] = [rows[k] EXCEPT !.val = drafts[d].val] BY <3>1, SavedRows
    <3>3. drafts[d].val \in Vals
      <4>1. d \in DOMAIN drafts BY PersistedDrafts DEF Written
      <4> QED BY <1>1, <4>1 DEF Draft
    <3> QED BY <1>1, <3>2, <3>3 DEF Row
  <2>2. CASE ~ \E d \in Written : drafts[d].row = k
    <3>1. RowsSaved(f)[k] = rows[k] BY <2>2, SavedRows
    <3> QED BY <1>1, <3>1
  <2> QED BY <2>1, <2>2
<1> QED BY <1>1, <1>3, <1>4, <1>5, <1>6

(* A SaveAction that succeeds.                                             *)
LEMMA SaveEffect ==
  ASSUME IInv, Save
  PROVE  /\ root # None
         /\ \E f : Keying(f) /\ rows' = RowsSaved(f)
         /\ \E c1, c2, g \in Tree \cup {None} : Order(c1, c2, g) /\ Verified(c1, c2, g)
         /\ ~ LacksParent
<1>1. root # None /\ RoomFor(Keys, UsedKeys, Cardinality(NeedKey)) BY DEF Save
<1>2. Keying(Assign(NeedKey, Fresh(Keys, UsedKeys, Cardinality(NeedKey))))
  BY <1>1, SaveKeys
<1>3. rows' = RowsSaved(Assign(NeedKey, Fresh(Keys, UsedKeys, Cardinality(NeedKey))))
  BY DEF Save
<1>4. /\ \E c1, c2, g \in Tree \cup {None} : Order(c1, c2, g) /\ Verified(c1, c2, g)
      /\ ~ LacksParent
  BY DEF Save
<1> QED BY <1>1, <1>2, <1>3, <1>4

LEMMA StepIInv == IInv /\ [Next]_vars => IInv'
<1> SUFFICES ASSUME IInv, [Next]_vars PROVE IInv'
  OBVIOUS
<1>t. /\ DOMAIN rows \subseteq Keys /\ \A k \in DOMAIN rows : rows[k] \in Row
      /\ requests \in 0 .. MaxRequests /\ root \in DOMAIN drafts \cup {None}
      /\ \A d \in DOMAIN drafts : drafts[d] \in Draft
  BY Types DEF IInv, TypeOK
<1>1. ASSUME Save PROVE IInv'
  <2>1. PICK f : Keying(f) /\ rows' = RowsSaved(f) BY <1>1, SaveEffect
  <2>2. root # None BY <1>1 DEF Save
  <2>3. DOMAIN rows' \subseteq Keys /\ \A k \in DOMAIN rows' : rows'[k] \in Row
    BY <2>1, <2>2, SavedRowsTyped
  <2>4. ClearEntityDraft /\ answer' = "saved" /\ requests' = requests BY <1>1 DEF Save
  <2> QED BY <2>2, <2>3, <2>4, ClearedInv
<1>2. ASSUME Discard PROVE IInv'
  <2>1. ClearEntityDraft /\ answer' = "none" /\ requests' = requests /\ rows' = rows /\ root # None
    BY <1>2 DEF Discard
  <2> QED BY <1>t, <2>1, ClearedInv
<1>3. ASSUME SaveRejected \/ SaveFails PROVE IInv'
  <2>1. UNCHANGED <<drafts, rows, root, requests>> /\ answer' \in {"rejected", "failed"}
    BY <1>3 DEF SaveRejected, SaveFails
  <2>2. root # None => drafts[root].flag # "deleted" BY DEF IInv, RootIsTop, Deleted
  <2> QED BY <1>t, <2>1, <2>2, ChangedInv
<1>4. CASE UNCHANGED vars
  <2>1. root # None => drafts[root].flag # "deleted" BY DEF IInv, RootIsTop, Deleted
  <2>2. answer' \in {"none", "saved", "rejected", "failed"} BY <1>4 DEF IInv, TypeOK, vars
  <2> QED BY <1>t, <1>4, <2>1, <2>2, ChangedInv DEF vars
<1> QED
  BY <1>1, <1>2, <1>3, <1>4, EditInv, NewInv, AddNavInv, PatchInv, DeleteInv,
     DeleteRelatedInv
  DEF Next

LEMMA InitIInv == Init => IInv
<1> SUFFICES ASSUME Init PROVE IInv
  OBVIOUS
<1>1. DOMAIN drafts = {} BY DEF Init
<1>2. TypeOK BY <1>1, TreeAssumption DEF Init, TypeOK, Range, Row
<1> QED BY <1>1, <1>2 DEF Init, IInv, RowsOnce, RootIsTop

LEMMA Invariance == Spec => []IInv
BY InitIInv, StepIInv, PTL DEF Spec

-----------------------------------------------------------------------------
(* The types, and what clearEntityDraft leaves                             *)

(* The types of the drafts and of the real rows, after any requests.       *)
THEOREM TypeCorrect == Spec => []TypeOK
<1>1. IInv => TypeOK BY DEF IInv
<1> QED BY <1>1, Invariance, PTL

(* clearEntityDraft descends two levels; what it leaves behind was created *)
(* below those, however the tree came about.                               *)
THEOREM OnlyDeepOnesAreLeft == Spec => []LeftoversAreDeep
<1>1. IInv => LeftoversAreDeep
  <2> SUFFICES ASSUME IInv, NEW d \in DOMAIN drafts, root = None \/ d \notin Tree
               PROVE  drafts[d].depth >= 3
    BY DEF LeftoversAreDeep
  <2>1. drafts[d].depth \in Nat BY Types, TreeAssumption DEF IInv, Draft
  <2>2. ~ (drafts[d].depth <= 2)
    <3>1. CASE root = None BY <3>1 DEF IInv, Shape
    <3>2. CASE root # None /\ d \notin Tree BY <3>2, TreeDepths
    <3> QED BY <3>1, <3>2
  <2> QED BY <2>1, <2>2
<1> QED BY <1>1, Invariance, PTL

-----------------------------------------------------------------------------
(* What a SaveAction that succeeds has done                                *)

(* Every draft that is not deleted gets a row or keeps its own.            *)
LEMMA WrittenKeys ==
  ASSUME IInv, root # None, NEW f, Keying(f)
  PROVE  /\ \A d \in MadeBySave : KeyOf(f, d) \in DOMAIN RowsSaved(f)
         /\ \A d \in Written : drafts[d].row \in DOMAIN rows \ Gone
         /\ \A d \in Persisted \cup {root} :
              ~ Deleted(d) => d \in MadeBySave \/ d \in Written
<1>1. \A d \in MadeBySave : KeyOf(f, d) \in DOMAIN RowsSaved(f)
  <2>1. DOMAIN RowsSaved(f) = (DOMAIN rows \ Gone) \cup MadeKeys(f) BY SavedRows
  <2>2. \A d \in MadeBySave : KeyOf(f, d) \in MadeKeys(f) BY DEF MadeKeys
  <2> QED BY <2>1, <2>2
<1>2. ASSUME NEW d \in Written PROVE drafts[d].row \in DOMAIN rows \ Gone
  <2>1. d \in DOMAIN drafts /\ d \notin MadeBySave /\ ~ Deleted(d) /\ d \in Persisted \cup {root}
    BY PersistedDrafts DEF Written
  <2>2. HasRow(d) /\ (d \in Persisted => ~ Removes(d))
    BY <2>1 DEF MadeBySave, Creates, Removes
  <2>3. ASSUME NEW e \in Persisted, Removes(e), drafts[e].row = drafts[d].row PROVE FALSE
    <3>1. e \in DOMAIN drafts /\ drafts[d].row # None
      BY <2>2, PersistedDrafts, Types DEF IInv, HasRow
    <3>2. e = d BY <2>1, <2>3, <3>1 DEF IInv, RowsOnce
    <3> QED BY <2>2, <2>3, <3>2
  <2> QED BY <2>2, <2>3 DEF HasRow, Gone
<1>3. \A d \in Persisted \cup {root} : ~ Deleted(d) => d \in MadeBySave \/ d \in Written
  BY DEF Written
<1> QED BY <1>1, <1>2, <1>3

(* The drafts of the first two levels.                                     *)
LEMMA TopTwoDrafts ==
  ASSUME IInv, root # None
  PROVE  /\ TopTwo \subseteq DOMAIN drafts /\ root \notin TopTwo /\ root \in DOMAIN drafts
         /\ ~ Deleted(root)
         /\ ToCarryOut \subseteq Persisted
         /\ \A d \in TopTwo : drafts[d].parent \in DOMAIN drafts
         /\ \A d \in TopTwo \ Persisted :
              Deleted(drafts[d].parent) /\ ~ HasRow(drafts[d].parent)
         /\ \A d \in ToCarryOut :
              ~ Deleted(d) /\ drafts[d].parent \in ToCarryOut \cup {root}
<1>1. /\ Tree \subseteq DOMAIN drafts /\ Cleared \subseteq Tree
      /\ \A d \in DOMAIN drafts : d \in Cleared <=> drafts[d].depth <= 2
      /\ Kids(root) = {d \in DOMAIN drafts : drafts[d].depth = 1}
      /\ KidsOf(Kids(root)) = {d \in DOMAIN drafts : drafts[d].depth = 2}
      /\ \A d \in Kids(root) : drafts[d].parent = root
      /\ \A d \in KidsOf(Kids(root)) : drafts[d].parent \in Kids(root)
  BY TreeDepths
<1>2. root \in DOMAIN drafts /\ drafts[root].depth = 0 /\ ~ Deleted(root)
  BY Types DEF IInv, RootIsTop
<1>3. \A d \in DOMAIN drafts : drafts[d].depth \in Nat BY Types, TreeAssumption DEF IInv, Draft
<1>4. \A d \in DOMAIN drafts :
        d \in TopTwo <=> drafts[d].depth = 1 \/ drafts[d].depth = 2
  BY <1>1, <1>3 DEF TopTwo
<1>5. TopTwo \subseteq DOMAIN drafts BY <1>1 DEF TopTwo
<1>6. \A d \in TopTwo :
        \/ drafts[d].depth = 1 /\ drafts[d].parent = root
        \/ /\ drafts[d].depth = 2 /\ drafts[d].parent \in DOMAIN drafts
           /\ drafts[drafts[d].parent].depth = 1
  BY <1>1, <1>4, <1>5
<1>7. Persisted = {d \in DOMAIN drafts :
                     \/ drafts[d].depth = 1
                     \/ /\ drafts[d].depth = 2
                        /\ ~ Deleted(drafts[d].parent) \/ HasRow(drafts[d].parent)}
  BY PersistedDrafts
<1>8. ToCarryOut \subseteq Persisted BY <1>5, <1>6, <1>7 DEF ToCarryOut
<1>9. \A d \in TopTwo \ Persisted : Deleted(drafts[d].parent) /\ ~ HasRow(drafts[d].parent)
  BY <1>5, <1>6, <1>7
<1>10. ASSUME NEW d \in ToCarryOut
       PROVE  ~ Deleted(d) /\ drafts[d].parent \in ToCarryOut \cup {root}
  <2>1. d \in TopTwo /\ ~ Deleted(d) /\ ~ Deleted(drafts[d].parent) BY DEF ToCarryOut
  <2>2. CASE drafts[d].depth = 1 /\ drafts[d].parent = root BY <2>1, <2>2
  <2>3. CASE /\ drafts[d].parent \in DOMAIN drafts
             /\ drafts[drafts[d].parent].depth = 1
    <3>1. drafts[d].parent \in TopTwo BY <1>4, <2>3
    <3>2. drafts[drafts[d].parent].parent = root BY <1>1, <2>3
    <3> QED BY <1>2, <2>1, <3>1, <3>2 DEF ToCarryOut
  <2> QED BY <1>6, <2>1, <2>2, <2>3
<1> QED BY <1>2, <1>4, <1>5, <1>6, <1>8, <1>9, <1>10

(* Rows of deleted drafts are removed, and none that a Save makes takes    *)
(* their keys; the navigations of a deleted draft without a row are not    *)
(* looked at.                                                              *)
LEMMA DeletedAreRemoved ==
  ASSUME IInv, root # None, NEW f, Keying(f), NEW d \in TopTwo, Deleted(d),
         drafts[d].row \in DOMAIN RowsSaved(f)
  PROVE  Deleted(drafts[d].parent) /\ ~ HasRow(drafts[d].parent)
<1>1. d \in DOMAIN drafts /\ d # root BY TopTwoDrafts
<1>2. drafts[d].row # None BY SavedRowsTyped, Types DEF IInv
<1>3. d \notin MadeBySave BY <1>1 DEF MadeBySave, Creates
<1>4. drafts[d].row \notin MadeKeys(f)
  <2>1. SUFFICES ASSUME NEW e \in MadeBySave, drafts[d].row = KeyOf(f, e) PROVE FALSE
    BY DEF MadeKeys
  <2>2. KeyOf(f, d) = drafts[d].row BY <1>3, PersistedDrafts DEF KeyOf
  <2>3. e \in DOMAIN drafts /\ (e \in NeedKey \/ drafts[e].row # None)
    BY PersistedDrafts, KeysDiffer
  <2>4. d = e BY <1>1, <1>2, <2>1, <2>2, <2>3, KeysDiffer
  <2> QED BY <1>3, <2>4
<1>5. drafts[d].row \in DOMAIN rows \ Gone BY <1>4, SavedRows
<1>6. d \notin Persisted BY <1>5 DEF Gone, Removes, HasRow
<1> QED BY <1>6, TopTwoDrafts

(* The drafts to carry out have the keys that KeyOf says.                  *)
LEMMA RowsCarryOut ==
  ASSUME IInv, root # None, NEW f, Keying(f), rows' = RowsSaved(f)
  PROVE  CarriedOut
<1> DEFINE L == ToCarryOut \cup {root}
           F == [d \in L |-> KeyOf(f, d)]
<1>1. /\ L \subseteq Persisted \cup {root} /\ \A d \in L : ~ Deleted(d)
      /\ L \subseteq DOMAIN drafts /\ root \notin ToCarryOut
      /\ \A d \in ToCarryOut : drafts[d].parent \in L
  BY TopTwoDrafts, PersistedDrafts DEF ToCarryOut
<1>2. \A d \in L : (d \in MadeBySave \/ d \in Written) BY <1>1, WrittenKeys
<1>3. \A d \in L : \/ /\ d \in MadeBySave /\ F[d] \in DOMAIN rows'
                      /\ d \in NeedKey \/ drafts[d].row # None
                      /\ rows'[F[d]].val = drafts[d].val
                      /\ rows'[F[d]].up = IF d = root THEN None ELSE KeyOf(f, drafts[d].parent)
                   \/ /\ d \in Written /\ d \notin MadeBySave /\ F[d] = drafts[d].row
                      /\ drafts[d].row \in DOMAIN rows /\ drafts[d].row \in DOMAIN rows'
                      /\ rows'[drafts[d].row].val = drafts[d].val
                      /\ rows'[drafts[d].row].up = rows[drafts[d].row].up
  <2>1. SUFFICES ASSUME NEW d \in L
                 PROVE  \/ /\ d \in MadeBySave /\ F[d] \in DOMAIN rows'
                           /\ d \in NeedKey \/ drafts[d].row # None
                           /\ rows'[F[d]].val = drafts[d].val
                           /\ rows'[F[d]].up = IF d = root THEN None ELSE KeyOf(f, drafts[d].parent)
                        \/ /\ d \in Written /\ d \notin MadeBySave /\ F[d] = drafts[d].row
                           /\ drafts[d].row \in DOMAIN rows /\ drafts[d].row \in DOMAIN rows'
                           /\ rows'[drafts[d].row].val = drafts[d].val
                           /\ rows'[drafts[d].row].up = rows[drafts[d].row].up
    OBVIOUS
  <2>2. CASE d \in MadeBySave
    <3> DEFINE u == IF d = root THEN None ELSE KeyOf(f, drafts[d].parent)
    <3>1. F[d] = KeyOf(f, d) OBVIOUS
    <3>2. rows'[KeyOf(f, d)] = [up |-> u, val |-> drafts[d].val] BY <2>2, SavedRows
    <3>3. KeyOf(f, d) \in DOMAIN rows' /\ (d \in NeedKey \/ drafts[d].row # None)
      BY <2>2, WrittenKeys, KeysDiffer
    <3> HIDE DEF u, F
    <3>4. rows'[F[d]].up = u /\ rows'[F[d]].val = drafts[d].val BY <3>1, <3>2
    <3> QED BY <2>2, <3>1, <3>3, <3>4 DEF u
  <2>3. CASE d \notin MadeBySave
    <3>1. d \in Written /\ F[d] = drafts[d].row
      BY <1>2, <2>3, PersistedDrafts DEF KeyOf
    <3>2. drafts[d].row \in DOMAIN rows \ Gone BY <3>1, WrittenKeys
    <3>3. rows'[drafts[d].row] = [rows[drafts[d].row] EXCEPT !.val = drafts[d].val]
      BY <3>1, <3>2, SavedRows
    <3>4. rows[drafts[d].row] \in Row BY <3>2, Types DEF IInv
    <3>5. /\ rows'[drafts[d].row].val = drafts[d].val
          /\ rows'[drafts[d].row].up = rows[drafts[d].row].up
      BY <3>3, <3>4 DEF Row
    <3>6. drafts[d].row \in DOMAIN rows' BY <3>2, SavedRows
    <3> QED BY <2>3, <3>1, <3>2, <3>5, <3>6
  <2> QED BY <2>2, <2>3
<1>4. DOMAIN F = L OBVIOUS
<1> HIDE DEF F, L
<1>5. F \in [L -> DOMAIN rows']
  <2>1. F = [d \in L |-> F[d]] BY DEF F
  <2>2. \A d \in L : F[d] \in DOMAIN rows' BY <1>3
  <2> QED BY <2>1, <2>2
<1>6. IsInjective(F)
  <2>1. SUFFICES ASSUME NEW d \in L, NEW e \in L, F[d] = F[e] PROVE d = e
    BY <1>4 DEF IsInjective
  <2>2. None \notin DOMAIN rows BY Types DEF IInv
  <2>3. \A c \in L : F[c] = KeyOf(f, c) BY DEF F
  <2>4. \A c \in L : c \in NeedKey \/ drafts[c].row # None BY <1>3, <2>2
  <2>5. d \in DOMAIN drafts /\ e \in DOMAIN drafts BY <1>1 DEF L
  <2> QED BY <2>1, <2>3, <2>4, <2>5, KeysDiffer
<1>7. \A d \in L : rows'[F[d]].val = drafts[d].val BY <1>3
<1>8. ASSUME NEW d \in ToCarryOut, ~ drafts[drafts[d].parent].rekeyed
      PROVE  rows'[F[d]].up = F[drafts[d].parent]
  <2> DEFINE p == drafts[d].parent
  <2>1. p \in L /\ d \in L /\ d # root BY <1>1 DEF L
  <2>2. F[p] = KeyOf(f, p) BY <2>1 DEF F
  <2>3. CASE d \in MadeBySave BY <1>3, <2>1, <2>2, <2>3
  <2>4. CASE d \notin MadeBySave
    <3>1. /\ F[d] = drafts[d].row /\ rows'[drafts[d].row].up = rows[drafts[d].row].up
          /\ drafts[d].row \in DOMAIN rows
      BY <1>3, <2>1, <2>4
    <3>2. drafts[d].row # None /\ d \in DOMAIN drafts /\ HasRow(d)
      BY <1>1, <2>1, <3>1, Types DEF IInv, HasRow
    <3>3. drafts[p].row = rows[drafts[d].row].up /\ drafts[p].row # None
      BY <2>1, <3>2 DEF IInv, RowHeld
    <3>4. p \notin NeedKey BY <1>8, <3>3 DEF NeedKey
    <3> QED BY <2>2, <3>1, <3>3, <3>4 DEF KeyOf
  <2> QED BY <2>3, <2>4
<1> QED BY <1>5, <1>6, <1>7, <1>8 DEF CarriedOut, L

(* Only Save is a SaveAction that succeeds.                                *)
LEMMA SavesIsSave == ASSUME [Next]_vars, Saves PROVE Save
<1>1. root # None /\ answer' = "saved" /\ root' = None BY DEF Saves
<1> QED BY <1>1
  DEF Next, vars, Edit, New, AddNav, Patch, Delete, DeleteRelated, SaveRejected, SaveFails, Discard, Request

(* A SaveAction that succeeds has removed the rows of deleted drafts, but  *)
(* for those under a deleted draft whose row had gone before, and stored   *)
(* every other draft of two levels under its parent                        *)
(* (persistentTwoLevelNavEntity), however the tree came about and whatever *)
(* rows have been deleted past the drafts.                                 *)
THEOREM SaveCarriesOut == Spec => SavedAsDrafted
<1> DEFINE Removed ==
             \A d \in TopTwo :
               Deleted(d) => \/ drafts[d].row \notin DOMAIN rows'
                             \/ /\ Deleted(drafts[d].parent)
                                /\ ~HasRow(drafts[d].parent)
<1>1. IInv /\ [Next]_vars => [Saves => Removed /\ CarriedOut]_vars
  <2> SUFFICES ASSUME IInv, [Next]_vars, Saves PROVE Removed /\ CarriedOut
    OBVIOUS
  <2>1. Save BY SavesIsSave
  <2>2. root # None BY <2>1, SaveEffect
  <2>3. PICK f : Keying(f) /\ rows' = RowsSaved(f) BY <2>1, SaveEffect
  <2>4. CarriedOut BY <2>2, <2>3, RowsCarryOut
  <2>5. Removed BY <2>2, <2>3, DeletedAreRemoved
  <2> QED BY <2>4, <2>5
<1> QED BY <1>1, Invariance, PTL DEF Spec, SavedAsDrafted

(* With at most two navigation drafts, none of them deleted, what          *)
(* verifyProperty reaches takes in every draft that is written.            *)
LEMMA AllVerified ==
  ASSUME IInv, root # None, NEW c1, NEW c2, NEW g, Order(c1, c2, g), Verified(c1, c2, g),
         Cardinality(Kids(root)) <= 2, \A d \in Kids(root) : ~ Deleted(d)
  PROVE  \A d \in Persisted \cup {root} : ~ Deleted(d) => drafts[d].val \in Valid
<1> DEFINE K == Kids(root)
<1>1. /\ K \subseteq DOMAIN drafts /\ IsFiniteSet(K)
      /\ None \notin DOMAIN drafts /\ root \in DOMAIN drafts
  <2>1. K \subseteq DOMAIN drafts BY DEF Kids
  <2> QED BY <2>1, Types, FS_Subset DEF IInv
<1>2. /\ c1 \in IF K = {} THEN {None} ELSE K
      /\ c2 \in IF K \ {c1} = {} THEN {None} ELSE K \ {c1}
  BY DEF Order
<1>3. K \subseteq {c1, c2}
  <2>1. SUFFICES ASSUME NEW x \in K, x # c1, x # c2 PROVE FALSE OBVIOUS
  <2> HIDE DEF K
  <2>2. c1 \in K /\ c2 \in K /\ c1 # c2 BY <1>2, <2>1
  <2>3. IsFiniteSet({c1}) /\ Cardinality({c1}) = 1 BY FS_Singleton
  <2>4. IsFiniteSet({c1} \cup {c2}) /\ Cardinality({c1} \cup {c2}) = 2
    BY <2>2, <2>3, FS_AddElement
  <2>5. Cardinality(({c1} \cup {c2}) \cup {x}) = 3
    <3>1. x \notin {c1} \cup {c2} BY <2>1
    <3>2. Cardinality(({c1} \cup {c2}) \cup {x}) = Cardinality({c1} \cup {c2}) + 1
      BY <2>4, <3>1, FS_AddElement
    <3> QED BY <2>4, <3>2
  <2>6. ({c1} \cup {c2}) \cup {x} \in SUBSET K BY <2>1, <2>2
  <2>7. 3 <= Cardinality(K) BY <1>1, <2>5, <2>6, FS_Subset
  <2>8. Cardinality(K) \in Nat /\ Cardinality(K) <= 2 BY <1>1, FS_CardinalityType DEF K
  <2> QED BY <2>7, <2>8
<1>4. {root} \cup K \subseteq Descended(c1, c2, g)
  BY <1>1, <1>3, PersistedDrafts DEF Descended
<1>5. Persisted \subseteq KidsOf(Descended(c1, c2, g))
  <2>1. \A S : KidsOf(S) = {d \in DOMAIN drafts : drafts[d].parent \in S} BY DEF KidsOf, Kids
  <2>2. K = {d \in DOMAIN drafts : drafts[d].parent = root} BY DEF Kids
  <2> HIDE DEF K
  <2>3. Persisted = K \cup KidsOf({d \in K : ~ Deleted(d) \/ HasRow(d)}) BY DEF Persisted, K
  <2> QED BY <1>4, <2>1, <2>2, <2>3
<1> QED BY <1>5 DEF Verified

(* SaveAction writes only what verifyProperty has checked, under the two   *)
(* conditions that its count of levels makes necessary.                    *)
THEOREM OnlyVerifiedIsWritten == Spec => WritesVerified
<1>1. IInv /\ [Next]_vars
        => [Saves /\ Cardinality(Kids(root)) <= 2 /\ (\A d \in Kids(root) : ~Deleted(d))
              => \A k \in DOMAIN rows' :
                    \/ rows'[k].val \in Valid
                    \/ k \in DOMAIN rows /\ rows'[k] = rows[k]]_vars
  <2> SUFFICES ASSUME IInv, [Next]_vars, Saves, Cardinality(Kids(root)) <= 2,
                      \A d \in Kids(root) : ~ Deleted(d), NEW k \in DOMAIN rows'
               PROVE  \/ rows'[k].val \in Valid
                      \/ k \in DOMAIN rows /\ rows'[k] = rows[k]
    OBVIOUS
  <2>1. Save BY SavesIsSave
  <2>2. root # None BY <2>1, SaveEffect
  <2>3. PICK f : Keying(f) /\ rows' = RowsSaved(f) BY <2>1, SaveEffect
  <2>4. \A d \in Persisted \cup {root} : ~ Deleted(d) => drafts[d].val \in Valid
    BY <2>1, <2>2, SaveEffect, AllVerified
  <2>5. \A d \in MadeBySave : d \in Persisted \cup {root} /\ ~ Deleted(d)
    BY <2>2, PersistedDrafts DEF MadeBySave, Creates
  <2>6. DOMAIN rows' = (DOMAIN rows \ Gone) \cup MadeKeys(f) BY <2>2, <2>3, SavedRows
  <2>7. CASE k \in MadeKeys(f)
    <3>1. PICK d \in MadeBySave : k = KeyOf(f, d) BY <2>7 DEF MadeKeys
    <3>2. rows'[k] = [up |-> IF d = root THEN None ELSE KeyOf(f, drafts[d].parent),
                      val |-> drafts[d].val]
      BY <2>2, <2>3, <3>1, SavedRows
    <3>3. rows'[k].val = drafts[d].val BY <3>2
    <3> QED BY <2>4, <2>5, <3>3
  <2>8. CASE k \in DOMAIN rows \ Gone
    <3>1. CASE \E d \in Written : drafts[d].row = k
      <4>1. PICK d \in Written : drafts[d].row = k BY <3>1
      <4>2. rows'[k] = [rows[k] EXCEPT !.val = drafts[d].val]
        BY <2>2, <2>3, <2>8, <4>1, SavedRows
      <4>3. rows[k] \in Row BY <2>8, Types DEF IInv
      <4>4. rows'[k].val = drafts[d].val BY <4>2, <4>3 DEF Row
      <4> QED BY <2>4, <4>1, <4>4 DEF Written
    <3>2. CASE ~ \E d \in Written : drafts[d].row = k
      <4>1. rows'[k] = rows[k] BY <2>2, <2>3, <2>8, <3>2, SavedRows
      <4> QED BY <2>8, <4>1
    <3> QED BY <3>1, <3>2
  <2> QED BY <2>6, <2>7, <2>8
<1> QED BY <1>1, Invariance, PTL DEF Spec, WritesVerified

=============================================================================
