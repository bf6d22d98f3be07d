------------------------ MODULE StickySessionProofs ------------------------
(***************************************************************************)
(* Proofs about StickySession and StickyRaces, for every value of their    *)
(* constants.                                                              *)
(***************************************************************************)
EXTENDS StickyRaces, TLAPS

-----------------------------------------------------------------------------
(* Type correctness.                                                       *)

(* The steps of a request that use the draft id, and those that use the    *)
(* contents it carries.                                                    *)
IdSteps == {"editLookup", "editReuse", "editCopy", "new", "save", "persist"}
              \cup CommitSteps
ValSteps == {"patch"} \cup CommitSteps

(* A request in progress has the fields its next step dereferences. *)
WellFormed(r) ==
    /\ r \in Request
    /\ r.pc # "idle" => r.key \in Keys
    /\ r.pc \in IdSteps => r.id \in UUIDs
    /\ r.pc \in ValSteps => r.val \in Vals

(* The strengthening that makes TypeOK inductive. *)
Shape ==
    \A c \in Clients :
        /\ WellFormed(req[c])
        /\ ctx[c].id # None => ctx[c].key \in Keys

TypeInv == TypeOK /\ Shape

LEMMA ReqStep ==
    ASSUME TypeInv, NEW c \in Clients, NEW r, WellFormed(r),
           req' = [req EXCEPT ![c] = r]
    PROVE  /\ req' \in [Clients -> Request]
           /\ \A d \in Clients : WellFormed(req'[d])
BY DEF TypeInv, TypeOK, Shape, WellFormed

(* A request moves to a step with the fields that step needs. *)
LEMMA BeginStep ==
    ASSUME TypeInv, NEW c \in Clients, NEW step \in Steps \ {"idle"},
           NEW k \in Keys, NEW u \in UUIDs \cup {None}, NEW v \in Vals \cup {None},
           step \in IdSteps => u \in UUIDs,
           step \in ValSteps => v \in Vals,
           Begin(c, step, k, u, v)
    PROVE  /\ req' \in [Clients -> Request]
           /\ \A d \in Clients : WellFormed(req'[d])
<1> DEFINE r == [pc |-> step, key |-> k, id |-> u, val |-> v]
<1>1. WellFormed(r)
  BY DEF WellFormed, Request
<1>2. req' = [req EXCEPT ![c] = r]
  BY DEF Begin
<1> QED BY <1>1, <1>2, ReqStep

(* A request ends. *)
LEMMA EndStep ==
    ASSUME TypeInv, NEW c \in Clients, End(c)
    PROVE  /\ req' \in [Clients -> Request]
           /\ \A d \in Clients : WellFormed(req'[d])
<1>1. WellFormed(NoRequest)
  BY DEF WellFormed, NoRequest, Request, Steps, CommitSteps, IdSteps, ValSteps
<1>2. req' = [req EXCEPT ![c] = NoRequest]
  BY DEF End
<1> QED BY <1>1, <1>2, ReqStep

(* The client of c is given a context. *)
LEMMA CtxStep ==
    ASSUME TypeInv, NEW c \in Clients, NEW u \in UUIDs, NEW k \in Keys,
           ctx' = [ctx EXCEPT ![c] = [id |-> u, key |-> k]]
    PROVE  /\ ctx' \in [Clients -> Context]
           /\ \A d \in Clients : ctx'[d].id # None => ctx'[d].key \in Keys
BY DEF TypeInv, TypeOK, Shape, Context

(* The client of c forgets its context. *)
LEMMA NoCtxStep ==
    ASSUME TypeInv, NEW c \in Clients, ctx' = [ctx EXCEPT ![c] = NoContext]
    PROVE  /\ ctx' \in [Clients -> Context]
           /\ \A d \in Clients : ctx'[d].id # None => ctx'[d].key \in Keys
BY DEF TypeInv, TypeOK, Shape, Context, NoContext

(* Clearing drafts keeps both draft tables well formed. *)
LEMMA ClearType ==
    ASSUME TypeInv, NEW S, clearEntityDraft(S)
    PROVE  /\ admin' \in [UUIDs -> AdminRecord \cup {None}]
           /\ row' \in [UUIDs -> DraftRow \cup {None}]
BY DEF clearEntityDraft, Cleared, TypeInv, TypeOK

(* The header's id, checked, is a draft id or null. *)
LEMMA CheckType ==
    ASSUME TypeInv, NEW c \in Clients
    PROVE  /\ checkSapContextId(c) \in UUIDs \cup {None}
           /\ checkSapContextId(c) # None =>
                 /\ ctx[c].id \in UUIDs
                 /\ ctx[c].id = checkSapContextId(c)
                 /\ ctx[c].key \in Keys
                 /\ admin[ctx[c].id] # None
BY ConstantsAssumption DEF checkSapContextId, Live, TypeInv, TypeOK, Shape, Context

(* What a request in progress carries. *)
LEMMA Fields ==
    ASSUME TypeInv, NEW c \in Clients
    PROVE  /\ req[c].pc # "idle" => req[c].key \in Keys
           /\ req[c].pc \in IdSteps => req[c].id \in UUIDs
           /\ req[c].pc \in ValSteps => req[c].val \in Vals
           /\ req[c].id \in UUIDs \cup {None}
           /\ req[c].val \in Vals \cup {None}
           /\ ctx[c].id \in UUIDs \cup {None}
BY DEF TypeInv, Shape, WellFormed, TypeOK, Request, Context

(* Nothing of the type invariant depends on anything but the variables. *)
LEMMA TypeStutter ==
    ASSUME TypeInv, UNCHANGED vars
    PROVE  TypeInv'
BY DEF TypeInv, TypeOK, Shape, vars

(* EditAction keeps the types. *)
LEMMA EditType ==
    ASSUME TypeInv, NEW c \in Clients, EditNext(c)
    PROVE  TypeInv'
<1> USE DEF TypeInv, Shape
<1>1. ASSUME NEW k \in KeysOf[c], EditCheck(c, k)
      PROVE  TypeInv'
  <2>1. k \in Keys
    BY ConstantsAssumption
  <2>2. /\ req' \in [Clients -> Request]
        /\ \A d \in Clients : WellFormed(req'[d])
    BY <1>1, <2>1, BeginStep DEF EditCheck, Steps, CommitSteps, IdSteps, ValSteps
  <2> QED BY <1>1, <2>2 DEF EditCheck, TypeOK
<1>2. CASE EditContext(c)
  <2>1. PICK u \in UUIDs : /\ issued' = issued \cup {u}
                           /\ Begin(c, "editLookup", req[c].key, u, None)
    BY <1>2 DEF EditContext
  <2>2. req[c].key \in Keys
    BY <1>2, Fields DEF EditContext, At
  <2>3. /\ req' \in [Clients -> Request]
        /\ \A d \in Clients : WellFormed(req'[d])
    BY <2>1, <2>2, BeginStep DEF Steps, CommitSteps, IdSteps, ValSteps
  <2> QED BY <1>2, <2>1, <2>3 DEF EditContext, TypeOK
<1>3. CASE EditLookup(c)
  <2>1. req[c].key \in Keys /\ req[c].id \in UUIDs /\ req[c].val \in Vals \cup {None}
    BY <1>3, Fields DEF EditLookup, At, IdSteps
  <2>2. /\ req' \in [Clients -> Request]
        /\ \A d \in Clients : WellFormed(req'[d])
    <3>1. CASE Goto(c, "editCopy")
      BY <3>1, <2>1, BeginStep DEF Goto, Steps, CommitSteps, IdSteps, ValSteps
    <3>2. CASE \E u \in DraftsOf(req[c].key) : Begin(c, "editReuse", req[c].key, u, None)
      BY <3>2, <2>1, BeginStep DEF DraftsOf, Steps, CommitSteps, IdSteps, ValSteps
    <3> QED BY <1>3, <3>1, <3>2 DEF EditLookup
  <2> QED BY <1>3, <2>2 DEF EditLookup, TypeOK
<1>4. CASE EditReuse(c)
  <2>1. req[c].key \in Keys /\ req[c].id \in UUIDs
    BY <1>4, Fields DEF EditReuse, At, IdSteps
  <2>2. /\ ctx' \in [Clients -> Context]
        /\ \A d \in Clients : ctx'[d].id # None => ctx'[d].key \in Keys
    BY <1>4, <2>1, CtxStep DEF EditReuse
  <2>3. /\ req' \in [Clients -> Request]
        /\ \A d \in Clients : WellFormed(req'[d])
    BY <1>4, EndStep DEF EditReuse
  <2> QED BY <1>4, <2>2, <2>3 DEF EditReuse, TypeOK
<1>5. CASE EditCopy(c)
  <2>1. req[c].key \in Keys /\ req[c].id \in UUIDs
    BY <1>5, Fields DEF EditCopy, At, IdSteps
  <2>2. /\ ctx' \in [Clients -> Context]
        /\ \A d \in Clients : ctx'[d].id # None => ctx'[d].key \in Keys
    BY <1>5, <2>1, CtxStep DEF EditCopy
  <2>3. /\ req' \in [Clients -> Request]
        /\ \A d \in Clients : WellFormed(req'[d])
    BY <1>5, EndStep DEF EditCopy
  <2>4. real[req[c].key] \in Vals
    BY <1>5, <2>1 DEF EditCopy, TypeOK
  <2>5. admin' \in [UUIDs -> AdminRecord \cup {None}]
    <3> DEFINE new == [key |-> req[c].key, user |-> UserOf[c]]
    <3>1. new \in AdminRecord BY <2>1, ConstantsAssumption DEF AdminRecord
    <3>2. admin' = [admin EXCEPT ![req[c].id] = new] BY <1>5 DEF EditCopy
    <3> HIDE DEF new
    <3> QED BY <2>1, <3>1, <3>2 DEF TypeOK
  <2>6. row' \in [UUIDs -> DraftRow \cup {None}]
    <3>1. row[req[c].id] = None \/ row[req[c].id] \in DraftRow
      BY <2>1 DEF TypeOK
    <3> DEFINE new == [key |-> req[c].key, val |-> real[req[c].key],
                       flag |-> IF row[req[c].id] = None THEN "copy" ELSE row[req[c].id].flag,
                       hasActive |-> row[req[c].id] = None \/ row[req[c].id].hasActive]
    <3>2. new \in DraftRow BY <2>1, <2>4, <3>1 DEF DraftRow, Flags
    <3>3. row' = [row EXCEPT ![req[c].id] = new] BY <1>5 DEF EditCopy
    <3> HIDE DEF new
    <3> QED BY <2>1, <3>2, <3>3 DEF TypeOK
  <2>7. acked' \in [UUIDs -> Vals \cup {None}]
    BY <1>5, <2>1, <2>4 DEF EditCopy, TypeOK
  <2> QED BY <1>5, <2>2, <2>3, <2>5, <2>6, <2>7 DEF EditCopy, TypeOK
<1> QED BY <1>1, <1>2, <1>3, <1>4, <1>5 DEF EditNext

(* NewAction keeps the types. *)
LEMMA NewType ==
    ASSUME TypeInv, NEW c \in Clients, NewNext(c)
    PROVE  TypeInv'
<1> USE DEF TypeInv, Shape
<1>1. ASSUME NEW k \in KeysOf[c], NewContext(c, k)
      PROVE  TypeInv'
  <2>1. k \in Keys
    BY ConstantsAssumption
  <2>2. PICK u \in UUIDs : /\ issued' = issued \cup {u, k}
                           /\ Begin(c, "new", k, u, None)
    BY <1>1 DEF NewContext
  <2>3. /\ req' \in [Clients -> Request]
        /\ \A d \in Clients : WellFormed(req'[d])
    BY <2>1, <2>2, BeginStep DEF Steps, CommitSteps, IdSteps, ValSteps
  <2> QED BY <1>1, <2>1, <2>2, <2>3 DEF NewContext, TypeOK
<1>2. ASSUME NEW v \in Vals, NewCreate(c, v)
      PROVE  TypeInv'
  <2>1. req[c].key \in Keys /\ req[c].id \in UUIDs
    BY <1>2, Fields DEF NewCreate, At, IdSteps
  <2>2. /\ ctx' \in [Clients -> Context]
        /\ \A d \in Clients : ctx'[d].id # None => ctx'[d].key \in Keys
    BY <1>2, <2>1, CtxStep DEF NewCreate
  <2>3. /\ req' \in [Clients -> Request]
        /\ \A d \in Clients : WellFormed(req'[d])
    BY <1>2, EndStep DEF NewCreate
  <2>4. admin' \in [UUIDs -> AdminRecord \cup {None}]
    BY <1>2, <2>1, ConstantsAssumption DEF NewCreate, TypeOK, AdminRecord
  <2>5. row' \in [UUIDs -> DraftRow \cup {None}]
    BY <1>2, <2>1 DEF NewCreate, TypeOK, DraftRow, Flags
  <2>6. acked' \in [UUIDs -> Vals \cup {None}]
    BY <1>2, <2>1 DEF NewCreate, TypeOK
  <2> QED BY <1>2, <2>2, <2>3, <2>4, <2>5, <2>6 DEF NewCreate, TypeOK
<1> QED BY <1>1, <1>2 DEF NewNext

(* PATCH and DELETE keep the types. *)
LEMMA ChangeType ==
    ASSUME TypeInv, NEW c \in Clients, ChangeNext(c)
    PROVE  TypeInv'
<1> USE DEF TypeInv, Shape
<1>1. ASSUME NEW k \in KeysOf[c], NEW v \in Vals, PatchCheck(c, k, v)
      PROVE  TypeInv'
  <2>1. k \in Keys /\ checkSapContextId(c) \in UUIDs \cup {None}
    BY ConstantsAssumption, CheckType
  <2>2. /\ req' \in [Clients -> Request]
        /\ \A d \in Clients : WellFormed(req'[d])
    BY <1>1, <2>1, BeginStep DEF PatchCheck, Steps, CommitSteps, IdSteps, ValSteps
  <2> QED BY <1>1, <2>2 DEF PatchCheck, TypeOK
<1>2. CASE PatchDraft(c)
  <2>1. req[c].val \in Vals /\ req[c].id \in UUIDs
    BY <1>2, Fields DEF PatchDraft, At, ValSteps
  <2>2. PICK u \in RowsOf(req[c].key) :
           row' = [row EXCEPT ![u] = [key |-> row[u].key, val |-> req[c].val,
                                      flag |-> "draft", hasActive |-> row[u].hasActive]]
    BY <1>2 DEF PatchDraft
  <2>3. row[u] \in DraftRow
    BY <2>2 DEF RowsOf, TypeOK
  <2>4. row' \in [UUIDs -> DraftRow \cup {None}]
    BY <2>1, <2>2, <2>3 DEF TypeOK, DraftRow, Flags, RowsOf
  <2>5. acked' \in [UUIDs -> Vals \cup {None}]
    BY <1>2, <2>1 DEF PatchDraft, TypeOK
  <2>6. /\ req' \in [Clients -> Request]
        /\ \A d \in Clients : WellFormed(req'[d])
    BY <1>2, EndStep DEF PatchDraft
  <2> QED BY <1>2, <2>4, <2>5, <2>6 DEF PatchDraft, TypeOK
<1>3. CASE PatchReal(c)
  <2>1. req[c].val \in Vals /\ req[c].key \in Keys
    BY <1>3, Fields DEF PatchReal, At, ValSteps
  <2>2. /\ req' \in [Clients -> Request]
        /\ \A d \in Clients : WellFormed(req'[d])
    BY <1>3, EndStep DEF PatchReal
  <2> QED BY <1>3, <2>1, <2>2 DEF PatchReal, TypeOK
<1>4. ASSUME NEW k \in KeysOf[c], DeleteCheck(c, k)
      PROVE  TypeInv'
  <2>1. k \in Keys /\ checkSapContextId(c) \in UUIDs \cup {None}
    BY ConstantsAssumption, CheckType
  <2>2. /\ req' \in [Clients -> Request]
        /\ \A d \in Clients : WellFormed(req'[d])
    BY <1>4, <2>1, BeginStep DEF DeleteCheck, Steps, CommitSteps, IdSteps, ValSteps
  <2> QED BY <1>4, <2>2 DEF DeleteCheck, TypeOK
<1>5. CASE DeleteRead(c)
  <2>1. /\ req[c].key \in Keys
        /\ req[c].id \in UUIDs \cup {None}
        /\ req[c].val \in Vals \cup {None}
    BY <1>5, Fields DEF DeleteRead, At
  <2>2. /\ req' \in [Clients -> Request]
        /\ \A d \in Clients : WellFormed(req'[d])
    <3>1. CASE Goto(c, "delete")
      BY <3>1, <2>1, BeginStep DEF Goto, Steps, CommitSteps, IdSteps, ValSteps
    <3>2. CASE \E u \in RowsOf(req[c].key) : Begin(c, "delete", req[c].key, u, None)
      BY <3>2, <2>1, BeginStep DEF RowsOf, Steps, CommitSteps, IdSteps, ValSteps
    <3> QED BY <1>5, <3>1, <3>2 DEF DeleteRead
  <2> QED BY <1>5, <2>2 DEF DeleteRead, TypeOK
<1>6. CASE DeleteDraft(c)
  <2>1. req[c].id \in UUIDs
    BY <1>6, Fields DEF DeleteDraft
  <2>2. row[req[c].id] = None \/ row[req[c].id] \in DraftRow
    BY <2>1 DEF TypeOK
  <2>3. row' \in [UUIDs -> DraftRow \cup {None}]
    BY <1>6, <2>1, <2>2 DEF DeleteDraft, TypeOK, DraftRow, Flags
  <2>4. /\ req' \in [Clients -> Request]
        /\ \A d \in Clients : WellFormed(req'[d])
    BY <1>6, EndStep DEF DeleteDraft
  <2> QED BY <1>6, <2>3, <2>4 DEF DeleteDraft, TypeOK
<1>7. CASE DeleteReal(c)
  <2>1. /\ req' \in [Clients -> Request]
        /\ \A d \in Clients : WellFormed(req'[d])
    BY <1>7, EndStep DEF DeleteReal
  <2> QED BY <1>7, <2>1 DEF DeleteReal, TypeOK
<1> QED BY <1>1, <1>2, <1>3, <1>4, <1>5, <1>6, <1>7 DEF ChangeNext

(* SaveAction and DiscardAction keep the types. *)
LEMMA SaveType ==
    ASSUME TypeInv, NEW c \in Clients, SaveNext(c)
    PROVE  TypeInv'
<1> USE DEF TypeInv, Shape
<1>1. CASE SaveCheck(c)
  <2>1. ctx[c].key \in Keys /\ ctx[c].id \in UUIDs
    BY <1>1, CheckType DEF SaveCheck
  <2>2. /\ req' \in [Clients -> Request]
        /\ \A d \in Clients : WellFormed(req'[d])
    BY <1>1, <2>1, BeginStep DEF SaveCheck, Steps, CommitSteps, IdSteps, ValSteps
  <2> QED BY <1>1, <2>2 DEF SaveCheck, TypeOK
<1>2. CASE SaveVerify(c)
  <2>1. req[c].key \in Keys /\ req[c].id \in UUIDs /\ req[c].val \in Vals \cup {None}
    BY <1>2, Fields DEF SaveVerify, At, IdSteps
  <2>2. /\ req' \in [Clients -> Request]
        /\ \A d \in Clients : WellFormed(req'[d])
    BY <1>2, <2>1, BeginStep DEF SaveVerify, Goto, Steps, CommitSteps, IdSteps, ValSteps
  <2> QED BY <1>2, <2>2 DEF SaveVerify, TypeOK
<1>3. CASE SavePersist(c)
  <2>1. req[c].id \in UUIDs
    BY <1>3, Fields DEF SavePersist, At, IdSteps
  <2>2. /\ admin[req[c].id] \in AdminRecord
        /\ row[req[c].id] \in DraftRow
    BY <1>3, <2>1 DEF SavePersist, Live, TypeOK
  <2>3. admin[req[c].id].key \in Keys /\ row[req[c].id].val \in Vals
    BY <2>2 DEF AdminRecord, DraftRow
  <2>4. PICK step \in CommitSteps :
           Begin(c, step, admin[req[c].id].key, req[c].id, row[req[c].id].val)
    BY <1>3 DEF SavePersist, CommitSteps
  <2>5. /\ req' \in [Clients -> Request]
        /\ \A d \in Clients : WellFormed(req'[d])
    BY <2>1, <2>3, <2>4, BeginStep DEF Steps, CommitSteps
  <2> QED BY <1>3, <2>5 DEF SavePersist, TypeOK
<1>4. CASE SaveCommit(c)
  <2>1. req[c].key \in Keys /\ req[c].val \in Vals
    BY <1>4, Fields DEF SaveCommit, CommitSteps, ValSteps
  <2>2. real' \in [Keys -> Vals \cup {None}]
    BY <1>4, <2>1 DEF SaveCommit, TypeOK
  <2>3. /\ req' \in [Clients -> Request]
        /\ \A d \in Clients : WellFormed(req'[d])
    BY <1>4, EndStep DEF SaveCommit
  <2>4. /\ ctx' \in [Clients -> Context]
        /\ \A d \in Clients : ctx'[d].id # None => ctx'[d].key \in Keys
    BY <1>4, NoCtxStep DEF SaveCommit
  <2>5. /\ admin' \in [UUIDs -> AdminRecord \cup {None}]
        /\ row' \in [UUIDs -> DraftRow \cup {None}]
    BY <1>4, ClearType DEF SaveCommit
  <2> QED BY <1>4, <2>2, <2>3, <2>4, <2>5 DEF SaveCommit, TypeOK
<1>5. CASE Discard(c)
  <2>1. /\ ctx' \in [Clients -> Context]
        /\ \A d \in Clients : ctx'[d].id # None => ctx'[d].key \in Keys
    BY <1>5, NoCtxStep DEF Discard
  <2>2. /\ admin' \in [UUIDs -> AdminRecord \cup {None}]
        /\ row' \in [UUIDs -> DraftRow \cup {None}]
    BY <1>5, ClearType DEF Discard
  <2> QED BY <1>5, <2>1, <2>2 DEF Discard, TypeOK
<1> QED BY <1>1, <1>2, <1>3, <1>4, <1>5 DEF SaveNext

(* Failures, sessions and their sweeps keep the types. *)
LEMMA SessionType ==
    ASSUME TypeInv, NEW c \in Clients, SessionNext(c)
    PROVE  TypeInv'
<1> USE DEF TypeInv, Shape
<1>1. CASE Rollback(c)
  <2>1. /\ req' \in [Clients -> Request]
        /\ \A d \in Clients : WellFormed(req'[d])
    BY <1>1, EndStep DEF Rollback
  <2> QED BY <1>1, <2>1 DEF Rollback, TypeOK
<1>2. CASE SessionDestroyed(c)
  BY <1>2 DEF SessionDestroyed, TypeOK
<1>3. CASE ClearUserDraftData(c)
  <2>1. /\ admin' \in [UUIDs -> AdminRecord \cup {None}]
        /\ row' \in [UUIDs -> DraftRow \cup {None}]
    BY <1>3, ClearType DEF ClearUserDraftData
  <2> QED BY <1>3, <2>1 DEF ClearUserDraftData, TypeOK
<1>4. CASE Login(c)
  BY <1>4 DEF Login, TypeOK
<1> QED BY <1>1, <1>2, <1>3, <1>4 DEF SessionNext

(* The service clearDraft keeps the types. *)
LEMMA ClearDraftType ==
    ASSUME TypeInv, ClearDraftList \/ ClearDraftRemove
    PROVE  TypeInv'
<1> USE DEF TypeInv, Shape
<1>1. CASE ClearDraftList
  BY <1>1 DEF ClearDraftList, TypeOK
<1>2. CASE ClearDraftRemove
  BY <1>2 DEF ClearDraftRemove, TypeOK
<1> QED BY <1>1, <1>2

(* The initial states are well typed. *)
LEMMA InitType == Init => TypeInv
<1> SUFFICES ASSUME Init PROVE TypeInv
  OBVIOUS
<1>1. NoRequest \in Request /\ WellFormed(NoRequest)
  BY DEF WellFormed, NoRequest, Request, Steps, CommitSteps, IdSteps, ValSteps
<1>2. NoContext \in Context
  BY DEF NoContext, Context
<1>3. real \in [Keys -> Vals \cup {None}]
  BY ConstantsAssumption DEF Init
<1> QED BY <1>1, <1>2, <1>3 DEF Init, TypeInv, TypeOK, Shape, NoContext

(* Every step keeps the types. *)
LEMMA TypeStep == TypeInv /\ [Next]_vars => TypeInv'
<1> SUFFICES ASSUME TypeInv, [Next]_vars PROVE TypeInv'
  OBVIOUS
<1>1. ASSUME NEW c \in Clients,
             EditNext(c) \/ NewNext(c) \/ ChangeNext(c) \/ SaveNext(c) \/ SessionNext(c)
      PROVE  TypeInv'
  BY <1>1, EditType, NewType, ChangeType, SaveType, SessionType
<1> QED BY <1>1, ClearDraftType, TypeStutter DEF Next

(* The type invariant with its strengthening holds in every state. *)
LEMMA TypeInvariant == Spec => []TypeInv
BY InitType, TypeStep, PTL DEF Spec

(* Every state is well typed: no request dereferences a field its handler  *)
(* has not set, and every draft row written is complete.                   *)
THEOREM TypeCorrect == Spec => []TypeOK
<1>1. TypeInv => TypeOK
  BY DEF TypeInv
<1> QED BY <1>1, TypeInvariant, PTL

-----------------------------------------------------------------------------
(* The two rows of a draft.                                                *)

(* The steps that touch neither draft table. *)
LEMMA FrameSteps ==
    ASSUME NEW c \in Clients,
           \/ \E k \in KeysOf[c] : EditCheck(c, k)
           \/ EditContext(c) \/ EditLookup(c) \/ EditReuse(c)
           \/ \E k \in KeysOf[c] : NewContext(c, k)
           \/ \E k \in KeysOf[c], v \in Vals : PatchCheck(c, k, v)
           \/ PatchReal(c)
           \/ \E k \in KeysOf[c] : DeleteCheck(c, k)
           \/ DeleteRead(c) \/ DeleteReal(c)
           \/ SaveCheck(c) \/ SaveVerify(c) \/ SavePersist(c)
           \/ Rollback(c) \/ SessionDestroyed(c) \/ Login(c)
    PROVE  admin' = admin /\ row' = row
BY DEF EditCheck, EditContext, EditLookup, EditReuse, NewContext, PatchCheck,
       PatchReal, DeleteCheck, DeleteRead, DeleteReal, SaveCheck, SaveVerify,
       SavePersist, Rollback, SessionDestroyed, Login

(* What one step can do to the draft tables: nothing, create a draft with  *)
(* both its rows, change the draft row of a draft that has one, or end     *)
(* drafts by clearEntityDraft or clearDraft.                               *)
LEMMA DraftStep ==
    ASSUME TypeInv, [Next]_vars
    PROVE  \/ admin' = admin /\ row' = row
           \/ \E c \in Clients, r \in DraftRow :
                 /\ EditCopy(c) \/ \E v \in Vals : NewCreate(c, v)
                 /\ req[c].id \in UUIDs
                 /\ admin[req[c].id] = None
                 /\ admin' = [admin EXCEPT ![req[c].id] =
                                [key |-> req[c].key, user |-> UserOf[c]]]
                 /\ row' = [row EXCEPT ![req[c].id] = r]
           \/ \E u \in UUIDs, r \in DraftRow :
                 /\ row[u] # None
                 /\ admin' = admin
                 /\ row' = [row EXCEPT ![u] = r]
           \/ \E S \in SUBSET UUIDs : clearEntityDraft(S)
           \/ ClearDraftRemove
<1>1. CASE UNCHANGED vars
  BY <1>1 DEF vars
<1>2. CASE ClearDraftList
  BY <1>2 DEF ClearDraftList
<1>3. ASSUME NEW c \in Clients, EditCopy(c)
      PROVE  \E r \in DraftRow :
                 /\ req[c].id \in UUIDs
                 /\ admin[req[c].id] = None
                 /\ admin' = [admin EXCEPT ![req[c].id] =
                                [key |-> req[c].key, user |-> UserOf[c]]]
                 /\ row' = [row EXCEPT ![req[c].id] = r]
  <2>1. req[c].key \in Keys /\ req[c].id \in UUIDs
    BY <1>3, Fields DEF EditCopy, At, IdSteps
  <2>2. real[req[c].key] \in Vals
    BY <1>3, <2>1 DEF EditCopy, TypeInv, TypeOK
  <2>3. row[req[c].id] = None \/ row[req[c].id] \in DraftRow
    BY <2>1 DEF TypeInv, TypeOK
  <2> DEFINE r == [key |-> req[c].key, val |-> real[req[c].key],
                   flag |-> IF row[req[c].id] = None THEN "copy"
                            ELSE row[req[c].id].flag,
                   hasActive |-> row[req[c].id] = None \/ row[req[c].id].hasActive]
  <2>4. r \in DraftRow
    BY <2>1, <2>2, <2>3 DEF DraftRow, Flags
  <2>5. row' = [row EXCEPT ![req[c].id] = r]
    BY <1>3 DEF EditCopy
  <2> QED BY <1>3, <2>1, <2>4, <2>5 DEF EditCopy
<1>4. ASSUME NEW c \in Clients, NEW v \in Vals, NewCreate(c, v)
      PROVE  \E r \in DraftRow :
                 /\ req[c].id \in UUIDs
                 /\ admin[req[c].id] = None
                 /\ admin' = [admin EXCEPT ![req[c].id] =
                                [key |-> req[c].key, user |-> UserOf[c]]]
                 /\ row' = [row EXCEPT ![req[c].id] = r]
  <2>1. req[c].key \in Keys /\ req[c].id \in UUIDs
    BY <1>4, Fields DEF NewCreate, At, IdSteps
  <2> DEFINE r == [key |-> req[c].key, val |-> v, flag |-> "draft", hasActive |-> FALSE]
  <2>2. r \in DraftRow
    BY <2>1 DEF DraftRow, Flags
  <2>3. row' = [row EXCEPT ![req[c].id] = r]
    BY <1>4 DEF NewCreate
  <2> QED BY <1>4, <2>1, <2>2, <2>3 DEF NewCreate
<1>5. ASSUME NEW c \in Clients, PatchDraft(c)
      PROVE  \E u \in UUIDs, r \in DraftRow :
                row[u] # None /\ admin' = admin /\ row' = [row EXCEPT ![u] = r]
  <2>1. req[c].val \in Vals
    BY <1>5, Fields DEF PatchDraft, At, ValSteps
  <2>2. PICK u \in RowsOf(req[c].key) :
           row' = [row EXCEPT ![u] = [key |-> row[u].key, val |-> req[c].val,
                                      flag |-> "draft", hasActive |-> row[u].hasActive]]
    BY <1>5 DEF PatchDraft
  <2>3. u \in UUIDs /\ row[u] # None /\ row[u] \in DraftRow
    BY <2>2 DEF RowsOf, TypeInv, TypeOK
  <2>4. [key |-> row[u].key, val |-> req[c].val,
         flag |-> "draft", hasActive |-> row[u].hasActive] \in DraftRow
    BY <2>1, <2>3 DEF DraftRow, Flags
  <2> QED BY <1>5, <2>2, <2>3, <2>4 DEF PatchDraft
<1>6. ASSUME NEW c \in Clients, DeleteDraft(c)
      PROVE  \/ admin' = admin /\ row' = row
             \/ \E u \in UUIDs, r \in DraftRow :
                   row[u] # None /\ admin' = admin /\ row' = [row EXCEPT ![u] = r]
  <2>1. req[c].id \in UUIDs
    BY <1>6, Fields DEF DeleteDraft
  <2>2. CASE row[req[c].id] = None
    BY <1>6, <2>2 DEF DeleteDraft
  <2>3. CASE row[req[c].id] # None
    <3>1. row[req[c].id] \in DraftRow
      BY <2>1, <2>3 DEF TypeInv, TypeOK
    <3>2. [key |-> row[req[c].id].key, val |-> row[req[c].id].val,
           flag |-> "deleted", hasActive |-> row[req[c].id].hasActive] \in DraftRow
      BY <3>1 DEF DraftRow, Flags
    <3> QED BY <1>6, <2>1, <2>3, <3>2 DEF DeleteDraft
  <2> QED BY <2>2, <2>3
<1>7. ASSUME NEW c \in Clients,
             SaveCommit(c) \/ Discard(c) \/ ClearUserDraftData(c)
      PROVE  \E S \in SUBSET UUIDs : clearEntityDraft(S)
  <2>1. CASE SaveCommit(c)
    <3>1. req[c].id \in UUIDs
      BY <2>1, Fields DEF SaveCommit, IdSteps
    <3> QED BY <2>1, <3>1 DEF SaveCommit
  <2>2. CASE Discard(c)
    <3>1. ctx[c].id \in UUIDs
      BY <2>2, Fields DEF Discard
    <3> QED BY <2>2, <3>1 DEF Discard
  <2>3. CASE ClearUserDraftData(c)
    BY <2>3 DEF ClearUserDraftData, TypeInv, TypeOK
  <2> QED BY <1>7, <2>1, <2>2, <2>3
<1>8. ASSUME NEW c \in Clients,
             EditNext(c) \/ NewNext(c) \/ ChangeNext(c) \/ SaveNext(c) \/ SessionNext(c)
      PROVE  \/ admin' = admin /\ row' = row
             \/ EditCopy(c) \/ \E v \in Vals : NewCreate(c, v)
             \/ PatchDraft(c) \/ DeleteDraft(c)
             \/ SaveCommit(c) \/ Discard(c) \/ ClearUserDraftData(c)
  BY <1>8, FrameSteps DEF EditNext, NewNext, ChangeNext, SaveNext, SessionNext
<1>9. ASSUME NEW c \in Clients,
             EditNext(c) \/ NewNext(c) \/ ChangeNext(c) \/ SaveNext(c) \/ SessionNext(c)
      PROVE  \/ admin' = admin /\ row' = row
             \/ \E r \in DraftRow :
                 /\ EditCopy(c) \/ \E v \in Vals : NewCreate(c, v)
                 /\ req[c].id \in UUIDs
                 /\ admin[req[c].id] = None
                 /\ admin' = [admin EXCEPT ![req[c].id] =
                                [key |-> req[c].key, user |-> UserOf[c]]]
                 /\ row' = [row EXCEPT ![req[c].id] = r]
             \/ \E u \in UUIDs, r \in DraftRow :
                   row[u] # None /\ admin' = admin /\ row' = [row EXCEPT ![u] = r]
             \/ \E S \in SUBSET UUIDs : clearEntityDraft(S)
  BY <1>3, <1>4, <1>5, <1>6, <1>7, <1>8, <1>9
<1> QED BY <1>1, <1>2, <1>9 DEF Next

(* Both rows of a draft at each end of a step. *)
LEMMA AdminHasRowStep ==
    ASSUME TypeInv, AdminHasRow, [Next]_vars
    PROVE  AdminHasRow'
<1> USE DEF AdminHasRow
<1>1. CASE admin' = admin /\ row' = row
  BY <1>1
<1>2. ASSUME NEW u \in UUIDs, NEW r \in DraftRow, NEW a,
             admin' = [admin EXCEPT ![u] = a], row' = [row EXCEPT ![u] = r]
      PROVE  AdminHasRow'
  <2>1. r # None
    BY NullAssumption
  <2> QED BY <1>2, <2>1 DEF TypeInv, TypeOK
<1>3. ASSUME NEW u \in UUIDs, NEW r \in DraftRow, admin' = admin,
             row' = [row EXCEPT ![u] = r]
      PROVE  AdminHasRow'
  <2>1. r # None
    BY NullAssumption
  <2> QED BY <1>3, <2>1 DEF TypeInv, TypeOK
<1>4. ASSUME NEW S \in SUBSET UUIDs, clearEntityDraft(S)
      PROVE  AdminHasRow'
  BY <1>4 DEF clearEntityDraft, Cleared
<1>5. CASE ClearDraftRemove
  BY <1>5 DEF ClearDraftRemove
<1> QED BY <1>1, <1>2, <1>3, <1>4, <1>5, DraftStep

(* Every administrative row has its draft row, however the requests of the *)
(* clients, the session sweeps and clearDraft interleave.                  *)
THEOREM AdminHasRowAlways == Spec => []AdminHasRow
<1>1. Init => AdminHasRow
  BY DEF Init, AdminHasRow
<1>2. TypeInv /\ AdminHasRow /\ [Next]_vars => AdminHasRow'
  BY AdminHasRowStep
<1> QED BY <1>1, <1>2, TypeInvariant, PTL DEF Spec

(* Without clearDraft no list of it is ever pending. *)
NoJobs == jobs = {}

LEMMA NoJobsStep ==
    ASSUME ~WithClearDraft, TypeInv, NoJobs, [Next]_vars
    PROVE  NoJobs'
<1> USE DEF NoJobs
<1>1. CASE UNCHANGED vars
  BY <1>1 DEF vars
<1>2. CASE ClearDraftList \/ ClearDraftRemove
  BY <1>2 DEF ClearDraftList, ClearDraftRemove
<1>3. ASSUME NEW c \in Clients,
             EditNext(c) \/ NewNext(c) \/ ChangeNext(c) \/ SaveNext(c) \/ SessionNext(c)
      PROVE  jobs' = jobs
  <2>1. CASE EditNext(c)
    BY <2>1 DEF EditNext, EditCheck, EditContext, EditLookup, EditReuse, EditCopy
  <2>2. CASE NewNext(c)
    BY <2>2 DEF NewNext, NewContext, NewCreate
  <2>3. CASE ChangeNext(c)
    BY <2>3 DEF ChangeNext, PatchCheck, PatchDraft, PatchReal, DeleteCheck,
                DeleteRead, DeleteDraft, DeleteReal
  <2>4. CASE SaveNext(c)
    BY <2>4 DEF SaveNext, SaveCheck, SaveVerify, SavePersist, SaveCommit, Discard
  <2>5. CASE SessionNext(c)
    BY <2>5 DEF SessionNext, Rollback, SessionDestroyed, ClearUserDraftData, Login
  <2> QED BY <1>3, <2>1, <2>2, <2>3, <2>4, <2>5
<1> QED BY <1>1, <1>2, <1>3 DEF Next

LEMMA RowHasAdminStep ==
    ASSUME TypeInv, NoJobs, RowHasAdmin, [Next]_vars
    PROVE  RowHasAdmin'
<1> USE DEF RowHasAdmin
<1>1. CASE admin' = admin /\ row' = row
  BY <1>1
<1>2. ASSUME NEW c \in Clients, NEW r \in DraftRow,
             req[c].id \in UUIDs,
             admin' = [admin EXCEPT ![req[c].id] =
                         [key |-> req[c].key, user |-> UserOf[c]]],
             row' = [row EXCEPT ![req[c].id] = r],
             EditCopy(c) \/ \E v \in Vals : NewCreate(c, v)
      PROVE  RowHasAdmin'
  <2>1. req[c].key \in Keys
    BY <1>2, Fields DEF EditCopy, NewCreate, At
  <2>2. [key |-> req[c].key, user |-> UserOf[c]] # None
    BY <2>1, ConstantsAssumption, NullAssumption DEF AdminRecord
  <2> QED BY <1>2, <2>2 DEF TypeInv, TypeOK
<1>3. ASSUME NEW u \in UUIDs, NEW r \in DraftRow, row[u] # None,
             admin' = admin, row' = [row EXCEPT ![u] = r]
      PROVE  RowHasAdmin'
  BY <1>3 DEF TypeInv, TypeOK
<1>4. ASSUME NEW S \in SUBSET UUIDs, clearEntityDraft(S)
      PROVE  RowHasAdmin'
  BY <1>4 DEF clearEntityDraft, Cleared
<1>5. CASE ClearDraftRemove
  BY <1>5 DEF ClearDraftRemove, NoJobs
<1> QED BY <1>1, <1>2, <1>3, <1>4, <1>5, DraftStep

(* When the service clearDraft is not used, no draft row is ever left      *)
(* without its administrative row, whatever the interleaving.              *)
THEOREM RowHasAdminAlways ==
    ASSUME ~WithClearDraft
    PROVE  Spec => []RowHasAdmin
<1>1. Init => NoJobs /\ RowHasAdmin
  BY DEF Init, NoJobs, RowHasAdmin
<1>2. TypeInv /\ NoJobs /\ [Next]_vars => NoJobs'
  BY NoJobsStep
<1>3. TypeInv /\ NoJobs /\ RowHasAdmin /\ [Next]_vars => RowHasAdmin'
  BY RowHasAdminStep
<1> QED BY <1>1, <1>2, <1>3, TypeInvariant, PTL DEF Spec

-----------------------------------------------------------------------------
(* One draft per entity, when requests do not overlap.                     *)

(* A key that is stored at the start or has come from the sequence. *)
Known(k) == k \in Stored \cup issued

OneRequest ==
    \A c, d \in Clients :
        req[c].pc # "idle" /\ req[d].pc # "idle" => c = d

KnownKeys ==
    /\ \A k \in Keys : real[k] # None => Known(k)
    /\ \A u \in UUIDs : admin[u] # None => Known(admin[u].key)
    /\ \A c \in Clients :
          req[c].pc \in CommitSteps \cup {"new"} => Known(req[c].key)

(* Between the lookup of a draft and its creation nobody creates one. *)
FreeKey ==
    \A c \in Clients :
        req[c].pc \in {"editCopy", "new"} =>
            \A u \in UUIDs : admin[u] # None => admin[u].key # req[c].key

(* An entity has at most one live draft, so that the look-ups by key in    *)
(* DefaultDraftHandler can find only the draft of the request's context.   *)
OneDraftPerKey ==
    \A u, w \in UUIDs :
        (admin[u] # None /\ admin[w] # None /\ admin[u].key = admin[w].key)
            => u = w

SerialInv == OneRequest /\ KnownKeys /\ FreeKey /\ OneDraftPerKey

(* A step that creates no draft and moves the request of c, which is the   *)
(* only one in progress afterwards.                                        *)
LEMMA SerialMove ==
    ASSUME TypeInv, SerialInv, NEW c \in Clients, NEW r \in Request,
           req' = [req EXCEPT ![c] = r],
           req[c].pc # "idle" \/ \A d \in Clients : req[d].pc = "idle",
           issued \subseteq issued',
           \A u \in UUIDs : admin'[u] # None => admin'[u] = admin[u],
           \A k \in Keys : real'[k] # None => Known(k),
           r.pc \in CommitSteps => Known(r.key),
           r.pc = "new" => r.key \in issued',
           r.pc \in {"editCopy", "new"} =>
              \A u \in UUIDs : admin[u] # None => admin[u].key # r.key
    PROVE  SerialInv'
<1> USE DEF TypeInv, TypeOK, SerialInv
<1>0. \A d \in Clients : req'[d] = IF d = c THEN r ELSE req[d]
  OBVIOUS
<1>1. OneRequest'
  BY <1>0 DEF OneRequest
<1>2. KnownKeys'
  BY <1>0 DEF KnownKeys, Known
<1>3. FreeKey'
  BY <1>0 DEF FreeKey
<1>4. OneDraftPerKey'
  BY DEF OneDraftPerKey
<1> QED BY <1>1, <1>2, <1>3, <1>4

(* A step that creates no draft and leaves the requests alone. *)
LEMMA SerialStay ==
    ASSUME TypeInv, SerialInv, req' = req, issued' = issued, real' = real,
           \A u \in UUIDs : admin'[u] # None => admin'[u] = admin[u]
    PROVE  SerialInv'
<1> USE DEF SerialInv
<1>1. OneRequest'
  BY DEF OneRequest
<1>2. KnownKeys'
  BY DEF KnownKeys, Known
<1>3. FreeKey'
  BY DEF FreeKey
<1>4. OneDraftPerKey'
  BY DEF OneDraftPerKey
<1> QED BY <1>1, <1>2, <1>3, <1>4

(* A draft of c is created under a key that has none. *)
LEMMA SerialCreate ==
    ASSUME TypeInv, SerialInv, NEW c \in Clients,
           req[c].pc \in {"editCopy", "new"},
           Known(req[c].key),
           req[c].id \in UUIDs,
           admin' = [admin EXCEPT ![req[c].id] =
                       [key |-> req[c].key, user |-> UserOf[c]]],
           End(c), issued' = issued, real' = real
    PROVE  SerialInv'
<1> USE DEF TypeInv, TypeOK, SerialInv
<1>0. /\ \A d \in Clients : req'[d] = IF d = c THEN NoRequest ELSE req[d]
      /\ NoRequest.pc = "idle"
  BY DEF End, NoRequest
<1>1. \A d \in Clients : req'[d].pc = "idle"
  BY <1>0 DEF OneRequest
<1>2. OneRequest'
  BY <1>1 DEF OneRequest
<1>3. KnownKeys'
  BY <1>1 DEF KnownKeys, Known, CommitSteps
<1>4. FreeKey'
  BY <1>1 DEF FreeKey
<1>5. OneDraftPerKey'
  <2>1. \A u \in UUIDs : admin[u] # None => admin[u].key # req[c].key
    BY DEF FreeKey
  <2>2. \A u \in UUIDs : admin'[u] = IF u = req[c].id
                                     THEN [key |-> req[c].key, user |-> UserOf[c]]
                                     ELSE admin[u]
    OBVIOUS
  <2>3. [key |-> req[c].key, user |-> UserOf[c]].key = req[c].key
    OBVIOUS
  <2> QED BY <2>1, <2>2, <2>3 DEF OneDraftPerKey
<1> QED BY <1>2, <1>3, <1>4, <1>5

(* When requests are serial, a request starts only if none is in progress. *)
LEMMA SerialStart ==
    ASSUME Serial, NEW c \in Clients, CanStart(c)
    PROVE  \A d \in Clients : req[d].pc = "idle"
BY DEF CanStart, Quiet

(* A request that begins a step other than the delicate ones. *)
LEMMA SerialBegin ==
    ASSUME TypeInv, SerialInv, NEW c \in Clients,
           NEW step \in Steps \ ({"editCopy", "new"} \cup CommitSteps),
           NEW k \in Keys \cup {None}, NEW u \in UUIDs \cup {None},
           NEW v \in Vals \cup {None}, Begin(c, step, k, u, v),
           req[c].pc # "idle" \/ \A d \in Clients : req[d].pc = "idle",
           issued \subseteq issued', admin' = admin, real' = real
    PROVE  SerialInv'
<1> DEFINE r == [pc |-> step, key |-> k, id |-> u, val |-> v]
<1>1. r \in Request /\ r.pc = step
  BY DEF Request
<1>2. req' = [req EXCEPT ![c] = r]
  BY DEF Begin
<1>3. \A x \in Keys : real'[x] # None => Known(x)
  BY DEF SerialInv, KnownKeys
<1> HIDE DEF r
<1> QED BY <1>1, <1>2, <1>3, SerialMove

(* A request that ends, whatever happened to the drafts that exist. *)
LEMMA SerialEnd ==
    ASSUME TypeInv, SerialInv, NEW c \in Clients, End(c), req[c].pc # "idle",
           issued' = issued,
           \A u \in UUIDs : admin'[u] # None => admin'[u] = admin[u],
           \A k \in Keys : real'[k] # None => Known(k)
    PROVE  SerialInv'
<1>1. NoRequest \in Request /\ NoRequest.pc = "idle"
  BY DEF NoRequest, Request, Steps
<1>2. req' = [req EXCEPT ![c] = NoRequest]
  BY DEF End
<1> QED BY <1>1, <1>2, SerialMove DEF CommitSteps

(* Ending drafts leaves the others as they are. *)
LEMMA ClearKeeps ==
    ASSUME NEW S, clearEntityDraft(S)
    PROVE  \A u \in UUIDs : admin'[u] # None => admin'[u] = admin[u]
BY DEF clearEntityDraft, Cleared

LEMMA SerialEdit ==
    ASSUME Serial, TypeInv, SerialInv, NEW c \in Clients, EditNext(c)
    PROVE  SerialInv'
<1>1. ASSUME NEW k \in KeysOf[c], EditCheck(c, k)
      PROVE  SerialInv'
  <2>1. k \in Keys
    BY ConstantsAssumption
  <2>2. \A d \in Clients : req[d].pc = "idle"
    BY <1>1, SerialStart DEF EditCheck
  <2> QED BY <1>1, <2>1, <2>2, SerialBegin DEF EditCheck, Steps, CommitSteps
<1>2. CASE EditContext(c)
  <2>1. PICK u \in UUIDs : /\ issued' = issued \cup {u}
                           /\ Begin(c, "editLookup", req[c].key, u, None)
    BY <1>2 DEF EditContext
  <2>2. req[c].key \in Keys /\ req[c].pc # "idle"
    BY <1>2, Fields DEF EditContext, At
  <2> QED BY <1>2, <2>1, <2>2, SerialBegin DEF EditContext, Steps, CommitSteps
<1>3. CASE EditLookup(c)
  <2>1. /\ req[c].key \in Keys /\ req[c].id \in UUIDs
        /\ req[c].val \in Vals \cup {None} /\ req[c].pc # "idle"
    BY <1>3, Fields DEF EditLookup, At, IdSteps
  <2>2. ASSUME NEW u \in DraftsOf(req[c].key), Begin(c, "editReuse", req[c].key, u, None)
        PROVE  SerialInv'
    BY <1>3, <2>1, <2>2, SerialBegin DEF EditLookup, DraftsOf, Steps, CommitSteps
  <2>3. CASE DraftsOf(req[c].key) = {} /\ Goto(c, "editCopy")
    <3> DEFINE r == [pc |-> "editCopy", key |-> req[c].key, id |-> req[c].id,
                     val |-> req[c].val]
    <3>1. r \in Request /\ r.pc = "editCopy" /\ r.key = req[c].key
      BY <2>1 DEF Request, Steps
    <3>2. req' = [req EXCEPT ![c] = r]
      BY <2>3 DEF Goto, Begin
    <3>3. \A u \in UUIDs : admin[u] # None => admin[u].key # r.key
      BY <2>3 DEF DraftsOf
    <3>4. \A k \in Keys : real'[k] # None => Known(k)
      BY <1>3 DEF EditLookup, SerialInv, KnownKeys
    <3>5. admin' = admin /\ issued' = issued
      BY <1>3 DEF EditLookup
    <3> HIDE DEF r
    <3> QED BY <2>1, <3>1, <3>2, <3>3, <3>4, <3>5, SerialMove DEF CommitSteps
  <2> QED BY <1>3, <2>2, <2>3 DEF EditLookup
<1>4. CASE EditReuse(c)
  BY <1>4, SerialEnd DEF EditReuse, At, SerialInv, KnownKeys
<1>5. CASE EditCopy(c)
  <2>1. req[c].key \in Keys /\ req[c].id \in UUIDs
    BY <1>5, Fields DEF EditCopy, At, IdSteps
  <2>2. Known(req[c].key)
    BY <1>5, <2>1 DEF EditCopy, SerialInv, KnownKeys
  <2> QED BY <1>5, <2>1, <2>2, SerialCreate DEF EditCopy, At
<1> QED BY <1>1, <1>2, <1>3, <1>4, <1>5 DEF EditNext

LEMMA SerialNew ==
    ASSUME Serial, ClientKeys = {}, TypeInv, SerialInv, NEW c \in Clients, NewNext(c)
    PROVE  SerialInv'
<1>1. ASSUME NEW k \in KeysOf[c], NewContext(c, k)
      PROVE  SerialInv'
  <2>1. k \in Keys /\ ~Known(k)
    BY <1>1, ConstantsAssumption DEF NewContext, Known
  <2>2. \A d \in Clients : req[d].pc = "idle"
    BY <1>1, SerialStart DEF NewContext
  <2>3. PICK u \in UUIDs : /\ issued' = issued \cup {u, k}
                           /\ Begin(c, "new", k, u, None)
    BY <1>1 DEF NewContext
  <2> DEFINE r == [pc |-> "new", key |-> k, id |-> u, val |-> None]
  <2>4. r \in Request /\ r.pc = "new" /\ r.key = k
    BY <2>1 DEF Request, Steps
  <2>5. req' = [req EXCEPT ![c] = r]
    BY <2>3 DEF Begin
  <2>6. \A w \in UUIDs : admin[w] # None => admin[w].key # k
    BY <2>1 DEF SerialInv, KnownKeys
  <2>7. \A x \in Keys : real'[x] # None => Known(x)
    BY <1>1 DEF NewContext, SerialInv, KnownKeys
  <2>8. admin' = admin /\ k \in issued' /\ issued \subseteq issued'
    BY <1>1, <2>3 DEF NewContext
  <2> HIDE DEF r
  <2> QED BY <2>2, <2>4, <2>5, <2>6, <2>7, <2>8, SerialMove DEF CommitSteps
<1>2. ASSUME NEW v \in Vals, NewCreate(c, v)
      PROVE  SerialInv'
  <2>1. req[c].id \in UUIDs
    BY <1>2, Fields DEF NewCreate, At, IdSteps
  <2>2. Known(req[c].key)
    BY <1>2 DEF NewCreate, At, SerialInv, KnownKeys
  <2> QED BY <1>2, <2>1, <2>2, SerialCreate DEF NewCreate, At
<1> QED BY <1>1, <1>2 DEF NewNext

LEMMA SerialChange ==
    ASSUME Serial, TypeInv, SerialInv, NEW c \in Clients, ChangeNext(c)
    PROVE  SerialInv'
<1>0. \A k \in Keys : real[k] # None => Known(k)
  BY DEF SerialInv, KnownKeys
<1>1. ASSUME NEW k \in KeysOf[c], NEW v \in Vals, PatchCheck(c, k, v)
      PROVE  SerialInv'
  <2>1. k \in Keys /\ checkSapContextId(c) \in UUIDs \cup {None}
    BY ConstantsAssumption, CheckType
  <2>2. \A d \in Clients : req[d].pc = "idle"
    BY <1>1, SerialStart DEF PatchCheck
  <2> QED BY <1>1, <2>1, <2>2, SerialBegin DEF PatchCheck, Steps, CommitSteps
<1>2. CASE PatchDraft(c)
  BY <1>0, <1>2, SerialEnd DEF PatchDraft, At
<1>3. CASE PatchReal(c)
  <2>1. \A k \in Keys : real'[k] # None => Known(k)
    BY <1>0, <1>3 DEF PatchReal, TypeInv, TypeOK
  <2> QED BY <1>3, <2>1, SerialEnd DEF PatchReal, At
<1>4. ASSUME NEW k \in KeysOf[c], DeleteCheck(c, k)
      PROVE  SerialInv'
  <2>1. k \in Keys /\ checkSapContextId(c) \in UUIDs \cup {None}
    BY ConstantsAssumption, CheckType
  <2>2. \A d \in Clients : req[d].pc = "idle"
    BY <1>4, SerialStart DEF DeleteCheck
  <2> QED BY <1>4, <2>1, <2>2, SerialBegin DEF DeleteCheck, Steps, CommitSteps
<1>5. CASE DeleteRead(c)
  <2>1. /\ req[c].key \in Keys /\ req[c].id \in UUIDs \cup {None}
        /\ req[c].val \in Vals \cup {None} /\ req[c].pc # "idle"
    BY <1>5, Fields DEF DeleteRead, At
  <2>2. CASE Goto(c, "delete")
    BY <1>5, <2>1, <2>2, SerialBegin DEF DeleteRead, Goto, Steps, CommitSteps
  <2>3. ASSUME NEW u \in RowsOf(req[c].key), Begin(c, "delete", req[c].key, u, None)
        PROVE  SerialInv'
    BY <1>5, <2>1, <2>3, SerialBegin DEF DeleteRead, RowsOf, Steps, CommitSteps
  <2> QED BY <1>5, <2>2, <2>3 DEF DeleteRead
<1>6. CASE DeleteDraft(c)
  BY <1>0, <1>6, SerialEnd DEF DeleteDraft, At
<1>7. CASE DeleteReal(c)
  <2>1. \A k \in Keys : real'[k] # None => Known(k)
    BY <1>0, <1>7 DEF DeleteReal, TypeInv, TypeOK
  <2> QED BY <1>7, <2>1, SerialEnd DEF DeleteReal, At
<1> QED BY <1>1, <1>2, <1>3, <1>4, <1>5, <1>6, <1>7 DEF ChangeNext

LEMMA SerialSave ==
    ASSUME Serial, TypeInv, SerialInv, NEW c \in Clients, SaveNext(c)
    PROVE  SerialInv'
<1>0. \A k \in Keys : real[k] # None => Known(k)
  BY DEF SerialInv, KnownKeys
<1>1. CASE SaveCheck(c)
  <2>1. ctx[c].key \in Keys /\ ctx[c].id \in UUIDs
    BY <1>1, CheckType DEF SaveCheck
  <2>2. \A d \in Clients : req[d].pc = "idle"
    BY <1>1, SerialStart DEF SaveCheck
  <2> QED BY <1>1, <2>1, <2>2, SerialBegin DEF SaveCheck, Steps, CommitSteps
<1>2. CASE SaveVerify(c)
  <2>1. /\ req[c].key \in Keys /\ req[c].id \in UUIDs
        /\ req[c].val \in Vals \cup {None} /\ req[c].pc # "idle"
    BY <1>2, Fields DEF SaveVerify, At, IdSteps
  <2> QED BY <1>2, <2>1, SerialBegin DEF SaveVerify, Goto, Steps, CommitSteps
<1>3. CASE SavePersist(c)
  <2>1. req[c].id \in UUIDs /\ req[c].pc # "idle"
    BY <1>3, Fields DEF SavePersist, At, IdSteps
  <2>2. /\ admin[req[c].id] \in AdminRecord /\ admin[req[c].id] # None
        /\ row[req[c].id] \in DraftRow
    BY <1>3, <2>1 DEF SavePersist, Live, TypeInv, TypeOK
  <2>3. /\ admin[req[c].id].key \in Keys /\ Known(admin[req[c].id].key)
        /\ row[req[c].id].val \in Vals
    BY <2>1, <2>2 DEF AdminRecord, DraftRow, SerialInv, KnownKeys
  <2>4. PICK step \in CommitSteps :
           Begin(c, step, admin[req[c].id].key, req[c].id, row[req[c].id].val)
    BY <1>3 DEF SavePersist, CommitSteps
  <2> DEFINE r == [pc |-> step, key |-> admin[req[c].id].key, id |-> req[c].id,
                   val |-> row[req[c].id].val]
  <2>5. r \in Request /\ r.pc = step /\ r.key = admin[req[c].id].key
    BY <2>1, <2>3 DEF Request, Steps
  <2>6. req' = [req EXCEPT ![c] = r]
    BY <2>4 DEF Begin
  <2>7. admin' = admin /\ issued' = issued /\ real' = real
    BY <1>3 DEF SavePersist
  <2> HIDE DEF r
  <2> QED BY <1>0, <2>1, <2>3, <2>5, <2>6, <2>7, SerialMove DEF CommitSteps
<1>4. CASE SaveCommit(c)
  <2>1. req[c].key \in Keys /\ req[c].pc # "idle" /\ Known(req[c].key)
    BY <1>4, Fields DEF SaveCommit, CommitSteps, SerialInv, KnownKeys
  <2>2. \A k \in Keys : real'[k] # None => Known(k)
    BY <1>0, <1>4, <2>1 DEF SaveCommit, TypeInv, TypeOK
  <2> QED BY <1>4, <2>1, <2>2, ClearKeeps, SerialEnd DEF SaveCommit
<1>5. CASE Discard(c)
  BY <1>5, ClearKeeps, SerialStay DEF Discard
<1> QED BY <1>1, <1>2, <1>3, <1>4, <1>5 DEF SaveNext

LEMMA SerialSession ==
    ASSUME TypeInv, SerialInv, NEW c \in Clients, SessionNext(c)
    PROVE  SerialInv'
<1>1. CASE Rollback(c)
  BY <1>1, SerialEnd DEF Rollback, SerialInv, KnownKeys
<1>2. CASE SessionDestroyed(c) \/ Login(c)
  BY <1>2, SerialStay DEF SessionDestroyed, Login
<1>3. CASE ClearUserDraftData(c)
  BY <1>3, ClearKeeps, SerialStay DEF ClearUserDraftData
<1> QED BY <1>1, <1>2, <1>3 DEF SessionNext

LEMMA SerialStep ==
    ASSUME Serial, ClientKeys = {}, TypeInv, SerialInv, [Next]_vars
    PROVE  SerialInv'
<1>1. CASE UNCHANGED vars
  BY <1>1, SerialStay DEF vars
<1>2. CASE ClearDraftList
  BY <1>2, SerialStay DEF ClearDraftList
<1>3. CASE ClearDraftRemove
  BY <1>3, SerialStay DEF ClearDraftRemove
<1>4. ASSUME NEW c \in Clients,
             EditNext(c) \/ NewNext(c) \/ ChangeNext(c) \/ SaveNext(c) \/ SessionNext(c)
      PROVE  SerialInv'
  BY <1>4, SerialEdit, SerialNew, SerialChange, SerialSave, SerialSession
<1> QED BY <1>1, <1>2, <1>3, <1>4 DEF Next

-----------------------------------------------------------------------------
(* An ended draft stays ended.                                             *)

(* No request in progress works under the id of a draft that has ended.    *)
Dead(u) == admin[u] = None /\ \A c \in Clients : ~Carries(c, u)

(* A step of c that creates no draft u and takes up another id, or reads u *)
(* for a DELETE, leaves u dead.                                            *)
LEMMA DeadMove ==
    ASSUME TypeInv, NEW u \in UUIDs, Dead(u), NEW c \in Clients,
           NEW step, NEW k, NEW w, NEW v,
           Begin(c, step, k, w, v), w # u \/ step = "delete", admin'[u] = None
    PROVE  Dead(u)'
<1>1. req'[c].id = w /\ req'[c].pc = step
  BY DEF Begin, TypeInv, TypeOK
<1>2. \A d \in Clients \ {c} : req'[d] = req[d]
  BY DEF Begin, TypeInv, TypeOK
<1> QED BY <1>1, <1>2 DEF Dead, Carries, At

LEMMA DeadEnd ==
    ASSUME TypeInv, NEW u \in UUIDs, Dead(u), NEW c \in Clients,
           req' = req \/ End(c), admin'[u] = None
    PROVE  Dead(u)'
<1>1. \A d \in Clients : req'[d] = req[d] \/ req'[d].id = None
  BY DEF End, NoRequest, TypeInv, TypeOK
<1>2. u # None
  BY ConstantsAssumption
<1> QED BY <1>1, <1>2 DEF Dead, Carries, At

LEMMA DeadStep ==
    ASSUME TypeInv, NEW u \in UUIDs \cap issued, Dead(u), [Next]_vars
    PROVE  Dead(u)'
<1>0. u # None /\ admin[u] = None
  BY ConstantsAssumption DEF Dead
<1>c. ASSUME NEW c \in Clients PROVE checkSapContextId(c) # u
  BY <1>0 DEF checkSapContextId, Live
<1>r. ASSUME NEW c \in Clients, ~At(c, "delete") PROVE req[c].id # u
  BY <1>r DEF Dead, Carries
<1>1. ASSUME NEW c \in Clients, EditNext(c) PROVE Dead(u)'
  <2>1. ASSUME NEW k \in KeysOf[c], EditCheck(c, k) PROVE Dead(u)'
    BY <1>0, <2>1, DeadMove DEF EditCheck
  <2>2. CASE EditContext(c)
    BY <1>0, <1>c, <2>2, DeadMove DEF EditContext
  <2>3. CASE EditLookup(c)
    <3>1. req[c].id # u
      BY <1>r, <2>3 DEF EditLookup, At
    <3>2. ASSUME NEW w \in DraftsOf(req[c].key), Begin(c, "editReuse", req[c].key, w, None)
          PROVE  Dead(u)'
      BY <1>0, <2>3, <3>2, DeadMove DEF EditLookup, DraftsOf
    <3>3. CASE Goto(c, "editCopy")
      BY <1>0, <2>3, <3>1, <3>3, DeadMove DEF EditLookup, Goto
    <3> QED BY <2>3, <3>2, <3>3 DEF EditLookup
  <2>4. CASE EditReuse(c)
    BY <1>0, <2>4, DeadEnd DEF EditReuse
  <2>5. CASE EditCopy(c)
    <3>1. req[c].id # u
      BY <1>r, <2>5 DEF EditCopy, At
    <3>2. admin'[u] = None
      BY <1>0, <2>5, <3>1 DEF EditCopy, TypeInv, TypeOK
    <3> QED BY <2>5, <3>2, DeadEnd DEF EditCopy
  <2> QED BY <1>1, <2>1, <2>2, <2>3, <2>4, <2>5 DEF EditNext
<1>2. ASSUME NEW c \in Clients, NewNext(c) PROVE Dead(u)'
  <2>1. ASSUME NEW k \in KeysOf[c], NewContext(c, k) PROVE Dead(u)'
    BY <1>0, <1>c, <2>1, DeadMove DEF NewContext
  <2>2. ASSUME NEW v \in Vals, NewCreate(c, v) PROVE Dead(u)'
    <3>1. req[c].id # u
      BY <1>r, <2>2 DEF NewCreate, At
    <3>2. admin'[u] = None
      BY <1>0, <2>2, <3>1 DEF NewCreate, TypeInv, TypeOK
    <3> QED BY <2>2, <3>2, DeadEnd DEF NewCreate
  <2> QED BY <1>2, <2>1, <2>2 DEF NewNext
<1>3. ASSUME NEW c \in Clients, ChangeNext(c) PROVE Dead(u)'
  <2>1. ASSUME NEW k \in KeysOf[c], NEW v \in Vals, PatchCheck(c, k, v) PROVE Dead(u)'
    BY <1>0, <1>c, <2>1, DeadMove DEF PatchCheck
  <2>2. ASSUME NEW k \in KeysOf[c], DeleteCheck(c, k) PROVE Dead(u)'
    BY <1>0, <1>c, <2>2, DeadMove DEF DeleteCheck
  <2>3. CASE DeleteRead(c)
    BY <1>0, <2>3, DeadMove DEF DeleteRead, Goto
  <2>4. CASE PatchDraft(c) \/ PatchReal(c) \/ DeleteDraft(c) \/ DeleteReal(c)
    BY <1>0, <2>4, DeadEnd DEF PatchDraft, PatchReal, DeleteDraft, DeleteReal
  <2> QED BY <1>3, <2>1, <2>2, <2>3, <2>4 DEF ChangeNext
<1>4. ASSUME NEW c \in Clients, SaveNext(c) PROVE Dead(u)'
  <2>0. ASSUME NEW S, clearEntityDraft(S) PROVE admin'[u] = None
    BY <1>0, <2>0 DEF clearEntityDraft, Cleared
  <2>1. CASE SaveCheck(c)
    BY <1>0, <2>1, DeadMove DEF SaveCheck, checkSapContextId, Live
  <2>2. CASE SaveVerify(c)
    BY <1>0, <2>2, DeadMove DEF SaveVerify, Goto, Live
  <2>3. CASE SavePersist(c)
    BY <1>0, <2>3, DeadMove DEF SavePersist, Live
  <2>4. CASE SaveCommit(c)
    BY <2>0, <2>4, DeadEnd DEF SaveCommit
  <2>5. CASE Discard(c)
    BY <2>0, <2>5, DeadEnd DEF Discard
  <2> QED BY <1>4, <2>1, <2>2, <2>3, <2>4, <2>5 DEF SaveNext
<1>5. ASSUME NEW c \in Clients, SessionNext(c) PROVE Dead(u)'
  <2>1. CASE Rollback(c) \/ SessionDestroyed(c) \/ Login(c)
    BY <1>0, <2>1, DeadEnd DEF Rollback, SessionDestroyed, Login
  <2>2. CASE ClearUserDraftData(c)
    BY <1>0, <2>2, DeadEnd DEF ClearUserDraftData, clearEntityDraft, Cleared
  <2> QED BY <1>5, <2>1, <2>2 DEF SessionNext
<1>6. CASE ClearDraftList \/ ClearDraftRemove \/ UNCHANGED vars
  <2>1. req' = req /\ admin'[u] = None
    BY <1>0, <1>6 DEF ClearDraftList, ClearDraftRemove, vars
  <2> QED BY <2>1 DEF Dead, Carries, At
<1> QED BY <1>1, <1>2, <1>3, <1>4, <1>5, <1>6 DEF Next

(* Whatever the interleaving, once a draft has ended and no request in     *)
(* progress carries its id, checkSapContextId and processSapContextId keep *)
(* the id out of use although pages go on sending it as their header.      *)
THEOREM DeadContextStaysDeadAlways == Spec => DeadContextStaysDead
<1>1. TypeInv /\ [Next]_vars =>
        [\A u \in UUIDs \cap issued :
          (admin[u] = None /\ \A c \in Clients : ~Carries(c, u))
             => (admin[u] = None /\ \A c \in Clients : ~Carries(c, u))']_vars
  <2> SUFFICES ASSUME TypeInv, [Next]_vars, NEW u \in UUIDs \cap issued,
                      admin[u] = None, \A c \in Clients : ~Carries(c, u)
               PROVE  (admin[u] = None /\ \A c \in Clients : ~Carries(c, u))'
    OBVIOUS
  <2> QED BY DeadStep DEF Dead
<1> QED BY <1>1, TypeInvariant, PTL DEF Spec, DeadContextStaysDead

-----------------------------------------------------------------------------
(***************************************************************************)
(* What the checks of the handlers are worth when requests, the ends of    *)
(* sessions and clearDraft interleave in any way: whatever a request has   *)
(* learnt stays true until it ends or is overtaken.                        *)
(***************************************************************************)

(* What the next step of a request of c takes for granted. *)
Learnt(c) ==
    /\ req[c].pc \in {"editContext", "editLookup", "editReuse"} =>
          NoOtherEditor(c, req[c].key)
    /\ At(c, "editReuse") => req[c].id \in DraftsOf(req[c].key)
    /\ At(c, "editCopy") => DraftsOf(req[c].key) = {}
    /\ At(c, "persist") => Verified(req[c].id)
    /\ req[c].pc \in CommitSteps =>
          /\ row[req[c].id].val = req[c].val
          /\ req[c].val \in Valid
          /\ At(c, "commitSame") => real[req[c].key] = req[c].val

RaceInv ==
    /\ overtaken \subseteq {c \in Clients : ~At(c, "idle")}
    /\ \A c \in Clients \ overtaken : Learnt(c)

(* A step that is not the client's own and touches neither the entity nor  *)
(* a draft its request works on.                                           *)
LEMMA Untouched ==
    ASSUME NEW c \in Clients, Learnt(c), req'[c] = req[c], TypeInv,
           ~At(c, "idle"), ~Touches(req[c].key, req[c].id)
    PROVE  Learnt(c)'
<1> DEFINE k == req[c].key
           u == req[c].id
<1>1. real'[k] = real[k]
  BY DEF Touches
<1>2. \A w \in UUIDs : w = u => admin'[w] = admin[w] /\ row'[w] = row[w]
  BY DEF Touches
<1>3. \A w \in UUIDs :
         (admin[w] # None /\ admin[w].key = k) \/ (admin'[w] # None /\ admin'[w].key = k)
            => admin'[w] = admin[w]
  BY DEF Touches
<1>4. \A w \in UUIDs : (admin'[w] # None /\ admin'[w].key = k)
                          <=> (admin[w] # None /\ admin[w].key = k)
  BY <1>3
<1>5. req[c].pc \in IdSteps => u \in UUIDs
  BY Fields
<1>6. req'[c].pc = req[c].pc /\ req'[c].key = k /\ req'[c].id = u /\ req'[c].val = req[c].val
  OBVIOUS
<1> DEFINE D == {w \in UUIDs : admin[w] # None /\ admin[w].key = k}
           E == {w \in UUIDs : admin'[w] # None /\ admin'[w].key = k}
<1>7. D = E
  BY <1>4
<1>8. DraftsOf(req[c].key) = D /\ DraftsOf(req[c].key)' = E
  BY <1>6 DEF DraftsOf
<1>9. \A w \in D : admin'[w] = admin[w]
  BY <1>3
<1>10. NoOtherEditor(c, req[c].key) <=> (D = {} \/ \E w \in D : admin[w].user = UserOf[c])
  BY <1>8 DEF NoOtherEditor
<1>11. NoOtherEditor(c, req[c].key)' <=> (E = {} \/ \E w \in E : admin'[w].user = UserOf[c])
  BY <1>8 DEF NoOtherEditor
<1>12. NoOtherEditor(c, req[c].key) => NoOtherEditor(c, req[c].key)'
  BY <1>7, <1>9, <1>10, <1>11
<1>13. At(c, "persist") => (Verified(u) <=> Verified(req[c].id)')
  BY <1>2, <1>5, <1>6 DEF Verified, At, IdSteps
<1>14. req[c].pc \in CommitSteps => row'[u] = row[u]
  BY <1>2, <1>5 DEF IdSteps
<1> HIDE DEF D, E, k, u
<1> QED BY <1>1, <1>6, <1>7, <1>8, <1>12, <1>13, <1>14 DEF Learnt, At, k, u

(* A client's request moves on, or ends, by a step of the client only.     *)
LEMMA OwnStep ==
    ASSUME TypeInv, [Next]_vars, NEW c \in Clients, req'[c] # req[c]
    PROVE  EditNext(c) \/ NewNext(c) \/ ChangeNext(c) \/ SaveNext(c) \/ Rollback(c)
<1>1. PICK d \in Clients :
         EditNext(d) \/ NewNext(d) \/ ChangeNext(d) \/ SaveNext(d) \/ SessionNext(d)
  BY DEF Next, vars, ClearDraftList, ClearDraftRemove
<1>2. EditNext(d) \/ NewNext(d) \/ ChangeNext(d) \/ SaveNext(d) \/ Rollback(d)
  BY <1>1 DEF SessionNext, SessionDestroyed, ClearUserDraftData, Login
<1>3. \E r : req' = req \/ req' = [req EXCEPT ![d] = r]
  <2>1. CASE EditNext(d)
    BY <2>1 DEF EditNext, EditCheck, EditContext, EditLookup, EditReuse, EditCopy,
                Goto, Begin, End
  <2>2. CASE NewNext(d)
    BY <2>2 DEF NewNext, NewContext, NewCreate, Begin, End
  <2>3. CASE ChangeNext(d)
    BY <2>3 DEF ChangeNext, PatchCheck, PatchDraft, PatchReal, DeleteCheck,
                DeleteRead, DeleteDraft, DeleteReal, Goto, Begin, End
  <2>4. CASE SaveNext(d)
    BY <2>4 DEF SaveNext, SaveCheck, SaveVerify, SavePersist, SaveCommit, Discard,
                Goto, Begin, End
  <2>5. CASE Rollback(d)
    BY <2>5 DEF Rollback, End
  <2> QED BY <1>2, <2>1, <2>2, <2>3, <2>4, <2>5
<1>4. d = c
  BY <1>3 DEF TypeInv, TypeOK
<1> QED BY <1>2, <1>4

(* What one of the client's own steps has learnt for the next one. *)
LEMMA Learns ==
    ASSUME TypeInv, [Next]_vars, NEW c \in Clients, ~At(c, "idle") => Learnt(c),
           req'[c] # req[c], req'[c].pc # "idle"
    PROVE  Learnt(c)'
<1>0. req \in [Clients -> Request]
  BY DEF TypeInv, TypeOK
<1>1. EditNext(c) \/ NewNext(c) \/ ChangeNext(c) \/ SaveNext(c) \/ Rollback(c)
  BY OwnStep
<1>2. ~End(c)
  BY <1>0 DEF End, NoRequest
<1>3. \/ \E k \in KeysOf[c] : EditCheck(c, k)
      \/ EditContext(c) \/ EditLookup(c)
      \/ \E k \in KeysOf[c] : NewContext(c, k)
      \/ \E k \in KeysOf[c], v \in Vals : PatchCheck(c, k, v)
      \/ \E k \in KeysOf[c] : DeleteCheck(c, k)
      \/ DeleteRead(c) \/ SaveCheck(c) \/ SaveVerify(c) \/ SavePersist(c)
  <2>1. ~EditReuse(c) /\ ~EditCopy(c) /\ ~\E v \in Vals : NewCreate(c, v)
    BY <1>2 DEF EditReuse, EditCopy, NewCreate
  <2>2. ~PatchDraft(c) /\ ~PatchReal(c) /\ ~DeleteDraft(c) /\ ~DeleteReal(c)
    BY <1>2 DEF PatchDraft, PatchReal, DeleteDraft, DeleteReal
  <2>3. ~SaveCommit(c) /\ ~Rollback(c) /\ ~Discard(c)
    BY <1>2 DEF SaveCommit, Rollback, Discard
  <2> QED BY <1>1, <2>1, <2>2, <2>3 DEF EditNext, NewNext, ChangeNext, SaveNext
<1>4. UNCHANGED <<real, admin, row>>
  BY <1>3 DEF EditCheck, EditContext, EditLookup, NewContext, PatchCheck, DeleteCheck,
              DeleteRead, SaveCheck, SaveVerify, SavePersist
<1>5. \A k : (DraftsOf(k)' = DraftsOf(k)) /\ (NoOtherEditor(c, k)' <=> NoOtherEditor(c, k))
  BY <1>4 DEF DraftsOf, NoOtherEditor
<1>6. \A step, k, u, v : Begin(c, step, k, u, v) =>
         req'[c].pc = step /\ req'[c].key = k /\ req'[c].id = u /\ req'[c].val = v
  BY <1>0 DEF Begin
<1>7. ASSUME NEW step \in {"new", "patch", "deleteRead", "delete", "save"},
             NEW k, NEW u, NEW v, Begin(c, step, k, u, v)
      PROVE  Learnt(c)'
  BY <1>6, <1>7 DEF Learnt, At, CommitSteps
<1>8. ASSUME NEW k \in KeysOf[c], EditCheck(c, k) PROVE Learnt(c)'
  <2>1. NoOtherEditor(c, k) /\ req'[c].pc = "editContext" /\ req'[c].key = k
    BY <1>6, <1>8 DEF EditCheck
  <2>2. NoOtherEditor(c, req[c].key)'
    BY <1>4, <2>1 DEF NoOtherEditor, DraftsOf
  <2> QED BY <2>1, <2>2 DEF Learnt, At, CommitSteps
<1>9. CASE EditContext(c)
  <2>1. At(c, "editContext") /\ req'[c].pc = "editLookup" /\ req'[c].key = req[c].key
    BY <1>6, <1>9 DEF EditContext
  <2>2. NoOtherEditor(c, req[c].key)
    BY <2>1 DEF Learnt, At
  <2>3. NoOtherEditor(c, req[c].key)'
    BY <1>4, <2>1, <2>2 DEF NoOtherEditor, DraftsOf
  <2> QED BY <2>1, <2>3 DEF Learnt, At, CommitSteps
<1>10. CASE EditLookup(c)
  <2>1. NoOtherEditor(c, req[c].key)
    BY <1>10 DEF Learnt, At, EditLookup
  <2>2. CASE DraftsOf(req[c].key) = {} /\ Goto(c, "editCopy")
    <3>1. req'[c].pc = "editCopy" /\ req'[c].key = req[c].key
      BY <1>6, <2>2 DEF Goto
    <3>2. DraftsOf(req[c].key)' = {}
      BY <1>4, <2>2, <3>1 DEF DraftsOf
    <3> QED BY <3>1, <3>2 DEF Learnt, At, CommitSteps
  <2>3. ASSUME NEW u \in DraftsOf(req[c].key), Begin(c, "editReuse", req[c].key, u, None)
        PROVE  Learnt(c)'
    <3>1. req'[c].pc = "editReuse" /\ req'[c].key = req[c].key /\ req'[c].id = u
      BY <1>6, <2>3
    <3>2. u \in DraftsOf(req[c].key)'
      BY <1>4, <2>3, <3>1 DEF DraftsOf
    <3>3. NoOtherEditor(c, req[c].key)'
      BY <1>4, <2>1, <3>1 DEF NoOtherEditor, DraftsOf
    <3> QED BY <3>1, <3>2, <3>3 DEF Learnt, At, CommitSteps
  <2> QED BY <1>10, <2>2, <2>3 DEF EditLookup
<1>11. CASE SaveVerify(c)
  <2>1. req'[c].pc = "persist" /\ req'[c].id = req[c].id /\ Verified(req[c].id)
    BY <1>6, <1>11 DEF SaveVerify, Goto
  <2>2. Verified(req[c].id)'
    BY <1>4, <2>1 DEF Verified
  <2> QED BY <2>1, <2>2 DEF Learnt, At, CommitSteps
<1>12. CASE SavePersist(c)
  <2> DEFINE u == req[c].id
             k == admin[u].key
  <2>1. /\ Verified(u) /\ row[u] # None /\ row[u].flag # "deleted"
    BY <1>12 DEF SavePersist, Learnt, At
  <2>2. PICK step \in CommitSteps : /\ Begin(c, step, k, u, row[u].val)
                                    /\ step = "commitSame" => real[k] = row[u].val
    BY <1>12 DEF SavePersist, CommitSteps, draftChanged
  <2>3. req'[c].pc = step /\ req'[c].key = k /\ req'[c].id = u /\ req'[c].val = row[u].val
    BY <1>6, <2>2
  <2>4. row[u].val \in Valid
    BY <2>1 DEF Verified
  <2> HIDE DEF u, k
  <2>5. step \notin {"editContext", "editLookup", "editReuse", "editCopy", "persist"}
    BY <2>2 DEF CommitSteps
  <2> QED BY <1>4, <2>2, <2>3, <2>4, <2>5 DEF Learnt, At
<1> QED BY <1>3, <1>7, <1>8, <1>9, <1>10, <1>11, <1>12
        DEF NewContext, PatchCheck, DeleteCheck, DeleteRead, SaveCheck, Goto

LEMMA RaceInvStep ==
    ASSUME TypeInv, RaceInv, [RNext]_rvars
    PROVE  RaceInv'
<1>0. CASE UNCHANGED rvars
  BY <1>0 DEF RaceInv, Learnt, At, NoOtherEditor, DraftsOf, Verified, rvars, vars
<1>1. CASE RNext
  <2>1. [Next]_vars /\ overtaken' = {c \in Clients : /\ ~At(c, "idle")
                                                     /\ req'[c].pc # "idle"
                                                     /\ c \in overtaken \/ Overtakes(c)}
    BY <1>1 DEF RNext
  <2>2. \A c \in overtaken' : c \in Clients /\ req'[c].pc # "idle"
    BY <2>1
  <2>3. ASSUME NEW c \in Clients, c \notin overtaken' PROVE Learnt(c)'
    <3>1. CASE req'[c].pc = "idle"
      BY <3>1 DEF Learnt, At, CommitSteps
    <3>2. CASE req'[c].pc # "idle" /\ req'[c] = req[c]
      <4>1. ~At(c, "idle")
        BY <3>2 DEF At
      <4>2. c \notin overtaken /\ ~Touches(req[c].key, req[c].id)
        BY <2>1, <2>3, <3>2, <4>1 DEF Overtakes
      <4> QED BY <3>2, <4>1, <4>2, Untouched DEF RaceInv
    <3>3. CASE req'[c].pc # "idle" /\ req'[c] # req[c]
      <4>1. ~At(c, "idle") => Learnt(c)
        BY <2>1, <2>3, <3>3 DEF RaceInv
      <4> QED BY <2>1, <3>3, <4>1, Learns
    <3> QED BY <3>1, <3>2, <3>3
  <2> QED BY <2>2, <2>3 DEF RaceInv, At
<1> QED BY <1>0, <1>1

(* Every step of RSpec is a step of Spec. *)
LEMMA RaceStep == [RNext]_rvars => [Next]_vars
BY DEF RNext, rvars

LEMMA RaceInvariant == RSpec => [](TypeInv /\ RaceInv)
<1>1. RInit => TypeInv /\ RaceInv
  <2> SUFFICES ASSUME RInit PROVE TypeInv /\ RaceInv
    OBVIOUS
  <2>1. \A c \in Clients : req[c].pc = "idle"
    BY DEF RInit, Init, NoRequest
  <2>2. TypeInv
    BY InitType DEF RInit
  <2> QED BY <2>1, <2>2 DEF RInit, RaceInv, Learnt, At, CommitSteps
<1>2. TypeInv /\ RaceInv /\ [RNext]_rvars => (TypeInv /\ RaceInv)'
  BY TypeStep, RaceStep, RaceInvStep
<1> QED BY <1>1, <1>2, PTL DEF RSpec

(* The types hold whatever runs at the same time, and only a request in    *)
(* progress can have been overtaken.                                       *)
THEOREM RaceTypeCorrect == RSpec => []RTypeOK
<1>1. TypeInv /\ RaceInv => RTypeOK
  BY DEF TypeInv, RaceInv, RTypeOK
<1> QED BY <1>1, RaceInvariant, PTL

(* Whatever else runs at the same time, a Save that nothing overtakes      *)
(* commits only what verifyProperty has seen: a PATCH of the same draft    *)
(* (or its end and a new one of its entity) between the two reads is the   *)
(* only way past the check.                                                *)
THEOREM SavedWasVerifiedAlways == RSpec => []SavedWasVerified
<1>1. RaceInv => SavedWasVerified
  BY DEF RaceInv, Learnt, SavedWasVerified
<1> QED BY <1>1, RaceInvariant, PTL

(* Whatever else runs at the same time, an EditAction that nothing         *)
(* overtakes makes the only draft of its entity.                           *)
THEOREM EditFindsNoDraftAlways == RSpec => []EditFindsNoDraft
<1>1. RaceInv => EditFindsNoDraft
  BY DEF RaceInv, Learnt, EditFindsNoDraft
<1> QED BY <1>1, RaceInvariant, PTL

(* Whatever else runs at the same time, an EditAction that nothing         *)
(* overtakes returns a live draft of its user, or one of several drafts    *)
(* that the entity had when it began.                                      *)
THEOREM EditTakesOwnDraftAlways == RSpec => []EditTakesOwnDraft
<1>1. ASSUME RaceInv, NEW c \in Clients \ overtaken, At(c, "editReuse")
      PROVE  /\ Live(req[c].id)
             /\ \/ admin[req[c].id].user = UserOf[c]
                \/ \E w \in DraftsOf(req[c].key) : w # req[c].id
  <2>1. req[c].id \in DraftsOf(req[c].key) /\ NoOtherEditor(c, req[c].key)
    BY <1>1 DEF RaceInv, Learnt, At
  <2>2. Live(req[c].id)
    BY <2>1, ConstantsAssumption DEF DraftsOf, Live
  <2>3. PICK w \in DraftsOf(req[c].key) : admin[w].user = UserOf[c]
    BY <2>1 DEF NoOtherEditor
  <2> QED BY <2>2, <2>3
<1>2. RaceInv => EditTakesOwnDraft
  BY <1>1 DEF EditTakesOwnDraft
<1> QED BY <1>2, RaceInvariant, PTL

(* Whatever else runs at the same time, the commit of a Save that nothing  *)
(* overtakes leaves in the real database what its draft held: no           *)
(* acknowledged PATCH of the draft goes with it.                           *)
THEOREM SavedIsTheDraftAlways == RSpec => SavedIsTheDraft
<1>1. ASSUME TypeInv, RaceInv, [RNext]_rvars, NEW c \in Clients \ overtaken,
             req[c].pc \in CommitSteps, Ends(c), Live(req[c].id),
             admin'[req[c].id] = None
      PROVE  real'[req[c].key] = row[req[c].id].val
  <2>1. /\ row[req[c].id].val = req[c].val
        /\ At(c, "commitSame") => real[req[c].key] = req[c].val
    BY <1>1 DEF RaceInv, Learnt
  <2>2. req[c].key \in Keys /\ real \in [Keys -> Vals \cup {None}]
    BY <1>1, Fields DEF TypeInv, TypeOK, CommitSteps
  <2>3. req'[c] # req[c]
    BY <1>1 DEF Ends, At
  <2>4. EditNext(c) \/ NewNext(c) \/ ChangeNext(c) \/ SaveNext(c) \/ Rollback(c)
    BY <1>1, <2>3, OwnStep, RaceStep
  <2>5. admin' # admin
    BY <1>1 DEF Live
  <2>6. ~EditNext(c) /\ ~NewNext(c) /\ ~ChangeNext(c) /\ ~Rollback(c)
    <3>1. ~EditNext(c)
      BY <1>1 DEF EditNext, EditCheck, EditContext, EditLookup, EditReuse, EditCopy,
                  CanStart, At, CommitSteps
    <3>2. ~NewNext(c)
      BY <1>1 DEF NewNext, NewContext, NewCreate, CanStart, At, CommitSteps
    <3>3. ~ChangeNext(c)
      BY <1>1 DEF ChangeNext, PatchCheck, PatchDraft, PatchReal, DeleteCheck,
                  DeleteRead, DeleteDraft, DeleteReal, CanStart, At, CommitSteps
    <3>4. ~Rollback(c)
      BY <2>5 DEF Rollback
    <3> QED BY <3>1, <3>2, <3>3, <3>4
  <2>7. SaveCommit(c)
    BY <1>1, <2>4, <2>6 DEF SaveNext, SaveCheck, SaveVerify, SavePersist, Discard,
                            CanStart, At, CommitSteps
  <2> QED BY <2>1, <2>2, <2>7 DEF SaveCommit
<1>2. TypeInv /\ RaceInv /\ [RNext]_rvars =>
        [\A c \in Clients \ overtaken :
          /\ req[c].pc \in CommitSteps /\ Ends(c)
          /\ Live(req[c].id) /\ admin'[req[c].id] = None
          => real'[req[c].key] = row[req[c].id].val]_rvars
  BY <1>1
<1> QED BY <1>2, RaceInvariant, PTL DEF RSpec, SavedIsTheDraft

(* The steps that change a draft table. *)
LEMMA TableStep ==
    ASSUME [Next]_vars
    PROVE  \/ admin' = admin /\ row' = row
           \/ \E c \in Clients :
                 \/ EditCopy(c) \/ \E v \in Vals : NewCreate(c, v)
                 \/ PatchDraft(c) \/ DeleteDraft(c)
                 \/ SaveCommit(c) \/ Discard(c) \/ ClearUserDraftData(c)
           \/ ClearDraftRemove
<1>1. ASSUME NEW c \in Clients,
             EditNext(c) \/ NewNext(c) \/ ChangeNext(c) \/ SaveNext(c) \/ SessionNext(c)
      PROVE  \/ admin' = admin /\ row' = row
             \/ EditCopy(c) \/ \E v \in Vals : NewCreate(c, v)
             \/ PatchDraft(c) \/ DeleteDraft(c)
             \/ SaveCommit(c) \/ Discard(c) \/ ClearUserDraftData(c)
  BY <1>1, FrameSteps DEF EditNext, NewNext, ChangeNext, SaveNext, SessionNext
<1>2. CASE UNCHANGED vars \/ ClearDraftList
  BY <1>2 DEF vars, ClearDraftList
<1> QED BY <1>1, <1>2 DEF Next

(* Only the Save of a draft of a key creates the entity of that key. *)
LEMMA CreatedBySave ==
    ASSUME TypeInv, [Next]_vars, NEW k \in Keys, real[k] = None, real'[k] # None
    PROVE  \E c \in Clients : /\ At(c, "commitCreate") /\ Ends(c)
                              /\ req[c].key = k /\ SaveCommit(c)
<1>0. real \in [Keys -> Vals \cup {None}] /\ req \in [Clients -> Request]
  BY DEF TypeInv, TypeOK
<1>1. PICK c \in Clients :
         EditNext(c) \/ NewNext(c) \/ ChangeNext(c) \/ SaveNext(c) \/ SessionNext(c)
  BY DEF Next, vars, ClearDraftList, ClearDraftRemove
<1>2. PatchReal(c) \/ DeleteReal(c) \/ SaveCommit(c)
  BY <1>1 DEF EditNext, NewNext, ChangeNext, SaveNext, SessionNext, EditCheck,
       EditContext, EditLookup, EditReuse, EditCopy, NewContext, NewCreate, PatchCheck,
       PatchDraft, DeleteCheck, DeleteRead, DeleteDraft, SaveCheck, SaveVerify,
       SavePersist, Discard, Rollback, SessionDestroyed, ClearUserDraftData, Login
<1>3. ~PatchReal(c)
  BY <1>0 DEF PatchReal
<1>4. ~DeleteReal(c)
  BY <1>0 DEF DeleteReal
<1>5. SaveCommit(c)
  BY <1>2, <1>3, <1>4
<1>6. req[c].key = k
  BY <1>0, <1>5 DEF SaveCommit
<1>7. At(c, "commitCreate")
  BY <1>5, <1>6 DEF SaveCommit
<1>8. Ends(c)
  BY <1>0, <1>5, <1>7 DEF SaveCommit, End, NoRequest, Ends, At
<1> QED BY <1>5, <1>6, <1>7, <1>8

(* A cleared draft is gone, and any other keeps both its rows. *)
LEMMA ClearedOrKept ==
    ASSUME NEW S, clearEntityDraft(S), NEW u \in UUIDs, admin'[u] # None
    PROVE  u \notin S /\ admin'[u] = admin[u] /\ row'[u] = row[u]
BY DEF clearEntityDraft, Cleared

(* Whatever the interleaving, only the Save of another draft of the same   *)
(* client-chosen key puts an entity under a draft that NewAction made, or  *)
(* an EditAction takes up the row of such a draft that clearDraft has      *)
(* left: checkPrimaryKeyConflict keeps every other creator away.           *)
THEOREM NewIsOverrunBySaveAlways == RSpec => NewIsOverrunBySave
<1>1. ASSUME TypeInv, [Next]_vars, NEW u \in UUIDs, ~Overrun(u), Overrun(u)'
      PROVE  \/ \E c \in Clients : /\ At(c, "commitCreate") /\ Ends(c)
                                   /\ req[c].key = admin[u].key /\ req[c].id # u
             \/ admin[u] = None /\ row[u] # None
  <2>1. /\ admin'[u] # None /\ row'[u] # None /\ ~row'[u].hasActive
        /\ real'[admin'[u].key] # None
    BY <1>1 DEF Overrun
  <2>0. /\ admin \in [UUIDs -> AdminRecord \cup {None}]
        /\ row \in [UUIDs -> DraftRow \cup {None}]
        /\ real \in [Keys -> Vals \cup {None}]
    BY <1>1 DEF TypeInv, TypeOK
  <2>2. ASSUME admin'[u] = admin[u], row[u] # None, ~row[u].hasActive
        PROVE  \E c \in Clients : /\ At(c, "commitCreate") /\ Ends(c)
                                  /\ req[c].key = admin[u].key /\ req[c].id # u
    <3>1. admin[u] # None /\ real[admin[u].key] = None /\ real'[admin[u].key] # None
      BY <1>1, <2>1, <2>2 DEF Overrun
    <3>2. admin[u].key \in Keys
      BY <2>0, <3>1 DEF AdminRecord
    <3>3. PICK c \in Clients : /\ At(c, "commitCreate") /\ Ends(c)
                               /\ req[c].key = admin[u].key /\ SaveCommit(c)
      BY <1>1, <3>1, <3>2, CreatedBySave
    <3>4. req[c].id # u
      BY <2>1, <3>3, ClearedOrKept DEF SaveCommit
    <3> QED BY <3>3, <3>4
  <2>3. CASE admin' = admin /\ row' = row
    BY <2>1, <2>2, <2>3
  <2>4. ASSUME NEW c \in Clients, EditCopy(c)
        PROVE  admin[u] = None /\ row[u] # None
    <3>1. real' = real
      BY <2>4 DEF EditCopy
    <3>2. CASE u # req[c].id
      <4>1. admin'[u] = admin[u] /\ row'[u] = row[u]
        BY <2>0, <2>4, <3>2 DEF EditCopy
      <4> QED BY <1>1, <2>1, <3>1, <4>1 DEF Overrun
    <3>3. CASE u = req[c].id
      <4>1. admin[u] = None /\ row'[u].hasActive = (row[u] = None \/ row[u].hasActive)
        BY <2>0, <2>4, <3>3 DEF EditCopy
      <4> QED BY <2>1, <4>1
    <3> QED BY <3>2, <3>3
  <2>5. ASSUME NEW c \in Clients, NEW v \in Vals, NewCreate(c, v)
        PROVE  FALSE
    <3>1. real' = real /\ real[req[c].key] = None
      BY <2>5 DEF NewCreate
    <3>2. CASE u # req[c].id
      <4>1. admin'[u] = admin[u] /\ row'[u] = row[u]
        BY <2>0, <2>5, <3>2 DEF NewCreate
      <4> QED BY <1>1, <2>1, <3>1, <4>1 DEF Overrun
    <3>3. CASE u = req[c].id
      <4>1. admin'[u].key = req[c].key
        BY <2>0, <2>5, <3>3 DEF NewCreate
      <4> QED BY <2>1, <3>1, <4>1
    <3> QED BY <3>2, <3>3
  <2>6. ASSUME NEW c \in Clients, PatchDraft(c) \/ DeleteDraft(c)
        PROVE  FALSE
    <3>1. real' = real /\ admin' = admin
      BY <2>6 DEF PatchDraft, DeleteDraft
    <3>2. row' = row \/ \E w \in UUIDs : \E r :
             /\ row[w] # None
             /\ row' = [row EXCEPT ![w] = r]
             /\ r.hasActive = row[w].hasActive
      <4>1. CASE PatchDraft(c)
        <5>1. PICK w \in RowsOf(req[c].key) :
                 row' = [row EXCEPT ![w] =
                           [key |-> row[w].key, val |-> req[c].val,
                            flag |-> "draft", hasActive |-> row[w].hasActive]]
          BY <4>1 DEF PatchDraft
        <5> DEFINE r == [key |-> row[w].key, val |-> req[c].val,
                         flag |-> "draft", hasActive |-> row[w].hasActive]
        <5>2. w \in UUIDs /\ row[w] # None /\ r.hasActive = row[w].hasActive
          BY <5>1 DEF RowsOf
        <5> HIDE DEF r
        <5>3. row' = [row EXCEPT ![w] = r]
          BY <5>1 DEF r
        <5> QED BY <5>2, <5>3
      <4>2. CASE DeleteDraft(c)
        <5> DEFINE w == req[c].id
                   r == [key |-> row[w].key, val |-> row[w].val,
                         flag |-> "deleted", hasActive |-> row[w].hasActive]
        <5>1. w \in UUIDs
          BY <1>1, <4>2, Fields DEF DeleteDraft
        <5>2. row' = IF row[w] = None THEN row ELSE [row EXCEPT ![w] = r]
          BY <4>2 DEF DeleteDraft
        <5>3. r.hasActive = row[w].hasActive
          OBVIOUS
        <5> HIDE DEF w, r
        <5> QED BY <5>1, <5>2, <5>3
      <4> QED BY <2>6, <4>1, <4>2
    <3>3. row[u] # None /\ row'[u].hasActive = row[u].hasActive
      <4>1. CASE row' = row
        BY <2>1, <4>1
      <4>2. ASSUME NEW w \in UUIDs, NEW r, row[w] # None,
                   row' = [row EXCEPT ![w] = r], r.hasActive = row[w].hasActive
            PROVE  row[u] # None /\ row'[u].hasActive = row[u].hasActive
        BY <2>0, <2>1, <4>2
      <4> QED BY <3>2, <4>1, <4>2
    <3> QED BY <1>1, <2>1, <3>1, <3>3 DEF Overrun
  <2>7. ASSUME NEW S, clearEntityDraft(S)
        PROVE  \E c \in Clients : /\ At(c, "commitCreate") /\ Ends(c)
                                  /\ req[c].key = admin[u].key /\ req[c].id # u
    <3>1. admin'[u] = admin[u] /\ row'[u] = row[u]
      BY <2>1, <2>7, ClearedOrKept
    <3> QED BY <2>1, <2>2, <3>1
  <2>8. ~ClearDraftRemove
    BY <2>1 DEF ClearDraftRemove
  <2> QED BY <1>1, <2>3, <2>4, <2>5, <2>6, <2>7, <2>8, TableStep
          DEF SaveCommit, Discard, ClearUserDraftData
<1>2. TypeInv /\ [RNext]_rvars =>
        [\A u \in UUIDs :
          ~Overrun(u) /\ Overrun(u)' =>
             \/ \E c \in Clients : /\ At(c, "commitCreate") /\ Ends(c)
                                   /\ req[c].key = admin[u].key /\ req[c].id # u
             \/ admin[u] = None /\ row[u] # None]_rvars
  BY <1>1, RaceStep
<1> QED BY <1>2, RaceInvariant, PTL DEF RSpec, NewIsOverrunBySave

(* The steps that end, sweep or open a session. *)
LEMMA SessionStep ==
    ASSUME [Next]_vars, alive' # alive \/ sweep' # sweep
    PROVE  \E c \in Clients : SessionDestroyed(c) \/ ClearUserDraftData(c) \/ Login(c)
<1>1. PICK c \in Clients :
         EditNext(c) \/ NewNext(c) \/ ChangeNext(c) \/ SaveNext(c) \/ SessionNext(c)
  BY DEF Next, vars, ClearDraftList, ClearDraftRemove
<1>2. ~EditNext(c)
  BY DEF EditNext, EditCheck, EditContext, EditLookup, EditReuse, EditCopy
<1>3. ~NewNext(c)
  BY DEF NewNext, NewContext, NewCreate
<1>4. ~ChangeNext(c)
  BY DEF ChangeNext, PatchCheck, PatchDraft, PatchReal, DeleteCheck, DeleteRead,
         DeleteDraft, DeleteReal
<1>5. ~SaveNext(c)
  BY DEF SaveNext, SaveCheck, SaveVerify, SavePersist, SaveCommit, Discard
<1> QED BY <1>1, <1>2, <1>3, <1>4, <1>5 DEF SessionNext, Rollback

(* Whatever the interleaving, only an EditAction or NewAction that commits *)
(* after sessionDestroyed has listed its user's drafts leaves a draft that *)
(* no session and no sweep will end.                                       *)
THEOREM OrphansAreBornLateAlways == RSpec => OrphansAreBornLate
<1>1. ASSUME TypeInv, [Next]_vars, NEW u \in UUIDs, ~Orphan(u), Orphan(u)'
      PROVE  \E c \in Clients : /\ req[c].pc \in {"editCopy", "new"} /\ Ends(c)
                                /\ req[c].id = u /\ ~alive[c]
  <2>0. /\ admin \in [UUIDs -> AdminRecord \cup {None}] /\ req \in [Clients -> Request]
        /\ alive \in [Clients -> BOOLEAN] /\ sweep \in [Clients -> SUBSET UUIDs]
    BY <1>1 DEF TypeInv, TypeOK
  <2>1. /\ admin'[u] # None
        /\ \A c \in Clients :
              UserOf[c] = admin'[u].user => ~alive'[c] /\ u \notin sweep'[c]
    BY <1>1 DEF Orphan
  <2>2. CASE admin[u] = None
    <3>1. PICK c \in Clients : /\ EditCopy(c) \/ \E v \in Vals : NewCreate(c, v)
                               /\ admin' = [admin EXCEPT ![req[c].id] =
                                     [key |-> req[c].key, user |-> UserOf[c]]]
      <4>1. ASSUME NEW S, clearEntityDraft(S) PROVE FALSE
        BY <2>1, <2>2, <4>1, ClearedOrKept
      <4>2. ~ClearDraftRemove
        BY <2>1 DEF ClearDraftRemove
      <4> QED BY <1>1, <2>1, <2>2, <4>1, <4>2, DraftStep
    <3>2. req[c].id = u /\ admin'[u].user = UserOf[c]
      BY <2>0, <2>1, <2>2, <3>1
    <3>3. alive' = alive /\ req[c].pc \in {"editCopy", "new"} /\ End(c)
      BY <3>1 DEF EditCopy, NewCreate, At
    <3>4. Ends(c)
      BY <2>0, <3>3 DEF Ends, At, End, NoRequest
    <3> QED BY <2>1, <3>2, <3>3, <3>4
  <2>3. CASE admin[u] # None
    <3>1. admin'[u] = admin[u]
      <4>1. ASSUME NEW c \in Clients, admin[req[c].id] = None, NEW a,
                   admin' = [admin EXCEPT ![req[c].id] = a]
            PROVE  admin'[u] = admin[u]
        BY <2>0, <2>3, <4>1
      <4>2. ASSUME NEW S, clearEntityDraft(S) PROVE admin'[u] = admin[u]
        BY <2>1, <4>2, ClearedOrKept
      <4>3. ~ClearDraftRemove
        BY <2>1 DEF ClearDraftRemove
      <4> QED BY <1>1, <4>1, <4>2, <4>3, DraftStep
    <3>2. PICK c \in Clients : UserOf[c] = admin[u].user /\ (alive[c] \/ u \in sweep[c])
      BY <1>1, <2>3 DEF Orphan
    <3>3. ~alive'[c] /\ u \notin sweep'[c]
      BY <2>1, <3>1, <3>2
    <3>4. alive' # alive \/ sweep' # sweep
      BY <3>2, <3>3
    <3>5. PICK d \in Clients : SessionDestroyed(d) \/ ClearUserDraftData(d) \/ Login(d)
      BY <1>1, <3>4, SessionStep
    <3>6. d = c
      BY <2>0, <3>2, <3>3, <3>5 DEF SessionDestroyed, ClearUserDraftData, Login
    <3>7. ~SessionDestroyed(c)
      BY <2>0, <2>3, <3>2, <3>3 DEF SessionDestroyed
    <3>8. ~ClearUserDraftData(c)
      <4>1. ASSUME ClearUserDraftData(c) PROVE FALSE
        <5>1. clearEntityDraft(sweep[c]) /\ alive' = alive
          BY <4>1 DEF ClearUserDraftData
        <5>2. u \in sweep[c]
          BY <3>2, <3>3, <5>1
        <5> QED BY <2>1, <5>1, <5>2, ClearedOrKept
      <4> QED BY <4>1
    <3>9. ~Login(c)
      BY <2>0, <3>3 DEF Login
    <3> QED BY <3>5, <3>6, <3>7, <3>8, <3>9
  <2> QED BY <2>2, <2>3
<1>2. TypeInv /\ [RNext]_rvars =>
        [\A u \in UUIDs :
          ~Orphan(u) /\ Orphan(u)' =>
             \E c \in Clients : /\ req[c].pc \in {"editCopy", "new"} /\ Ends(c)
                                /\ req[c].id = u /\ ~alive[c]]_rvars
  BY <1>1, RaceStep
<1> QED BY <1>2, RaceInvariant, PTL DEF RSpec, OrphansAreBornLate

-----------------------------------------------------------------------------
(***************************************************************************)
(* What the draft protocol promises its clients when requests do not       *)
(* overlap and new keys come from the sequence: a client edits its own     *)
(* draft, the draft holds what the client put there, Save stores that and  *)
(* only what was verified, and no draft outlives its user's sessions.      *)
(***************************************************************************)

(* One request, one sweep or one clearDraft is in progress at a time.      *)
Exclusive ==
    /\ \A c \in Clients : req[c].pc # "idle" =>
          alive[c] /\ jobs = {} /\ \A d \in Clients : sweep[d] = {}
    /\ jobs # {} => \A d \in Clients : sweep[d] = {}
    /\ \A S \in jobs : S = {u \in UUIDs : admin[u] # None}

(* The two rows of a draft agree, with each other and with the rest.       *)
DraftWhole(u) ==
    /\ admin[u] # None <=> row[u] # None
    /\ admin[u] # None =>
          /\ u \in issued
          /\ row[u].key = admin[u].key
          /\ row[u].val = acked[u]
          /\ row[u].hasActive \/ real[row[u].key] = None

Whole == \A u \in UUIDs : DraftWhole(u)

(* The draft a header names, while it lives, is the client's own.          *)
Contexts ==
    \A c \in Clients :
        ctx[c].id # None =>
            /\ ctx[c].id \in issued
            /\ admin[ctx[c].id] # None =>
                  /\ admin[ctx[c].id].key = ctx[c].key
                  /\ admin[ctx[c].id].user = UserOf[c]

OwnKey(c, k) == \A u \in DraftsOf(k) : admin[u].user = UserOf[c]

(* The id is in use already, or nobody has ever sent it.                   *)
FreshOrLive(u) == admin[u] # None \/ \A d \in Clients : ctx[d].id # u

(* What the request r of c has learnt stays true until its next step.      *)
Knows(c, r) ==
    /\ r.pc # "idle" /\ r.id # None => r.id \in issued
    /\ r.pc \in {"editContext", "editLookup"} => OwnKey(c, r.key)
    /\ r.pc \in {"editLookup", "editCopy", "new"} => FreshOrLive(r.id)
    /\ r.pc = "editReuse" =>
          admin[r.id] # None /\ admin[r.id].key = r.key /\ admin[r.id].user = UserOf[c]
    /\ r.pc = "patch" /\ r.id # None => admin[r.id] # None /\ admin[r.id].key = r.key
    /\ r.pc = "persist" => Verified(r.id)
    /\ r.pc \in CommitSteps =>
          /\ admin[r.id] # None /\ admin[r.id].key = r.key
          /\ r.val = row[r.id].val /\ r.val \in Valid /\ row[r.id].flag # "deleted"
          /\ r.pc = "commitUpdate" => real[r.key] # None
          /\ r.pc = "commitSame" => real[r.key] = r.val

AllKnow == \A c \in Clients : Knows(c, req[c])

SoloInv == Exclusive /\ Whole /\ Contexts /\ AllKnow

(* The invariants the steps below start from. *)
DraftInv == TypeInv /\ SerialInv /\ SoloInv

-----------------------------------------------------------------------------
(* The shapes of a step                                                    *)

(* When a client's request takes a step, nothing else is in progress.      *)
LEMMA Turn ==
    ASSUME Serial, DraftInv, NEW c \in Clients, req[c].pc # "idle" \/ CanStart(c)
    PROVE  /\ \A d \in Clients \ {c} : req[d].pc = "idle"
           /\ alive[c] /\ jobs = {} /\ \A d \in Clients : sweep[d] = {}
BY DEF DraftInv, SerialInv, OneRequest, SoloInv, Exclusive, CanStart, Quiet

(* A request that begins a step. *)
LEMMA BeginReq ==
    ASSUME TypeInv, NEW c \in Clients, NEW step \in Steps, NEW k \in Keys \cup {None},
           NEW u \in UUIDs \cup {None}, NEW v \in Vals \cup {None}, Begin(c, step, k, u, v)
    PROVE  \E r \in Request : /\ req' = [req EXCEPT ![c] = r]
                              /\ r.pc = step /\ r.key = k /\ r.id = u /\ r.val = v
<1> DEFINE r == [pc |-> step, key |-> k, id |-> u, val |-> v]
<1>1. r \in Request /\ r.pc = step /\ r.key = k /\ r.id = u /\ r.val = v
  BY DEF Request
<1>2. req' = [req EXCEPT ![c] = r]
  BY DEF Begin
<1> QED BY <1>1, <1>2

(* A step that only reads, and moves the request of c. *)
LEMMA ReadStep ==
    ASSUME Serial, DraftInv, NEW c \in Clients, req[c].pc # "idle" \/ CanStart(c),
           NEW r \in Request, req' = [req EXCEPT ![c] = r],
           UNCHANGED <<real, admin, row, ctx, alive, sweep, jobs, acked>>,
           issued \subseteq issued', Knows(c, r)'
    PROVE  SoloInv'
<1>1. /\ \A d \in Clients \ {c} : req[d].pc = "idle"
      /\ alive[c] /\ jobs = {} /\ \A d \in Clients : sweep[d] = {}
  BY Turn
<1>2. /\ req'[c] = r
      /\ \A d \in Clients \ {c} : req'[d] = req[d]
  BY DEF DraftInv, TypeInv, TypeOK
<1>3. Exclusive'
  BY <1>1, <1>2 DEF Exclusive
<1>4. Whole' /\ Contexts'
  BY DEF DraftInv, SoloInv, Whole, DraftWhole, Contexts
<1>5. \A d \in Clients \ {c} : Knows(d, req[d])'
  <2> SUFFICES ASSUME NEW d \in Clients \ {c} PROVE Knows(d, req[d])'
    OBVIOUS
  <2>1. req'[d].pc = "idle"
    BY <1>1, <1>2
  <2> QED BY <2>1 DEF Knows, CommitSteps
<1>6. Knows(c, req[c])'
  BY <1>2 DEF Knows, OwnKey, FreshOrLive, Verified
<1>7. AllKnow'
  BY <1>5, <1>6 DEF AllKnow
<1> QED BY <1>3, <1>4, <1>7 DEF SoloInv

(* A step after which no request is in progress. *)
LEMMA IdleStep ==
    ASSUME \A d \in Clients : req'[d].pc = "idle",
           Whole', Contexts', Exclusive'
    PROVE  SoloInv'
<1>1. \A d \in Clients : Knows(d, req[d])'
  BY DEF Knows, CommitSteps
<1> QED BY <1>1 DEF SoloInv, AllKnow

(* A step that ends the request of c. *)
LEMMA EndSolo ==
    ASSUME Serial, DraftInv, NEW c \in Clients, req[c].pc # "idle", End(c),
           UNCHANGED <<alive, sweep, jobs>>, Whole', Contexts'
    PROVE  SoloInv'
<1>1. /\ \A d \in Clients \ {c} : req[d].pc = "idle"
      /\ alive[c] /\ jobs = {} /\ \A d \in Clients : sweep[d] = {}
  BY Turn
<1>2. NoRequest.pc = "idle"
  BY DEF NoRequest
<1>3. \A d \in Clients : req'[d].pc = "idle"
  BY <1>1, <1>2 DEF End, DraftInv, TypeInv, TypeOK
<1>4. Exclusive'
  BY <1>1, <1>3 DEF Exclusive
<1> QED BY <1>3, <1>4, IdleStep

(* A step that only reads and begins the next step of the request.         *)
LEMMA BeginSolo ==
    ASSUME Serial, DraftInv, NEW c \in Clients, req[c].pc # "idle" \/ CanStart(c),
           NEW step \in Steps, NEW k \in Keys \cup {None},
           NEW u \in UUIDs \cup {None}, NEW v \in Vals \cup {None}, Begin(c, step, k, u, v),
           UNCHANGED <<real, admin, row, ctx, alive, sweep, jobs, acked>>,
           issued \subseteq issued',
           u # None => u \in issued',
           step \in {"editContext", "editLookup"} => OwnKey(c, k),
           step \in {"editLookup", "editCopy", "new"} => FreshOrLive(u),
           step = "editReuse" =>
              admin[u] # None /\ admin[u].key = k /\ admin[u].user = UserOf[c],
           step = "patch" /\ u # None => admin[u] # None /\ admin[u].key = k,
           step = "persist" => Verified(u),
           step \in CommitSteps =>
              /\ admin[u] # None /\ admin[u].key = k /\ v = row[u].val /\ v \in Valid
              /\ row[u].flag # "deleted"
              /\ step = "commitUpdate" => real[k] # None
              /\ step = "commitSame" => real[k] = v
    PROVE  SoloInv'
<1>1. PICK r \in Request : /\ req' = [req EXCEPT ![c] = r]
                           /\ r.pc = step /\ r.key = k /\ r.id = u /\ r.val = v
  BY BeginReq DEF DraftInv
<1>2. OwnKey(c, r.key)' <=> OwnKey(c, k)
  BY <1>1 DEF OwnKey, DraftsOf
<1>3. FreshOrLive(r.id)' <=> FreshOrLive(u)
  BY <1>1 DEF FreshOrLive
<1>4. Verified(r.id)' <=> Verified(u)
  BY <1>1 DEF Verified
<1>5. Knows(c, r)'
  BY <1>1, <1>2, <1>3, <1>4 DEF Knows
<1> QED BY <1>1, <1>5, ReadStep

(* The context a request works in: its own live draft, or a new id.        *)
LEMMA ContextId ==
    ASSUME Serial, DraftInv, NEW c \in Clients, NEW u \in UUIDs,
           IF checkSapContextId(c) # None THEN u = checkSapContextId(c) ELSE u \notin issued
    PROVE  FreshOrLive(u)
<1>1. CASE checkSapContextId(c) # None
  BY <1>1, CheckType DEF FreshOrLive, DraftInv
<1>2. CASE checkSapContextId(c) = None
  <2>1. u # None
    BY ConstantsAssumption
  <2> QED BY <1>2, <2>1 DEF FreshOrLive, DraftInv, SoloInv, Contexts
<1> QED BY <1>1, <1>2

(* Where a draft is created, no page has its id as its header, and there   *)
(* is no row of it.                                                        *)
LEMMA CreateSolo ==
    ASSUME Serial, DraftInv, NEW c \in Clients, req[c].pc \in {"editCopy", "new"},
           NEW v \in Vals, NEW active \in BOOLEAN, NEW flag \in Flags,
           admin[req[c].id] = None,
           active \/ real[req[c].key] = None,
           admin' = [admin EXCEPT ![req[c].id] = [key |-> req[c].key, user |-> UserOf[c]]],
           row' = [row EXCEPT ![req[c].id] =
                     [key |-> req[c].key, val |-> v, flag |-> flag, hasActive |-> active]],
           acked' = [acked EXCEPT ![req[c].id] = v],
           ctx' = [ctx EXCEPT ![c] = [id |-> req[c].id, key |-> req[c].key]],
           End(c), UNCHANGED <<real, issued, alive, sweep, jobs>>
    PROVE  SoloInv'
<1> DEFINE u == req[c].id
           k == req[c].key
           a == [key |-> k, user |-> UserOf[c]]
           w == [key |-> k, val |-> v, flag |-> flag, hasActive |-> active]
<1>1. u \in UUIDs /\ k \in Keys /\ req[c].pc # "idle"
  BY Fields DEF DraftInv, IdSteps
<1>2. u \in issued /\ \A d \in Clients : ctx[d].id # u
  BY <1>1, ConstantsAssumption DEF DraftInv, SoloInv, AllKnow, Knows, FreshOrLive
<1>3. /\ \A x \in UUIDs : admin'[x] = IF x = u THEN a ELSE admin[x]
      /\ \A x \in UUIDs : row'[x] = IF x = u THEN w ELSE row[x]
      /\ \A x \in UUIDs : acked'[x] = IF x = u THEN v ELSE acked[x]
      /\ \A d \in Clients : ctx'[d] = IF d = c THEN [id |-> u, key |-> k] ELSE ctx[d]
  BY DEF DraftInv, TypeInv, TypeOK
<1>4. /\ a # None /\ a.key = k /\ a.user = UserOf[c]
      /\ w # None /\ w.key = k /\ w.val = v /\ w.hasActive = active
  BY <1>1, NullAssumption, ConstantsAssumption DEF AdminRecord, DraftRow
<1>5. UNCHANGED <<real, issued, alive, sweep, jobs>> /\ End(c)
  OBVIOUS
<1>6. active \/ real[k] = None
  OBVIOUS
<1>w. Whole /\ Contexts
  BY DEF DraftInv, SoloInv
<1> HIDE DEF a, w, u, k
<1>7. Whole'
  <2> SUFFICES ASSUME NEW x \in UUIDs PROVE DraftWhole(x)'
    BY DEF Whole
  <2>1. CASE x = u
    BY <1>2, <1>3, <1>4, <1>5, <1>6, <2>1 DEF DraftWhole
  <2>2. CASE x # u
    BY <1>3, <1>5, <1>w, <2>2 DEF Whole, DraftWhole
  <2> QED BY <2>1, <2>2
<1>8. Contexts'
  <2>1. \A d \in Clients \ {c} : ctx'[d].id # None => ctx'[d].id \in UUIDs /\ ctx'[d].id # u
    BY <1>2, <1>3, Fields DEF DraftInv
  <2>2. ctx'[c].id = u /\ ctx'[c].key = k
    BY <1>3
  <2> QED BY <1>1, <1>2, <1>3, <1>4, <1>5, <1>w, <2>1, <2>2 DEF Contexts
<1>9. \A x \in UUIDs : admin'[x] # None =>
                          admin'[x] = admin[x] \/ admin'[x].user = UserOf[c]
  BY <1>3, <1>4
<1> QED BY <1>1, <1>5, <1>7, <1>8, <1>9, EndSolo

(* A step that changes no more than the contents of drafts, the tables of  *)
(* entities, or that ends drafts keeps the contexts true.                  *)
LEMMA ContextsKept ==
    ASSUME DraftInv, issued' = issued,
           \A d \in Clients : ctx'[d] = ctx[d] \/ ctx'[d].id = None,
           \A u \in UUIDs : admin'[u] # None => admin'[u] = admin[u]
    PROVE  Contexts'
<1>1. \A d \in Clients : ctx[d].id \in UUIDs \cup {None}
  BY Fields DEF DraftInv
<1> QED BY <1>1 DEF DraftInv, SoloInv, Contexts

(* An id of a live draft, found by key, is the only one of that key.       *)
LEMMA OnlyDraft ==
    ASSUME DraftInv, NEW u \in UUIDs, NEW w \in UUIDs, admin[u] # None, admin[w] # None,
           admin[u].key = admin[w].key
    PROVE  u = w
BY DEF DraftInv, SerialInv, OneDraftPerKey

LEMMA EditSolo ==
    ASSUME Serial, DraftInv, NEW c \in Clients, EditNext(c)
    PROVE  SoloInv'
<1> USE DEF Steps, CommitSteps
<1>f. /\ req[c].pc # "idle" => req[c].key \in Keys
      /\ req[c].pc \in IdSteps => req[c].id \in UUIDs
      /\ req[c].val \in Vals \cup {None}
      /\ Knows(c, req[c])
  BY Fields DEF DraftInv, SoloInv, AllKnow
<1>1. ASSUME NEW k \in KeysOf[c], EditCheck(c, k)
      PROVE  SoloInv'
  <2>1. k \in Keys
    BY ConstantsAssumption
  <2>2. OwnKey(c, k)
    BY <1>1, OnlyDraft DEF EditCheck, NoOtherEditor, OwnKey, DraftsOf
  <2> QED BY <1>1, <2>1, <2>2, BeginSolo DEF EditCheck
<1>2. CASE EditContext(c)
  <2>1. PICK u \in UUIDs :
           /\ IF checkSapContextId(c) # None THEN u = checkSapContextId(c) ELSE u \notin issued
           /\ issued' = issued \cup {u}
           /\ Begin(c, "editLookup", req[c].key, u, None)
    BY <1>2 DEF EditContext
  <2>2. FreshOrLive(u)
    BY <2>1, ContextId
  <2>3. req[c].key \in Keys /\ req[c].pc = "editContext" /\ OwnKey(c, req[c].key)
    BY <1>2, <1>f DEF EditContext, At, Knows
  <2> QED BY <1>2, <2>1, <2>2, <2>3, BeginSolo DEF EditContext
<1>3. CASE EditLookup(c)
  <2>1. /\ req[c].pc = "editLookup" /\ req[c].key \in Keys /\ req[c].id \in UUIDs
        /\ OwnKey(c, req[c].key) /\ FreshOrLive(req[c].id) /\ req[c].id \in issued
    BY <1>3, <1>f, ConstantsAssumption DEF EditLookup, At, Knows, IdSteps
  <2>2. UNCHANGED <<real, admin, row, issued, ctx, alive, sweep, jobs, acked>>
    BY <1>3 DEF EditLookup
  <2>3. CASE Goto(c, "editCopy")
    BY <1>f, <2>1, <2>2, <2>3, BeginSolo DEF Goto
  <2>4. ASSUME NEW u \in DraftsOf(req[c].key), Begin(c, "editReuse", req[c].key, u, None)
        PROVE  SoloInv'
    <3>1. u \in UUIDs /\ admin[u] # None /\ admin[u].key = req[c].key
      BY DEF DraftsOf
    <3>2. admin[u].user = UserOf[c] /\ u \in issued
      BY <2>1, <3>1 DEF OwnKey, DraftInv, SoloInv, Whole, DraftWhole
    <3> QED BY <2>1, <2>2, <2>4, <3>1, <3>2, BeginSolo
  <2> QED BY <1>3, <2>3, <2>4 DEF EditLookup
<1>4. CASE EditReuse(c)
  <2> DEFINE u == req[c].id
             k == req[c].key
  <2>1. /\ req[c].pc = "editReuse" /\ u \in UUIDs /\ End(c)
        /\ ctx' = [ctx EXCEPT ![c] = [id |-> u, key |-> k]]
        /\ UNCHANGED <<real, admin, row, issued, alive, sweep, jobs, acked>>
    BY <1>4, <1>f DEF EditReuse, At, IdSteps
  <2>2. /\ u \in issued /\ admin[u] # None /\ admin[u].key = k /\ admin[u].user = UserOf[c]
    BY <1>f, <2>1, ConstantsAssumption DEF Knows
  <2> HIDE DEF u, k
  <2>3. \A d \in Clients : ctx'[d] = IF d = c THEN [id |-> u, key |-> k] ELSE ctx[d]
    BY <2>1 DEF DraftInv, TypeInv, TypeOK
  <2>4. Contexts'
    BY <2>1, <2>2, <2>3 DEF DraftInv, SoloInv, Contexts
  <2>5. Whole'
    BY <2>1 DEF DraftInv, SoloInv, Whole, DraftWhole
  <2> QED BY <2>1, <2>4, <2>5, EndSolo
<1>5. CASE EditCopy(c)
  <2>1. req[c].pc = "editCopy" /\ req[c].id \in UUIDs /\ req[c].key \in Keys
    BY <1>5, <1>f DEF EditCopy, At, IdSteps
  <2>2. row[req[c].id] = None
    BY <1>5, <2>1 DEF EditCopy, DraftInv, SoloInv, Whole, DraftWhole
  <2>3. real[req[c].key] \in Vals
    BY <1>5, <2>1 DEF EditCopy, DraftInv, TypeInv, TypeOK
  <2>4. row' = [row EXCEPT ![req[c].id] =
                  [key |-> req[c].key, val |-> real[req[c].key], flag |-> "copy",
                   hasActive |-> TRUE]]
    BY <1>5, <2>2 DEF EditCopy
  <2> QED BY <1>5, <2>1, <2>3, <2>4, CreateSolo DEF EditCopy, Flags
<1> QED BY <1>1, <1>2, <1>3, <1>4, <1>5 DEF EditNext

LEMMA NewSolo ==
    ASSUME Serial, DraftInv, NEW c \in Clients, NewNext(c)
    PROVE  SoloInv'
<1> USE DEF Steps, CommitSteps
<1>1. ASSUME NEW k \in KeysOf[c], NewContext(c, k)
      PROVE  SoloInv'
  <2>1. k \in Keys
    BY ConstantsAssumption
  <2>2. PICK u \in UUIDs :
           /\ IF checkSapContextId(c) # None THEN u = checkSapContextId(c) ELSE u \notin issued
           /\ issued' = issued \cup {u, k}
           /\ Begin(c, "new", k, u, None)
    BY <1>1 DEF NewContext
  <2>3. FreshOrLive(u)
    BY <2>2, ContextId
  <2> QED BY <1>1, <2>1, <2>2, <2>3, BeginSolo DEF NewContext
<1>2. ASSUME NEW v \in Vals, NewCreate(c, v)
      PROVE  SoloInv'
  <2>1. req[c].pc = "new" /\ real[req[c].key] = None
    BY <1>2 DEF NewCreate, At
  <2> QED BY <1>2, <2>1, CreateSolo DEF NewCreate, Flags
<1> QED BY <1>1, <1>2 DEF NewNext

(* A change of the contents of one draft, by the request that holds it.    *)
LEMMA WriteSolo ==
    ASSUME Serial, DraftInv, NEW c \in Clients, req[c].pc # "idle", End(c),
           NEW u \in UUIDs, row[u] # None, NEW v \in Vals, NEW flag \in Flags,
           row' = [row EXCEPT ![u] = [key |-> row[u].key, val |-> v, flag |-> flag,
                                      hasActive |-> row[u].hasActive]],
           acked' = [acked EXCEPT ![u] = v] \/ (acked' = acked /\ v = row[u].val),
           UNCHANGED <<real, admin, issued, ctx, alive, sweep, jobs>>
    PROVE  SoloInv'
<1> DEFINE w == [key |-> row[u].key, val |-> v, flag |-> flag, hasActive |-> row[u].hasActive]
<1>1. \A x \in UUIDs : row'[x] = IF x = u THEN w ELSE row[x]
  BY DEF DraftInv, TypeInv, TypeOK
<1>2. w # None
  <2>1. w \in DraftRow
    BY DEF DraftInv, TypeInv, TypeOK, DraftRow
  <2> QED BY <2>1, NullAssumption
<1>3. w.key = row[u].key /\ w.val = v /\ w.hasActive = row[u].hasActive
  OBVIOUS
<1> HIDE DEF w
<1>4. Whole
  BY DEF DraftInv, SoloInv
<1>5. \A x \in UUIDs \ {u} : acked'[x] = acked[x]
  BY DEF DraftInv, TypeInv, TypeOK
<1>6. admin[u] # None => acked'[u] = v
  BY <1>4 DEF Whole, DraftWhole, DraftInv, TypeInv, TypeOK
<1>7. Whole'
  <2> SUFFICES ASSUME NEW x \in UUIDs PROVE DraftWhole(x)'
    BY DEF Whole
  <2>1. CASE x = u
    BY <1>1, <1>2, <1>3, <1>4, <1>6, <2>1 DEF Whole, DraftWhole
  <2>2. CASE x # u
    BY <1>1, <1>4, <1>5, <2>2 DEF Whole, DraftWhole
  <2> QED BY <2>1, <2>2
<1>8. Contexts'
  BY ContextsKept
<1> QED BY <1>7, <1>8, EndSolo

LEMMA ChangeSolo ==
    ASSUME Serial, ClientKeys = {}, DraftInv, NEW c \in Clients, ChangeNext(c)
    PROVE  SoloInv'
<1> USE DEF Steps, CommitSteps
<1>f. /\ req[c].pc # "idle" => req[c].key \in Keys
      /\ req[c].id \in UUIDs \cup {None}
      /\ req[c].val \in Vals \cup {None}
      /\ req[c].pc = "patch" => req[c].val \in Vals
      /\ Knows(c, req[c])
  BY Fields DEF DraftInv, SoloInv, AllKnow, ValSteps
<1>w. Whole /\ Contexts
  BY DEF DraftInv, SoloInv
<1>c. ASSUME NEW k \in Keys, Target(c, k)
      PROVE  /\ checkSapContextId(c) \in UUIDs \cup {None}
             /\ checkSapContextId(c) # None =>
                   /\ checkSapContextId(c) \in issued
                   /\ admin[checkSapContextId(c)] # None
                   /\ admin[checkSapContextId(c)].key = k
  <2>1. ctx[c].id \in UUIDs \cup {None}
    BY Fields DEF DraftInv
  <2>2. ASSUME Live(ctx[c].id)
        PROVE  ctx[c].id \in issued /\ admin[ctx[c].id].key = k
    <3>1. ctx[c].id \in issued /\ admin[ctx[c].id].key = ctx[c].key
      BY <1>w, <2>2 DEF Contexts, Live
    <3>2. admin[ctx[c].id].key \in Keys
      BY <2>1, <2>2 DEF Live, DraftInv, TypeInv, TypeOK, AdminRecord
    <3> QED BY <1>c, <3>1, <3>2, ConstantsAssumption DEF Target
  <2> QED BY <2>1, <2>2 DEF checkSapContextId, Live
<1>1. ASSUME NEW k \in KeysOf[c], NEW v \in Vals, PatchCheck(c, k, v)
      PROVE  SoloInv'
  <2>1. k \in Keys
    BY ConstantsAssumption
  <2>2. PICK u \in UUIDs \cup {None} : u = checkSapContextId(c)
    BY <1>1, <1>c, <2>1 DEF PatchCheck
  <2>3. Begin(c, "patch", k, u, v) /\ CanStart(c) /\ Target(c, k)
        /\ UNCHANGED <<real, admin, row, issued, ctx, alive, sweep, jobs, acked>>
    BY <1>1, <2>2 DEF PatchCheck
  <2>4. u # None => u \in issued /\ admin[u] # None /\ admin[u].key = k
    BY <1>c, <2>1, <2>2, <2>3
  <2> QED BY <2>1, <2>3, <2>4, BeginSolo
<1>2. CASE PatchDraft(c)
  <2>1. PICK u \in RowsOf(req[c].key) :
           /\ admin[u] # None
           /\ row' = [row EXCEPT ![u] = [key |-> row[u].key, val |-> req[c].val,
                                         flag |-> "draft", hasActive |-> row[u].hasActive]]
    BY <1>2 DEF PatchDraft
  <2>2. u \in UUIDs /\ row[u] # None /\ row[u].key = req[c].key
    BY DEF RowsOf
  <2>3. /\ req[c].pc = "patch" /\ req[c].id # None /\ End(c)
        /\ acked' = [acked EXCEPT ![req[c].id] = req[c].val]
        /\ UNCHANGED <<real, admin, issued, ctx, alive, sweep, jobs>>
    BY <1>2 DEF PatchDraft, At
  <2>4. admin[u].key = req[c].key
    BY <1>w, <2>1, <2>2 DEF Whole, DraftWhole
  <2>5. req[c].id \in UUIDs /\ admin[req[c].id] # None /\ admin[req[c].id].key = req[c].key
    BY <1>f, <2>3 DEF Knows
  <2>6. u = req[c].id
    BY <2>1, <2>2, <2>4, <2>5, OnlyDraft
  <2> QED BY <1>f, <2>1, <2>2, <2>3, <2>6, WriteSolo DEF Flags
<1>3. CASE PatchReal(c)
  <2>1. /\ req[c].pc = "patch" /\ real[req[c].key] # None /\ End(c)
        /\ real' = [real EXCEPT ![req[c].key] = req[c].val]
        /\ UNCHANGED <<admin, row, issued, ctx, alive, sweep, jobs, acked>>
    BY <1>3 DEF PatchReal, At
  <2>2. \A k \in Keys : real[k] = None => real'[k] = None
    BY <2>1 DEF DraftInv, TypeInv, TypeOK
  <2>3. Whole'
    <3> SUFFICES ASSUME NEW x \in UUIDs PROVE DraftWhole(x)'
      BY DEF Whole
    <3>1. admin[x] # None => admin[x].key \in Keys
      BY DEF DraftInv, TypeInv, TypeOK, AdminRecord
    <3> QED BY <1>w, <2>1, <2>2, <3>1 DEF Whole, DraftWhole
  <2>4. Contexts'
    BY <2>1, ContextsKept
  <2> QED BY <2>1, <2>3, <2>4, EndSolo
<1>4. ASSUME NEW k \in KeysOf[c], DeleteCheck(c, k)
      PROVE  SoloInv'
  <2>1. k \in Keys
    BY ConstantsAssumption
  <2>2. PICK u \in UUIDs \cup {None} : u = checkSapContextId(c)
    BY <1>4, <1>c, <2>1 DEF DeleteCheck
  <2>3. Begin(c, "deleteRead", k, u, None) /\ CanStart(c) /\ Target(c, k)
        /\ UNCHANGED <<real, admin, row, issued, ctx, alive, sweep, jobs, acked>>
    BY <1>4, <2>2 DEF DeleteCheck
  <2>4. u # None => u \in issued
    BY <1>c, <2>1, <2>2, <2>3
  <2> QED BY <2>1, <2>3, <2>4, BeginSolo
<1>5. CASE DeleteRead(c)
  <2>1. /\ req[c].pc = "deleteRead"
        /\ UNCHANGED <<real, admin, row, issued, ctx, alive, sweep, jobs, acked>>
    BY <1>5 DEF DeleteRead, At
  <2>2. ASSUME NEW u \in RowsOf(req[c].key), Begin(c, "delete", req[c].key, u, None)
        PROVE  SoloInv'
    <3>1. u \in UUIDs /\ row[u] # None
      BY DEF RowsOf
    <3>2. u \in issued
      BY <1>w, <3>1 DEF Whole, DraftWhole
    <3> QED BY <1>f, <2>1, <2>2, <3>1, <3>2, BeginSolo
  <2>3. CASE req[c].id = None /\ Goto(c, "delete")
    <3>1. PICK k \in Keys, u \in {None}, v \in Vals \cup {None} : Begin(c, "delete", k, u, v)
      BY <1>f, <2>1, <2>3 DEF Goto
    <3> QED BY <2>1, <3>1, BeginSolo
  <2> QED BY <1>5, <2>2, <2>3 DEF DeleteRead
<1>6. CASE DeleteDraft(c)
  <2>1. /\ req[c].pc = "delete" /\ req[c].id \in UUIDs /\ End(c)
        /\ UNCHANGED <<real, admin, issued, ctx, alive, sweep, jobs, acked>>
    BY <1>6, <1>f DEF DeleteDraft, At
  <2>2. CASE row[req[c].id] = None
    <3>1. row' = row
      BY <1>6, <2>2 DEF DeleteDraft
    <3>2. Whole'
      BY <1>w, <2>1, <3>1 DEF Whole, DraftWhole
    <3>3. Contexts'
      BY <2>1, ContextsKept
    <3> QED BY <2>1, <3>2, <3>3, EndSolo
  <2>3. CASE row[req[c].id] # None
    <3>1. row[req[c].id].val \in Vals
      BY <2>1, <2>3 DEF DraftInv, TypeInv, TypeOK, DraftRow
    <3>2. row' = [row EXCEPT ![req[c].id] =
                    [key |-> row[req[c].id].key, val |-> row[req[c].id].val,
                     flag |-> "deleted", hasActive |-> row[req[c].id].hasActive]]
      BY <1>6, <2>3 DEF DeleteDraft
    <3> QED BY <2>1, <2>3, <3>1, <3>2, WriteSolo DEF Flags
  <2> QED BY <2>2, <2>3
<1>7. CASE DeleteReal(c)
  <2>1. /\ req[c].pc = "delete" /\ End(c)
        /\ real' = [real EXCEPT ![req[c].key] = None]
        /\ UNCHANGED <<admin, row, issued, ctx, alive, sweep, jobs, acked>>
    BY <1>7 DEF DeleteReal, At
  <2>2. \A k \in Keys : real[k] = None => real'[k] = None
    BY <2>1 DEF DraftInv, TypeInv, TypeOK
  <2>3. Whole'
    <3> SUFFICES ASSUME NEW x \in UUIDs PROVE DraftWhole(x)'
      BY DEF Whole
    <3>1. admin[x] # None => admin[x].key \in Keys
      BY DEF DraftInv, TypeInv, TypeOK, AdminRecord
    <3> QED BY <1>w, <2>1, <2>2, <3>1 DEF Whole, DraftWhole
  <2>4. Contexts'
    BY <2>1, ContextsKept
  <2> QED BY <2>1, <2>3, <2>4, EndSolo
<1> QED BY <1>1, <1>2, <1>3, <1>4, <1>5, <1>6, <1>7 DEF ChangeNext

(* Clearing drafts keeps the rest whole, as long as the entities of the    *)
(* other drafts are left alone.                                            *)
LEMMA ClearSolo ==
    ASSUME DraftInv, NEW S \in SUBSET UUIDs, clearEntityDraft(S),
           UNCHANGED <<issued, acked>>,
           \A d \in Clients : ctx'[d] = ctx[d] \/ ctx'[d].id = None,
           \A u \in UUIDs \ S :
              admin[u] # None => real'[admin[u].key] = real[admin[u].key]
    PROVE  /\ Whole' /\ Contexts'
           /\ \A u \in UUIDs : admin'[u] # None => admin'[u] = admin[u] /\ u \notin S
<1>1. \A u \in UUIDs : u \notin S =>
         admin'[u] = admin[u] /\ row'[u] = row[u] /\ acked'[u] = acked[u]
  BY DEF clearEntityDraft, Cleared
<1>2. \A u \in S : admin'[u] = None /\ row'[u] = None
  BY DEF clearEntityDraft, Cleared, DraftInv, SoloInv, Whole, DraftWhole
<1>3. Whole'
  <2> SUFFICES ASSUME NEW u \in UUIDs PROVE DraftWhole(u)'
    BY DEF Whole
  <2>1. DraftWhole(u)
    BY DEF DraftInv, SoloInv, Whole
  <2> QED BY <1>1, <1>2, <2>1 DEF DraftWhole
<1>4. \A u \in UUIDs : admin'[u] # None => admin'[u] = admin[u] /\ u \notin S
  BY <1>1, <1>2
<1>5. Contexts'
  BY <1>4, ContextsKept
<1> QED BY <1>3, <1>4, <1>5

LEMMA SaveSolo ==
    ASSUME Serial, DraftInv, NEW c \in Clients, SaveNext(c)
    PROVE  SoloInv'
<1> USE DEF Steps, CommitSteps
<1>f. /\ req[c].pc # "idle" => req[c].key \in Keys
      /\ req[c].pc \in IdSteps => req[c].id \in UUIDs
      /\ req[c].val \in Vals \cup {None}
      /\ Knows(c, req[c])
  BY Fields DEF DraftInv, SoloInv, AllKnow
<1>1. CASE SaveCheck(c)
  <2>1. ctx[c].key \in Keys /\ ctx[c].id \in UUIDs
    BY <1>1, CheckType DEF SaveCheck, DraftInv
  <2>2. ctx[c].id \in issued
    BY <2>1, ConstantsAssumption DEF DraftInv, SoloInv, Contexts
  <2> QED BY <1>1, <2>1, <2>2, BeginSolo DEF SaveCheck
<1>2. CASE SaveVerify(c)
  <2>1. /\ req[c].pc = "save" /\ Verified(req[c].id)
        /\ Begin(c, "persist", req[c].key, req[c].id, req[c].val)
        /\ UNCHANGED <<real, admin, row, issued, ctx, alive, sweep, jobs, acked>>
    BY <1>2 DEF SaveVerify, At, Goto
  <2>2. req[c].id \in UUIDs /\ req[c].key \in Keys /\ req[c].id \in issued
    BY <1>f, <2>1, ConstantsAssumption DEF Knows, IdSteps
  <2> QED BY <1>f, <2>1, <2>2, BeginSolo
<1>3. CASE SavePersist(c)
  <2> DEFINE u == req[c].id
             k == admin[u].key
  <2>1. /\ req[c].pc = "persist" /\ u \in UUIDs /\ u \in issued /\ Verified(u)
    BY <1>3, <1>f, ConstantsAssumption DEF SavePersist, At, Knows, IdSteps
  <2>2. /\ admin[u] # None /\ row[u] # None /\ row[u].flag # "deleted"
        /\ UNCHANGED <<real, admin, row, issued, ctx, alive, sweep, jobs, acked>>
    BY <1>3 DEF SavePersist, Live
  <2>3. k \in Keys /\ row[u].val \in Vals /\ row[u].val \in Valid
    BY <2>1, <2>2 DEF Verified, DraftInv, TypeInv, TypeOK, AdminRecord, DraftRow
  <2>4. PICK step \in CommitSteps :
           /\ Begin(c, step, k, u, row[u].val)
           /\ step = "commitUpdate" => real[k] # None
           /\ step = "commitSame" => real[k] = row[u].val
    BY <1>3 DEF SavePersist, draftChanged
  <2> HIDE DEF k
  <2>5. admin[u].key = k
    BY DEF k
  <2> HIDE DEF u
  <2> QED BY <2>1, <2>2, <2>3, <2>4, <2>5, BeginSolo
<1>4. CASE SaveCommit(c)
  <2>1. /\ req[c].pc \in CommitSteps /\ End(c)
        /\ real' = IF At(c, "commitSame") THEN real
                   ELSE [real EXCEPT ![req[c].key] = req[c].val]
        /\ clearEntityDraft({req[c].id})
        /\ ctx' = [ctx EXCEPT ![c] = NoContext]
        /\ UNCHANGED <<issued, alive, sweep, jobs, acked>>
    BY <1>4 DEF SaveCommit
  <2>2. /\ req[c].id \in UUIDs /\ admin[req[c].id] # None
        /\ admin[req[c].id].key = req[c].key
    BY <1>f, <2>1 DEF Knows, IdSteps
  <2>3. ASSUME NEW x \in UUIDs \ {req[c].id}, admin[x] # None
        PROVE  real'[admin[x].key] = real[admin[x].key]
    <3>1. admin[x].key # req[c].key
      BY <2>2, <2>3, OnlyDraft
    <3>2. admin[x].key \in Keys
      BY <2>3 DEF DraftInv, TypeInv, TypeOK, AdminRecord
    <3> QED BY <2>1, <3>1, <3>2 DEF DraftInv, TypeInv, TypeOK
  <2>4. \A d \in Clients : ctx'[d] = ctx[d] \/ ctx'[d].id = None
    BY <2>1 DEF NoContext, DraftInv, TypeInv, TypeOK
  <2>5. /\ Whole' /\ Contexts'
        /\ \A x \in UUIDs : admin'[x] # None => admin'[x] = admin[x]
    BY <2>1, <2>2, <2>3, <2>4, ClearSolo
  <2> QED BY <2>1, <2>5, EndSolo
<1>5. CASE Discard(c)
  <2>1. /\ CanStart(c) /\ ctx[c].id # None
        /\ clearEntityDraft({ctx[c].id})
        /\ ctx' = [ctx EXCEPT ![c] = NoContext]
        /\ UNCHANGED <<real, issued, req, alive, sweep, jobs, acked>>
    BY <1>5 DEF Discard
  <2>2. /\ \A d \in Clients : req[d].pc = "idle"
        /\ alive[c] /\ jobs = {} /\ \A d \in Clients : sweep[d] = {}
    BY <2>1 DEF CanStart, Quiet
  <2>3. ctx[c].id \in UUIDs
    BY <2>1, Fields DEF DraftInv
  <2>4. \A d \in Clients : ctx'[d] = ctx[d] \/ ctx'[d].id = None
    BY <2>1 DEF NoContext, DraftInv, TypeInv, TypeOK
  <2>5. /\ Whole' /\ Contexts'
        /\ \A x \in UUIDs : admin'[x] # None => admin'[x] = admin[x]
    BY <2>1, <2>3, <2>4, ClearSolo
  <2>6. Exclusive' /\ \A d \in Clients : req'[d].pc = "idle"
    BY <2>1, <2>2 DEF Exclusive
  <2> QED BY <2>5, <2>6, IdleStep
<1> QED BY <1>1, <1>2, <1>3, <1>4, <1>5 DEF SaveNext

LEMMA SessionSolo ==
    ASSUME Serial, DraftInv, NEW c \in Clients, SessionNext(c)
    PROVE  SoloInv'
<1>x. Exclusive /\ Whole /\ Contexts
  BY DEF DraftInv, SoloInv
<1>1. CASE Rollback(c)
  <2>1. /\ req[c].pc # "idle" /\ End(c)
        /\ UNCHANGED <<real, admin, row, issued, ctx, alive, sweep, jobs, acked>>
    BY <1>1 DEF Rollback
  <2>2. Whole' /\ Contexts'
    BY <1>x, <2>1 DEF Whole, DraftWhole, Contexts
  <2> QED BY <2>1, <2>2, EndSolo
<1>2. CASE SessionDestroyed(c)
  <2>1. /\ Quiet /\ sweep[c] = {} /\ alive[c]
        /\ \A d \in Clients \ {c} : alive'[d] = alive[d] /\ sweep'[d] = sweep[d]
        /\ sweep'[c] = {u \in UUIDs : admin[u] # None /\ admin[u].user = UserOf[c]}
        /\ UNCHANGED <<real, admin, row, issued, ctx, req, jobs, acked>>
    BY <1>2 DEF SessionDestroyed, DraftInv, TypeInv, TypeOK
  <2>2. Whole' /\ Contexts'
    BY <1>x, <2>1 DEF Whole, DraftWhole, Contexts
  <2>3. Exclusive' /\ \A d \in Clients : req'[d].pc = "idle"
    BY <2>1 DEF Exclusive, Quiet
  <2> QED BY <2>2, <2>3, IdleStep
<1>3. CASE ClearUserDraftData(c)
  <2>1. /\ sweep[c] # {} /\ clearEntityDraft(sweep[c])
        /\ \A d \in Clients \ {c} : sweep'[d] = sweep[d]
        /\ UNCHANGED <<real, issued, ctx, req, alive, jobs, acked>>
    BY <1>3 DEF ClearUserDraftData, DraftInv, TypeInv, TypeOK
  <2>2. jobs = {} /\ \A d \in Clients : req[d].pc = "idle"
    BY <1>x, <2>1 DEF Exclusive
  <2>3. sweep[c] \in SUBSET UUIDs
    BY DEF DraftInv, TypeInv, TypeOK
  <2>4. /\ Whole' /\ Contexts'
        /\ \A u \in UUIDs : admin'[u] # None => admin'[u] = admin[u] /\ u \notin sweep[c]
    BY <2>1, <2>3, ClearSolo
  <2>5. Exclusive'
    BY <2>1, <2>2 DEF Exclusive
  <2> QED BY <2>1, <2>2, <2>4, <2>5, IdleStep
<1>4. CASE Login(c)
  <2>1. /\ Quiet /\ \A d \in Clients : alive[d] => alive'[d]
        /\ UNCHANGED <<real, admin, row, issued, ctx, req, sweep, jobs, acked>>
    BY <1>4 DEF Login, DraftInv, TypeInv, TypeOK
  <2>2. Whole' /\ Contexts'
    BY <1>x, <2>1 DEF Whole, DraftWhole, Contexts
  <2>3. Exclusive' /\ \A d \in Clients : req'[d].pc = "idle"
    BY <2>1 DEF Exclusive, Quiet
  <2> QED BY <2>2, <2>3, IdleStep
<1> QED BY <1>1, <1>2, <1>3, <1>4 DEF SessionNext

LEMMA ClearDraftSolo ==
    ASSUME Serial, DraftInv, ClearDraftList \/ ClearDraftRemove
    PROVE  SoloInv'
<1>x. Exclusive /\ Whole /\ Contexts
  BY DEF DraftInv, SoloInv
<1>1. CASE ClearDraftList
  <2>1. /\ Quiet /\ jobs' = {{u \in UUIDs : admin[u] # None}}
        /\ UNCHANGED <<real, admin, row, issued, ctx, req, alive, sweep, acked>>
    BY <1>1 DEF ClearDraftList
  <2>2. Whole' /\ Contexts'
    BY <1>x, <2>1 DEF Whole, DraftWhole, Contexts
  <2>3. Exclusive' /\ \A d \in Clients : req'[d].pc = "idle"
    BY <2>1 DEF Exclusive, Quiet
  <2> QED BY <2>2, <2>3, IdleStep
<1>2. CASE ClearDraftRemove
  <2>1. PICK S \in jobs :
           /\ row' = [u \in UUIDs |-> IF u \in S THEN None ELSE row[u]]
           /\ admin' = [u \in UUIDs |-> None]
           /\ jobs' = {}
           /\ UNCHANGED <<real, issued, ctx, req, alive, sweep, acked>>
    BY <1>2 DEF ClearDraftRemove
  <2>2. \A d \in Clients : req'[d].pc = "idle"
    BY <1>x, <2>1 DEF Exclusive
  <2>3. \A u \in UUIDs : admin'[u] = None /\ row'[u] = None
    BY <1>x, <2>1 DEF Exclusive, Whole, DraftWhole
  <2>4. Whole'
    BY <2>3 DEF Whole, DraftWhole
  <2>5. Contexts'
    <3>1. \A d \in Clients : ctx[d].id \in UUIDs \cup {None}
      BY Fields DEF DraftInv
    <3> QED BY <1>x, <2>1, <2>3, <3>1 DEF Contexts
  <2>6. Exclusive'
    BY <2>1, <2>2 DEF Exclusive
  <2> QED BY <2>2, <2>4, <2>5, <2>6, IdleStep
<1> QED BY <1>1, <1>2

LEMMA SoloStutter ==
    ASSUME DraftInv, UNCHANGED vars
    PROVE  SoloInv'
<1>1. UNCHANGED <<real, admin, row, issued, ctx, req, alive, sweep, jobs, acked>>
  BY DEF vars
<1>2. Exclusive' /\ Whole' /\ Contexts'
  BY <1>1 DEF DraftInv, SoloInv, Exclusive, Whole, DraftWhole, Contexts
<1>3. ASSUME NEW c \in Clients PROVE Knows(c, req[c])'
  <2>1. OwnKey(c, req[c].key)' <=> OwnKey(c, req[c].key)
    BY <1>1 DEF OwnKey, DraftsOf
  <2>2. FreshOrLive(req[c].id)' <=> FreshOrLive(req[c].id)
    BY <1>1 DEF FreshOrLive
  <2>3. Verified(req[c].id)' <=> Verified(req[c].id)
    BY <1>1 DEF Verified
  <2> QED BY <1>1, <2>1, <2>2, <2>3 DEF DraftInv, SoloInv, AllKnow, Knows
<1> QED BY <1>2, <1>3 DEF SoloInv, AllKnow

LEMMA SoloStep ==
    ASSUME Serial, ClientKeys = {}, DraftInv, [Next]_vars
    PROVE  SoloInv'
<1>1. ASSUME NEW c \in Clients,
             EditNext(c) \/ NewNext(c) \/ ChangeNext(c) \/ SaveNext(c) \/ SessionNext(c)
      PROVE  SoloInv'
  BY <1>1, EditSolo, NewSolo, ChangeSolo, SaveSolo, SessionSolo
<1> QED BY <1>1, ClearDraftSolo, SoloStutter DEF Next

-----------------------------------------------------------------------------
(* The theorems                                                            *)

LEMMA DraftInvariant ==
    ASSUME Serial, ClientKeys = {}
    PROVE  Spec => []DraftInv
<1>1. Init => DraftInv
  <2> SUFFICES ASSUME Init PROVE DraftInv
    OBVIOUS
  <2>1. \A c \in Clients : req[c].pc = "idle" /\ ctx[c].id = None /\ sweep[c] = {}
    BY DEF Init, NoRequest, NoContext
  <2>2. jobs = {} /\ \A u \in UUIDs : admin[u] = None /\ row[u] = None
    BY DEF Init
  <2>3. SerialInv
    BY <2>1 DEF Init, SerialInv, OneRequest, KnownKeys, FreeKey, Known,
                OneDraftPerKey, CommitSteps
  <2>4. SoloInv
    BY <2>1, <2>2 DEF SoloInv, Exclusive, Whole, DraftWhole, Contexts, AllKnow, Knows,
                      CommitSteps
  <2> QED BY <2>3, <2>4, InitType DEF DraftInv
<1>2. DraftInv /\ [Next]_vars => DraftInv'
  BY TypeStep, SerialStep, SoloStep DEF DraftInv
<1> QED BY <1>1, <1>2, PTL DEF Spec

(* When requests do not overlap and new keys come from the sequence, a     *)
(* live draft holds what its holder last put there by Edit, New or PATCH:  *)
(* the search for the row by key in DraftReaderAndWriter finds the draft   *)
(* of the request's header, for any number of clients and drafts.          *)
THEOREM DraftHoldsAckedSerial ==
    ASSUME Serial, ClientKeys = {}
    PROVE  Spec => []DraftHoldsAcked
<1>1. DraftInv => DraftHoldsAcked
  BY DEF DraftInv, SoloInv, Whole, DraftWhole, DraftHoldsAcked
<1> QED BY <1>1, DraftInvariant, PTL

-----------------------------------------------------------------------------
(* The refinement                                                          *)

(* A live draft is the only one of its entity, and an entity without one   *)
(* has none in the abstract state.                                         *)
LEMMA ViewOfKey ==
    ASSUME DraftInv, NEW k \in Keys
    PROVE  /\ \A u \in UUIDs : admin[u] # None /\ admin[u].key = k
                 => drafts[k] = {DraftView(u)}
           /\ (\A u \in UUIDs : admin[u] # None => admin[u].key # k) => drafts[k] = {}
<1>1. drafts[k] = {DraftView(u) : u \in DraftsOf(k)}
  BY DEF drafts
<1>2. ASSUME NEW u \in UUIDs, admin[u] # None, admin[u].key = k
      PROVE  DraftsOf(k) = {u}
  BY <1>2, OnlyDraft DEF DraftsOf
<1>3. (\A u \in UUIDs : admin[u] # None => admin[u].key # k) => DraftsOf(k) = {}
  BY DEF DraftsOf
<1> QED BY <1>1, <1>2, <1>3

(* The drafts of an entity none of whose rows change stay as they are.     *)
LEMMA ViewKept ==
    ASSUME NEW k \in Keys,
           \A u \in UUIDs : (admin[u] # None /\ admin[u].key = k)
                               <=> (admin'[u] # None /\ admin'[u].key = k),
           \A u \in DraftsOf(k) : admin'[u] = admin[u] /\ row'[u] = row[u]
    PROVE  drafts'[k] = drafts[k]
<1>1. DraftsOf(k)' = DraftsOf(k)
  BY DEF DraftsOf
<1>2. \A u \in DraftsOf(k) : DraftView(u)' = DraftView(u)
  BY DEF DraftView
<1>3. {DraftView(u) : u \in DraftsOf(k)}' = {DraftView(u) : u \in DraftsOf(k)}
  BY <1>1, <1>2
<1> QED BY <1>3 DEF drafts

(* A step that leaves the tables alone is a stutter. *)
LEMMA ViewStutter ==
    ASSUME UNCHANGED <<real, admin, row>>
    PROVE  UNCHANGED <<real, drafts>>
<1>1. \A k \in Keys : drafts'[k] = drafts[k]
  BY ViewKept
<1>2. drafts' = [k \in Keys |-> drafts'[k]] /\ drafts = [k \in Keys |-> drafts[k]]
  BY DEF drafts
<1> QED BY <1>1, <1>2

(* A step that touches the rows of one id changes the drafts of its key.   *)
LEMMA OneView ==
    ASSUME NEW k \in Keys, NEW u \in UUIDs,
           \A w \in UUIDs \ {u} : admin'[w] = admin[w] /\ row'[w] = row[w],
           \A w \in UUIDs \ {u} : admin[w] # None => admin[w].key # k,
           admin[u] # None => admin[u].key = k,
           admin'[u] # None => admin'[u].key = k
    PROVE  drafts' = [drafts EXCEPT ![k] = IF admin'[u] = None THEN {} ELSE {DraftView(u)'}]
<1>1. \A x \in Keys \ {k} : drafts'[x] = drafts[x]
  BY ViewKept DEF DraftsOf
<1>2. DraftsOf(k)' = IF admin'[u] = None THEN {} ELSE {u}
  BY DEF DraftsOf
<1>3. drafts'[k] = {DraftView(w) : w \in DraftsOf(k)}'
  BY DEF drafts
<1>4. drafts'[k] = IF admin'[u] = None THEN {} ELSE {DraftView(u)'}
  BY <1>2, <1>3
<1>5. drafts' = [x \in Keys |-> drafts'[x]] /\ drafts = [x \in Keys |-> drafts[x]]
  BY DEF drafts
<1> QED BY <1>1, <1>4, <1>5

(* A step that only ends drafts is a Drop. *)
LEMMA ClearView ==
    ASSUME DraftInv, UNCHANGED real,
           \A w \in UUIDs : (admin'[w] = admin[w] /\ row'[w] = row[w]) \/ admin'[w] = None
    PROVE  Editing!Drop
<1> DEFINE S == {k \in Keys : DraftsOf(k)' = {}}
<1>1. ASSUME NEW k \in Keys, k \notin S PROVE drafts'[k] = drafts[k]
  <2>1. PICK w \in UUIDs : admin'[w] # None /\ admin'[w].key = k
    BY <1>1 DEF DraftsOf
  <2>2. admin'[w] = admin[w] /\ row'[w] = row[w]
    BY <2>1
  <2>3. \A x \in UUIDs : admin[x] # None /\ admin[x].key = k => x = w
    BY <2>1, <2>2, OnlyDraft
  <2>4. \A x \in UUIDs : (admin[x] # None /\ admin[x].key = k)
                            <=> (admin'[x] # None /\ admin'[x].key = k)
    BY <2>1, <2>2, <2>3
  <2>5. \A x \in DraftsOf(k) : x = w
    BY <2>3 DEF DraftsOf
  <2> QED BY <2>2, <2>4, <2>5, ViewKept
<1>2. ASSUME NEW k \in S PROVE drafts'[k] = {}
  <2>1. DraftsOf(k)' = {} /\ k \in Keys
    OBVIOUS
  <2>2. drafts'[k] = {DraftView(w) : w \in DraftsOf(k)}'
    BY <2>1 DEF drafts
  <2> QED BY <2>1, <2>2
<1>3. drafts' = [k \in Keys |-> drafts'[k]]
  BY DEF drafts
<1>4. S \in SUBSET Keys
  OBVIOUS
<1> HIDE DEF S
<1>5. drafts' = [k \in Keys |-> IF k \in S THEN {} ELSE drafts[k]]
  BY <1>1, <1>2, <1>3, <1>4
<1> QED BY <1>4, <1>5 DEF Editing!Drop

(* EditAction and NewAction open the draft of an entity that has none.     *)
LEMMA CreateOpens ==
    ASSUME DraftInv, NEW c \in Clients, req[c].pc \in {"editCopy", "new"},
           NEW v \in IF real[req[c].key] = None THEN Vals ELSE {real[req[c].key]},
           NEW active \in BOOLEAN, NEW flag \in Flags \ {"deleted"},
           active <=> real[req[c].key] # None,
           admin[req[c].id] = None,
           admin' = [admin EXCEPT ![req[c].id] = [key |-> req[c].key, user |-> UserOf[c]]],
           row' = [row EXCEPT ![req[c].id] =
                     [key |-> req[c].key, val |-> v, flag |-> flag, hasActive |-> active]],
           UNCHANGED real
    PROVE  Editing!Open(req[c].key)
<1>0. PICK u \in UUIDs, k \in Keys : u = req[c].id /\ k = req[c].key
  BY Fields DEF DraftInv, IdSteps
<1> DEFINE a == [key |-> k, user |-> UserOf[c]]
           w == [key |-> k, val |-> v, flag |-> flag, hasActive |-> active]
<1>1. u \in UUIDs /\ k \in Keys /\ UserOf[c] \in Users
  BY ConstantsAssumption
<1>2. /\ \A x \in UUIDs : admin'[x] = IF x = u THEN a ELSE admin[x]
      /\ \A x \in UUIDs : row'[x] = IF x = u THEN w ELSE row[x]
  BY <1>0 DEF DraftInv, TypeInv, TypeOK
<1>3. a # None /\ a.key = k /\ a.user = UserOf[c]
  BY <1>1, NullAssumption DEF AdminRecord
<1>4. w.val = v /\ w.flag # "deleted" /\ w.hasActive = (real[k] # None)
  BY <1>0 DEF Flags
<1>5. \A x \in UUIDs : admin[x] # None => admin[x].key # k
  BY <1>0 DEF DraftInv, SerialInv, FreeKey
<1>6. admin[u] = None /\ UNCHANGED real /\ v \in IF real[k] = None THEN Vals ELSE {real[k]}
  BY <1>0
<1> HIDE DEF a, w
<1>7. drafts[k] = {}
  BY <1>1, <1>5, ViewOfKey
<1>8. drafts' = [drafts EXCEPT ![k] = {DraftView(u)'}]
  BY <1>1, <1>2, <1>3, <1>5, <1>6, OneView
<1>9. DraftView(u)' = [user |-> UserOf[c], val |-> v, new |-> real[k] = None, deleted |-> FALSE]
  <2>1. admin'[u].user = UserOf[c] /\ row'[u] = w
    BY <1>1, <1>2, <1>3
  <2>2. (~w.hasActive) = (real[k] = None) /\ (w.flag = "deleted") = FALSE
    BY <1>4
  <2> QED BY <1>4, <2>1, <2>2 DEF DraftView
<1>10. drafts' = [drafts EXCEPT ![k] =
          {[user |-> UserOf[c], val |-> v, new |-> real[k] = None, deleted |-> FALSE]}]
  BY <1>8, <1>9
<1>11. Editing!Open(k)
  BY <1>1, <1>6, <1>7, <1>10 DEF Editing!Open
<1> QED BY <1>0, <1>11

(* A change of a row in place is a change of its draft. *)
LEMMA WriteChanges ==
    ASSUME DraftInv, NEW u \in UUIDs, row[u] # None, NEW v \in Vals, NEW flag \in Flags,
           row' = [row EXCEPT ![u] = [key |-> row[u].key, val |-> v, flag |-> flag,
                                      hasActive |-> row[u].hasActive]],
           flag = "draft" \/ (flag = "deleted" /\ v = row[u].val),
           UNCHANGED <<real, admin>>
    PROVE  Editing!Change(admin[u].key)
<1> DEFINE w == [key |-> row[u].key, val |-> v, flag |-> flag, hasActive |-> row[u].hasActive]
           k == admin[u].key
<1>1. admin[u] # None /\ k \in Keys
  BY DEF DraftInv, SoloInv, Whole, DraftWhole, TypeInv, TypeOK, AdminRecord
<1>2. \A x \in UUIDs : row'[x] = IF x = u THEN w ELSE row[x]
  BY DEF DraftInv, TypeInv, TypeOK
<1>3. w.val = v /\ w.flag = flag /\ w.hasActive = row[u].hasActive
  OBVIOUS
<1>4. \A x \in UUIDs \ {u} : admin[x] # None => admin[x].key # k
  BY <1>1, OnlyDraft
<1> HIDE DEF w
<1>5. drafts[k] = {DraftView(u)}
  BY <1>1, ViewOfKey
<1>6. drafts' = [drafts EXCEPT ![k] = {DraftView(u)'}]
  BY <1>1, <1>2, <1>4, OneView
<1>7. DraftView(u)' = [user |-> admin[u].user, val |-> v, new |-> ~row[u].hasActive,
                       deleted |-> flag = "deleted"]
  BY <1>2, <1>3 DEF DraftView
<1>8. PICK d : d = DraftView(u)
  OBVIOUS
<1>9. d.user = admin[u].user /\ d.val = row[u].val /\ d.new = ~row[u].hasActive
  BY <1>8 DEF DraftView
<1>10. PICK gone \in BOOLEAN : gone = (flag = "deleted")
  OBVIOUS
<1>11. gone => v = d.val
  BY <1>9, <1>10
<1>12. DraftView(u)' = [user |-> d.user, val |-> v, new |-> d.new, deleted |-> gone]
  BY <1>7, <1>9, <1>10
<1> QED BY <1>5, <1>6, <1>8, <1>11, <1>12 DEF Editing!Change

(* SaveAction stores the draft as it is. *)
LEMMA CommitStores ==
    ASSUME DraftInv, NEW c \in Clients, SaveCommit(c)
    PROVE  Editing!Store(req[c].key)
<1> DEFINE u == req[c].id
           k == req[c].key
<1>1. /\ req[c].pc \in CommitSteps
      /\ real' = IF At(c, "commitSame") THEN real ELSE [real EXCEPT ![k] = req[c].val]
      /\ clearEntityDraft({u})
  BY DEF SaveCommit
<1>2. u \in UUIDs /\ k \in Keys
  BY <1>1, Fields DEF DraftInv, IdSteps, CommitSteps
<1>3. /\ admin[u] # None /\ admin[u].key = k /\ req[c].val = row[u].val /\ row[u].val \in Valid
      /\ row[u].flag # "deleted" /\ (At(c, "commitSame") => real[k] = row[u].val)
  BY <1>1 DEF DraftInv, SoloInv, AllKnow, Knows, At
<1>4. real' = [real EXCEPT ![k] = row[u].val]
  BY <1>1, <1>2, <1>3 DEF DraftInv, TypeInv, TypeOK
<1>5. row[u].hasActive \/ real[k] = None
  BY <1>2, <1>3 DEF DraftInv, SoloInv, Whole, DraftWhole
<1>6. \A x \in UUIDs \ {u} : admin[x] # None => admin[x].key # k
  BY <1>2, <1>3, OnlyDraft
<1>7. admin'[u] = None /\ \A x \in UUIDs \ {u} : admin'[x] = admin[x] /\ row'[x] = row[x]
  BY <1>1, <1>2 DEF clearEntityDraft, Cleared
<1> HIDE DEF u, k
<1>8. drafts[k] = {DraftView(u)}
  BY <1>2, <1>3, ViewOfKey
<1>9. drafts' = [drafts EXCEPT ![k] = {}]
  BY <1>2, <1>3, <1>6, <1>7, OneView
<1>10. /\ DraftView(u).val = row[u].val /\ ~DraftView(u).deleted
       /\ DraftView(u).new => real[k] = None
  BY <1>3, <1>5 DEF DraftView
<1>11. Editing!Store(k)
  BY <1>3, <1>4, <1>8, <1>9, <1>10 DEF Editing!Store
<1> QED BY <1>11 DEF k

LEMMA StepRefines ==
    ASSUME Serial, ClientKeys = {}, DraftInv, [Next]_vars
    PROVE  [Editing!ENext]_<<real, drafts>>
<1> SUFFICES ASSUME ~UNCHANGED <<real, drafts>> PROVE Editing!ENext
  OBVIOUS
<1>0. ~UNCHANGED <<real, admin, row>>
  BY ViewStutter
<1>e. ASSUME NEW S, clearEntityDraft(S), UNCHANGED real PROVE Editing!Drop
  <2>1. \A w \in UUIDs : (admin'[w] = admin[w] /\ row'[w] = row[w]) \/ admin'[w] = None
    BY <1>e DEF clearEntityDraft, Cleared
  <2> QED BY <1>e, <2>1, ClearView
<1>1. ASSUME NEW c \in Clients, EditNext(c) PROVE Editing!ENext
  <2>1. EditCopy(c)
    BY <1>0, <1>1 DEF EditNext, EditCheck, EditContext, EditLookup, EditReuse
  <2>2. /\ req[c].pc = "editCopy" /\ req[c].id \in UUIDs /\ req[c].key \in Keys
        /\ admin[req[c].id] = None /\ real[req[c].key] # None
    BY <2>1, Fields DEF EditCopy, At, DraftInv, IdSteps
  <2>3. row[req[c].id] = None
    BY <2>2 DEF DraftInv, SoloInv, Whole, DraftWhole
  <2>4. row' = [row EXCEPT ![req[c].id] =
                  [key |-> req[c].key, val |-> real[req[c].key], flag |-> "copy",
                   hasActive |-> TRUE]]
    BY <2>1, <2>3 DEF EditCopy
  <2>5. PICK v \in {real[req[c].key]}, flag \in Flags \ {"deleted"}, active \in {TRUE} :
           row' = [row EXCEPT ![req[c].id] =
                     [key |-> req[c].key, val |-> v, flag |-> flag, hasActive |-> active]]
    BY <2>4 DEF Flags
  <2>6. v \in IF real[req[c].key] = None THEN Vals ELSE {real[req[c].key]}
    BY <2>2
  <2>7. active \in BOOLEAN /\ (active <=> real[req[c].key] # None)
    BY <2>2
  <2>8. /\ admin' = [admin EXCEPT ![req[c].id] = [key |-> req[c].key, user |-> UserOf[c]]]
        /\ UNCHANGED real
    BY <2>1 DEF EditCopy
  <2>9. Editing!Open(req[c].key)
    BY <2>2, <2>5, <2>6, <2>7, <2>8, CreateOpens
  <2> QED BY <2>2, <2>9 DEF Editing!ENext
<1>2. ASSUME NEW c \in Clients, NewNext(c) PROVE Editing!ENext
  <2>1. PICK v \in Vals : NewCreate(c, v)
    BY <1>0, <1>2 DEF NewNext, NewContext
  <2>2. /\ req[c].pc = "new" /\ req[c].key \in Keys
        /\ admin[req[c].id] = None /\ real[req[c].key] = None
    BY <2>1, Fields DEF NewCreate, At, DraftInv
  <2>3. PICK flag \in Flags \ {"deleted"}, active \in {FALSE} :
           row' = [row EXCEPT ![req[c].id] =
                     [key |-> req[c].key, val |-> v, flag |-> flag, hasActive |-> active]]
    BY <2>1 DEF NewCreate, Flags
  <2>4. v \in IF real[req[c].key] = None THEN Vals ELSE {real[req[c].key]}
    BY <2>2
  <2>5. active \in BOOLEAN /\ (active <=> real[req[c].key] # None)
    BY <2>2
  <2>6. /\ admin' = [admin EXCEPT ![req[c].id] = [key |-> req[c].key, user |-> UserOf[c]]]
        /\ UNCHANGED real
    BY <2>1 DEF NewCreate
  <2>7. Editing!Open(req[c].key)
    BY <2>2, <2>3, <2>4, <2>5, <2>6, CreateOpens
  <2> QED BY <2>2, <2>7 DEF Editing!ENext
<1>3. ASSUME NEW c \in Clients, ChangeNext(c) PROVE Editing!ENext
  <2>f. req[c].pc = "patch" => req[c].val \in Vals
    BY Fields DEF DraftInv, ValSteps
  <2>w. ASSUME NEW u \in UUIDs, row[u] # None PROVE admin[u].key \in Keys
    BY <2>w DEF DraftInv, SoloInv, Whole, DraftWhole, TypeInv, TypeOK, AdminRecord
  <2>1. PatchDraft(c) \/ PatchReal(c) \/ DeleteDraft(c) \/ DeleteReal(c)
    BY <1>0, <1>3 DEF ChangeNext, PatchCheck, DeleteCheck, DeleteRead
  <2>2. CASE PatchDraft(c)
    <3>1. PICK u \in RowsOf(req[c].key) :
             row' = [row EXCEPT ![u] = [key |-> row[u].key, val |-> req[c].val,
                                        flag |-> "draft", hasActive |-> row[u].hasActive]]
      BY <2>2 DEF PatchDraft
    <3>2. u \in UUIDs /\ row[u] # None /\ req[c].val \in Vals
      BY <2>2, <2>f DEF RowsOf, PatchDraft, At
    <3>3. Editing!Change(admin[u].key)
      BY <2>2, <3>1, <3>2, WriteChanges DEF PatchDraft, Flags
    <3> QED BY <2>w, <3>2, <3>3 DEF Editing!ENext
  <2>3. CASE DeleteDraft(c)
    <3>1. PICK u \in UUIDs : u = req[c].id
      BY <2>3, Fields DEF DeleteDraft, DraftInv
    <3>2. row[u] # None
      BY <1>0, <2>3, <3>1 DEF DeleteDraft
    <3>3. row[u].val \in Vals
      BY <3>2 DEF DraftInv, TypeInv, TypeOK, DraftRow
    <3>4. row' = [row EXCEPT ![u] = [key |-> row[u].key, val |-> row[u].val,
                                     flag |-> "deleted", hasActive |-> row[u].hasActive]]
      BY <2>3, <3>1, <3>2 DEF DeleteDraft
    <3>5. Editing!Change(admin[u].key)
      BY <2>3, <3>2, <3>3, <3>4, WriteChanges DEF DeleteDraft, Flags
    <3> QED BY <2>w, <3>2, <3>5 DEF Editing!ENext
  <2>4. CASE PatchReal(c) \/ DeleteReal(c)
    <3>1. /\ req[c].key \in Keys /\ real[req[c].key] # None
          /\ \E v \in Vals \cup {None} : real' = [real EXCEPT ![req[c].key] = v]
          /\ UNCHANGED <<admin, row>>
      BY <2>4, <2>f, Fields DEF PatchReal, DeleteReal, At, DraftInv
    <3>2. UNCHANGED drafts
      <4>1. \A k \in Keys : drafts'[k] = drafts[k]
        BY <3>1, ViewKept
      <4>2. drafts' = [k \in Keys |-> drafts'[k]] /\ drafts = [k \in Keys |-> drafts[k]]
        BY DEF drafts
      <4> QED BY <4>1, <4>2
    <3> QED BY <3>1, <3>2 DEF Editing!Bypass, Editing!ENext
  <2> QED BY <2>1, <2>2, <2>3, <2>4
<1>4. ASSUME NEW c \in Clients, SaveNext(c) PROVE Editing!ENext
  <2>1. SaveCommit(c) \/ Discard(c)
    BY <1>0, <1>4 DEF SaveNext, SaveCheck, SaveVerify, SavePersist
  <2>2. CASE SaveCommit(c)
    <3>1. req[c].key \in Keys
      BY <2>2, Fields DEF SaveCommit, CommitSteps, DraftInv
    <3> QED BY <2>2, <3>1, CommitStores DEF Editing!ENext
  <2>3. CASE Discard(c)
    BY <1>e, <2>3 DEF Discard, Editing!ENext
  <2> QED BY <2>1, <2>2, <2>3
<1>5. ASSUME NEW c \in Clients, SessionNext(c) PROVE Editing!ENext
  <2>1. ClearUserDraftData(c)
    BY <1>0, <1>5 DEF SessionNext, Rollback, SessionDestroyed, Login
  <2> QED BY <1>e, <2>1 DEF ClearUserDraftData, Editing!ENext
<1>6. ASSUME ClearDraftList \/ ClearDraftRemove PROVE Editing!ENext
  <2>1. ClearDraftRemove
    BY <1>0, <1>6 DEF ClearDraftList
  <2>2. UNCHANGED real /\ \A w \in UUIDs : admin'[w] = None
    BY <2>1 DEF ClearDraftRemove
  <2> QED BY <2>2, ClearView DEF Editing!ENext
<1> QED BY <1>0, <1>1, <1>2, <1>3, <1>4, <1>5, <1>6 DEF Next, vars

(* When requests do not overlap and new keys come from the sequence, the   *)
(* handlers of the OData application, the sweep of ended sessions and      *)
(* clearDraft implement exclusive drafts: one draft and one holder per     *)
(* entity, and Save stores the draft as it is, unless it was deleted.      *)
THEOREM DraftsAreExclusiveSerial ==
    ASSUME Serial, ClientKeys = {}
    PROVE  Spec => DraftsAreExclusive
<1>1. Init => Editing!EInit
  <2> SUFFICES ASSUME Init PROVE Editing!EInit
    OBVIOUS
  <2>1. real \in [Keys -> Valid \cup {None}]
    BY DEF Init
  <2>2. \A k \in Keys : DraftsOf(k) = {}
    BY DEF Init, DraftsOf
  <2>3. drafts = [k \in Keys |-> {}]
    BY <2>2 DEF drafts
  <2> QED BY <2>1, <2>3 DEF Editing!EInit
<1>2. DraftInv /\ [Next]_vars => [Editing!ENext]_<<real, drafts>>
  BY StepRefines
<1> QED BY <1>1, <1>2, DraftInvariant, PTL DEF Spec, DraftsAreExclusive, Editing!ESpec

-----------------------------------------------------------------------------
(***************************************************************************)
(* What the protocol promises when every client works on entities of its   *)
(* own and clearDraft is not used: requests and the ends of sessions may   *)
(* then overlap in any way, and keys may come from the clients.  A sweep    *)
(* of the same user's other session can end a draft between any two steps  *)
(* of a request, so a request knows less than one that runs alone.         *)
(***************************************************************************)

(* No two clients work on the same entity.                                 *)
KeysApart == \A c, d \in Clients : c # d => KeysOf[c] \cap KeysOf[d] = {}

(* The draft ids in the hands of a client and of its request.              *)
IdsOf(c) == {ctx[c].id, req[c].id} \ {None}

OwnIds == \A c, d \in Clients : c # d => IdsOf(c) \cap IdsOf(d) = {}

(* A live draft is known to the page that made it.                         *)
Held == \A u \in UUIDs : admin[u] # None => \E c \in Clients : ctx[c].id = u

OwnKeysOnly == \A c \in Clients : ctx[c].id # None => ctx[c].key \in KeysOf[c]

(* The steps that work under the id of the header, and those that work on  *)
(* the key of the client's draft as well.                                  *)
SaveSteps == {"editReuse", "save", "persist"} \cup CommitSteps
HeaderSteps == {"patch", "deleteRead", "delete"} \cup SaveSteps
OpenSteps == {"editLookup", "editCopy", "new"}

(* What the request r of c has learnt stays true whatever the others do:   *)
(* its draft may end, it never becomes another one or changes.             *)
KnowsOwn(c, r) ==
    /\ r.id # None => r.id \in issued
    /\ r.pc # "idle" => r.key \in KeysOf[c]
    /\ r.pc \in OpenSteps => r.id = ctx[c].id \/ ~Live(ctx[c].id)
    /\ r.pc \in HeaderSteps => r.id = None \/ r.id = ctx[c].id
    /\ r.pc \in SaveSteps => r.key = ctx[c].key
    /\ r.pc = "persist" => Verified(r.id)
    /\ r.pc \in CommitSteps => r.val = acked[r.id] /\ r.val \in Valid
    /\ r.pc = "commitUpdate" => real[r.key] # None

AllKnowOwn == \A c \in Clients : KnowsOwn(c, req[c])

ApartInv == Whole /\ Contexts /\ OwnIds /\ Held /\ OwnKeysOnly /\ AllKnowOwn

(* The invariants the steps below start from.                              *)
ApartState == TypeInv /\ NoJobs /\ ApartInv

(* A live draft of an entity of c is the one c has in its header.          *)
LEMMA HolderOfKey ==
    ASSUME KeysApart, ApartState, NEW c \in Clients, NEW u \in UUIDs,
           admin[u] # None, admin[u].key \in KeysOf[c]
    PROVE  u = ctx[c].id
<1>1. PICK d \in Clients : ctx[d].id = u
  BY DEF ApartState, ApartInv, Held
<1>2. ctx[d].id # None
  BY <1>1, ConstantsAssumption
<1>3. ctx[d].key = admin[u].key /\ ctx[d].key \in KeysOf[d]
  BY <1>1, <1>2 DEF ApartState, ApartInv, Contexts, OwnKeysOnly
<1> QED BY <1>1, <1>3 DEF KeysApart

(* So is the draft whose row a search by key finds.                        *)
LEMMA RowOfKey ==
    ASSUME KeysApart, ApartState, NEW c \in Clients, NEW k \in KeysOf[c],
           NEW u \in RowsOf(k)
    PROVE  u \in UUIDs /\ u = ctx[c].id /\ admin[u] # None /\ row[u] # None
<1>1. u \in UUIDs /\ row[u] # None /\ row[u].key = k
  BY DEF RowsOf
<1>2. admin[u] # None /\ admin[u].key = k
  BY <1>1 DEF ApartState, ApartInv, Whole, DraftWhole
<1> QED BY <1>1, <1>2, HolderOfKey

(* What is known of the ids and keys a client and its request hold.        *)
LEMMA OwnFields ==
    ASSUME ApartState, NEW c \in Clients
    PROVE  /\ KnowsOwn(c, req[c])
           /\ ctx[c].id \in UUIDs \cup {None} /\ req[c].id \in UUIDs \cup {None}
           /\ ctx[c].id # None => ctx[c].id \in issued /\ ctx[c].key \in KeysOf[c]
           /\ req[c].id # None => req[c].id \in issued
BY Fields DEF ApartState, ApartInv, AllKnowOwn, KnowsOwn, Contexts, OwnKeysOnly

(* A client keeps what it knows when its request, its header and its       *)
(* entities stay as they are, and its draft does or ends.                  *)
LEMMA KnowsKept ==
    ASSUME ApartState, NEW d \in Clients, req'[d] = req[d], ctx'[d] = ctx[d],
           issued \subseteq issued',
           ctx[d].id # None =>
              /\ \/ row'[ctx[d].id] = row[ctx[d].id] /\ admin'[ctx[d].id] = admin[ctx[d].id]
                 \/ row'[ctx[d].id] = None /\ admin'[ctx[d].id] = None
              /\ acked'[ctx[d].id] = acked[ctx[d].id],
           \A k \in KeysOf[d] : real'[k] = real[k]
    PROVE  KnowsOwn(d, req[d])'
<1> DEFINE r == req[d]
           u == ctx[d].id
<1>1. /\ KnowsOwn(d, r) /\ req'[d] = r /\ ctx'[d] = ctx[d] /\ issued \subseteq issued'
      /\ r.pc \in IdSteps => r.id # None
  BY OwnFields, Fields, ConstantsAssumption DEF ApartState
<1>2. /\ u # None => /\ \/ row'[u] = row[u] /\ admin'[u] = admin[u]
                        \/ row'[u] = None /\ admin'[u] = None
                     /\ acked'[u] = acked[u]
      /\ \A k \in KeysOf[d] : real'[k] = real[k]
  OBVIOUS
<1>3. SaveSteps \subseteq HeaderSteps /\ SaveSteps \subseteq IdSteps
  BY DEF HeaderSteps, SaveSteps, IdSteps
<1>4. /\ "persist" \in SaveSteps /\ CommitSteps \subseteq SaveSteps
      /\ "commitUpdate" \in CommitSteps
  BY DEF SaveSteps, CommitSteps
<1>5. r.pc \in SaveSteps => r.id = u /\ r.id # None
  BY <1>1, <1>3 DEF KnowsOwn
<1>i. "idle" \notin CommitSteps
  BY DEF CommitSteps
<1> HIDE DEF r
<1>6. Live(ctx[d].id)' => Live(ctx[d].id)
  BY <1>1, <1>2 DEF Live
<1>7. r.pc = "persist" => Verified(req[d].id)'
  BY <1>1, <1>2, <1>4, <1>5 DEF Verified, KnowsOwn
<1>8. r.pc \in CommitSteps => r.val = acked'[r.id] /\ r.val \in Valid
  BY <1>1, <1>2, <1>4, <1>5 DEF KnowsOwn
<1>9. r.pc = "commitUpdate" => real'[r.key] # None
  BY <1>1, <1>2, <1>4, <1>i DEF KnowsOwn
<1> QED BY <1>1, <1>6, <1>7, <1>8, <1>9 DEF KnowsOwn

(* A step of c that touches no other client's draft and entities, and      *)
(* keeps what c holds true, keeps the whole invariant.                     *)
LEMMA ApartStep ==
    ASSUME KeysApart, ApartState, NEW c \in Clients,
           \A d \in Clients \ {c} : req'[d] = req[d] /\ ctx'[d] = ctx[d],
           issued \subseteq issued',
           \A x \in UUIDs \ IdsOf(c) :
              /\ \/ row'[x] = row[x] /\ admin'[x] = admin[x]
                 \/ row'[x] = None /\ admin'[x] = None
              /\ acked'[x] = acked[x],
           \A k \in Keys \ KeysOf[c] : real'[k] = real[k],
           \A x \in {ctx'[c].id, req'[c].id} \ {None} : x \in IdsOf(c) \/ x \notin issued,
           ctx'[c].id # None =>
              /\ ctx'[c].id \in issued' /\ ctx'[c].key \in KeysOf[c]
              /\ admin'[ctx'[c].id] # None =>
                    /\ admin'[ctx'[c].id].key = ctx'[c].key
                    /\ admin'[ctx'[c].id].user = UserOf[c],
           \A x \in UUIDs :
              admin'[x] # None => ctx'[c].id = x \/ (admin[x] # None /\ ctx[c].id # x),
           Whole', KnowsOwn(c, req[c])'
    PROVE  ApartInv'
<1>1. \A d \in Clients : /\ ctx[d].id \in UUIDs \cup {None}
                         /\ IdsOf(d) \subseteq issued
                         /\ ctx[d].id # None => ctx[d].id \in IdsOf(d)
  BY OwnFields DEF IdsOf
<1>2. \A d \in Clients \ {c} : IdsOf(c) \cap IdsOf(d) = {}
  BY DEF ApartState, ApartInv, OwnIds
<1>3. ASSUME NEW d \in Clients \ {c}
      PROVE  /\ KnowsOwn(d, req[d])'
             /\ IdsOf(d)' = IdsOf(d)
             /\ ctx[d].id # None =>
                   admin'[ctx[d].id] = admin[ctx[d].id] \/ admin'[ctx[d].id] = None
  <2>1. ctx[d].id # None =>
           /\ \/ row'[ctx[d].id] = row[ctx[d].id] /\ admin'[ctx[d].id] = admin[ctx[d].id]
              \/ row'[ctx[d].id] = None /\ admin'[ctx[d].id] = None
           /\ acked'[ctx[d].id] = acked[ctx[d].id]
    <3>1. ctx[d].id # None => ctx[d].id \in UUIDs \ IdsOf(c)
      BY <1>1, <1>2
    <3> QED BY <3>1
  <2>2. \A k \in KeysOf[d] : real'[k] = real[k]
    BY ConstantsAssumption DEF KeysApart
  <2>3. IdsOf(d)' = IdsOf(d)
    BY DEF IdsOf
  <2> QED BY <2>1, <2>2, <2>3, KnowsKept
<1>4. AllKnowOwn'
  BY <1>3 DEF AllKnowOwn
<1>5. OwnIds'
  <2>1. IdsOf(c)' = {ctx'[c].id, req'[c].id} \ {None}
    BY DEF IdsOf
  <2>2. \A d \in Clients \ {c} : IdsOf(c)' \cap IdsOf(d)' = {}
    BY <1>1, <1>2, <1>3, <2>1
  <2>3. \A d, e \in Clients \ {c} : d # e => IdsOf(d)' \cap IdsOf(e)' = {}
    BY <1>3 DEF ApartState, ApartInv, OwnIds
  <2> QED BY <2>2, <2>3 DEF OwnIds
<1>6. Held'
  <2> SUFFICES ASSUME NEW x \in UUIDs, admin'[x] # None
               PROVE  \E d \in Clients : ctx'[d].id = x
    BY DEF Held
  <2>1. CASE ctx'[c].id = x
    BY <2>1
  <2>2. CASE admin[x] # None /\ ctx[c].id # x
    BY <2>2 DEF ApartState, ApartInv, Held
  <2> QED BY <2>1, <2>2
<1>7. OwnKeysOnly'
  <2>1. \A d \in Clients \ {c} : ctx'[d].id # None => ctx'[d].key \in KeysOf[d]
    BY OwnFields
  <2> QED BY <2>1 DEF OwnKeysOnly
<1>8. Contexts'
  <2> SUFFICES ASSUME NEW d \in Clients, ctx'[d].id # None
               PROVE  /\ ctx'[d].id \in issued'
                      /\ admin'[ctx'[d].id] # None =>
                            /\ admin'[ctx'[d].id].key = ctx'[d].key
                            /\ admin'[ctx'[d].id].user = UserOf[d]
    BY DEF Contexts
  <2>1. CASE d = c
    BY <2>1
  <2>2. CASE d # c
    <3>1. ctx'[d] = ctx[d] /\ ctx[d].id # None
      BY <2>2
    <3>2. /\ ctx[d].id \in issued
          /\ admin[ctx[d].id] # None =>
                admin[ctx[d].id].key = ctx[d].key /\ admin[ctx[d].id].user = UserOf[d]
      BY <3>1 DEF ApartState, ApartInv, Contexts
    <3> QED BY <1>3, <2>2, <3>1, <3>2
  <2> QED BY <2>1, <2>2
<1> QED BY <1>4, <1>5, <1>6, <1>7, <1>8 DEF ApartInv

(* A step that only reads, and begins the next step of the request.        *)
LEMMA BeginApart ==
    ASSUME KeysApart, ApartState, NEW c \in Clients,
           NEW step \in Steps \ {"idle"}, NEW k \in KeysOf[c],
           NEW u \in UUIDs \cup {None}, NEW v \in Vals \cup {None}, Begin(c, step, k, u, v),
           UNCHANGED <<real, admin, row, ctx, acked>>,
           issued \subseteq issued', u # None => u \in issued',
           u \in IdsOf(c) \cup {None} \/ u \notin issued,
           step \in OpenSteps => u = ctx[c].id \/ ~Live(ctx[c].id),
           step \in HeaderSteps => u = None \/ u = ctx[c].id,
           step \in SaveSteps => k = ctx[c].key,
           step = "persist" => Verified(u),
           step \in CommitSteps => v = acked[u] /\ v \in Valid,
           step = "commitUpdate" => real[k] # None
    PROVE  ApartInv'
<1>1. k \in Keys
  BY ConstantsAssumption
<1>2. PICK r \in Request : /\ req' = [req EXCEPT ![c] = r]
                           /\ r.pc = step /\ r.key = k /\ r.id = u /\ r.val = v
  BY <1>1, BeginReq DEF ApartState
<1>3. req'[c] = r /\ \A d \in Clients \ {c} : req'[d] = req[d]
  BY <1>2 DEF ApartState, TypeInv, TypeOK
<1>4. Live(ctx[c].id)' <=> Live(ctx[c].id)
  BY DEF Live
<1>5. Verified(req[c].id)' <=> Verified(u)
  BY <1>2, <1>3 DEF Verified
<1>6. KnowsOwn(c, req[c])'
  BY <1>2, <1>3, <1>4, <1>5 DEF KnowsOwn
<1>7. Whole'
  BY DEF ApartState, ApartInv, Whole, DraftWhole
<1>8. ctx[c].id # None =>
         /\ ctx[c].id \in issued /\ ctx[c].key \in KeysOf[c] /\ ctx[c].id \in IdsOf(c)
         /\ admin[ctx[c].id] # None =>
               admin[ctx[c].id].key = ctx[c].key /\ admin[ctx[c].id].user = UserOf[c]
  BY OwnFields DEF ApartState, ApartInv, Contexts, IdsOf
<1>9. \A x \in {ctx'[c].id, req'[c].id} \ {None} : x \in IdsOf(c) \/ x \notin issued
  BY <1>2, <1>3, <1>8
<1> QED BY <1>3, <1>6, <1>7, <1>8, <1>9, ApartStep

(* A step that ends the request of c.                                      *)
LEMMA EndApart ==
    ASSUME KeysApart, ApartState, NEW c \in Clients, End(c), issued' = issued,
           \A d \in Clients \ {c} : ctx'[d] = ctx[d],
           \A x \in UUIDs \ IdsOf(c) :
              /\ \/ row'[x] = row[x] /\ admin'[x] = admin[x]
                 \/ row'[x] = None /\ admin'[x] = None
              /\ acked'[x] = acked[x],
           \A k \in Keys \ KeysOf[c] : real'[k] = real[k],
           ctx'[c].id # None =>
              /\ ctx'[c].id \in IdsOf(c) /\ ctx'[c].key \in KeysOf[c]
              /\ admin'[ctx'[c].id] # None =>
                    /\ admin'[ctx'[c].id].key = ctx'[c].key
                    /\ admin'[ctx'[c].id].user = UserOf[c],
           \A x \in UUIDs :
              admin'[x] # None => ctx'[c].id = x \/ (admin[x] # None /\ ctx[c].id # x),
           Whole'
    PROVE  ApartInv'
<1>1. req'[c] = NoRequest /\ \A d \in Clients \ {c} : req'[d] = req[d]
  BY DEF End, ApartState, TypeInv, TypeOK
<1>2. NoRequest.pc = "idle" /\ NoRequest.id = None
  BY DEF NoRequest
<1>3. KnowsOwn(c, req[c])'
  BY <1>1, <1>2 DEF KnowsOwn, OpenSteps, HeaderSteps, SaveSteps, CommitSteps
<1>4. IdsOf(c) \subseteq issued
  BY OwnFields DEF IdsOf
<1>5. \A x \in {ctx'[c].id, req'[c].id} \ {None} : x \in IdsOf(c) \/ x \notin issued
  BY <1>1, <1>2
<1>6. ctx'[c].id # None =>
         /\ ctx'[c].id \in issued' /\ ctx'[c].key \in KeysOf[c]
         /\ admin'[ctx'[c].id] # None =>
               /\ admin'[ctx'[c].id].key = ctx'[c].key
               /\ admin'[ctx'[c].id].user = UserOf[c]
  BY <1>4
<1> HIDE DEF NoRequest
<1> QED BY <1>1, <1>3, <1>5, <1>6, ApartStep

(* What the header of c says of its draft.                                 *)
LEMMA OwnDraft ==
    ASSUME ApartState, NEW c \in Clients, ctx[c].id # None
    PROVE  /\ ctx[c].id \in IdsOf(c) /\ ctx[c].id \in UUIDs /\ ctx[c].key \in KeysOf[c]
           /\ admin[ctx[c].id] # None =>
                 /\ admin[ctx[c].id].key = ctx[c].key
                 /\ admin[ctx[c].id].user = UserOf[c]
BY OwnFields DEF ApartState, ApartInv, Contexts, IdsOf

(* A draft is made by a request whose client has no live draft.            *)
LEMMA CreateApart ==
    ASSUME KeysApart, ApartState, NEW c \in Clients, req[c].pc \in {"editCopy", "new"},
           NEW v \in Vals, NEW active \in BOOLEAN, NEW flag \in Flags,
           admin[req[c].id] = None, active \/ real[req[c].key] = None,
           admin' = [admin EXCEPT ![req[c].id] = [key |-> req[c].key, user |-> UserOf[c]]],
           row' = [row EXCEPT ![req[c].id] =
                     [key |-> req[c].key, val |-> v, flag |-> flag, hasActive |-> active]],
           acked' = [acked EXCEPT ![req[c].id] = v],
           ctx' = [ctx EXCEPT ![c] = [id |-> req[c].id, key |-> req[c].key]],
           End(c), UNCHANGED <<real, issued>>
    PROVE  ApartInv'
<1> DEFINE u == req[c].id
           k == req[c].key
           a == [key |-> k, user |-> UserOf[c]]
           w == [key |-> k, val |-> v, flag |-> flag, hasActive |-> active]
<1>1. u \in UUIDs /\ k \in Keys /\ u # None
  BY Fields, ConstantsAssumption DEF ApartState, IdSteps
<1>2. u \in issued /\ u \in IdsOf(c) /\ k \in KeysOf[c]
  BY <1>1, OwnFields DEF IdsOf, KnowsOwn
<1>3. ctx[c].id # None => admin[ctx[c].id] = None
  <2>1. u = ctx[c].id \/ ~Live(ctx[c].id)
    BY OwnFields DEF KnowsOwn, OpenSteps
  <2> QED BY <2>1 DEF Live
<1>4. /\ \A x \in UUIDs : admin'[x] = IF x = u THEN a ELSE admin[x]
      /\ \A x \in UUIDs : row'[x] = IF x = u THEN w ELSE row[x]
      /\ \A x \in UUIDs : acked'[x] = IF x = u THEN v ELSE acked[x]
      /\ \A d \in Clients : ctx'[d] = IF d = c THEN [id |-> u, key |-> k] ELSE ctx[d]
  BY DEF ApartState, TypeInv, TypeOK
<1>5. /\ a # None /\ a.key = k /\ a.user = UserOf[c]
      /\ w # None /\ w.key = k /\ w.val = v /\ w.hasActive = active
  BY <1>1, NullAssumption, ConstantsAssumption DEF AdminRecord, DraftRow
<1>6. UNCHANGED <<real, issued>> /\ End(c) /\ (active \/ real[k] = None)
  OBVIOUS
<1>w. Whole
  BY DEF ApartState, ApartInv
<1> HIDE DEF a, w, u, k
<1>7. Whole'
  <2> SUFFICES ASSUME NEW x \in UUIDs PROVE DraftWhole(x)'
    BY DEF Whole
  <2>1. CASE x = u
    BY <1>2, <1>4, <1>5, <1>6, <2>1 DEF DraftWhole
  <2>2. CASE x # u
    BY <1>4, <1>6, <1>w, <2>2 DEF Whole, DraftWhole
  <2> QED BY <2>1, <2>2
<1>8. ctx'[c].id = u /\ ctx'[c].key = k /\ \A d \in Clients \ {c} : ctx'[d] = ctx[d]
  BY <1>4
<1>9. \A x \in UUIDs \ IdsOf(c) :
         row'[x] = row[x] /\ admin'[x] = admin[x] /\ acked'[x] = acked[x]
  BY <1>2, <1>4
<1>10. \A x \in UUIDs :
          admin'[x] # None => ctx'[c].id = x \/ (admin[x] # None /\ ctx[c].id # x)
  BY <1>3, <1>4, <1>8, ConstantsAssumption
<1>11. admin'[u] = a
  BY <1>1, <1>4
<1> QED BY <1>2, <1>5, <1>6, <1>7, <1>8, <1>9, <1>10, <1>11, EndApart

(* The context a request opens a draft in: the client's own live draft, or *)
(* a new id when it has none.                                              *)
LEMMA HeaderId ==
    ASSUME NEW c \in Clients, NEW u \in UUIDs,
           IF checkSapContextId(c) # None THEN u = checkSapContextId(c) ELSE u \notin issued
    PROVE  /\ u = ctx[c].id \/ ~Live(ctx[c].id)
           /\ u \in IdsOf(c) \/ u \notin issued
<1>1. CASE Live(ctx[c].id)
  <2>1. checkSapContextId(c) = ctx[c].id /\ ctx[c].id # None
    BY <1>1 DEF checkSapContextId, Live
  <2>2. u = ctx[c].id
    BY <2>1
  <2>3. u \in IdsOf(c)
    BY <2>1, <2>2 DEF IdsOf
  <2> QED BY <2>2, <2>3
<1>2. CASE ~Live(ctx[c].id)
  <2>1. checkSapContextId(c) = None
    BY <1>2 DEF checkSapContextId
  <2> QED BY <1>2, <2>1
<1> QED BY <1>1, <1>2

LEMMA EditApart ==
    ASSUME KeysApart, ApartState, NEW c \in Clients, EditNext(c)
    PROVE  ApartInv'
<1>s. /\ OpenSteps = {"editLookup", "editCopy", "new"}
      /\ SaveSteps = {"editReuse", "save", "persist"} \cup CommitSteps
      /\ HeaderSteps = {"patch", "deleteRead", "delete"} \cup SaveSteps
      /\ CommitSteps = {"commitCreate", "commitUpdate", "commitSame"}
      /\ {"editContext", "editLookup", "editCopy", "editReuse"} \subseteq Steps \ {"idle"}
  BY DEF OpenSteps, SaveSteps, HeaderSteps, CommitSteps, Steps
<1>f. /\ req[c].id \in UUIDs \cup {None} /\ KnowsOwn(c, req[c])
      /\ req[c].pc \in IdSteps => req[c].id \in UUIDs /\ req[c].id # None
      /\ req[c].id # None => req[c].id \in issued /\ req[c].id \in IdsOf(c)
      /\ req[c].val \in Vals \cup {None}
  BY OwnFields, Fields, ConstantsAssumption DEF IdsOf, ApartState
<1>1. ASSUME NEW k \in KeysOf[c], EditCheck(c, k)
      PROVE  ApartInv'
  BY <1>s, <1>1, BeginApart DEF EditCheck
<1>2. CASE EditContext(c)
  <2>1. PICK u \in UUIDs :
           /\ IF checkSapContextId(c) # None THEN u = checkSapContextId(c) ELSE u \notin issued
           /\ issued' = issued \cup {u}
           /\ Begin(c, "editLookup", req[c].key, u, None)
    BY <1>2 DEF EditContext
  <2>2. /\ u = ctx[c].id \/ ~Live(ctx[c].id)
        /\ u \in IdsOf(c) \/ u \notin issued
    BY <2>1, HeaderId
  <2>3. req[c].key \in KeysOf[c] /\ UNCHANGED <<real, admin, row, ctx, acked>>
    BY <1>2, <1>f DEF EditContext, At, KnowsOwn
  <2> QED BY <1>s, <2>1, <2>2, <2>3, BeginApart
<1>3. CASE EditLookup(c)
  <2>1. /\ req[c].pc = "editLookup" /\ req[c].key \in KeysOf[c] /\ req[c].id \in UUIDs
        /\ req[c].id # None
        /\ req[c].id = ctx[c].id \/ ~Live(ctx[c].id)
    BY <1>s, <1>3, <1>f DEF EditLookup, At, KnowsOwn, IdSteps
  <2>2. UNCHANGED <<real, admin, row, issued, ctx, acked>>
    BY <1>3 DEF EditLookup
  <2>3. CASE Goto(c, "editCopy")
    BY <1>s, <1>f, <2>1, <2>2, <2>3, BeginApart DEF Goto
  <2>4. ASSUME NEW u \in DraftsOf(req[c].key), Begin(c, "editReuse", req[c].key, u, None)
        PROVE  ApartInv'
    <3>1. u \in UUIDs /\ admin[u] # None /\ admin[u].key = req[c].key /\ u # None
      BY ConstantsAssumption DEF DraftsOf
    <3>2. u = ctx[c].id
      BY <2>1, <3>1, HolderOfKey
    <3>3. u \in IdsOf(c) /\ u \in issued /\ req[c].key = ctx[c].key
      BY <3>1, <3>2, OwnDraft, OwnFields
    <3> QED BY <1>s, <2>1, <2>2, <2>4, <3>1, <3>2, <3>3, BeginApart
  <2> QED BY <1>3, <2>3, <2>4 DEF EditLookup
<1>4. CASE EditReuse(c)
  <2> DEFINE u == req[c].id
             k == req[c].key
  <2>1. /\ req[c].pc = "editReuse" /\ End(c)
        /\ ctx' = [ctx EXCEPT ![c] = [id |-> u, key |-> k]]
        /\ UNCHANGED <<real, admin, row, issued, acked>>
    BY <1>4 DEF EditReuse, At
  <2>2. u = ctx[c].id /\ k = ctx[c].key /\ u # None
    BY <1>s, <1>f, <2>1 DEF KnowsOwn, IdSteps
  <2> HIDE DEF u, k
  <2>3. ctx'[c].id = u /\ ctx'[c].key = k /\ \A d \in Clients \ {c} : ctx'[d] = ctx[d]
    BY <2>1 DEF ApartState, TypeInv, TypeOK
  <2>4. Whole'
    BY <2>1 DEF ApartState, ApartInv, Whole, DraftWhole
  <2> QED BY <2>1, <2>2, <2>3, <2>4, OwnDraft, EndApart
<1>5. CASE EditCopy(c)
  <2>1. req[c].pc = "editCopy" /\ req[c].id \in UUIDs /\ req[c].key \in Keys
    BY <1>5, Fields DEF EditCopy, At, IdSteps, ApartState
  <2>2. row[req[c].id] = None
    BY <1>5, <2>1 DEF EditCopy, ApartState, ApartInv, Whole, DraftWhole
  <2>3. real[req[c].key] \in Vals
    BY <1>5, <2>1 DEF EditCopy, ApartState, TypeInv, TypeOK
  <2>4. row' = [row EXCEPT ![req[c].id] =
                  [key |-> req[c].key, val |-> real[req[c].key], flag |-> "copy",
                   hasActive |-> TRUE]]
    BY <1>5, <2>2 DEF EditCopy
  <2> QED BY <1>5, <2>1, <2>3, <2>4, CreateApart DEF EditCopy, Flags
<1> QED BY <1>1, <1>2, <1>3, <1>4, <1>5 DEF EditNext

LEMMA NewApart ==
    ASSUME KeysApart, ApartState, NEW c \in Clients, NewNext(c)
    PROVE  ApartInv'
<1>1. ASSUME NEW k \in KeysOf[c], NewContext(c, k)
      PROVE  ApartInv'
  <2>1. PICK u \in UUIDs :
           /\ IF checkSapContextId(c) # None THEN u = checkSapContextId(c) ELSE u \notin issued
           /\ issued' = issued \cup {u, k}
           /\ Begin(c, "new", k, u, None)
    BY <1>1 DEF NewContext
  <2>2. /\ u = ctx[c].id \/ ~Live(ctx[c].id)
        /\ u \in IdsOf(c) \/ u \notin issued
    BY <2>1, HeaderId
  <2>3. UNCHANGED <<real, admin, row, ctx, acked>>
    BY <1>1 DEF NewContext
  <2>4. /\ "new" \in Steps \ {"idle"} /\ "new" \notin HeaderSteps \cup SaveSteps
        /\ "new" \notin CommitSteps
    BY DEF Steps, HeaderSteps, SaveSteps, CommitSteps
  <2> QED BY <2>1, <2>2, <2>3, <2>4, BeginApart
<1>2. ASSUME NEW v \in Vals, NewCreate(c, v)
      PROVE  ApartInv'
  <2>1. req[c].pc = "new" /\ real[req[c].key] = None
    BY <1>2 DEF NewCreate, At
  <2> QED BY <1>2, <2>1, CreateApart DEF NewCreate, Flags
<1> QED BY <1>1, <1>2 DEF NewNext

(* A change of the contents of the client's own draft.                     *)
LEMMA WriteApart ==
    ASSUME KeysApart, ApartState, NEW c \in Clients, End(c),
           ctx[c].id # None, row[ctx[c].id] # None, NEW v \in Vals, NEW flag \in Flags,
           row' = [row EXCEPT ![ctx[c].id] =
                     [key |-> row[ctx[c].id].key, val |-> v, flag |-> flag,
                      hasActive |-> row[ctx[c].id].hasActive]],
           \/ acked' = [acked EXCEPT ![ctx[c].id] = v]
           \/ acked' = acked /\ v = row[ctx[c].id].val,
           UNCHANGED <<real, admin, issued, ctx>>
    PROVE  ApartInv'
<1> DEFINE u == ctx[c].id
           w == [key |-> row[u].key, val |-> v, flag |-> flag, hasActive |-> row[u].hasActive]
<1>1. u \in UUIDs /\ u \in IdsOf(c)
  BY OwnDraft
<1>2. \A x \in UUIDs : row'[x] = IF x = u THEN w ELSE row[x]
  BY DEF ApartState, TypeInv, TypeOK
<1>3. w # None
  <2>1. w \in DraftRow
    BY <1>1 DEF ApartState, TypeInv, TypeOK, DraftRow
  <2> QED BY <2>1, NullAssumption
<1>4. w.key = row[u].key /\ w.val = v /\ w.hasActive = row[u].hasActive
  OBVIOUS
<1>5. Whole
  BY DEF ApartState, ApartInv
<1>6. \A x \in UUIDs \ {u} : acked'[x] = acked[x]
  BY DEF ApartState, TypeInv, TypeOK
<1>7. row[u] # None /\ UNCHANGED <<real, admin, issued, ctx>> /\ End(c)
  OBVIOUS
<1>8. acked'[u] = v
  BY <1>1, <1>5, <1>7 DEF Whole, DraftWhole, ApartState, TypeInv, TypeOK
<1>o. u # None
  OBVIOUS
<1> HIDE DEF w, u
<1>9. Whole'
  <2> SUFFICES ASSUME NEW x \in UUIDs PROVE DraftWhole(x)'
    BY DEF Whole
  <2>1. CASE x = u
    BY <1>1, <1>2, <1>3, <1>4, <1>5, <1>7, <1>8, <2>1 DEF Whole, DraftWhole
  <2>2. CASE x # u
    BY <1>2, <1>5, <1>6, <1>7, <2>2 DEF Whole, DraftWhole
  <2> QED BY <2>1, <2>2
<1>10. \A x \in UUIDs \ IdsOf(c) :
          row'[x] = row[x] /\ admin'[x] = admin[x] /\ acked'[x] = acked[x]
  BY <1>1, <1>2, <1>6, <1>7
<1>11. \A x \in UUIDs :
          admin'[x] # None => ctx'[c].id = x \/ (admin[x] # None /\ ctx[c].id # x)
  BY <1>7
<1>12. /\ ctx'[c].id \in IdsOf(c) /\ ctx'[c].key \in KeysOf[c]
       /\ admin'[ctx'[c].id] # None =>
             admin'[ctx'[c].id].key = ctx'[c].key /\ admin'[ctx'[c].id].user = UserOf[c]
  <2>1. ctx[c].id # None
    BY <1>o DEF u
  <2> QED BY <1>7, <2>1, OwnDraft
<1>13. /\ \A d \in Clients \ {c} : ctx'[d] = ctx[d]
       /\ \A k \in Keys \ KeysOf[c] : real'[k] = real[k]
       /\ issued' = issued
  BY <1>7
<1> QED BY <1>7, <1>9, <1>10, <1>11, <1>12, <1>13, EndApart

(* A change of a real entity of the client.                                *)
LEMMA RealApart ==
    ASSUME KeysApart, ApartState, NEW c \in Clients, End(c),
           req[c].pc # "idle", real[req[c].key] # None, NEW v \in Vals \cup {None},
           real' = [real EXCEPT ![req[c].key] = v],
           UNCHANGED <<admin, row, issued, ctx, acked>>
    PROVE  ApartInv'
<1>1. req[c].key \in KeysOf[c]
  BY OwnFields DEF KnowsOwn
<1>2. \A k \in Keys : real'[k] = IF k = req[c].key THEN v ELSE real[k]
  BY DEF ApartState, TypeInv, TypeOK
<1>3. Whole'
  <2> SUFFICES ASSUME NEW x \in UUIDs PROVE DraftWhole(x)'
    BY DEF Whole
  <2>1. DraftWhole(x)
    BY DEF ApartState, ApartInv, Whole
  <2>2. row[x] # None => row[x].key \in Keys
    BY DEF ApartState, TypeInv, TypeOK, DraftRow
  <2>3. row[x] # None /\ admin[x] # None => row[x].hasActive \/ real'[row[x].key] = None
    BY <1>2, <2>1, <2>2 DEF DraftWhole
  <2> QED BY <2>1, <2>3 DEF DraftWhole
<1>4. \A k \in Keys \ KeysOf[c] : real'[k] = real[k]
  BY <1>1, <1>2
<1> QED BY <1>3, <1>4, OwnDraft, EndApart

LEMMA ChangeApart ==
    ASSUME KeysApart, ApartState, NEW c \in Clients, ChangeNext(c)
    PROVE  ApartInv'
<1>s. /\ {"patch", "deleteRead", "delete"} \subseteq Steps \ {"idle"}
      /\ {"patch", "deleteRead", "delete"} \cap (OpenSteps \cup SaveSteps) = {}
      /\ CommitSteps \subseteq SaveSteps /\ "commitUpdate" \in CommitSteps
      /\ {"patch", "deleteRead", "delete"} \subseteq HeaderSteps
      /\ "persist" \in SaveSteps
  BY DEF OpenSteps, SaveSteps, HeaderSteps, CommitSteps, Steps
<1>f. /\ req[c].id \in UUIDs \cup {None} /\ KnowsOwn(c, req[c])
      /\ req[c].id # None => req[c].id \in issued /\ req[c].id \in IdsOf(c)
      /\ req[c].val \in Vals \cup {None}
      /\ req[c].pc \in {"patch", "deleteRead", "delete"} =>
            req[c].key \in KeysOf[c] /\ (req[c].id = None \/ req[c].id = ctx[c].id)
      /\ req[c].pc = "patch" => req[c].val \in Vals
  BY <1>s, OwnFields, Fields DEF IdsOf, ApartState, KnowsOwn, ValSteps
<1>h. /\ checkSapContextId(c) \in UUIDs \cup {None}
      /\ checkSapContextId(c) # None =>
            /\ checkSapContextId(c) = ctx[c].id /\ checkSapContextId(c) \in IdsOf(c)
            /\ checkSapContextId(c) \in issued
  BY CheckType, OwnDraft, OwnFields DEF ApartState
<1>1. ASSUME NEW k \in KeysOf[c], NEW v \in Vals, PatchCheck(c, k, v)
      PROVE  ApartInv'
  <2>1. /\ Begin(c, "patch", k, checkSapContextId(c), v)
        /\ UNCHANGED <<real, admin, row, issued, ctx, acked>>
    BY <1>1 DEF PatchCheck
  <2> QED BY <1>s, <1>h, <2>1, BeginApart
<1>2. CASE PatchDraft(c)
  <2>1. /\ req[c].pc = "patch" /\ req[c].id # None /\ End(c)
        /\ acked' = [acked EXCEPT ![req[c].id] = req[c].val]
        /\ UNCHANGED <<real, admin, issued, ctx>>
    BY <1>2 DEF PatchDraft, At
  <2>2. PICK u \in RowsOf(req[c].key) :
           row' = [row EXCEPT ![u] = [key |-> row[u].key, val |-> req[c].val,
                                      flag |-> "draft", hasActive |-> row[u].hasActive]]
    BY <1>2 DEF PatchDraft
  <2>3. req[c].id = ctx[c].id /\ req[c].key \in KeysOf[c] /\ req[c].val \in Vals
    BY <1>f, <2>1
  <2>4. u = ctx[c].id /\ row[u] # None
    BY <2>3, RowOfKey
  <2> DEFINE v == req[c].val
  <2>5. /\ v \in Vals /\ "draft" \in Flags
        /\ row' = [row EXCEPT ![ctx[c].id] =
                     [key |-> row[ctx[c].id].key, val |-> v, flag |-> "draft",
                      hasActive |-> row[ctx[c].id].hasActive]]
        /\ acked' = [acked EXCEPT ![ctx[c].id] = v]
        /\ ctx[c].id # None /\ row[ctx[c].id] # None
    BY <2>1, <2>2, <2>3, <2>4 DEF Flags
  <2> HIDE DEF v
  <2> QED BY <2>1, <2>5, WriteApart
<1>3. CASE PatchReal(c)
  <2>1. req[c].pc = "patch" /\ req[c].val \in Vals
    BY <1>3, <1>f DEF PatchReal, At
  <2> QED BY <1>3, <2>1, RealApart DEF PatchReal
<1>4. ASSUME NEW k \in KeysOf[c], DeleteCheck(c, k)
      PROVE  ApartInv'
  <2>1. /\ Begin(c, "deleteRead", k, checkSapContextId(c), None)
        /\ UNCHANGED <<real, admin, row, issued, ctx, acked>>
    BY <1>4 DEF DeleteCheck
  <2> QED BY <1>s, <1>h, <2>1, BeginApart
<1>5. CASE DeleteRead(c)
  <2>1. /\ req[c].pc = "deleteRead" /\ req[c].key \in KeysOf[c]
        /\ UNCHANGED <<real, admin, row, issued, ctx, acked>>
    BY <1>5, <1>f DEF DeleteRead, At
  <2>2. ASSUME NEW u \in RowsOf(req[c].key), Begin(c, "delete", req[c].key, u, None)
        PROVE  ApartInv'
    <3>1. u \in UUIDs /\ u = ctx[c].id /\ u # None
      BY <2>1, RowOfKey, ConstantsAssumption
    <3>2. u \in IdsOf(c) /\ u \in issued
      BY <3>1, OwnDraft, OwnFields
    <3> QED BY <1>s, <2>1, <2>2, <3>1, <3>2, BeginApart
  <2>3. ASSUME req[c].id = None, Goto(c, "delete")
        PROVE  ApartInv'
    BY <1>s, <1>f, <2>1, <2>3, BeginApart DEF Goto
  <2> QED BY <1>5, <2>2, <2>3 DEF DeleteRead
<1>6. CASE DeleteDraft(c)
  <2> DEFINE u == ctx[c].id
  <2>1. /\ req[c].pc = "delete" /\ req[c].id # None /\ End(c)
        /\ UNCHANGED <<real, admin, issued, ctx, acked>>
    BY <1>6 DEF DeleteDraft, At
  <2>2. req[c].id = u /\ u # None /\ u \in UUIDs
    BY <1>f, <2>1
  <2>3. row' = IF row[u] = None THEN row
               ELSE [row EXCEPT ![u] = [key |-> row[u].key, val |-> row[u].val,
                                        flag |-> "deleted", hasActive |-> row[u].hasActive]]
    BY <1>6, <2>2 DEF DeleteDraft
  <2>4. CASE row[u] = None
    <3>1. row' = row
      BY <2>3, <2>4
    <3>2. Whole'
      BY <2>1, <3>1 DEF ApartState, ApartInv, Whole, DraftWhole
    <3> QED BY <2>1, <3>1, <3>2, OwnDraft, EndApart
  <2>5. CASE row[u] # None
    <3> DEFINE v == row[u].val
    <3>1. /\ v \in Vals /\ "deleted" \in Flags
          /\ row' = [row EXCEPT ![u] = [key |-> row[u].key, val |-> v, flag |-> "deleted",
                                        hasActive |-> row[u].hasActive]]
      BY <2>2, <2>3, <2>5 DEF Flags, ApartState, TypeInv, TypeOK, DraftRow
    <3>2. v = row[u].val
      OBVIOUS
    <3> HIDE DEF v
    <3> QED BY <2>1, <2>2, <2>5, <3>1, <3>2, WriteApart
  <2> QED BY <2>4, <2>5
<1>7. CASE DeleteReal(c)
  <2>1. req[c].pc = "delete"
    BY <1>7 DEF DeleteReal, At
  <2> QED BY <1>7, <2>1, RealApart DEF DeleteReal
<1> QED BY <1>1, <1>2, <1>3, <1>4, <1>5, <1>6, <1>7 DEF ChangeNext

(* Clearing drafts keeps the others whole, as long as their entities are   *)
(* left alone.                                                             *)
LEMMA ClearApart ==
    ASSUME ApartState, NEW S \in SUBSET UUIDs, clearEntityDraft(S),
           UNCHANGED <<issued, acked>>,
           \A u \in UUIDs \ S :
              admin[u] # None => real'[admin[u].key] = real[admin[u].key]
    PROVE  /\ Whole'
           /\ \A u \in UUIDs : /\ \/ row'[u] = row[u] /\ admin'[u] = admin[u]
                                  \/ row'[u] = None /\ admin'[u] = None
                               /\ acked'[u] = acked[u]
                               /\ admin'[u] # None => admin'[u] = admin[u] /\ u \notin S
<1>1. \A u \in UUIDs : u \notin S => admin'[u] = admin[u] /\ row'[u] = row[u]
  BY DEF clearEntityDraft, Cleared
<1>2. \A u \in S : admin'[u] = None /\ row'[u] = None
  BY DEF clearEntityDraft, Cleared, ApartState, ApartInv, Whole, DraftWhole
<1>3. Whole'
  <2> SUFFICES ASSUME NEW u \in UUIDs PROVE DraftWhole(u)'
    BY DEF Whole
  <2>1. DraftWhole(u)
    BY DEF ApartState, ApartInv, Whole
  <2> QED BY <1>1, <1>2, <2>1 DEF DraftWhole
<1> QED BY <1>1, <1>2, <1>3

LEMMA SaveApart ==
    ASSUME KeysApart, ApartState, NEW c \in Clients, SaveNext(c)
    PROVE  ApartInv'
<1>s. /\ {"save", "persist"} \cup CommitSteps \subseteq SaveSteps
      /\ SaveSteps \subseteq HeaderSteps /\ SaveSteps \subseteq Steps \ {"idle"}
      /\ SaveSteps \cap OpenSteps = {} /\ {"save", "persist"} \cap CommitSteps = {}
      /\ "commitUpdate" \in CommitSteps /\ SaveSteps \subseteq IdSteps
  BY DEF OpenSteps, SaveSteps, HeaderSteps, CommitSteps, Steps, IdSteps
<1>f. /\ KnowsOwn(c, req[c]) /\ req[c].val \in Vals \cup {None}
      /\ req[c].pc \in SaveSteps =>
            /\ req[c].id = ctx[c].id /\ req[c].key = ctx[c].key /\ ctx[c].id # None
            /\ ctx[c].id \in UUIDs /\ ctx[c].id \in issued /\ ctx[c].id \in IdsOf(c)
            /\ ctx[c].key \in KeysOf[c] /\ ctx[c].key \in Keys
  <2>1. req[c].pc \in SaveSteps => req[c].id # None /\ req[c].id = ctx[c].id
    BY <1>s, OwnFields, Fields, ConstantsAssumption DEF ApartState, KnowsOwn
  <2> QED BY <1>s, <2>1, OwnFields, OwnDraft, Fields, ConstantsAssumption
             DEF ApartState, KnowsOwn
<1>1. CASE SaveCheck(c)
  <2>1. /\ Begin(c, "save", ctx[c].key, ctx[c].id, None)
        /\ UNCHANGED <<real, admin, row, issued, ctx, acked>>
        /\ ctx[c].id # None
    BY <1>1, CheckType, ConstantsAssumption DEF SaveCheck, ApartState
  <2>2. /\ ctx[c].id \in UUIDs /\ ctx[c].key \in KeysOf[c] /\ ctx[c].id \in IdsOf(c)
        /\ ctx[c].id \in issued
    BY <2>1, OwnDraft, OwnFields
  <2> QED BY <1>s, <2>1, <2>2, BeginApart
<1>2. CASE SaveVerify(c)
  <2>1. /\ req[c].pc = "save" /\ Verified(req[c].id)
        /\ Begin(c, "persist", req[c].key, req[c].id, req[c].val)
        /\ UNCHANGED <<real, admin, row, issued, ctx, acked>>
    BY <1>2 DEF SaveVerify, At, Goto
  <2> QED BY <1>s, <1>f, <2>1, BeginApart
<1>3. CASE SavePersist(c)
  <2> DEFINE u == req[c].id
             k == admin[u].key
  <2>1. /\ req[c].pc = "persist" /\ Verified(u)
    BY <1>s, <1>3, <1>f DEF SavePersist, At, KnowsOwn
  <2>2. /\ admin[u] # None /\ row[u] # None /\ row[u].flag # "deleted"
        /\ UNCHANGED <<real, admin, row, issued, ctx, acked>>
    BY <1>3 DEF SavePersist, Live
  <2>3. /\ u = ctx[c].id /\ u \in UUIDs /\ u \in issued /\ u \in IdsOf(c)
        /\ ctx[c].key \in KeysOf[c]
    BY <1>s, <1>f, <2>1
  <2>4. k = ctx[c].key
    BY <1>s, <1>f, <2>1, <2>2, OwnDraft
  <2>5. row[u].val \in Vals /\ row[u].val \in Valid /\ row[u].val = acked[u]
    <3>1. row[u].val = acked[u]
      BY <2>2, <2>3 DEF ApartState, ApartInv, Whole, DraftWhole
    <3>2. row[u].val \in Vals
      BY <2>2, <2>3 DEF ApartState, TypeInv, TypeOK, DraftRow
    <3> QED BY <2>1, <2>2, <3>1, <3>2 DEF Verified
  <2>6. PICK step \in CommitSteps :
           /\ Begin(c, step, k, u, row[u].val)
           /\ step = "commitUpdate" => real[k] # None
    BY <1>3 DEF SavePersist, CommitSteps
  <2> HIDE DEF k, u
  <2> QED BY <1>s, <2>2, <2>3, <2>4, <2>5, <2>6, BeginApart
<1>4. CASE SaveCommit(c)
  <2>1. /\ req[c].pc \in CommitSteps /\ End(c)
        /\ real' = IF At(c, "commitSame") THEN real
                   ELSE [real EXCEPT ![req[c].key] = req[c].val]
        /\ clearEntityDraft({req[c].id})
        /\ ctx' = [ctx EXCEPT ![c] = NoContext]
        /\ UNCHANGED <<issued, acked>>
    BY <1>4 DEF SaveCommit
  <2>2. /\ req[c].id = ctx[c].id /\ ctx[c].id \in UUIDs /\ req[c].key \in KeysOf[c]
    BY <1>s, <1>f, <2>1
  <2>3. \A k \in Keys \ KeysOf[c] : real'[k] = real[k]
    BY <2>1, <2>2 DEF ApartState, TypeInv, TypeOK
  <2>4. ASSUME NEW x \in UUIDs \ {req[c].id}, admin[x] # None
        PROVE  real'[admin[x].key] = real[admin[x].key]
    <3>1. admin[x].key \notin KeysOf[c]
      BY <2>2, <2>4, HolderOfKey
    <3>2. admin[x].key \in Keys
      BY <2>4 DEF ApartState, TypeInv, TypeOK, AdminRecord
    <3> QED BY <2>3, <3>1, <3>2
  <2>5. ctx'[c].id = None /\ \A d \in Clients \ {c} : ctx'[d] = ctx[d]
    BY <2>1 DEF NoContext, ApartState, TypeInv, TypeOK
  <2>6. /\ Whole'
        /\ \A x \in UUIDs : /\ \/ row'[x] = row[x] /\ admin'[x] = admin[x]
                               \/ row'[x] = None /\ admin'[x] = None
                            /\ acked'[x] = acked[x]
                            /\ admin'[x] # None => admin'[x] = admin[x] /\ x # ctx[c].id
    BY <2>1, <2>2, <2>4, ClearApart
  <2> QED BY <2>1, <2>3, <2>5, <2>6, EndApart
<1>5. CASE Discard(c)
  <2>1. /\ req[c].pc = "idle" /\ ctx[c].id # None
        /\ clearEntityDraft({ctx[c].id})
        /\ ctx' = [ctx EXCEPT ![c] = NoContext]
        /\ UNCHANGED <<real, issued, req, acked>>
    BY <1>5 DEF Discard, CanStart
  <2>2. ctx'[c].id = None /\ \A d \in Clients \ {c} : ctx'[d] = ctx[d]
    BY <2>1 DEF NoContext, ApartState, TypeInv, TypeOK
  <2>3. ctx[c].id \in UUIDs
    BY <2>1, OwnDraft
  <2>4. /\ Whole'
        /\ \A x \in UUIDs : /\ \/ row'[x] = row[x] /\ admin'[x] = admin[x]
                               \/ row'[x] = None /\ admin'[x] = None
                            /\ acked'[x] = acked[x]
                            /\ admin'[x] # None => admin'[x] = admin[x] /\ x # ctx[c].id
    BY <2>1, <2>3, ClearApart
  <2>5. KnowsOwn(c, req[c])'
    BY <1>f, <2>1 DEF KnowsOwn, OpenSteps, HeaderSteps, SaveSteps, CommitSteps
  <2>6. \A x \in {ctx'[c].id, req'[c].id} \ {None} : x \in IdsOf(c) \/ x \notin issued
    BY <2>1, <2>2 DEF IdsOf
  <2> QED BY <2>1, <2>2, <2>4, <2>5, <2>6, ApartStep
<1> QED BY <1>1, <1>2, <1>3, <1>4, <1>5 DEF SaveNext

(* A session's end is a step of nobody's request: whatever drafts its      *)
(* sweep clears, every client keeps what it knows.                         *)
LEMMA SessionApart ==
    ASSUME KeysApart, ApartState, NEW c \in Clients, SessionNext(c)
    PROVE  ApartInv'
<1>1. CASE Rollback(c)
  <2>1. /\ End(c) /\ UNCHANGED <<real, admin, row, issued, ctx, acked>>
    BY <1>1 DEF Rollback
  <2>2. Whole'
    BY <2>1 DEF ApartState, ApartInv, Whole, DraftWhole
  <2> QED BY <2>1, <2>2, OwnDraft, EndApart
<1>2. ASSUME UNCHANGED <<real, issued, ctx, req, acked>>, Whole',
             \A x \in UUIDs : \/ row'[x] = row[x] /\ admin'[x] = admin[x]
                              \/ row'[x] = None /\ admin'[x] = None
      PROVE  ApartInv'
  <2>1. KnowsOwn(c, req[c])'
    BY <1>2, OwnDraft, KnowsKept
  <2>2. \A x \in {ctx'[c].id, req'[c].id} \ {None} : x \in IdsOf(c) \/ x \notin issued
    BY <1>2 DEF IdsOf
  <2>3. ctx[c].id # None =>
           admin'[ctx[c].id] = admin[ctx[c].id] \/ admin'[ctx[c].id] = None
    BY <1>2, OwnDraft
  <2>4. ctx[c].id # None => ctx[c].id \in issued
    BY OwnFields
  <2>5. ctx'[c].id # None =>
           /\ ctx'[c].id \in issued' /\ ctx'[c].key \in KeysOf[c]
           /\ admin'[ctx'[c].id] # None =>
                 /\ admin'[ctx'[c].id].key = ctx'[c].key
                 /\ admin'[ctx'[c].id].user = UserOf[c]
    BY <1>2, <2>3, <2>4, OwnDraft
  <2> QED BY <1>2, <2>1, <2>2, <2>5, ApartStep
<1>3. CASE SessionDestroyed(c) \/ Login(c)
  <2>1. UNCHANGED <<real, admin, row, issued, ctx, req, acked>>
    BY <1>3 DEF SessionDestroyed, Login
  <2>2. Whole'
    BY <2>1 DEF ApartState, ApartInv, Whole, DraftWhole
  <2> QED BY <1>2, <2>1, <2>2
<1>4. CASE ClearUserDraftData(c)
  <2>1. clearEntityDraft(sweep[c]) /\ UNCHANGED <<real, issued, ctx, req, acked>>
    BY <1>4 DEF ClearUserDraftData
  <2>2. sweep[c] \in SUBSET UUIDs
    BY DEF ApartState, TypeInv, TypeOK
  <2> QED BY <1>2, <2>1, <2>2, ClearApart
<1> QED BY <1>1, <1>3, <1>4 DEF SessionNext

LEMMA ApartInvariant ==
    ASSUME ~WithClearDraft, KeysApart
    PROVE  Spec => []ApartState
<1>1. Init => ApartState
  <2> SUFFICES ASSUME Init PROVE ApartState
    OBVIOUS
  <2>1. \A c \in Clients : req[c].pc = "idle" /\ req[c].id = None /\ ctx[c].id = None
    BY DEF Init, NoRequest, NoContext
  <2>2. jobs = {} /\ \A u \in UUIDs : admin[u] = None /\ row[u] = None
    BY DEF Init
  <2>3. Whole /\ Held
    BY <2>2 DEF Whole, DraftWhole, Held
  <2>4. Contexts /\ OwnKeysOnly /\ OwnIds
    BY <2>1 DEF Contexts, OwnKeysOnly, OwnIds, IdsOf
  <2>5. AllKnowOwn
    BY <2>1 DEF AllKnowOwn, KnowsOwn, OpenSteps, HeaderSteps, SaveSteps, CommitSteps
  <2> QED BY <2>2, <2>3, <2>4, <2>5, InitType DEF ApartState, ApartInv, NoJobs
<1>2. ASSUME ApartState, [Next]_vars
      PROVE  ApartInv'
  <2>1. CASE UNCHANGED vars
    <3>1. UNCHANGED <<real, admin, row, issued, ctx, req, acked>>
      BY <2>1 DEF vars
    <3>x. Whole /\ Contexts /\ Held /\ OwnKeysOnly /\ OwnIds
      BY <1>2 DEF ApartState, ApartInv
    <3>2. /\ Whole' /\ Contexts'
          /\ Held' /\ OwnKeysOnly'
      <4>1. Whole'
        BY <3>x, <3>1 DEF Whole, DraftWhole
      <4>2. Contexts'
        BY <3>x, <3>1 DEF Contexts
      <4>3. Held' /\ OwnKeysOnly'
        BY <3>x, <3>1 DEF Held, OwnKeysOnly
      <4> QED BY <4>1, <4>2, <4>3
    <3>3. OwnIds'
      BY <3>x, <3>1 DEF OwnIds, IdsOf
    <3>4. ASSUME NEW d \in Clients PROVE KnowsOwn(d, req[d])'
      BY <1>2, <3>1, KnowsKept
    <3> QED BY <3>2, <3>3, <3>4 DEF ApartInv, AllKnowOwn
  <2>2. ASSUME NEW c \in Clients,
               EditNext(c) \/ NewNext(c) \/ ChangeNext(c) \/ SaveNext(c) \/ SessionNext(c)
        PROVE  ApartInv'
    BY <1>2, <2>2, EditApart, NewApart, ChangeApart, SaveApart, SessionApart
  <2>3. ~ClearDraftList /\ ~ClearDraftRemove
    BY <1>2 DEF ClearDraftList, ClearDraftRemove, ApartState, NoJobs
  <2> QED BY <1>2, <2>1, <2>2, <2>3 DEF Next
<1>3. ApartState /\ [Next]_vars => ApartState'
  BY <1>2, TypeStep, NoJobsStep DEF ApartState
<1> QED BY <1>1, <1>3, PTL DEF Spec

(* When clients work on entities of their own and clearDraft is not used,  *)
(* a live draft holds what its holder last put there, however requests and *)
(* the ends of sessions overlap: the look-up by key in                     *)
(* DraftReaderAndWriter never reaches another client's draft, nor does a   *)
(* late PATCH change one that is being saved.                              *)
THEOREM DraftHoldsAckedApart ==
    ASSUME ~WithClearDraft, KeysApart
    PROVE  Spec => []DraftHoldsAcked
<1>1. ApartState => DraftHoldsAcked
  BY DEF ApartState, ApartInv, Whole, DraftWhole, DraftHoldsAcked
<1> QED BY <1>1, ApartInvariant, PTL

(* SaveAction writes only contents that verifyProperty accepted. *)
SavedIsValid ==
    \A c \in Clients :
        req[c].pc \in {"commitCreate", "commitUpdate"} => req[c].val \in Valid

(* Under the same conditions what SaveAction is about to write has passed  *)
(* verifyProperty, although verifyProperty and persistentMainEntity read   *)
(* the draft at different times.                                           *)
THEOREM SavedIsValidApart ==
    ASSUME ~WithClearDraft, KeysApart
    PROVE  Spec => []SavedIsValid
<1>1. ApartState => SavedIsValid
  BY DEF ApartState, ApartInv, AllKnowOwn, KnowsOwn, SavedIsValid, CommitSteps
<1> QED BY <1>1, ApartInvariant, PTL

(* SaveAction takes what the client last put in the draft and, where it    *)
(* differs, stores it: no acknowledged PATCH is dropped by the Save that    *)
(* removes the draft.                                                      *)
SavedIsAcked ==
    [][\A c \in Clients :
          (/\ req[c].pc \in CommitSteps
           /\ ctx[c].id # None
           /\ ctx'[c].id = None)
             => /\ req[c].val = acked[req[c].id]
                /\ ~At(c, "commitSame") => real'[req[c].key] = req[c].val]_vars

(* Only a step of its own gives a client a header or takes it.             *)
LEMMA HeaderStep ==
    ASSUME TypeInv, [Next]_vars, NEW c \in Clients, ctx'[c] # ctx[c]
    PROVE  \/ EditReuse(c) \/ EditCopy(c) \/ (\E v \in Vals : NewCreate(c, v))
           \/ SaveCommit(c) \/ Discard(c)
<1>1. PICK d \in Clients :
         EditNext(d) \/ NewNext(d) \/ ChangeNext(d) \/ SaveNext(d) \/ SessionNext(d)
  BY DEF Next, vars, ClearDraftList, ClearDraftRemove
<1>2. EditReuse(d) \/ EditCopy(d) \/ (\E v \in Vals : NewCreate(d, v))
         \/ SaveCommit(d) \/ Discard(d)
  BY <1>1 DEF EditNext, NewNext, ChangeNext, SaveNext, SessionNext, EditCheck,
       EditContext, EditLookup, NewContext, PatchCheck, PatchDraft, PatchReal,
       DeleteCheck, DeleteRead, DeleteDraft, DeleteReal, SaveCheck, SaveVerify,
       SavePersist, Rollback, SessionDestroyed, ClearUserDraftData, Login
<1>3. \A e \in Clients \ {d} : ctx'[e] = ctx[e]
  BY <1>2 DEF EditReuse, EditCopy, NewCreate, SaveCommit, Discard, TypeInv, TypeOK
<1>4. d = c
  BY <1>3
<1> QED BY <1>2, <1>4

(* Under the same conditions SaveAction takes what the client last put in  *)
(* the draft and, where it differs, stores it before the draft goes: no    *)
(* acknowledged PATCH is lost to a request or a sweep that runs beside it. *)
THEOREM SavedIsAckedApart ==
    ASSUME ~WithClearDraft, KeysApart
    PROVE  Spec => SavedIsAcked
<1>1. ASSUME ApartState, [Next]_vars, NEW c \in Clients,
             req[c].pc \in CommitSteps, ctx[c].id # None, ctx'[c].id = None
      PROVE  /\ req[c].val = acked[req[c].id]
             /\ ~At(c, "commitSame") => real'[req[c].key] = req[c].val
  <2>1. req[c].val = acked[req[c].id]
    BY <1>1, OwnFields DEF KnowsOwn
  <2>2. req[c].key \in Keys
    BY <1>1, Fields DEF ApartState, CommitSteps
  <2>3. SaveCommit(c)
    <3>1. ctx'[c] # ctx[c]
      BY <1>1
    <3>2. ~EditReuse(c) /\ ~EditCopy(c) /\ ~\E v \in Vals : NewCreate(c, v)
      BY <1>1 DEF EditReuse, EditCopy, NewCreate, At, CommitSteps
    <3>3. ~Discard(c)
      BY <1>1 DEF Discard, CanStart, CommitSteps
    <3> QED BY <1>1, <3>1, <3>2, <3>3, HeaderStep DEF ApartState
  <2>4. ~At(c, "commitSame") => real'[req[c].key] = req[c].val
    BY <1>1, <2>2, <2>3 DEF SaveCommit, ApartState, TypeInv, TypeOK
  <2> QED BY <2>1, <2>4
<1>2. ApartState /\ [Next]_vars =>
        [\A c \in Clients :
          (/\ req[c].pc \in CommitSteps
           /\ ctx[c].id # None
           /\ ctx'[c].id = None)
             => /\ req[c].val = acked[req[c].id]
                /\ ~At(c, "commitSame") => real'[req[c].key] = req[c].val]_vars
  BY <1>1
<1> QED BY <1>2, ApartInvariant, PTL DEF Spec, SavedIsAcked

=============================================================================
