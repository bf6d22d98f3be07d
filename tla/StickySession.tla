--------------------------- MODULE StickySession ---------------------------
(***************************************************************************)
(* The sticky-session draft protocol of the OData application: a client    *)
(* opens a draft of an entity (EditAction) or of a new entity (NewAction), *)
(* changes the draft with PATCH and DELETE, and ends with SaveAction or    *)
(* DiscardAction.  The draft lives in the in-memory database under a UUID  *)
(* that the client sends back as the header SAP-ContextId.                 *)
(*                                                                         *)
(* Each step below is one read or one commit.  Reads see committed data    *)
(* (both datasources run at ReadCommitted) and the writes of a service     *)
(* take effect when its JTA transaction commits.  The steps of different   *)
(* clients interleave freely unless Serial is TRUE.                        *)
(***************************************************************************)
EXTENDS Naturals, FiniteSets

CONSTANTS
    Clients,         \* browser tabs, each with its own HTTP session
    Users,           \* user logins
    UserOf,          \* UserOf[c] is the user login of client c
    Keys,            \* primary keys of the one draft-enabled entity set
    ClientKeys,      \* the keys a client may choose itself in NewAction
    KeysOf,          \* KeysOf[c] are the keys client c works on
    Stored,          \* the keys that are in the real database at the start
    Vals,            \* contents of an entity
    Valid,           \* the contents that pass verifyProperty
    UUIDs,           \* what Util.generateDraftUUID can return (bound)
    None,            \* null
    Serial,          \* TRUE: a request starts only when no other one runs
    WithClearDraft   \* TRUE: the service dpbird.clearDraft is invoked too

(* What the model needs of its parameters. *)
ASSUME ConstantsAssumption ==
    /\ UserOf \in [Clients -> Users]
    /\ ClientKeys \subseteq Keys
    /\ KeysOf \in [Clients -> SUBSET Keys]
    /\ Stored \subseteq Keys
    /\ Valid \subseteq Vals
    /\ Valid # {}
    /\ None \notin Keys \cup Vals \cup UUIDs \cup Users
    /\ Keys \cap UUIDs = {}
    /\ Serial \in BOOLEAN
    /\ WithClearDraft \in BOOLEAN

VARIABLES
    real,    \* the real database: key -> content, None when there is no row
    admin,   \* DraftAdministrativeData: uuid -> [key, user], or None
    row,     \* the draft table: uuid -> [key, val, flag, hasActive], or None
    issued,  \* the UUIDs and sequence ids generated so far
    ctx,     \* the SAP-ContextId each client sends, and the key it edits
    req,     \* the request each client has in progress
    alive,   \* the HTTP session of the client exists
    sweep,   \* the drafts sessionDestroyed has listed and not yet cleared
    jobs,    \* the lists of the clearDraft services in progress
    acked    \* history: the content the holder of a draft last put there

vars == <<real, admin, row, issued, ctx, req, alive, sweep, jobs, acked>>

-----------------------------------------------------------------------------

(* The flags isActiveEntity and hasDraftEntity of a draft row: "copy" is    *)
(* Y/N (copied, not changed), "draft" is N/Y, "deleted" is N/N.             *)
Flags == {"copy", "draft", "deleted"}

(* Where a request stands: the name of its next step. *)
CommitSteps == {"commitCreate", "commitUpdate", "commitSame"}
Steps == {"idle", "editContext", "editLookup", "editReuse", "editCopy", "new",
          "patch", "deleteRead", "delete", "save", "persist"} \cup CommitSteps

AdminRecord == [key : Keys, user : Users]
DraftRow == [key : Keys, val : Vals, flag : Flags, hasActive : BOOLEAN]
Request == [pc : Steps, key : Keys \cup {None}, id : UUIDs \cup {None},
            val : Vals \cup {None}]
Context == [id : UUIDs \cup {None}, key : Keys \cup {None}]

(* null is not a row. *)
ASSUME NullAssumption == None \notin AdminRecord \cup DraftRow

NoRequest == [pc |-> "idle", key |-> None, id |-> None, val |-> None]
NoContext == [id |-> None, key |-> None]

(* Type correctness of the whole state. *)
TypeOK ==
    /\ real \in [Keys -> Vals \cup {None}]
    /\ admin \in [UUIDs -> AdminRecord \cup {None}]
    /\ row \in [UUIDs -> DraftRow \cup {None}]
    /\ issued \subseteq (UUIDs \cup Keys)
    /\ ctx \in [Clients -> Context]
    /\ req \in [Clients -> Request]
    /\ alive \in [Clients -> BOOLEAN]
    /\ sweep \in [Clients -> SUBSET UUIDs]
    /\ jobs \in SUBSET (SUBSET UUIDs)
    /\ acked \in [UUIDs -> Vals \cup {None}]

(* DraftAdministrativeData holds the id. *)
Live(u) == u # None /\ admin[u] # None

(* findByAnd on DraftAdministrativeData by entity and entityKeyMap. *)
DraftsOf(k) == {u \in UUIDs : admin[u] # None /\ admin[u].key = k}

(* Defect: the query leaves the entity key out. *)
RowsOfAnyKey(k) == {u \in UUIDs : row[u] # None}

(* EntityQuery on the draft table by entity key, not by draftUUID. *)
RowsOf(k) == {u \in UUIDs : row[u] # None /\ row[u].key = k}

(* Defect: the header is taken without looking for its draft. *)
UncheckedContextId(c) == ctx[c].id

(* DataModifyActions.checkSapContextId: the header when its draft exists. *)
checkSapContextId(c) == IF Live(ctx[c].id) THEN ctx[c].id ELSE None

Quiet ==
    /\ \A c \in Clients : req[c].pc = "idle" /\ sweep[c] = {}
    /\ jobs = {}

CanStart(c) ==
    /\ alive[c]
    /\ req[c].pc = "idle"
    /\ Serial => Quiet

At(c, step) == req[c].pc = step

Begin(c, step, k, u, v) ==
    req' = [req EXCEPT ![c] = [pc |-> step, key |-> k, id |-> u, val |-> v]]

Goto(c, step) == Begin(c, step, req[c].key, req[c].id, req[c].val)

End(c) == req' = [req EXCEPT ![c] = NoRequest]

(* DataModifyActions.clearEntityDraft for every id of S: an id that is no   *)
(* longer in DraftAdministrativeData is skipped, draft row included.        *)
Cleared(table, S) ==
    [u \in UUIDs |-> IF u \in S /\ admin[u] # None THEN None ELSE table[u]]

(* Defect: only the draft row is removed. *)
ClearRowOnly(S) ==
    /\ row' = Cleared(row, S)
    /\ UNCHANGED admin

(* Defect: only the administrative row is removed. *)
ClearAdminOnly(S) ==
    /\ admin' = Cleared(admin, S)
    /\ UNCHANGED row

(* Both rows of each draft go. *)
clearEntityDraft(S) ==
    /\ admin' = Cleared(admin, S)
    /\ row' = Cleared(row, S)

-----------------------------------------------------------------------------

Init ==
    /\ real \in {f \in [Keys -> Valid \cup {None}] :
                    \A k \in Keys : f[k] # None <=> k \in Stored}
    /\ admin = [u \in UUIDs |-> None]
    /\ row = [u \in UUIDs |-> None]
    /\ issued = {}
    /\ ctx = [c \in Clients |-> NoContext]
    /\ req = [c \in Clients |-> NoRequest]
    /\ alive = [c \in Clients |-> TRUE]
    /\ sweep = [c \in Clients |-> {}]
    /\ jobs = {}
    /\ acked = [u \in UUIDs |-> None]

-----------------------------------------------------------------------------
(* EditAction.                                                             *)

(* Defect: other editors are not looked for. *)
AnyEditor(c, k) == TRUE

(* otherUsersAreEditing: the first draft found for the key decides, and    *)
(* none is found when there is no draft.                                   *)
NoOtherEditor(c, k) ==
    \/ DraftsOf(k) = {}
    \/ \E u \in DraftsOf(k) : admin[u].user = UserOf[c]

(* processActionEntity looks for other editors before the transaction.     *)
EditCheck(c, k) ==
    /\ CanStart(c)
    /\ NoOtherEditor(c, k)
    /\ Begin(c, "editContext", k, None, None)
    /\ UNCHANGED <<real, admin, row, issued, ctx, alive, sweep, jobs, acked>>

(* processSapContextId: the header's id if its draft is live, or a new one. *)
EditContext(c) ==
    /\ At(c, "editContext")
    /\ \E u \in UUIDs :
          /\ IF checkSapContextId(c) # None THEN u = checkSapContextId(c)
                                            ELSE u \notin issued
          /\ issued' = issued \cup {u}
          /\ Begin(c, "editLookup", req[c].key, u, None)
    /\ UNCHANGED <<real, admin, row, ctx, alive, sweep, jobs, acked>>

(* Defect: a draft is made without looking for one. *)
EditAlwaysCopies(c) ==
    /\ At(c, "editLookup")
    /\ real[req[c].key] # None
    /\ Goto(c, "editCopy")
    /\ UNCHANGED <<real, admin, row, issued, ctx, alive, sweep, jobs, acked>>

(* stickySessionEditAction: the bound entity must exist; the first draft of *)
(* its key is taken over, whoever created it, else one is to be made.      *)
EditLookup(c) ==
    /\ At(c, "editLookup")
    /\ real[req[c].key] # None
    /\ \/ /\ DraftsOf(req[c].key) = {}
          /\ Goto(c, "editCopy")
       \/ \E u \in DraftsOf(req[c].key) :
             Begin(c, "editReuse", req[c].key, u, None)
    /\ UNCHANGED <<real, admin, row, issued, ctx, alive, sweep, jobs, acked>>

(* The draft found is read and its id returned to the client. *)
EditReuse(c) ==
    /\ At(c, "editReuse")
    /\ row[req[c].id] # None
    /\ ctx' = [ctx EXCEPT ![c] = [id |-> req[c].id, key |-> req[c].key]]
    /\ End(c)
    /\ UNCHANGED <<real, admin, row, issued, alive, sweep, jobs, acked>>

(* createDraftAdminData (its key must be new) and copyEntityToDraft, which *)
(* creates the row or refreshes the contents of one that is there already. *)
EditCopy(c) ==
    LET u == req[c].id
        k == req[c].key
    IN  /\ At(c, "editCopy")
        /\ admin[u] = None
        /\ real[k] # None
        /\ admin' = [admin EXCEPT ![u] = [key |-> k, user |-> UserOf[c]]]
        /\ row' = [row EXCEPT ![u] =
                     [key |-> k, val |-> real[k],
                      flag |-> IF row[u] = None THEN "copy" ELSE row[u].flag,
                      hasActive |-> row[u] = None \/ row[u].hasActive]]
        /\ acked' = [acked EXCEPT ![u] = real[k]]
        /\ ctx' = [ctx EXCEPT ![c] = [id |-> u, key |-> k]]
        /\ End(c)
        /\ UNCHANGED <<real, issued, alive, sweep, jobs>>

-----------------------------------------------------------------------------
(* NewAction.                                                              *)

(* The key comes from the client or from the sequence "StickySession".     *)
NewContext(c, k) ==
    /\ CanStart(c)
    /\ k \in ClientKeys \/ k \notin (ClientKeys \cup Stored \cup issued)
    /\ \E u \in UUIDs :
          /\ IF checkSapContextId(c) # None THEN u = checkSapContextId(c)
                                            ELSE u \notin issued
          /\ issued' = issued \cup {u, k}
          /\ Begin(c, "new", k, u, None)
    /\ UNCHANGED <<real, admin, row, ctx, alive, sweep, jobs, acked>>

(* Defect: checkPrimaryKeyConflict is left out. *)
NewUnchecked(c, v) ==
    LET u == req[c].id
        k == req[c].key
    IN  /\ At(c, "new")
        /\ admin[u] = None
        /\ row[u] = None
        /\ admin' = [admin EXCEPT ![u] = [key |-> k, user |-> UserOf[c]]]
        /\ row' = [row EXCEPT ![u] = [key |-> k, val |-> v, flag |-> "draft",
                                      hasActive |-> FALSE]]
        /\ acked' = [acked EXCEPT ![u] = v]
        /\ ctx' = [ctx EXCEPT ![c] = [id |-> u, key |-> k]]
        /\ End(c)
        /\ UNCHANGED <<real, issued, alive, sweep, jobs>>

(* stickySessionNewAction: createDraftAdminData, checkPrimaryKeyConflict   *)
(* against the real database, createEntityToDraft.                         *)
NewCreate(c, v) ==
    LET u == req[c].id
        k == req[c].key
    IN  /\ At(c, "new")
        /\ admin[u] = None
        /\ real[k] = None
        /\ row[u] = None
        /\ admin' = [admin EXCEPT ![u] = [key |-> k, user |-> UserOf[c]]]
        /\ row' = [row EXCEPT ![u] = [key |-> k, val |-> v, flag |-> "draft",
                                      hasActive |-> FALSE]]
        /\ acked' = [acked EXCEPT ![u] = v]
        /\ ctx' = [ctx EXCEPT ![c] = [id |-> u, key |-> k]]
        /\ End(c)
        /\ UNCHANGED <<real, issued, alive, sweep, jobs>>

-----------------------------------------------------------------------------
(* PATCH and DELETE of the entity.                                         *)

(* A client that edits addresses its own entity, another one any entity.   *)
Target(c, k) == ctx[c].key \in {None, k}

(* updateEntity of the entity processor: the header is checked once, here. *)
PatchCheck(c, k, v) ==
    /\ CanStart(c)
    /\ Target(c, k)
    /\ Begin(c, "patch", k, checkSapContextId(c), v)
    /\ UNCHANGED <<real, admin, row, issued, ctx, alive, sweep, jobs, acked>>

(* DraftReaderAndWriter.updateEntityData: the first draft row of the key   *)
(* is changed, then its administrative row.                                *)
PatchDraft(c) ==
    /\ At(c, "patch")
    /\ req[c].id # None
    /\ \E u \in RowsOf(req[c].key) :
          /\ admin[u] # None
          /\ row' = [row EXCEPT ![u] =
                       [key |-> row[u].key, val |-> req[c].val,
                        flag |-> "draft", hasActive |-> row[u].hasActive]]
    /\ acked' = [acked EXCEPT ![req[c].id] = req[c].val]
    /\ End(c)
    /\ UNCHANGED <<real, admin, issued, ctx, alive, sweep, jobs>>

(* OdataWriter.updateEntityData on the real entity, which must exist. *)
PatchReal(c) ==
    /\ At(c, "patch")
    /\ req[c].id = None
    /\ real[req[c].key] # None
    /\ real' = [real EXCEPT ![req[c].key] = req[c].val]
    /\ End(c)
    /\ UNCHANGED <<admin, row, issued, ctx, alive, sweep, jobs, acked>>

(* deleteEntity of the entity processor. *)
DeleteCheck(c, k) ==
    /\ CanStart(c)
    /\ Target(c, k)
    /\ Begin(c, "deleteRead", k, checkSapContextId(c), None)
    /\ UNCHANGED <<real, admin, row, issued, ctx, alive, sweep, jobs, acked>>

(* readUriResource: the first draft row of the key, or the real entity. *)
DeleteRead(c) ==
    /\ At(c, "deleteRead")
    /\ \/ /\ req[c].id # None
          /\ \E u \in RowsOf(req[c].key) : Begin(c, "delete", req[c].key, u, None)
       \/ /\ req[c].id = None
          /\ real[req[c].key] # None
          /\ Goto(c, "delete")
    /\ UNCHANGED <<real, admin, row, issued, ctx, alive, sweep, jobs, acked>>

(* Defect: the flag is stored with createOrStore, which makes a new row. *)
DeleteDraftUpserts(c) ==
    /\ At(c, "delete")
    /\ req[c].id # None
    /\ row' = [row EXCEPT ![req[c].id] = [key |-> req[c].key, val |-> req[c].val,
                                         flag |-> "deleted", hasActive |-> TRUE]]
    /\ End(c)
    /\ UNCHANGED <<real, admin, issued, ctx, alive, sweep, jobs, acked>>

(* DefaultDraftHandler.deleteEntity flags the row read before; a row that  *)
(* is gone by now is no error.                                             *)
DeleteDraft(c) ==
    LET u == req[c].id
    IN  /\ At(c, "delete")
        /\ u # None
        /\ row' = IF row[u] = None THEN row
                  ELSE [row EXCEPT ![u] =
                          [key |-> row[u].key, val |-> row[u].val,
                           flag |-> "deleted", hasActive |-> row[u].hasActive]]
        /\ End(c)
        /\ UNCHANGED <<real, admin, issued, ctx, alive, sweep, jobs, acked>>

(* OdataWriter.deleteEntity on the real entity. *)
DeleteReal(c) ==
    /\ At(c, "delete")
    /\ req[c].id = None
    /\ real[req[c].key] # None
    /\ real' = [real EXCEPT ![req[c].key] = None]
    /\ End(c)
    /\ UNCHANGED <<admin, row, issued, ctx, alive, sweep, jobs, acked>>

-----------------------------------------------------------------------------
(* SaveAction and DiscardAction.                                           *)

(* processSapContextId; without a live draft verifyProperty refuses.       *)
SaveCheck(c) ==
    /\ CanStart(c)
    /\ checkSapContextId(c) # None
    /\ Begin(c, "save", ctx[c].key, ctx[c].id, None)
    /\ UNCHANGED <<real, admin, row, issued, ctx, alive, sweep, jobs, acked>>

(* Defect: the required properties of new drafts alone are verified. *)
VerifiedIfNew(u) ==
    \/ row[u] = None
    \/ row[u].hasActive
    \/ row[u].val \in Valid

(* What verifyProperty lets through: a missing or deleted row, or contents *)
(* that are valid.                                                         *)
Verified(u) ==
    \/ row[u] = None
    \/ row[u].flag = "deleted"
    \/ row[u].val \in Valid

(* The bound draft is read by key, then verifyProperty runs. *)
SaveVerify(c) ==
    /\ At(c, "save")
    /\ RowsOf(req[c].key) # {}
    /\ Live(req[c].id)
    /\ Verified(req[c].id)
    /\ Goto(c, "persist")
    /\ UNCHANGED <<real, admin, row, issued, ctx, alive, sweep, jobs, acked>>

(* DataModifyActions.draftChanged: a field of the draft differs.           *)
draftChanged(k, u) == row[u].val # real[k]

(* Defect: the flag of a deleted draft is not looked at. *)
SaveDeletedToo(c) ==
    LET u == req[c].id
        k == admin[u].key
    IN  /\ At(c, "persist")
        /\ Live(u)
        /\ row[u] # None
        /\ Begin(c, IF real[k] = None THEN "commitCreate"
                    ELSE IF draftChanged(k, u) THEN "commitUpdate"
                    ELSE "commitSame",
                 k, u, row[u].val)
        /\ UNCHANGED <<real, admin, row, issued, ctx, alive, sweep, jobs, acked>>

(* persistentMainEntity reads the draft and the real entity it belongs to  *)
(* and decides what to write.  A draft flagged deleted has no way through: *)
(* stickySessionSaveAction fails when it refreshes the deleted entity.     *)
SavePersist(c) ==
    LET u == req[c].id
        k == admin[u].key
    IN  /\ At(c, "persist")
        /\ Live(u)
        /\ row[u] # None
        /\ row[u].flag # "deleted"
        /\ Begin(c, IF real[k] = None THEN "commitCreate"
                    ELSE IF draftChanged(k, u) THEN "commitUpdate"
                    ELSE "commitSame",
                 k, u, row[u].val)
        /\ UNCHANGED <<real, admin, row, issued, ctx, alive, sweep, jobs, acked>>

(* Defect: the changes of a draft of an existing entity are not written. *)
SaveCreatesOnly(c) ==
    /\ req[c].pc \in CommitSteps
    /\ At(c, "commitCreate") <=> real[req[c].key] = None
    /\ real' = IF At(c, "commitCreate")
               THEN [real EXCEPT ![req[c].key] = req[c].val] ELSE real
    /\ clearEntityDraft({req[c].id})
    /\ ctx' = [ctx EXCEPT ![c] = NoContext]
    /\ End(c)
    /\ UNCHANGED <<issued, alive, sweep, jobs, acked>>

(* The transaction commits: the entity is written, clearEntityDraft has    *)
(* removed the draft, and the client forgets its context.                  *)
SaveCommit(c) ==
    LET k == req[c].key IN
    /\ req[c].pc \in CommitSteps
    /\ At(c, "commitCreate") <=> real[k] = None
    /\ real' = IF At(c, "commitSame") THEN real
               ELSE [real EXCEPT ![k] = req[c].val]
    /\ clearEntityDraft({req[c].id})
    /\ ctx' = [ctx EXCEPT ![c] = NoContext]
    /\ End(c)
    /\ UNCHANGED <<issued, alive, sweep, jobs, acked>>

(* discardAction clears whatever draft the header names. *)
Discard(c) ==
    /\ CanStart(c)
    /\ ctx[c].id # None
    /\ clearEntityDraft({ctx[c].id})
    /\ ctx' = [ctx EXCEPT ![c] = NoContext]
    /\ UNCHANGED <<real, issued, req, alive, sweep, jobs, acked>>

-----------------------------------------------------------------------------
(* Failure, sessions, housekeeping.                                        *)

(* A service throws (a missing row, a duplicate key, a failed check, a     *)
(* hook): its transaction is rolled back and the client gets an error.     *)
Rollback(c) ==
    /\ req[c].pc # "idle"
    /\ End(c)
    /\ UNCHANGED <<real, admin, row, issued, ctx, alive, sweep, jobs, acked>>

(* sessionDestroyed lists the drafts the user created ...                  *)
SessionDestroyed(c) ==
    /\ alive[c]
    /\ Serial => Quiet
    /\ sweep[c] = {}
    /\ alive' = [alive EXCEPT ![c] = FALSE]
    /\ sweep' = [sweep EXCEPT ![c] =
                   {u \in UUIDs : admin[u] # None /\ admin[u].user = UserOf[c]}]
    /\ UNCHANGED <<real, admin, row, issued, ctx, req, jobs, acked>>

(* Defect: the drafts listed are not cleared. *)
ForgetUserDraftData(c) ==
    /\ sweep[c] # {}
    /\ sweep' = [sweep EXCEPT ![c] = {}]
    /\ UNCHANGED <<real, admin, row, issued, ctx, req, alive, jobs, acked>>

(* ... and clears each of them.                                            *)
ClearUserDraftData(c) ==
    /\ sweep[c] # {}
    /\ clearEntityDraft(sweep[c])
    /\ sweep' = [sweep EXCEPT ![c] = {}]
    /\ UNCHANGED <<real, issued, ctx, req, alive, jobs, acked>>

(* The user signs in again; the page still sends its old header. *)
Login(c) ==
    /\ ~alive[c]
    /\ Serial => Quiet
    /\ alive' = [alive EXCEPT ![c] = TRUE]
    /\ UNCHANGED <<real, admin, row, issued, ctx, req, sweep, jobs, acked>>

(* The service clearDraft lists the administrative rows ... *)
ClearDraftList ==
    /\ WithClearDraft
    /\ jobs = {}
    /\ Serial => Quiet
    /\ jobs' = {{u \in UUIDs : admin[u] # None}}
    /\ UNCHANGED <<real, admin, row, issued, ctx, req, alive, sweep, acked>>

(* Defect: the draft rows stay. *)
ClearDraftAdminOnly ==
    /\ jobs # {}
    /\ admin' = [u \in UUIDs |-> None]
    /\ jobs' = {}
    /\ UNCHANGED <<real, row, issued, ctx, req, alive, sweep, acked>>

(* ... and removes the draft rows listed and all administrative rows. *)
ClearDraftRemove ==
    \E S \in jobs :
        /\ row' = [u \in UUIDs |-> IF u \in S THEN None ELSE row[u]]
        /\ admin' = [u \in UUIDs |-> None]
        /\ jobs' = {}
        /\ UNCHANGED <<real, issued, ctx, req, alive, sweep, acked>>

-----------------------------------------------------------------------------

EditNext(c) ==
    \/ \E k \in KeysOf[c] : EditCheck(c, k)
    \/ EditContext(c)
    \/ EditLookup(c)
    \/ EditReuse(c)
    \/ EditCopy(c)

NewNext(c) ==
    \/ \E k \in KeysOf[c] : NewContext(c, k)
    \/ \E v \in Vals : NewCreate(c, v)

ChangeNext(c) ==
    \/ \E k \in KeysOf[c], v \in Vals : PatchCheck(c, k, v)
    \/ PatchDraft(c)
    \/ PatchReal(c)
    \/ \E k \in KeysOf[c] : DeleteCheck(c, k)
    \/ DeleteRead(c)
    \/ DeleteDraft(c)
    \/ DeleteReal(c)

SaveNext(c) ==
    \/ SaveCheck(c)
    \/ SaveVerify(c)
    \/ SavePersist(c)
    \/ SaveCommit(c)
    \/ Discard(c)

SessionNext(c) ==
    \/ Rollback(c)
    \/ SessionDestroyed(c)
    \/ ClearUserDraftData(c)
    \/ Login(c)

Next ==
    \/ \E c \in Clients :
          EditNext(c) \/ NewNext(c) \/ ChangeNext(c) \/ SaveNext(c) \/ SessionNext(c)
    \/ ClearDraftList
    \/ ClearDraftRemove

Spec == Init /\ [][Next]_vars

(* Every HTTP session ends (logout or the container's timeout), and a      *)
(* session that has ended is swept.  The sweep runs on the container's own *)
(* thread; Serial makes it wait for a moment without requests, which is    *)
(* why its fairness is strong.  Requests finish by themselves.             *)
SessionFairness ==
    \A c \in Clients :
        /\ SF_vars(SessionDestroyed(c))
        /\ WF_vars(ClearUserDraftData(c))
        /\ WF_vars(Rollback(c))
        /\ WF_vars(ClearDraftRemove)

FairSpec == Spec /\ SessionFairness

-----------------------------------------------------------------------------
(* Properties.                                                             *)

(* Every administrative row has its draft row: EditAction and NewAction    *)
(* create the two together, and no way of ending a draft removes only the  *)
(* draft row, so the Save, Edit and verify code may dereference it.        *)
AdminHasRow == \A u \in UUIDs : admin[u] # None => row[u] # None

(* No draft row is left behind without its administrative row, where no    *)
(* later clean-up finds it and a PATCH by key still does.                  *)
RowHasAdmin == \A u \in UUIDs : row[u] # None => admin[u] # None

(* The live draft a client works on was created by the client's own user:  *)
(* what otherUsersAreEditing and the lookup of stickySessionEditAction are  *)
(* there for.                                                              *)
OwnDraftOnly ==
    \A c \in Clients :
        Live(ctx[c].id) => admin[ctx[c].id].user = UserOf[c]

(* A live draft holds what its holder last put there by Edit, New or an    *)
(* acknowledged PATCH: no request of anyone else changed it.               *)
DraftHoldsAcked ==
    \A u \in UUIDs : admin[u] # None => row[u].val = acked[u]

(* A request in progress works under the id u (a DELETE names the row it   *)
(* has read, which may be one that clearDraft left behind).                *)
Carries(c, u) == req[c].id = u /\ ~At(c, "delete")

(* Once a draft has ended and no request in progress carries its id, no    *)
(* later request takes the id up again or brings it back to life, although *)
(* pages go on sending it as their header.                                 *)
DeadContextStaysDead ==
    [][\A u \in UUIDs \cap issued :
          (admin[u] = None /\ \A c \in Clients : ~Carries(c, u))
             => (admin[u] = None /\ \A c \in Clients : ~Carries(c, u))']_vars

(* What a draft is to its holder, whatever its id. *)
DraftView(u) ==
    [user |-> admin[u].user, val |-> row[u].val,
     new |-> ~row[u].hasActive, deleted |-> row[u].flag = "deleted"]

drafts == [k \in Keys |-> {DraftView(u) : u \in DraftsOf(k)}]

(* The actions of the OData application implement exclusive drafts: an     *)
(* entity has one draft and one holder from Edit or New to Save, Discard   *)
(* or the session's end, Save stores that draft as it is, and nothing a    *)
(* request reads before its commit is out of date by then.                 *)
Editing == INSTANCE ExclusiveDrafts
DraftsAreExclusive == Editing!ESpec

(* Every draft ends: the lock it puts on its entity is released at the     *)
(* latest when the session of its user is destroyed.                       *)
DraftsEnd == \A u \in UUIDs : admin[u] # None ~> admin[u] = None
=============================================================================
