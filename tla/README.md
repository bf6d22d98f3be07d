# office-auto in TLA+

office-auto is a business application server: the Apache OFBiz framework (`src/framework`) with an OData v4 front end
(`src/applications/odata`) that SAP UI5 clients talk to, and the pages of the common theme (`src/themes/common`). The
part that is the program's own, and the hardest to test, is the *sticky session*: a client edits a business object in a
draft kept in an in-memory database and saves it into the real database at the end. It runs in services of the OFBiz
service engine, whose transactions decide what a failed request leaves behind, takes its keys from the framework's
sequence banks, and shares the server with the job scheduler. In the browser the program's own code keeps look-up
dialogs and auto-completing fields consistent while answers come late. This directory models these parts, checks them
with TLC and proves with TLAPS every safety and action property of the runs that pass, three of the draft protocol under
the assumptions named there. Three runs are expected to fail: each shows a place where the program does not do what its
comments say.

Below, `$O` stands for `src/applications/odata/src/main/java/com/dpbird/odata`, `$S` for
`src/framework/service/src/main/java/org/apache/ofbiz/service` and `$J` for `src/themes/common/webapp/common/js`.

## Inventory

| Component | State | Operations | Modelled |
|---|---|---|---|
| Sticky-session drafts: `$O/processor/DataModifyActions`, `$O/services/ProcessorServices`, `$O/handler/DefaultDraftHandler`, `$O/OdataControlEventListener` | `DraftAdministrativeData`, one draft table per entity type, the real tables, the header SAP-ContextId kept by the client | EditAction, NewAction, PATCH, DELETE, SaveAction, DiscardAction, end of the HTTP session, service `dpbird.clearDraft` | `StickySession`, `StickyRaces` |
| Drafts of navigation properties: `$O/DraftReaderAndWriter`, `persistentTwoLevelNavEntity`, `persistentNavEntity`, `copyNavigationToDraft`, `createCascade` | child rows of the draft tables, linked by `parentDraftUUID` | copy, create, change, re-key, flag as deleted, delete the real row past the draft, verify, save two levels, clear | `DraftTree` |
| Service engine and transactions: `$S/ServiceDispatcher.runSync`, `TransactionUtil`; change sets: `$O/processor/OfbizBatchProcessor` | call stack, transaction of the thread, suspended transactions | call in the transaction in place / a new one / none; write; success, error, exception; retry after a deadlock; change set | `ServiceTransaction` |
| Sequence ids: `SequenceUtil` of the entity engine | a bank of ids per server, one row in the database | next id, forced refresh, refill in a transaction of its own | `SequenceBank`, abstract: `UniqueIds` |
| Job scheduler: `$S/job` | `JobSandbox` rows, one job object per claimed row, the poller | poll, claim, queue, run, recur, retry, reload after a crash, purge, cancel, reset | `JobSandbox` |
| Service semaphore: `$S/semaphore/ServiceSemaphore` | one row per locked service | acquire, wait or fail, release, clean-up at start | `ServiceSemaphore`, composed in `JobSandbox` |
| Auto-completion: `ajaxAutoCompleter` in `$J/util/OfbizUtil.js` on jQuery UI's autocomplete | per field: text, term, counters, menu; the global `LAST_AUTOCOMP_REF` | type, delay, search, answer, failure, abort, select, close | `Autocompleter` |
| Look-up dialogs: `$J/util/fieldlookup.js` on jQuery UI's dialog | the open dialogs, `ACTIVATED_LOOKUP`, `prevLookup` of each look-up, requests under way | open, close, choose a value, submit, follow a link, answer, failure | `LookupDialogs` |
| OData handlers (`OfbizEntityProcessor`, `OfbizActionProcessor`, `ActionService`, ...) | none of their own | request to service call | only what they do to drafts |
| OData query and write helpers, EDM provider | none / a schema read at start | translation | no: stateless |
| Entity engine, entity cache | database, `UtilCache` lines | find, create, store, cached find | tables with committed reads; the cache is not |
| CSRF tokens, ETag check | token per session, time stamps | compare | no |
| Web framework, screens, mini-language, themes, vendored libraries | | | no: rendering and third-party code |

How they interact: a request enters an Olingo processor, which reads the header SAP-ContextId, looks up the draft it
names, and calls a service through `runSync`. The service reads and writes through the delegator in the JTA
transaction of the thread. Nothing locks a draft between two requests; the only protection is a set of look-ups
(`otherUsersAreEditing`, the search for an existing draft, `checkPrimaryKeyConflict`, `verifyProperty`), each of them a
read that may be out of date when the service writes. Both datasources run at ReadCommitted (`entityengine.xml`).
`NewAction` asks `SequenceUtil` for a key; all servers share one row per sequence. Jobs are services run by a pool of
threads from a table all servers poll; a service with a semaphore is excluded from running twice by a row in another
table. The pages talk to the server only by requests whose answers replace parts of the page.

What makes it hard: requests of several tabs and users interleave between reads and the commit; sessions end on a
container thread while requests are in flight; a context may be sent again after its draft is gone; one of two rows may
be removed without the other; errors in nested services may be swallowed by their callers; deadlocked services are run
again; several servers claim, run, crash and recover from the same tables, and every `store()` writes back a whole row
read earlier; answers in the browser come in any order, after the widget they belong to has moved on. `PROJECT.json`
lists each of these as a hazard at its line with the property that would catch it.

## Modules

| Module | Extends / instantiates | Checked in | Proofs |
|---|---|---|---|
| `StickySession` | `ExclusiveDrafts` (refinement) | `MCStickySession` | `StickySessionProofs` |
| `StickyRaces` | `StickySession` | `MCStickyRaces` | `StickySessionProofs` |
| `DraftTree` | | `MCDraftTree` | `DraftTreeProofs` |
| `ServiceTransaction` | | `MCServiceTransaction` | `ServiceTransactionProofs` |
| `SequenceBank` | `UniqueIds` (refinement) | `MCSequenceBank` | `SequenceBankProofs` |
| `JobSandbox` | `ServiceSemaphore` (composition) | `MCJobSandbox` | `JobSandboxProofs`, `JobScheduleProofs` |
| `Autocompleter` | | `MCAutocompleter` | `AutocompleterProofs` |
| `LookupDialogs` | | `MCLookupDialogs` | `LookupDialogsProofs` |

What could follow, in this order: the entity cache (cached reads against committed values, and what a rollback leaves in
the cache, `DataModifyActions.java:194`); the tree of drafts with several sessions at work on it.

## StickySession and StickyRaces

One entity set with a draft table. `real` is the real table; `admin` is `DraftAdministrativeData`; `row` is the draft
table with its two flags folded into one of *copy*, *draft*, *deleted*; `ctx` is the header a client sends and the key
it edits; `req` is the request a client has in progress, with the name of its next step; `alive` and `sweep` are the
HTTP session and the drafts its destruction has listed; `jobs` is a running `clearDraft`; `issued` are the ids generated
so far. `acked` is a history variable: the contents the holder of a draft last put there. Contents of an entity are
opaque values; `Valid` are the ones `verifyProperty` accepts.

Each action is one read or one commit of a handler, in the order of the code:

| Handler | Actions |
|---|---|
| EditAction | `EditCheck` (other editors, before the transaction), `EditContext` (header or new UUID), `EditLookup` (existing draft), then `EditReuse` or `EditCopy` (both rows in one commit) |
| NewAction | `NewContext` (key from the client or from the sequence, UUID), `NewCreate` (key check and both rows) |
| PATCH | `PatchCheck` (is the header live?), then `PatchDraft` (first draft row *of the key*) or `PatchReal` |
| DELETE | `DeleteCheck`, `DeleteRead`, then `DeleteDraft` (flags the row) or `DeleteReal` |
| SaveAction | `SaveCheck`, `SaveVerify`, `SavePersist` (reads the draft again), `SaveCommit` (writes, clears the draft) |
| DiscardAction | `Discard` |
| any | `Rollback`: the service fails and nothing of it is applied |
| session end and new login | `SessionDestroyed`, `ClearUserDraftData`, `Login` |
| `dpbird.clearDraft` | `ClearDraftList`, `ClearDraftRemove` |

A failing step of the code has no action of its own: the request can always take `Rollback`, and where the code must
fail it is the only step enabled. `Serial = TRUE` lets a request start only when nothing else runs; it separates what
the protocol gets right from what it gets right only without overlap. A client sends the header of the draft it last
opened until Save or Discard succeeds, and addresses the entity that draft is of. A draft of the main entity that is
flagged deleted cannot be saved (the code itself notes that this is unlikely), so `SavePersist` excludes it.

Abstractions: attributes, before/after hooks (which can only fail, `Rollback`) and ETags are left out; navigation
drafts are in `DraftTree`. `findByAnd(...)` with `getFirst`, and `queryFirst`, return any matching row. The cached reads of the Save path are
taken as current; stale cache lines are a hazard listed without a property. The sweep of an ended session is assumed
not to fail in the database.

### Runs

All use two clients. Names of users, keys, values and ids are model values.

| Run | Setting | Properties | Result |
|---|---|---|---|
| `MCOverlap` | two users, one key, which is stored and which NewAction may also choose, one valid and one invalid content, 2 ids, every interleaving of requests, session ends and sweeps, no clearDraft | `RTypeOK`, `AdminHasRow`, `DeadContextStaysDead`, `SavedWasVerified`, `SavedIsTheDraft`, `EditFindsNoDraft`, `EditTakesOwnDraft`, `NewIsOverrunBySave`, `OrphansAreBornLate` | hold, 2.0 million states |
| `MCSerial` | 2 users, 2 keys (one stored), 2 ids, one valid and one invalid content, serial, with fairness, clearDraft, keys from the sequence | `RowHasAdmin`, `DraftHoldsAcked`, `DraftsAreExclusive`, `DraftsEnd` | hold, 0.1 million states |
| `MCTwoEditors` | two users, one key, interleaved | `OwnDraftOnly` | violated |

Nothing in the code lets requests wait for each other, so `MCOverlap` is the program as it runs. The simple promises fail
in it: two users share a draft (`MCTwoEditors`), a PATCH between the two reads of a Save is stored unverified, one between
its read and its commit is acknowledged and removed unsaved, two new drafts of one key both pass
`checkPrimaryKeyConflict` and the second Save overwrites the entity of the first, an EditAction in flight when its session
ends leaves a draft that no sweep has listed. What can be asked of the code is that these are the *only* ways, and
`StickyRaces` states that. Its history variable `overtaken` holds the clients whose request in progress has been
overtaken: another step has changed the entity, or a draft of it, that the request works on. Then

* what a Save commits has passed `verifyProperty` (`SavedWasVerified`) and is what the draft holds at that moment
  (`SavedIsTheDraft`), unless the Save is overtaken;
* an EditAction that copies an entity makes its only draft (`EditFindsNoDraft`) and one that re-uses a draft returns a
  live one of its own user (`EditTakesOwnDraft`), unless it is overtaken, or the entity had several drafts before it
  began;
* an entity that appears under the key of a new draft was created by the Save of another draft of that key, after the one
  check of NewAction (`NewIsOverrunBySave`);
* a draft that no session and no sweep answers for was made by a request that outlived its session
  (`OrphansAreBornLate`).

Each rests on a read that nothing renews: the request is overtaken exactly when that read has become out of date. A
handler with a look-up that misses a draft, a check left out or a stale header accepted breaks them without any overlap.

`MCSerial` is a statement about the protocol and not about the program: `Serial = TRUE` lets a request, a sweep or a
clearDraft start only when nothing else runs. It shows that the handlers are right one by one, in any order, with ended
sessions, contexts that are sent again, and clearDraft: they implement `ExclusiveDrafts`. It cannot show the races of
`MCOverlap`, and `DraftsAreExclusive` fails with them.

The bounds: two clients are enough for every race here, because each is between one read and one commit of another
request. In `MCOverlap` the one key is stored and may also be chosen for a new draft, which brings all conflicts about a
key together, and two ids allow a draft and a second one, or an ended and a live one with a stale header. In `MCSerial`
the second key separates *my* draft from another row. `MCOverlap` uses two reductions. The two clients may change places
together with their users, and the ids are interchangeable: the constants, `Init` and `Next` treat them alike
(`PeopleSymmetry`), and the run has no liveness property. The view `AllButAcked` leaves out the history `acked`, which no
action reads; of the properties of that run only the type invariant does, and a step that writes `acked` writes the same
contents into the draft row.

With clearDraft and overlapping requests the instance is too large for a run. `RowHasAdmin` fails there (clearDraft removes
the administrative row of a draft it has not listed, and leaves its draft row); the theorem `RowHasAdminAlways` says that
nothing but clearDraft does this.

`MCTwoEditors` is a finding: the check for other editors and the look-up of the draft are separate reads and the look-up
does not filter by user.

`ExclusiveDrafts` is what the protocol is for, without ids, requests, sessions or the two tables: an entity has no draft
or one, with its holder, its contents, whether it is new and whether it is marked for deletion. It is opened from the
stored entity or as a new one, changed, and stored as it is or dropped; a new draft never replaces an entity, and a
deleted or invalid one is not stored. The refinement mapping `drafts` collects, for a key, what its administrative rows
and draft rows say (`DraftView`); it is a set, so a second draft of a key shows. A commit is one abstract step and
everything read before it a stutter: this is the claim that what the handlers have read is still true at their commit.
`Bypass` is part of the promise because it is part of the code: a request without a live header changes or deletes the
stored entity whoever has a draft of it, and saving that draft creates the entity again.

Fairness (`FairSpec`): every session ends, by logout or by the container's timeout. This is an assumption about users:
a tab that polls forever keeps its session and its draft. It is strong fairness because under `Serial` the end of a
session waits for a moment without requests. The sweep runs on (weak fairness), and a request does not hang: it
finishes or fails (weak fairness of `Rollback`, which is disabled as soon as the request has ended in another way).

## ServiceTransaction

One thread. `frame[d]` holds the local variables of the call at depth `d` (`beganTrans`, `parentTransaction`,
`lockRetriesRemaining`); `cur` is the thread's JTA transaction, named by the depth of the call that began it, 0 for
none; `tx` are the transactions. `durable` are the committed writes. History: `log[d]` are the writes call `d` answers
for (its own and those of nested calls that succeeded in the same transaction), `undone` the writes of calls that
failed, `promised` those of transactions whose owner reported success.

`RunSync` begins a transaction, suspends one and begins another, or joins; `Store` and `StoreFails` are a delegator
write (a failing write marks the transaction, a marked transaction refuses writes, and without a transaction the write
commits by itself); `ReturnSuccess` commits if the call began the transaction, and a marked transaction or a failing
commit turns into an exception; `ReturnError` stands for an error result and for anything thrown: it rolls back, or
marks the transaction of somebody else; `Retry` and `GiveUp` are the two ends of the deadlock loop; `ProcessChangeSet`,
`ChangeSetDone` and `ChangeSetFails` put requests into one transaction. What a service body does is open, including to
ignore the failure of a nested call. ECA services are nested calls. Commit, rollback and resume act on the transaction
*of the thread*, as `TransactionUtil` does; that it is the right one is the property `ThreadTx`. The JTA transaction
manager is external: commit is atomic over both datasources or fails as a whole (no heuristic outcomes).

| Run | Bounds | Properties | Result |
|---|---|---|---|
| `MCServiceCalls` | depth 4, 3 writes, 3 attempts, 3 deadlocks per call | `TypeOK`, `ThreadTx`, `UndoneStaysOut`, `OnlyGiveUpBreaksPromises` | hold, 0.8 million states |
| `MCDeadlockGiveUp` | depth 2, 3 deadlocks | `PromisedIsDurable` | violated |

Depth 4 allows a change set, a service in it, a service with a new transaction and one that joins that. Three writes
put one write into each of three transactions. `MCDeadlockGiveUp` is a finding: after the third deadlock the loop of
`runSync` ends with the result reset, so the call is reported as successful with nothing applied.
`OnlyGiveUpBreaksPromises` says that this is the only way to lose what was promised, and with fewer deadlocks than
attempts `PromisedIsDurable` is a theorem.

## DraftTree

One session at work on the tree of drafts under its root; a step is a request, because each runs in one transaction and
`StickySession` has the races between sessions. `drafts` are the draft rows with their administrative data, linked by
`parent`; `row` is `entityKeyMap`; `flag` folds `isActiveEntity` and `hasDraftEntity`. `rows` is the real database, a
forest of rows under a parent key. `depth` is history.

`Edit` copies the entity and two levels of navigations; `New` creates a draft and its cascade; `AddNav`, `Patch` (with
or without a changed key) and `Delete` act at any depth. `Delete` is the DELETE of a navigation by its own entity set,
which carries the context. A DELETE by a path, `Parents(k)/navigation(k)`, is `DeleteRelated`: the entity processor hands
`deleteRelatedEntity` no context (`OfbizEntityProcessor.java:160`), and the real row goes although a draft of it may be
open. (Sent with a live header it fails: the path is read from the drafts, and the key of what it finds names no real
row.) Save is verified and then written: `SaveRejected`, `Save`,
`SaveFails`. `Order` and `Descended` keep what `++ level` does to siblings: the first child of the root is visited with
level 1, the second with 2 and any other with more, so that the children of a third are not looked at. Which sibling
comes first is the database's choice. `Removes`, `Creates`, `NeedKey` and
`RowsSaved` are `persistentNavEntity`; a copy whose real row has gone is created again under its old key.

| Run | Bounds | Properties | Result |
|---|---|---|---|
| `MCDraftTree` | 6 draft ids, 6 keys, a stored chain of three rows, depth 3, 5 requests before Save | `TypeOK`, `LeftoversAreDeep`, `SavedAsDrafted`, `WritesVerified` | hold, 0.1 million states |

Six ids are a root, three navigations of it and two below; depth 3 is one level more than Save handles; five requests
are enough to edit, add a third sibling, add a child under it, delete and revive. The deadlock check is off: the
requests are counted, so the session may end with nothing left to do.

`WritesVerified` holds with two side conditions, and each is needed (TLC finds a counterexample without it): the
children of a third sibling and the children of a deleted draft are written without having been verified. Other
behaviour the model shows: a draft of the third level can reject a Save although it is never saved, and it stays behind
when the tree is cleared (`LeftoversAreDeep` says that nothing else does); a PATCH revives a deleted draft; a re-keyed
or deleted row of the first level leaves its children in the real table where no foreign key forbids it; creating
something under a deleted parent makes the whole Save fail. The rows below a deleted draft are not removed when the row
of that draft has been deleted by a path before, because `persistentNavEntity` returns null for it: `SavedAsDrafted`
names that exception.

## SequenceBank

`row` is the committed value of the sequence row, `rowLock` and `work` the transaction that holds its lock, `cur` and
`max` the bank of each server (`curSeqId`, `maxSeqId`), `pc` where its `fillBank` is. Threads of a server exclude each
other by the bank's monitor, so a server is one process. `LockRow`, `LockNoRow`, `InsertRow`, `SelectRow`,
`IncrementRow` and `CommitFill` are the numbered statements of `fillBank`; `FillFails` is any of them failing,
`FailsAfterCommit` an error after the commit took effect, `CrashServer` the end of the JVM.

`UniqueIds` is what a caller relies on: every id handed out is new. `HandsOutUniqueIds` is `UniqueIds!USpec` with the
history of answers in the place of `issued`.

| Run | Bounds | Properties | Result |
|---|---|---|---|
| `MCSequence` | 2 servers, row absent or present at the start, stagger 1, 2 or 4, bank size 2 capped at 3, no refill once the row is past 8 | `TypeOK`, `BanksDisjoint`, `HandsOutUniqueIds` | hold, 4.9 million states |

The row moves by 2 or 3 per refill, which gives each server at least one refill after a refill of the other; the cap of
3 lies between one stagger's bank and the other's, so the capped case happens, and stagger 4 asks for more than a bank
holds: that call ends without an id. `refresh` with a stagger below one is
not modelled: no caller passes it.

## JobSandbox and ServiceSemaphore

`row` is the table, `obj[i][j]` the `PersistedServiceJob` of instance `i` for row `j` with the copy of the row it read,
`inst` the instances, `due` and `crashed` what the poller's and the reload's queries returned. Every read of a row and
every write-back is a step of its own, because `GenericDAO.update` writes all fields of the value read before.

The poller: `ReloadRead`, `ReloadCreate`, `ReloadMark` (after a restart), `PollRead`, `PollClaim` (the conditional
update), `PollPurge`, `QueueCheck`, `QueueStore` (with `execute()`, which may reject), `DeQueueRead`, `DeQueueStore`. A
job thread: `InitCheck`, `InitStore`, `InitRecur`, `AcquireAndRun` or `AcquireGivesUp`, `BodyEnds`, then `Finish` or
`FailRetry` and `FailStore`. Instances: `StopInstance`, `InstanceEnds`, `Restart`. The administrator: `AdminRead`,
`AdminStore` (cancelJob, cancelJobRetries, resetJob). `ServiceSemaphore` is a module of operators on the row of each
service, used by the job threads and by `Restart`, whose clean-up is the dispatcher's.

`starts`, `plan` and `marks` are history. `marks` records, at the moment it happens, a crash inside one of three windows
of the code, a cancellation no write-back was pending against, and a row rewritten by an administrator; the properties
name the marks they except, so that everything outside these windows is claimed. The windows are limits of the code:

* a crash between the claim and the `QUEUED` store, or between the `RUNNING` store and the creation of the recurrence,
  loses the schedule: `reloadCrashedJobs` can tell only queued jobs from others (*unqueued*, *unrecurred*);
* a crash between the two writes of `reloadCrashedJobs` makes a second successor (*unmarked*);
* a cancellation between a job's refresh and its store is overwritten although the class comment of
  `PersistedServiceJob` promises that `cancelDateTime` is the one external change that counts; a cancelled job that is
  dequeued is stored as pending with its cancel date and never purged;
* `resetJob` and `cancelJobRetries` write back a whole row and can make a running job run again (*rewritten*).

| Run | Bounds | Properties | Result |
|---|---|---|---|
| `MCJobs` | 2 instances, one job with one recurrence and one retry, a semaphore to wait for, all administrator operations, disturbances worth 2 | `TypeOK`, `SingleStart`, `NotStranded`, `SemaphoreHeldByBody`, `CancelHonoured`, `ScheduleLives`, `OneHeir` | hold, 2.5 million states |
| `MCJobsEnd` | the same without the administrator and retries, disturbances worth 1 | `JobsEnd` | holds |

A job object per instance and row, a crash, stop or cancellation that costs one, a reset or cancel-retries that costs
two, and a purge only when nothing else goes on are the bounds; ids end with `MaxRow`, so the deadlock check is off.
Two instances are enough for a race about a row; a disturbance budget of two allows a crash during the recovery from a
crash.

Fairness of `JobsEnd`: the poller loops, job threads that were started run, services end and waits time out, an
instance that is down is started again, one that stops comes to its end (weak fairness of each). `QueueStore` with
acceptance is strongly fair: the pool is not for ever full at exactly the moments a given job is offered to it; a weaker
assumption would not exclude that, and nothing in the code does.

## Autocompleter

One jQuery UI widget per field (`value`, `term`, `menu`, `timer`, `cancel`, `index`, `pending`, `loading`) and the
requests of the page, the last of which is `LAST_AUTOCOMP_REF`. Event handlers are atomic, as they are in a browser;
key strokes, timers, answers and failures come in any order. `Search` includes the `beforeSend` of
`ajaxAutoCompleter`: it aborts the last request of the page and answers for it with the *new* search's callback.

| Run | Bounds | Properties | Result |
|---|---|---|---|
| `MCAutocomplete` | 2 fields, one short and two searchable texts, 3 requests, all kinds of failure | `OneLookup`, `PendingBalance`, `MenuOpensForFocus` | hold, 0.7 million states |

Three requests are one that is aborted, one that overtakes it and one that comes after. `PendingBalance` is a statement
about the page and not about a field: since the new search answers in the place of the aborted one, a request aborted
from another field is taken off the wrong counter, and `pending` of one field is not the number of its own requests.
Requests whose failure is not told to the widget stay counted, and the field keeps its loading mark.

## LookupDialogs

`lookups` are the registered look-ups with their `prevLookup`, `open` the open dialogs, `activated` is
`ACTIVATED_LOOKUP`, `links` tells whether the links of a dialog's content stay in the dialog, `requests` are under way
(each with the history `overtaken`: a link was followed for another dialog since), `linkId` is the global `lookupId`.
`Usable` is what jQuery UI's overlays leave to the user. `Open`, `Close` with `Back`, `ClickBackground`, `SetValue`,
`RequestForm`, `RequestLink` and the answers and failures of the three kinds of requests are the handlers of
`fieldlookup.js`. A failed opening reloads the page.

Dialogs are modeless by default, against their markup. `fade-background` is `"true"` unless a form sets it
(`widget-form.xsd:1413`, `HtmlTemplate.ftl:20`, `HtmlFormMacroLibrary.ftl:618`) and is rendered as
`data-lookup-modal="true"`; jQuery's `data()` makes that a boolean, which is compared with a string and so read as *not*
modal, while `"false"` falls back to the default of the script and gives a modal dialog (`Modal`). `""` is never rendered
(`MacroFormRenderer.java:2196`).

| Run | Bounds | Properties | Result |
|---|---|---|---|
| `MCLookup` | 2 look-ups on the page, one with the default and one modal, one modeless look-up in each dialog, 3 registered, 3 requests under way | `TypeOK`, `SpinnerIsAwaited`, `ChainBreaksOutOfOrder`, `RawOnlyIfOvertaken` | hold, 0.4 million states |
| `MCLookupModeless` | the same page with the default for both | `ValueGoesToItsField` | violated |

`MCLookupModeless` is a finding: with two modeless dialogs open, a value chosen in the one opened first is written to the
field of the other, and the other is closed. The chain of look-ups has the same weakness: `_dialogClose` goes back from the
activated look-up and not from the one that closes. `ChainBreaksOutOfOrder` says that nothing else disturbs it: in
whatever order dialogs of both kinds are opened, used, closed and answered, `ACTIVATED_LOOKUP` and `prevLookup` stop
being the order of the open dialogs only when a dialog with a newer one open is closed. (If a closed dialog that
`ACTIVATED_LOOKUP` still names is then opened again, `prevLookup` comes to point to itself, and closing dialogs no longer
leads back; only a reload helps.) `RawOnlyIfOvertaken` says the same of the global `lookupId`: the links of a dialog come to
lead out of the page only with the answer to a link that was overtaken.

Three look-ups are two on the page and one in a dialog, which gives chains of three, chains that are left in the middle
and dialogs of both kinds over each other; three requests are one overtaken by another and an opening.

## Proofs

Eight modules hold the theorems; these are for all values of the constants, from the assumptions stated in the modules.

* `StickySessionProofs!TypeCorrect`. `TypeOK` alone is not inductive: `EditCopy` or `SaveCommit` write what the request
  carries. `TypeInv` adds `Shape`: a request has the fields its next step dereferences.
* `AdminHasRowAlways`: an administrative row has its draft row, under every interleaving. `DraftStep` says in which of
  four ways a step changes the two tables (not at all, create both, clear both, change a row in place); the theorem
  follows from `TypeInv` and that lemma.
* `RowHasAdminAlways` (no clearDraft): no orphaned draft row. It needs that no list of `clearDraft` is in progress.
* `DeadContextStaysDeadAlways`: an action property for every interleaving, from the types alone: each way a request gets
  its id (the header after `checkSapContextId`, a new UUID, a draft found by key) yields a live id or one never issued
  (`DeadMove`, `DeadEnd`, `DeadStep`).
* `RaceTypeCorrect`, `SavedWasVerifiedAlways`, `SavedIsTheDraftAlways`, `EditFindsNoDraftAlways` and
  `EditTakesOwnDraftAlways`: the properties of `StickyRaces`, for every interleaving, clearDraft included, and keys from
  clients or from the sequence. Their invariant is `RaceInv`: `Learnt` says for each step of a request that nothing has
  overtaken what its reads so far have established, for example that at the commit of a Save the contents it carries are
  those of the draft row, verified, and for `commitSame` equal to the stored ones. A step of another client either
  touches what the request uses, and then the request counts as overtaken, or leaves everything alone that `Learnt`
  speaks of (`Untouched`).
* `NewIsOverrunBySaveAlways` and `OrphansAreBornLateAlways`, for every interleaving too, look at a single step. `TableStep`
  lists the steps that change a draft table and `SessionStep` those that end or open a session; all others cannot make
  the state in question come about.
* `DraftsAreExclusiveSerial` and `DraftHoldsAckedSerial` are about requests that do not overlap, and keys from the
  sequence. They say of the protocol what `MCSerial` checks of it, and nothing about the races. They share one invariant,
  `DraftInv`: `TypeInv`, `SerialInv` and `SoloInv`. `SerialInv` has that one request runs at a time (`OneRequest`), that
  keys of new drafts were issued once (`KnownKeys`) and that a request about to create a draft of a key has found none
  (`FreeKey`).
  `Exclusive` says that a request, a sweep or a clearDraft runs alone; `Whole` that the two rows of a draft agree with
  each other, with `acked` and, for a new draft, with the absence of the entity; `Contexts` that a header whose draft
  lives is of the client's own user and key. `AllKnow` is the heart of it: it says for each step of a request what the
  reads so far have established (`Knows`), for example that the id of a PATCH is the only draft of its key, so the
  search by key finds it. One lemma per shape of step (`BeginSolo`, `EndSolo`,
  `CreateSolo`, `WriteSolo`, `ClearSolo`) carries the cases. For the refinement, `OneView` and `ClearView` say how a step
  on the rows of one id, or one that ends drafts, moves `drafts`; `CreateOpens`, `WriteChanges` and `CommitStores` are
  the three commits, and `StepRefines` puts them together.
* The last part of `StickySessionProofs` is about users who work on entities of their own: requests, session ends and
  sweeps interleave freely, and keys may come from the clients, but no two clients work on the same entity (`KeysApart`)
  and clearDraft is not used. `DraftHoldsAckedApart`, `SavedIsAckedApart` and `SavedIsValidApart` say that such users, two
  tabs of one user among them, do not disturb each other although sweeps end drafts of both. The invariant
  is `ApartInv`, which keeps `Whole` and `Contexts` and replaces the rest. `Held` says that a live draft is in
  the header of some client, and `OwnKeysOnly` that the header's key is one of the client's own. With `KeysApart` it
  follows that a look-up by key finds the draft of the request's own header or nothing (`HolderOfKey`, `RowOfKey`).
  `OwnIds` keeps the ids of two clients apart. `KnowsOwn` says what a request still knows when any other step may come
  between two of its own: weaker than `Knows`, since a sweep for the same user's other tab may have ended its draft,
  but the draft is never changed or replaced. So the commit of a Save compares `val` with `acked`, not with a row that may be
  gone. `KnowsKept` shows that the steps of others preserve it; `ApartStep` reduces each action to what it does to its
  own client, and `BeginApart`, `EndApart`, `CreateApart`, `WriteApart`, `RealApart` and `ClearApart` are the shapes.
  The refinement `DraftsAreExclusive` fails even there, as TLC shows: a sweep ends the draft between the last read of a
  Save and its commit, and the Save still writes.
* `ServiceTransactionProofs`: `TypeCorrect`, `ThreadTxAlways`, `UndoneStaysOutAlways` from one invariant `IInv`:
  `Chain` (a call runs in its own transaction or in its caller's, and has suspended its caller's), `Accounted` (a call
  answers only for writes of the transaction it runs in) and `Apart` (a write is in one place, and a transaction with a
  write of a failed call is marked). `Chain` is what lets `resume` restore the right transaction, `Accounted` and
  `Apart` are what makes marking it sufficient.
* `PromisesBreakByGiveUpOnly`: the action property, from the lemma `PromiseStep` about one step under `IInv`.
  `PromisedIsDurableBelowRetries` follows from it: if deadlocks are fewer than attempts, `GiveUp` is impossible and every
  promise is kept; the assumption is exactly what `MCDeadlockGiveUp` drops.
* `SequenceBankProofs`: `TypeCorrect`, `BanksStayDisjoint`, `LockStaysInFill` and the refinement
  `SequenceIdsAreUnique`, for any number of servers and any sizes. `BanksDisjoint` is not inductive by itself: `HandedBelowRow` says that every id handed out is
  below the committed row, and `FillKnows` what a server has learnt between the lock and its commit (the value it read
  is not below the row, and the increment it made is the size of the bank it will open). The refinement step
  (`StepIssues`) shows that a step either leaves the answers alone or adds an id of a non-empty bank, which
  `BanksDisjoint` says is new.
* `AutocompleterProofs`: `TypeCorrect`, `OneLookupAlways` and the action property `MenusOpenForFocus`, for any number of
  fields and requests. `OneLookup` is strengthened to `LiveIsLast` (only the last request may be under way, the one
  `LAST_AUTOCOMP_REF` names). For the menus, `AwaitedInFocus` says that a request which is under way, the latest of its
  field and not cancelled is for the field in focus and the text it last searched for; `Numbered` (request numbers grow)
  makes a new search the only latest one, `DelayInFocus` (a delay runs only in the field in focus) tells that the field
  of the search is in focus. `LongTerms` is needed for the type of `menu`.
* `PendingAddsUp` (`AutocompleterProofs`): the counters of all fields add up to what is owed. A counter of one field may
  be too high and that of another negative, since a request that is aborted was counted by its own field and is answered
  for by the next one; only their sum means something. `Balance` adds to `IInv` that the last request of the page is
  never an aborted one (`LastStands`), so a search that supersedes a request takes the place of one that is owed. The sum
  is a fold over the fields: `SumsExist` and `SumsUnique` show that the recursion of the fold has one solution, by the
  least set without one (`LeastNumber`), and `SumMoves` that it moves with each counter. The page has finitely many fields
  (`AutocompleterAssumption`).
* `LookupDialogsProofs`: `TypeCorrect`, `ChainGoesOnlyOutOfOrder`, `RawLinksAreOvertaken` and `SpinnerGoesWithAnswers`, for
  any page, dialogs modal or not, and any number of look-ups and requests. The chain is an action property: in a state
  where it is the stack of the open dialogs, an opening and the close of the newest dialog keep it. For the links,
  `LoadsInto` says that a link request which is under way and was not overtaken is for the dialog the global `lookupId`
  names, so its answer redirects its own links. `OpenOnce` (a dialog is open once) and `HomeIsPage` (where the look-ups of
  no dialog come from) complete the invariant.
  `SpinnerIsAwaited` is inductive by itself (`AwaitInv`), once it is shown that taking one answer out of the requests
  leaves the others (`OtherGoes`).
* `DraftTreeProofs`: `TypeCorrect`, `OnlyDeepOnesAreLeft` and the action properties `SaveCarriesOut` and
  `OnlyVerifiedIsWritten`, for any number of drafts, rows and requests and trees of any shape. The invariant:
  * `Shape`: the depth a draft was created at is its place in the tree. A draft of a depth up to two is the root or has
    its parent; a deeper one may have lost it. `TreeDepths` concludes that the two levels which Save and
    `clearEntityDraft` walk are the drafts of depth one and two.
  * `RowHeld`: only copies have rows, the parent of a copy is a copy, and a row that nobody has deleted meanwhile lies under
    the row of the copy's parent.
  * `RowsOnce`: a row has one draft, so the row of a deleted draft is not written by another one.
  * `RootIsTop`: the root is not deleted.

  `EditEffect` and `SaveEffect` state what the two long actions do, `KeyOf` is shown to give each draft that is carried
  out a row of its own (`KeysDiffer`, `RowsCarryOut`), and `AllVerified` that with at most two navigations under the root, none of them
  deleted, `verifyProperty` reaches all that Save writes, in whatever order the database lists siblings. That fresh
  ids exist (`FreshIds`) and can be dealt out (`Assigned`) needs the bounds `Ids` and `Keys` to be finite.
* `JobSandboxProofs`: `TypeCorrect` and `SemaphoreIsHeldByBody`, for any number of instances, jobs and services, with
  every crash, restart and write-back of the model. `CopiesRead` says that a job object in a phase that works on a value
  has one; `BodiesHold` strengthens `SemaphoreHeldByBody` by the service the holder runs; `DownIsIdle` (nothing runs on
  an instance that is down) is why the clean-up at a restart cannot take the row of a running job. The one assumption
  added for it is that `None` is no semaphore row.
* `StartedOnce` (`JobSandboxProofs`), the scheduler's main promise (`SingleStart`). An object *has* a row when it is queued
  or rejected, or holds a copy of it that is not cancelled: it can still write the row back as live. `OneOwner` says that
  at most one object has a row, and that a row which is open (not cancelled) names that object's instance;
  `StartedIsClosed` that a row which was started is never open to a claim again. Whatever is written back late is then
  either cancelled or the owner's. The only exception is the mark the two rewriting operations of the administrator
  leave.

* `JobScheduleProofs`: `CancelIsHonoured`, `NoneIsStranded`, `SchedulesDoNotFork` and `SchedulesLive`. All four rest on
  one invariant, `Fate`, of each row with its job objects, with what `reloadCrashedJobs` has read of it and with its
  successors. Whatever a step of the model does, it is for each row one of a few events (`RowEvent`): the object
  moves without writing, writes the row back, starts it, ends it, the row is created, claimed, reloaded, purged or
  rewritten by the administrator (`StepEvents`, one lemma per operation). The invariant is then proved part by part
  over events and not over the actions:
  * `Values`: every value read from a row and still to be written back agrees with the row in origin, schedule and plan.
    Without it a late `store()` could change what the row succeeds.
  * `CancelKept`: a row with the mark of an honoured cancel is cancelled, and so is every value read from it.
  * `Attended`: a live row of an instance has an object there, or the instance is still to reload it. It also says which
    rows a claim under way has just read.
  * `Settled`: what the phase of an object says of the row (a queued object's row is open, a running one's was started,
    a row given back by a full queue is pending again) and that the reload holds each row at most once.
  * `Spent`: a row without a successor so far is the only one that may get one: an object past the point where it makes
    the recurrence or the retry cannot make another, nor can the reload (`HeirSpent`, `AtMostOne`).
  * `CarriedOn`: the reverse. From the start of the body on, a recurring row has its successor with the recurrences that
    are left, and the row keeps it until it is purged.

  `Pollers` ties the phases of an instance to what it has in hand. `Fate` was checked by TLC on the constants of `MCJobs`
  before it was proved.

Only model-checked: `DraftsEnd` and `JobsEnd`, because liveness under fairness is out of the prover's reach, and
`RowHasAdmin` with clearDraft (serial). The theorems that end in `Serial` are about requests that do not overlap, those
that end in `Apart` about requests that do, on entities of their own; every other theorem of the draft protocol is about
the program as it runs.

## Mutants

Each property is accompanied by a defect of the code that it catches (the operators whose comment begins with
"Defect" or "Mutant of", listed in `PROJECT.json`): a query without its key, a check that is dropped, one of two rows that
stays, an id handed out twice, a parent transaction that is not resumed, a claim without its condition, an
abort that nobody answers for, a level of drafts that is not visited.

## Not modelled

* The entity cache and cached reads of the Save path (`DataModifyActions.java:194`): what a cache line holds depends on
  the cache settings and conditions of every entity that reads through it.
* Uniqueness of `only` properties (`ProcessorServices.java:881`): needs the contents of more than one entity.
* `saveNewFkEntity`, `preCreate`, Groovy handlers, attributes, many-to-many and single-valued navigations.
* `runAsync`, services registered for the end of a transaction, XA synchronisations; jobs kept in memory.
* Reading: queries, links, counts, media streams, serialisation, the schema. They keep no state.
* CSRF tokens and the ETag check: one comparison each.
* Area updates and form submits of `OfbizUtil.js`. Two things were seen there: `ajaxSubmitRequestUpdateAreas` and
  `submitFormInBackground` call their update function while they build the request, so the areas are refreshed before
  the submit is sent; `ajaxSubmitFormUpdateAreas` has no error handler and leaves the wait spinner on.
* Rendering (screens, forms, themes), the mini-language, the rest of OFBiz's applications.

On size: the JavaScript files of the repository have about 130 000 lines, and all but about 3 000 of them are vendored
libraries (jQuery, jQuery UI, editors, trees, charts). The models cover the program's own scripts that keep state over
several events, and the parts of jQuery and jQuery UI those drive. Modelling more of the libraries would say nothing
about this program, so the share of JavaScript lines that `map` covers stays small; the core of the system is Java.
