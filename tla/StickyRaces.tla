---------------------------- MODULE StickyRaces ----------------------------
(***************************************************************************)
(* StickySession with a history variable, for the program as it runs: the  *)
(* steps of requests, session ends and clearDraft in any order.            *)
(*                                                                         *)
(* overtaken holds the clients whose request in progress has been          *)
(* overtaken: since one of its own steps another step has changed the      *)
(* entity, or a draft of it, that the request works on.  No handler looks  *)
(* for that (nothing locks what it has read and no commit compares), so a  *)
(* request that is overtaken may do what its checks are there to prevent.  *)
(* The properties say how far that goes: no other request does it, however *)
(* many run at the same time.                                              *)
(***************************************************************************)
EXTENDS StickySession

VARIABLE overtaken

rvars == <<vars, overtaken>>

(* The step changes the entity k, a draft or draft row of it, or draft u.  *)
Touches(k, u) ==
    \/ real'[k] # real[k]
    \/ \E w \in UUIDs :
          /\ admin'[w] # admin[w] \/ row'[w] # row[w]
          /\ \/ w = u
             \/ admin[w] # None /\ admin[w].key = k
             \/ admin'[w] # None /\ admin'[w].key = k
             \/ row[w] # None /\ row[w].key = k
             \/ row'[w] # None /\ row'[w].key = k

(* The step is not one of the client's and changes what its request uses.  *)
Overtakes(c) == req'[c] = req[c] /\ Touches(req[c].key, req[c].id)

RInit == Init /\ overtaken = {}

RNext ==
    /\ Next
    /\ overtaken' = {c \in Clients : /\ ~At(c, "idle")
                                     /\ req'[c].pc # "idle"
                                     /\ c \in overtaken \/ Overtakes(c)}

RSpec == RInit /\ [][RNext]_rvars

-----------------------------------------------------------------------------
(* Properties.                                                             *)

(* Type correctness of the whole state. *)
RTypeOK == TypeOK /\ overtaken \subseteq {c \in Clients : ~At(c, "idle")}

(* The step is the last one of the client's request. *)
Ends(c) == ~At(c, "idle") /\ req'[c].pc = "idle"

(* What a Save is about to commit has passed verifyProperty, unless the    *)
(* Save is overtaken: persistentMainEntity reads the draft a second time,  *)
(* and a PATCH between the two reads is committed unverified.              *)
SavedWasVerified ==
    \A c \in Clients \ overtaken :
        req[c].pc \in CommitSteps => req[c].val \in Valid

(* The commit that clears a live draft leaves in the real database what    *)
(* the draft holds at that moment, unless the Save is overtaken: a PATCH   *)
(* after persistentMainEntity's read is acknowledged and then dropped.     *)
SavedIsTheDraft ==
    [][\A c \in Clients \ overtaken :
          /\ req[c].pc \in CommitSteps /\ Ends(c)
          /\ Live(req[c].id) /\ admin'[req[c].id] = None
          => real'[req[c].key] = row[req[c].id].val]_rvars

(* An EditAction about to make a draft of an entity makes the only one,    *)
(* unless it is overtaken: its look-up found none.                         *)
EditFindsNoDraft ==
    \A c \in Clients \ overtaken :
        At(c, "editCopy") => DraftsOf(req[c].key) = {}

(* An EditAction that is not overtaken returns a live draft, and one of    *)
(* its own user unless the entity has several drafts already, of which     *)
(* otherUsersAreEditing and stickySessionEditAction each take any.         *)
EditTakesOwnDraft ==
    \A c \in Clients \ overtaken :
        At(c, "editReuse") =>
            /\ Live(req[c].id)
            /\ \/ admin[req[c].id].user = UserOf[c]
               \/ \E w \in DraftsOf(req[c].key) : w # req[c].id

(* A draft that NewAction made, of an entity that exists by now: its Save  *)
(* is to update what somebody else created.                                *)
Overrun(u) ==
    admin[u] # None /\ row[u] # None /\ ~row[u].hasActive /\ real[admin[u].key] # None

(* checkPrimaryKeyConflict runs once, in NewAction.  After it only the     *)
(* Save of another draft of the same key can create the entity first, or   *)
(* an EditAction takes up the row of a new draft that clearDraft has left. *)
NewIsOverrunBySave ==
    [][\A u \in UUIDs :
          ~Overrun(u) /\ Overrun(u)' =>
             \/ \E c \in Clients : /\ At(c, "commitCreate") /\ Ends(c)
                                   /\ req[c].key = admin[u].key /\ req[c].id # u
             \/ admin[u] = None /\ row[u] # None]_rvars

(* A draft whose user has no session left and that no sweep has listed:    *)
(* its entity stays locked for everyone until clearDraft runs.             *)
Orphan(u) ==
    /\ admin[u] # None
    /\ \A c \in Clients : UserOf[c] = admin[u].user => ~alive[c] /\ u \notin sweep[c]

(* Only an EditAction or NewAction that outlives its session leaves such a *)
(* draft: sessionDestroyed sees every draft committed before it runs.      *)
OrphansAreBornLate ==
    [][\A u \in UUIDs :
          ~Orphan(u) /\ Orphan(u)' =>
             \E c \in Clients : /\ req[c].pc \in {"editCopy", "new"} /\ Ends(c)
                                /\ req[c].id = u /\ ~alive[c]]_rvars
=============================================================================
