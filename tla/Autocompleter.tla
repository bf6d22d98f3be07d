---------------------------- MODULE Autocompleter ----------------------------
(***************************************************************************)
(* The auto-completing text fields of a page: ajaxAutoCompleter            *)
(* (OfbizUtil.js) driving one jQuery UI autocomplete widget per field.     *)
(* The widgets are independent, but all of them share one global,          *)
(* LAST_AUTOCOMP_REF: the last request, aborted when a newer one starts.   *)
(*                                                                         *)
(* Browser code is single threaded: each event handler is one step; the    *)
(* order of key strokes, timers, answers and failures is free.             *)
(***************************************************************************)
EXTENDS Naturals, Integers, Sequences, FiniteSets, FiniteSetsExt

CONSTANTS Fields,       \* the text fields of the page
          Values,       \* what a field can hold
          Short,        \* those shorter than minLength
          Failures,     \* how a request may fail: subset of FailureKinds
          MaxRequests,  \* bound: requests of one behaviour
          NoField, NoMenu

FailureKinds == {"silent", "http", "cut"}

ASSUME AutocompleterAssumption ==
  /\ IsFiniteSet(Fields) /\ Short \subseteq Values /\ Failures \subseteq FailureKinds
  /\ MaxRequests \in Nat /\ NoField \notin Fields /\ NoMenu \notin Values

VARIABLES
  focus,     \* the field with the keyboard, or NoField
  value,     \* the text of each field
  term,      \* this.term: the text last searched for
  menu,      \* the value whose suggestions are on display, or NoMenu
  timer,     \* this.searching: "off", "plain" or "modified" (a modifier key)
  cancel,    \* this.cancelSearch
  index,     \* this.requestIndex
  pending,   \* this.pending
  loading,   \* the field has the class ui-autocomplete-loading
  requests   \* every jqXHR so far; LAST_AUTOCOMP_REF is the last of them

vars == <<focus, value, term, menu, timer, cancel, index, pending, loading, requests>>
widget == <<term, menu, cancel, index, pending, loading>>

Request == [field : Fields, index : Nat, term : Values,
            status : {"live", "answered", "silent", "http", "cut", "aborted"}]

Live(r) == requests[r].status = "live"

\* jqXHR.readyState is 4 only after an answer with an HTTP status: a cut
\* connection leaves 0, as an abort does.
Done(r) == requests[r].status \in {"answered", "silent", "http"}

Init ==
  /\ focus = NoField
  /\ value \in [Fields -> Short]
  /\ term = value          \* the text the page was rendered with
  /\ menu = [f \in Fields |-> NoMenu]
  /\ timer = [f \in Fields |-> "off"]
  /\ cancel = [f \in Fields |-> FALSE]
  /\ index = [f \in Fields |-> 0]
  /\ pending = [f \in Fields |-> 0]
  /\ loading = [f \in Fields |-> FALSE]
  /\ requests = <<>>

-----------------------------------------------------------------------------
(* The user and the page.                                                  *)

Focus(f) ==
  /\ focus = NoField
  /\ focus' = f
  /\ UNCHANGED <<value, timer, widget, requests>>

\* A key stroke (it may leave the text as it is) restarts the delay.
Type(f, v, key) ==
  /\ focus = f
  /\ value' = [value EXCEPT ![f] = v]
  /\ timer' = [timer EXCEPT ![f] = key]
  /\ UNCHANGED <<focus, widget, requests>>

\* close(): the menu goes and answers that are under way are not shown.
Close(f) ==
  /\ cancel' = [cancel EXCEPT ![f] = TRUE]
  /\ menu' = [menu EXCEPT ![f] = NoMenu]

\* blur stops the delay and closes.
Blur(f) ==
  /\ focus = f
  /\ focus' = NoField
  /\ timer' = [timer EXCEPT ![f] = "off"]
  /\ Close(f)
  /\ UNCHANGED <<value, term, index, pending, loading, requests>>

\* A press of the mouse beside the field and its open menu.
CloseOnClickOutside(f) ==
  /\ menu[f] # NoMenu
  /\ Close(f)
  /\ UNCHANGED <<focus, value, timer, term, index, pending, loading, requests>>

\* Escape restores the searched text.
Escape(f) ==
  /\ focus = f /\ menu[f] # NoMenu
  /\ value' = [value EXCEPT ![f] = term[f]]
  /\ Close(f)
  /\ UNCHANGED <<focus, timer, term, index, pending, loading, requests>>

\* The arrow keys show each suggestion in the field, and past the ends of the
\* menu the searched text again.
Arrow(f, v) ==
  /\ focus = f /\ menu[f] # NoMenu
  /\ value' = [value EXCEPT ![f] = v]
  /\ UNCHANGED <<focus, timer, widget, requests>>

\* menuselect, with ajaxAutoCompleter's select callback.
Select(f, v) ==
  /\ focus = f /\ menu[f] # NoMenu
  /\ value' = [value EXCEPT ![f] = v]
  /\ term' = [term EXCEPT ![f] = v]
  /\ Close(f)
  /\ UNCHANGED <<focus, timer, index, pending, loading, requests>>

-----------------------------------------------------------------------------
(* Searching.                                                              *)

\* Mutant of Superseded: the wrong comparison of readyState.
SupersededDone == requests # <<>> /\ Done(Len(requests))

\* beforeSend aborts the last request of the page, whichever field it is of,
\* unless it is done.
Superseded == requests # <<>> /\ ~ Done(Len(requests))

Abort(rs) ==
  [r \in DOMAIN rs |-> IF r = Len(rs) /\ rs[r].status = "live"
                         THEN [rs[r] EXCEPT !.status = "aborted"] ELSE rs[r]]

\* Mutant of Search: the aborted request is not answered for.
SearchUnanswered(f) ==
  /\ index' = [index EXCEPT ![f] = @ + 1]
  /\ pending' = [pending EXCEPT ![f] = @ + 1]
  /\ loading' = [loading EXCEPT ![f] = TRUE]
  /\ cancel' = [cancel EXCEPT ![f] = FALSE]
  /\ menu' = menu
  /\ requests' = Append(IF Superseded THEN Abort(requests) ELSE requests,
                        [field |-> f, index |-> index[f] + 1,
                         term |-> value[f], status |-> "live"])

\* The request aborted was counted, so its successor calls response([]) at
\* once, which closes the menu and counts one request down.
Search(f) ==
  LET left == pending[f] + (IF Superseded THEN 0 ELSE 1)
      old  == IF Superseded THEN Abort(requests) ELSE requests
  IN /\ index' = [index EXCEPT ![f] = @ + 1]
     /\ pending' = [pending EXCEPT ![f] = left]
     /\ loading' = [loading EXCEPT ![f] = ~ (Superseded /\ left = 0)]
     /\ cancel' = [cancel EXCEPT ![f] = FALSE]
     /\ menu' = [menu EXCEPT ![f] = IF Superseded THEN NoMenu ELSE @]
     /\ requests' = Append(old, [field |-> f, index |-> index[f] + 1,
                                 term |-> value[f], status |-> "live"])

\* search(): the text is remembered even when it is too short to look up.
SearchOrClose(f) ==
  /\ term' = [term EXCEPT ![f] = value[f]]
  /\ \/ /\ value[f] \in Short
        /\ Close(f)
        /\ UNCHANGED <<index, pending, loading, requests>>
     \/ /\ value[f] \notin Short
        /\ Len(requests) < MaxRequests
        /\ Search(f)

\* The delay is over. Unchanged text is looked up again only when no menu is
\* shown for it and no modifier key was held.
DelayEnds(f) ==
  /\ timer[f] # "off"
  /\ timer' = [timer EXCEPT ![f] = "off"]
  /\ IF value[f] # term[f] \/ (menu[f] = NoMenu /\ timer[f] = "plain")
       THEN SearchOrClose(f)
       ELSE UNCHANGED <<widget, requests>>
  /\ UNCHANGED <<focus, value>>

\* An arrow key while no menu is shown looks the text up at once.
ArrowSearches(f) ==
  /\ focus = f /\ menu[f] = NoMenu
  /\ SearchOrClose(f)
  /\ UNCHANGED <<focus, value, timer>>

-----------------------------------------------------------------------------
(* Answers.                                                                *)

\* Only the answer to the field's latest search touches the menu.
IsLatest(r) == requests[r].index = index[requests[r].field]

\* Mutant of Suggests: a late answer opens the menu of a field left behind.
SuggestsAlways(r) == TRUE

\* It opens the menu unless the field was closed since the search.
Suggests(r) == ~ cancel[requests[r].field]

\* _response: called by success when the page defines autocomp. The server
\* always lists an option, at least "no record found".
Answer(r) ==
  LET f == requests[r].field
  IN /\ Live(r)
     /\ requests' = [requests EXCEPT ![r].status = "answered"]
     /\ menu' = IF IsLatest(r)
                  THEN [menu EXCEPT ![f] = IF Suggests(r) THEN requests[r].term ELSE NoMenu]
                  ELSE menu
     /\ pending' = [pending EXCEPT ![f] = @ - 1]
     /\ loading' = [loading EXCEPT ![f] = @ /\ pending[f] # 1]
     /\ UNCHANGED <<focus, value, timer, term, cancel, index>>

\* A page without autocomp (a login form, say), an HTTP error, a connection
\* cut: the response callback is not called.
Fail(r, how) ==
  /\ Live(r)
  /\ requests' = [requests EXCEPT ![r].status = how]
  /\ UNCHANGED <<focus, value, timer, widget>>

Next ==
  \/ \E f \in Fields :
       \/ Focus(f) \/ Blur(f) \/ CloseOnClickOutside(f) \/ Escape(f)
       \/ DelayEnds(f) \/ ArrowSearches(f)
       \/ \E v \in Values : Arrow(f, v) \/ Select(f, v)
       \/ \E v \in Values, key \in {"plain", "modified"} : Type(f, v, key)
  \/ \E r \in DOMAIN requests : Answer(r) \/ \E how \in Failures : Fail(r, how)

Spec == Init /\ [][Next]_vars

-----------------------------------------------------------------------------
(* The types of the variables: each counter and menu belongs to a field    *)
(* (OfbizUtil.js, ajaxAutoCompleter).                                      *)
TypeOK ==
  /\ focus \in Fields \cup {NoField}
  /\ value \in [Fields -> Values] /\ term \in [Fields -> Values]
  /\ menu \in [Fields -> (Values \ Short) \cup {NoMenu}]
  /\ timer \in [Fields -> {"off", "plain", "modified"}]
  /\ cancel \in [Fields -> BOOLEAN] /\ loading \in [Fields -> BOOLEAN]
  /\ index \in [Fields -> Nat] /\ pending \in [Fields -> Int]
  /\ requests \in Seq(Request)

(* Whatever fields the user moves between, the page has at most one look-up *)
(* under way: a newer one aborts the one before it (beforeSend).            *)
OneLookup ==
  \A r, s \in DOMAIN requests : Live(r) /\ Live(s) => r = s

(* No request is lost from the counters of the page as a whole: together   *)
(* they count the requests under way and those whose failure nobody was    *)
(* told of. The requests cut off stay counted until the next search        *)
(* answers for them (beforeSend's response([])).                           *)
PendingBalance ==
  LET Untold == {r \in DOMAIN requests : requests[r].status \in {"silent", "http"}}
      CutNow == {r \in DOMAIN requests : r = Len(requests) /\ requests[r].status = "cut"}
  IN MapThenSumSet(LAMBDA f : pending[f], Fields)
       = Cardinality({r \in DOMAIN requests : Live(r)})
           + Cardinality(Untold) + Cardinality(CutNow)

(* A menu appears only under the field the user is in, and shows the       *)
(* suggestions for the text that field last searched for: an answer that   *)
(* comes after Blur, Select or Escape opens nothing (cancelSearch), and    *)
(* neither does one of an earlier search (requestIndex).                   *)
MenuOpensForFocus ==
  [][\A f \in Fields :
       menu'[f] \notin {NoMenu, menu[f]} => focus' = f /\ menu'[f] = term'[f]]_vars
=============================================================================
