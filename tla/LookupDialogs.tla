---------------------------- MODULE LookupDialogs ----------------------------
(***************************************************************************)
(* The lookup dialogs of a page (fieldlookup.js on jQuery UI dialogs).     *)
(* Each lookup field has a dialog whose content the server sends; content  *)
(* may hold a lookup field of its own, whose dialog opens over it. The     *)
(* global ACTIVATED_LOOKUP and the prevLookup of each lookup tell which    *)
(* field a chosen value belongs to.                                        *)
(*                                                                         *)
(* Event handlers are atomic; requests are answered late, in any order,    *)
(* also after their dialog was closed or opened again.                     *)
(***************************************************************************)
EXTENDS Naturals, Sequences, SequencesExt

CONSTANTS PageFades,    \* the fade-background of each lookup field of the page
          NestedFade,   \* that of the lookup field in their dialogs' content
          MaxLookups,   \* bound: lookups created before the page is reloaded
          MaxInFlight   \* bound: requests under way at a time

ASSUME LookupAssumption ==
  /\ PageFades \in Seq({"true", "false"}) /\ NestedFade \in {"true", "false"}
  /\ MaxLookups \in Nat /\ MaxInFlight \in Nat

VARIABLES
  lookups,    \* GLOBAL_LOOKUP_REF: the lookups by number, never removed
  activated,  \* ACTIVATED_LOOKUP, 0 for null
  open,       \* the open dialogs in the order they were opened
  links,      \* the content of each dialog: "none" (it is empty), "raw" (as
              \* sent), "own" (links and submit redirected to the dialog),
              \* "twice" (redirected again, which breaks the links)
  linkId,     \* the global lookupId that lookupAjaxRequest assigns, 0 before
  requests,   \* the requests under way (overtaken is history, read by no action:
              \* a link was followed for another dialog since)
  spinner,    \* the page's wait spinner is on display
  written     \* the last value chosen: in which dialog, to which lookup's field

vars == <<lookups, activated, open, links, linkId, requests, spinner, written>>

\* The fade-background attribute, rendered as data-lookup-modal, is read with
\* jQuery's data(), which makes "true" and "false" booleans. "true" is then
\* compared, as a boolean, with a string, and false is replaced by the default:
\* each has the effect of the other. The attribute is "true" unless it is set, so
\* that the dialogs of most pages are modeless.
Modal(l) == lookups[l].fade # "true"

IsOpen(l) == l \in ToSet(open)

\* A dialog, and the page (0), can be used unless a modal dialog was opened
\* over it.
Usable(l) ==
  /\ l # 0 => IsOpen(l)
  /\ \A i \in DOMAIN open : Modal(open[i]) => \E j \in i..Len(open) : open[j] = l

NewLookup(fade, home) == [fade |-> fade, home |-> home, prev |-> 0, shown |-> TRUE]

Request(kind, l) == [kind |-> kind, dialog |-> l, overtaken |-> FALSE]

PageLookups == [l \in DOMAIN PageFades |-> NewLookup(PageFades[l], 0)]

Init ==
  /\ lookups = PageLookups
  /\ activated = 0 /\ open = <<>>
  /\ links = [l \in DOMAIN PageFades |-> "none"]
  /\ linkId = 0 /\ requests = <<>> /\ spinner = FALSE
  /\ written = [from |-> 0, to |-> 0]

\* Mutant of Reload: the lookups are registered anew around the open dialogs.
ReloadKeepsDialogs ==
  /\ lookups' = PageLookups
  /\ activated' = 0 /\ linkId' = 0 /\ requests' = <<>> /\ spinner' = FALSE
  /\ links' = [l \in DOMAIN PageFades |-> "none"]
  /\ UNCHANGED <<open, written>>

\* location.reload, and the login page in the place of an answer.
Reload ==
  /\ lookups' = PageLookups
  /\ activated' = 0 /\ open' = <<>>
  /\ links' = [l \in DOMAIN PageFades |-> "none"]
  /\ linkId' = 0 /\ requests' = <<>> /\ spinner' = FALSE
  /\ written' = [from |-> 0, to |-> 0]

-----------------------------------------------------------------------------
(* Opening and closing.                                                    *)

\* The content of l goes, and with it the lookup fields it held. Their dialogs
\* were moved to the page's body: one that is open stays.
WithoutContent(ls, l) ==
  [n \in DOMAIN ls |-> IF ls[n].home = l THEN [ls[n] EXCEPT !.shown = FALSE] ELSE ls[n]]

\* Mutant of Chained: the lookup activated before is forgotten.
Unchained(ls, l) == ls

\* _lookupChaining
Chained(ls, l) == [ls EXCEPT ![l].prev = activated]

\* A click on the button of l opens its dialog. (If it is open already it is
\* only moved to the front.)
Open(l) ==
  /\ lookups[l].shown /\ Usable(lookups[l].home) /\ ~ IsOpen(l)
  /\ Len(requests) < MaxInFlight
  /\ open' = Append(open, l)
  /\ lookups' = Chained(WithoutContent(lookups, l), l)
  /\ activated' = l
  /\ links' = [links EXCEPT ![l] = "none"]
  /\ spinner' = TRUE
  /\ requests' = Append(requests, Request("open", l))
  /\ UNCHANGED <<linkId, written>>

\* Mutant of Back: no lookup is active once a dialog is closed.
BackToNone == 0

\* _dialogClose goes back to the lookup before the ACTIVATED one, whichever
\* dialog is closed.
Back == IF activated = 0 THEN 0 ELSE lookups[activated].prev

Close(l) ==
  \/ \E i \in DOMAIN open :
       /\ open[i] = l
       /\ open' = RemoveAt(open, i)
       /\ activated' = Back
  \/ ~ IsOpen(l) /\ UNCHANGED <<open, activated>>

\* The cross of the title bar, or Escape.
CloseByUser(l) ==
  /\ l # 0 /\ Usable(l)
  /\ Close(l)
  /\ UNCHANGED <<lookups, links, linkId, requests, spinner, written>>

\* A click on the topmost overlay: each dialog opened with it or since has a
\* handler on it, which closes that dialog if it is the activated one.
ClickBackground ==
  /\ \E i \in DOMAIN open :
       /\ Modal(open[i])
       /\ \A j \in (i + 1)..Len(open) : ~ Modal(open[j])
       /\ \E j \in i..Len(open) : open[j] = activated
  /\ Close(activated)
  /\ UNCHANGED <<lookups, links, linkId, requests, spinner, written>>

\* set_value: a click on a result shown in dialog l writes the value to the
\* field of the ACTIVATED lookup and closes that lookup's dialog.
SetValue(l) ==
  /\ l # 0 /\ Usable(l) /\ links[l] # "none"
  /\ written' = [from |-> l, to |-> activated]
  /\ Close(activated)
  /\ UNCHANGED <<lookups, links, linkId, requests, spinner>>

-----------------------------------------------------------------------------
(* Requests for the content of a dialog.                                   *)

\* ButtonModifier: redirect the links and the submit of a dialog's content.
Modified(ks, l) ==
  [ks EXCEPT ![l] = IF @ = "raw" THEN "own" ELSE IF @ = "own" THEN "twice" ELSE @]

\* The content of l is replaced by the answer i.
Show(i, ks, ls) ==
  /\ links' = ks
  /\ lookups' = ls
  /\ requests' = RemoveAt(requests, i)

\* Mutant of SpinnerAfterAnswer: the spinner is left as it is.
SpinnerLeft == spinner

\* waitSpinnerHide, in the dataFilter of the opening request.
SpinnerAfterAnswer == FALSE

\* The content of a dialog of the page comes with a lookup field of its own.
OpenAnswered(i) ==
  LET l == requests[i].dialog
      ls == WithoutContent(lookups, l)
  IN /\ requests[i].kind = "open"
     /\ spinner' = SpinnerAfterAnswer
     /\ \/ /\ lookups[l].home # 0
           /\ Show(i, Modified([links EXCEPT ![l] = "raw"], l), ls)
        \/ /\ lookups[l].home = 0
           /\ Len(lookups) < MaxLookups
           /\ Show(i, Append(Modified([links EXCEPT ![l] = "raw"], l), "none"),
                   Append(ls, NewLookup(NestedFade, l)))
     /\ UNCHANGED <<activated, open, linkId, written>>

\* An error, or no answer within AJAX_REQUEST_TIMEOUT.
OpenFails(i) == requests[i].kind = "open" /\ Reload

\* The submit button, or a page of the pager, of dialog l: the request is for
\* the activated lookup, and lookupId is local.
RequestForm(l) ==
  /\ l # 0 /\ Usable(l) /\ links[l] \in {"own", "twice"} /\ activated # 0
  /\ Len(requests) < MaxInFlight
  /\ requests' = Append(requests, Request("form", activated))
  /\ UNCHANGED <<lookups, activated, open, links, linkId, spinner, written>>

\* The new content's own lookup fields are not bound.
FormAnswered(i) ==
  LET l == requests[i].dialog
  IN /\ requests[i].kind = "form"
     /\ \/ /\ Show(i, Modified([links EXCEPT ![l] = "raw"], l), WithoutContent(lookups, l))
           /\ UNCHANGED <<activated, open, linkId, spinner, written>>
        \/ Reload

FormFails(i) ==
  /\ requests[i].kind = "form"
  /\ requests' = RemoveAt(requests, i)
  /\ UNCHANGED <<lookups, activated, open, links, linkId, spinner, written>>

Overtaken(rs, l) ==
  [i \in DOMAIN rs |-> IF rs[i].kind = "link" /\ rs[i].dialog # l
                       THEN [rs[i] EXCEPT !.overtaken = TRUE] ELSE rs[i]]

\* A redirected link in dialog l: lookupAjaxRequest keeps the dialog it loads
\* in the global lookupId.
RequestLink(l) ==
  /\ l # 0 /\ Usable(l) /\ links[l] = "own" /\ activated # 0
  /\ Len(requests) < MaxInFlight
  /\ linkId' = activated
  /\ requests' = Append(Overtaken(requests, activated), Request("link", activated))
  /\ UNCHANGED <<lookups, activated, open, links, spinner, written>>

\* Mutant of LinkTarget: the dialog in front is taken for the one that loaded.
LinkTargetActivated(i) == IF activated = 0 THEN linkId ELSE activated

\* The dialog whose content the callback of load redirects.
LinkTarget(i) == linkId

LinkAnswered(i) ==
  LET l == requests[i].dialog
  IN /\ requests[i].kind = "link"
     /\ Show(i, Modified([links EXCEPT ![l] = "raw"], LinkTarget(i)),
             WithoutContent(lookups, l))
     /\ UNCHANGED <<activated, open, linkId, spinner, written>>

\* load calls its callback after a failure too.
LinkFails(i) ==
  /\ requests[i].kind = "link"
  /\ Show(i, Modified(links, LinkTarget(i)), lookups)
  /\ UNCHANGED <<activated, open, linkId, spinner, written>>

Next ==
  \/ ClickBackground
  \/ \E l \in DOMAIN lookups :
       Open(l) \/ CloseByUser(l) \/ SetValue(l) \/ RequestForm(l) \/ RequestLink(l)
  \/ \E i \in DOMAIN requests :
       \/ OpenAnswered(i) \/ OpenFails(i) \/ FormAnswered(i) \/ FormFails(i)
       \/ LinkAnswered(i) \/ LinkFails(i)

Spec == Init /\ [][Next]_vars

-----------------------------------------------------------------------------
(* The types of the variables (fieldlookup.js, the globals and Lookup).    *)
TypeOK ==
  /\ lookups \in Seq([fade : {"true", "false"}, home : 0..Len(PageFades),
                      prev : 0..Len(lookups), shown : BOOLEAN])
  /\ activated \in 0..Len(lookups) /\ linkId \in 0..Len(lookups)
  /\ open \in Seq(DOMAIN lookups)
  /\ links \in [DOMAIN lookups -> {"none", "raw", "own", "twice"}]
  /\ requests \in Seq([kind : {"open", "form", "link"}, dialog : DOMAIN lookups,
                       overtaken : BOOLEAN])
  /\ spinner \in BOOLEAN
  /\ written \in [from : 0..Len(lookups), to : 0..Len(lookups)]

(* From the activated lookup, prevLookup leads through exactly the open    *)
(* dialogs, the newest first.                                              *)
ChainIsStack ==
  /\ activated = (IF open = <<>> THEN 0 ELSE Last(open))
  /\ \A i \in DOMAIN open : lookups[open[i]].prev = (IF i = 1 THEN 0 ELSE open[i - 1])

(* "set up the window chaining" (fieldlookup.js:343): whatever is opened,  *)
(* closed, chosen and answered, only the close of a dialog with a newer    *)
(* one open can make prevLookup lose the order of the open dialogs.        *)
ChainBreaksOutOfOrder ==
  [][ChainIsStack /\ ~ ChainIsStack' =>
       \E i \in DOMAIN open : i < Len(open) /\ open' = RemoveAt(open, i)]_vars

(* "This code inserts the value lookedup by a popup window back into the   *)
(* associated form element" (fieldlookup.js:687): never into another's.    *)
ValueGoesToItsField == written.from = written.to

(* The wait spinner goes with the last dialog it waits for: it is never    *)
(* left on display with no opening request under way, also when dialogs    *)
(* were closed or opened again before their content came.                  *)
SpinnerIsAwaited ==
  spinner => \E i \in DOMAIN requests : requests[i].kind = "open"

(* The links of a dialog's content come to lead out of the page only with  *)
(* the answer to a link followed for that dialog, and only if a link was   *)
(* followed for another dialog while that answer was under way             *)
(* (lookupAjaxRequest's global lookupId); the content that opens a dialog, *)
(* a search or a page of the pager always has its links redirected.        *)
RawOnlyIfOvertaken ==
  [][\A l \in DOMAIN lookups :
       l \in DOMAIN links' /\ links'[l] = "raw" /\ links[l] # "raw" =>
         \E i \in DOMAIN requests :
           /\ requests[i].kind = "link" /\ requests[i].dialog = l
           /\ requests[i].overtaken
           /\ requests' = RemoveAt(requests, i)]_vars
=============================================================================
