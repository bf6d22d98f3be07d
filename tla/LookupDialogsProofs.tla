------------------------- MODULE LookupDialogsProofs -------------------------
(***************************************************************************)
(* Pages of any number of lookup fields, with any fade-backgrounds.  That  *)
(* only the close of a dialog under a newer one breaks the chain of        *)
(* prevLookup, and that links come to lead out of the page only by a link  *)
(* overtaken by one in another dialog, rest on two facts no step changes:  *)
(* a dialog is open once, and lookupId is the dialog of every link request *)
(* under way that was not overtaken.                                       *)
(***************************************************************************)
EXTENDS LookupDialogs, TLAPS, SequenceTheorems

(* A dialog is open once.                                                  *)
OpenOnce == \A i, j \in DOMAIN open : open[i] = open[j] => i = j

(* The lookups of no dialog are those the page was loaded with.            *)
HomeIsPage == \A l \in DOMAIN lookups : lookups[l].home = 0 => l \in DOMAIN PageFades

(* A link request of rs that was not overtaken is for the dialog id.       *)
LoadsInto(rs, id) ==
  \A i \in DOMAIN rs : rs[i].kind = "link" /\ ~ rs[i].overtaken => rs[i].dialog = id

IInv == TypeOK /\ OpenOnce /\ HomeIsPage /\ LoadsInto(requests, linkId)

Fade == {"true", "false"}
Lookup(n) == [fade : Fade, home : 0..Len(PageFades), prev : 0..n, shown : BOOLEAN]
Mark == {"none", "raw", "own", "twice"}
Req(n) == [kind : {"open", "form", "link"}, dialog : 1..n, overtaken : BOOLEAN]

-----------------------------------------------------------------------------
(* What RemoveAt leaves of a sequence.                                     *)
LEMMA RemoveAtSeq ==
  ASSUME NEW S, NEW s \in Seq(S), NEW i \in DOMAIN s
  PROVE  /\ RemoveAt(s, i) \in Seq(S) /\ Len(RemoveAt(s, i)) = Len(s) - 1
         /\ \A j \in 1..(Len(s) - 1) : RemoveAt(s, i)[j] = IF j < i THEN s[j] ELSE s[j + 1]
<1> DEFINE a == SubSeq(s, 1, i - 1)
           b == SubSeq(s, i + 1, Len(s))
           c == a \o b
<1>1. Len(s) \in Nat /\ DOMAIN s = 1..Len(s) /\ i \in 1..Len(s) OBVIOUS
<1>2. a \in Seq(S) /\ Len(a) = i - 1 /\ \A j \in 1..(i - 1) : a[j] = s[j] BY <1>1
<1>3. b \in Seq(S) /\ Len(b) = Len(s) - i /\ \A j \in 1..(Len(s) - i) : b[j] = s[i + j]
  BY <1>1
<1>4. RemoveAt(s, i) = c BY DEF RemoveAt
<1> HIDE DEF a, b
<1>s. a \in Seq(S) /\ b \in Seq(S) BY <1>2, <1>3
<1>5. c \in Seq(S) /\ Len(c) = Len(a) + Len(b) BY <1>s
<1>6. /\ \A j \in 1..Len(a) : c[j] = a[j]
      /\ \A j \in 1..Len(b) : c[Len(a) + j] = b[j]
  BY <1>s
<1> HIDE DEF c
<1>7. ASSUME NEW j \in 1..(Len(s) - 1) PROVE c[j] = IF j < i THEN s[j] ELSE s[j + 1]
  <2>1. CASE j < i
    <3>1. j \in 1..(i - 1) BY <1>1, <2>1
    <3> QED BY <1>2, <1>6, <2>1, <3>1
  <2>2. CASE ~ (j < i)
    <3> DEFINE k == j - (i - 1)
    <3>1. k \in 1..(Len(s) - i) /\ (i - 1) + k = j /\ i + k = j + 1 BY <1>1, <2>2
    <3> HIDE DEF k
    <3>2. c[j] = b[k] BY <1>2, <1>3, <1>6, <3>1
    <3> QED BY <1>3, <2>2, <3>1, <3>2
  <2> QED BY <2>1, <2>2
<1>8. Len(c) = Len(s) - 1 BY <1>1, <1>2, <1>3, <1>5
<1> QED BY <1>4, <1>5, <1>7, <1>8

(* A sequence over a set is one over every larger set.                     *)
LEMMA SeqMonotone ==
  ASSUME NEW S, NEW T, S \subseteq T, NEW s \in Seq(S)
  PROVE  s \in Seq(T)
<1>1. s = [i \in 1..Len(s) |-> s[i]] /\ Len(s) \in Nat OBVIOUS
<1>2. \A i \in 1..Len(s) : s[i] \in T OBVIOUS
<1> QED BY <1>1, <1>2

(* A function on 1..n is a sequence.                                       *)
LEMMA FunctionIsSeq ==
  ASSUME NEW S, NEW n \in Nat, NEW f \in [1..n -> S]
  PROVE  f \in Seq(S) /\ Len(f) = n
OBVIOUS

(* A sequence is a function on 1..n.                                       *)
LEMMA SeqIsFunction ==
  ASSUME NEW S, NEW s \in Seq(S)
  PROVE  s \in [1..Len(s) -> S]
OBVIOUS

(* A sequence with an element added.                                       *)
LEMMA AppendSeq ==
  ASSUME NEW S, NEW s \in Seq(S), NEW x \in S
  PROVE  /\ Append(s, x) \in Seq(S) /\ Len(Append(s, x)) = Len(s) + 1
         /\ Append(s, x)[Len(s) + 1] = x
         /\ \A m \in 1..Len(s) : Append(s, x)[m] = s[m]
OBVIOUS

(* The lookup fields of the page.                                          *)
LEMMA PageFadesType ==
  /\ PageFades \in Seq(Fade) /\ Len(PageFades) \in Nat /\ DOMAIN PageFades = 1..Len(PageFades)
  /\ \A l \in 1..Len(PageFades) : PageFades[l] \in Fade
<1>1. PageFades \in Seq(Fade) BY LookupAssumption DEF Fade
<1> QED BY <1>1

(* The types of the variables, spelled out.                                *)
LEMMA Types ==
  ASSUME TypeOK
  PROVE  /\ Len(lookups) \in Nat /\ DOMAIN lookups = 1..Len(lookups)
         /\ lookups \in Seq(Lookup(Len(lookups)))
         /\ \A l \in 1..Len(lookups) : lookups[l] \in Lookup(Len(lookups))
         /\ Len(open) \in Nat /\ DOMAIN open = 1..Len(open)
         /\ open \in Seq(1..Len(lookups))
         /\ \A i \in 1..Len(open) : open[i] \in 1..Len(lookups)
         /\ open = <<>> <=> Len(open) = 0
         /\ activated \in 0..Len(lookups) /\ linkId \in 0..Len(lookups)
         /\ links \in [1..Len(lookups) -> Mark] /\ spinner \in BOOLEAN
         /\ requests \in Seq(Req(Len(lookups)))
         /\ written \in [from : 0..Len(lookups), to : 0..Len(lookups)]
<1>1. lookups \in Seq(Lookup(Len(lookups))) BY DEF TypeOK, Lookup, Fade
<1>2. /\ Len(lookups) \in Nat /\ DOMAIN lookups = 1..Len(lookups)
      /\ \A l \in 1..Len(lookups) : lookups[l] \in Lookup(Len(lookups))
  BY <1>1
<1>3. open \in Seq(1..Len(lookups)) BY <1>2 DEF TypeOK
<1>4. /\ Len(open) \in Nat /\ DOMAIN open = 1..Len(open)
      /\ \A i \in 1..Len(open) : open[i] \in 1..Len(lookups)
      /\ open = <<>> <=> Len(open) = 0
  BY <1>3
<1>5. /\ activated \in 0..Len(lookups) /\ linkId \in 0..Len(lookups)
      /\ links \in [1..Len(lookups) -> Mark] /\ spinner \in BOOLEAN
      /\ requests \in Seq(Req(Len(lookups)))
      /\ written \in [from : 0..Len(lookups), to : 0..Len(lookups)]
  BY <1>2 DEF TypeOK, Mark, Req
<1> QED BY <1>1, <1>2, <1>3, <1>4, <1>5

(* The page as it is loaded.                                               *)
LEMMA PageIInv ==
  ASSUME Reload PROVE IInv'
<1>1. /\ PageFades \in Seq(Fade) /\ Len(PageFades) \in Nat /\ DOMAIN PageFades = 1..Len(PageFades)
      /\ \A l \in 1..Len(PageFades) : PageFades[l] \in Fade
  BY PageFadesType
<1>2. /\ DOMAIN lookups' = 1..Len(PageFades)
      /\ \A l \in 1..Len(PageFades) :
           lookups'[l] = [fade |-> PageFades[l], home |-> 0, prev |-> 0, shown |-> TRUE]
  BY <1>1 DEF Reload, PageLookups, NewLookup
<1>3. ASSUME NEW l \in 1..Len(PageFades) PROVE lookups'[l] \in Lookup(Len(PageFades))
  <2>1. PageFades[l] \in Fade /\ 0 \in 0..Len(PageFades) BY <1>1
  <2>2. lookups'[l] = [fade |-> PageFades[l], home |-> 0, prev |-> 0, shown |-> TRUE] BY <1>2
  <2> QED BY <2>1, <2>2 DEF Lookup
<1>4. lookups' \in Seq(Lookup(Len(PageFades))) /\ Len(lookups') = Len(PageFades)
  <2>1. lookups' = [l \in 1..Len(PageFades) |-> lookups'[l]] BY <1>1, <1>2 DEF Reload, PageLookups
  <2> QED BY <1>1, <1>2, <1>3, <2>1
<1>5. TypeOK'
  <2>1. lookups' \in Seq([fade : {"true", "false"}, home : 0..Len(PageFades),
                          prev : 0..Len(lookups'), shown : BOOLEAN])
    BY <1>4 DEF Lookup, Fade
  <2>2. activated' \in 0..Len(lookups') /\ linkId' \in 0..Len(lookups')
        /\ written' \in [from : 0..Len(lookups'), to : 0..Len(lookups')]
    BY <1>1, <1>4 DEF Reload
  <2>3. /\ open' \in Seq(DOMAIN lookups') /\ spinner' \in BOOLEAN
        /\ requests' \in Seq([kind : {"open", "form", "link"}, dialog : DOMAIN lookups',
                             overtaken : BOOLEAN])
    <3>1. \A S : <<>> \in Seq(S) OBVIOUS
    <3> QED BY <3>1 DEF Reload
  <2>4. links' \in [DOMAIN lookups' -> {"none", "raw", "own", "twice"}]
    BY <1>1, <1>2 DEF Reload
  <2> QED BY <2>1, <2>2, <2>3, <2>4 DEF TypeOK
<1>6. OpenOnce' /\ HomeIsPage' /\ LoadsInto(requests, linkId)'
  BY <1>1, <1>2 DEF OpenOnce, HomeIsPage, LoadsInto, Reload
<1> QED BY <1>5, <1>6 DEF IInv

-----------------------------------------------------------------------------
(* The requests under way.                                                 *)

(* An answer takes a request away.                                         *)
LEMMA LoadsIntoRemove ==
  ASSUME NEW S, NEW rs \in Seq(S), NEW i \in DOMAIN rs, NEW id, LoadsInto(rs, id)
  PROVE  LoadsInto(RemoveAt(rs, i), id)
<1>1. RemoveAt(rs, i) \in Seq(S) /\ Len(RemoveAt(rs, i)) = Len(rs) - 1 BY RemoveAtSeq
<1>2. ASSUME NEW j \in DOMAIN RemoveAt(rs, i)
      PROVE  \E k \in DOMAIN rs : RemoveAt(rs, i)[j] = rs[k]
  <2>1. j \in 1..(Len(rs) - 1) /\ Len(rs) \in Nat /\ DOMAIN rs = 1..Len(rs) BY <1>1, <1>2
  <2>2. RemoveAt(rs, i)[j] = IF j < i THEN rs[j] ELSE rs[j + 1] BY <2>1, RemoveAtSeq
  <2>3. j \in 1..Len(rs) /\ j + 1 \in 1..Len(rs) BY <2>1
  <2> QED BY <2>1, <2>2, <2>3
<1> QED BY <1>2 DEF LoadsInto

(* A request for a dialog's content or form changes no link request.       *)
LEMMA LoadsIntoAppend ==
  ASSUME NEW S, NEW rs \in Seq(S), NEW r \in S, r.kind # "link", NEW id, LoadsInto(rs, id)
  PROVE  LoadsInto(Append(rs, r), id)
<1>1. ASSUME NEW j \in DOMAIN Append(rs, r)
      PROVE  Append(rs, r)[j] = r \/ (j \in DOMAIN rs /\ Append(rs, r)[j] = rs[j])
  OBVIOUS
<1> QED BY <1>1 DEF LoadsInto

(* A link request overtakes those for other dialogs.                       *)
LEMMA LoadsIntoLink ==
  ASSUME NEW n \in Nat, NEW rs \in Seq(Req(n)), NEW l \in 1..n
  PROVE  /\ Append(Overtaken(rs, l), Request("link", l)) \in Seq(Req(n))
         /\ LoadsInto(Append(Overtaken(rs, l), Request("link", l)), l)
<1> DEFINE os == Overtaken(rs, l)
           r == Request("link", l)
<1>1. Len(rs) \in Nat /\ DOMAIN rs = 1..Len(rs) /\ \A i \in 1..Len(rs) : rs[i] \in Req(n)
  OBVIOUS
<1>2. ASSUME NEW i \in 1..Len(rs)
      PROVE  os[i] \in Req(n) /\ (os[i].kind = "link" /\ ~ os[i].overtaken => os[i].dialog = l)
  <2>1. os[i] = IF rs[i].kind = "link" /\ rs[i].dialog # l
                THEN [rs[i] EXCEPT !.overtaken = TRUE] ELSE rs[i]
    BY <1>1 DEF Overtaken
  <2>2. rs[i] \in Req(n) BY <1>1
  <2> HIDE DEF os
  <2> QED BY <2>1, <2>2 DEF Req
<1>3. os = [i \in 1..Len(rs) |-> os[i]] BY <1>1 DEF Overtaken
<1>4. r \in Req(n) /\ r.dialog = l BY DEF Request, Req
<1> HIDE DEF os, r
<1>5. os \in [1..Len(rs) -> Req(n)] BY <1>2, <1>3
<1>6. os \in Seq(Req(n)) /\ Len(os) = Len(rs) BY <1>1, <1>5, FunctionIsSeq
<1>7. ASSUME NEW i \in DOMAIN Append(os, r)
      PROVE  Append(os, r)[i] = r \/ (i \in 1..Len(rs) /\ Append(os, r)[i] = os[i])
  BY <1>4, <1>6
<1>8. LoadsInto(Append(os, r), l) BY <1>2, <1>4, <1>7 DEF LoadsInto
<1>9. Append(os, r) \in Seq(Req(n)) BY <1>4, <1>6
<1> QED BY <1>8, <1>9 DEF os, r

-----------------------------------------------------------------------------
(* The invariant, step by step.                                            *)

(* Closing a dialog, whichever it is.                                      *)
LEMMA ClosePreserves ==
  ASSUME IInv, NEW l, Close(l), UNCHANGED <<lookups, links, linkId, requests, spinner>>,
         written' \in [from : 0..Len(lookups), to : 0..Len(lookups)]
  PROVE  IInv'
<1> DEFINE n == Len(open)
<1>1. /\ n \in Nat /\ DOMAIN open = 1..n /\ open \in Seq(1..Len(lookups))
      /\ Len(lookups) \in Nat /\ DOMAIN lookups = 1..Len(lookups)
      /\ \A m \in 1..Len(lookups) : lookups[m] \in Lookup(Len(lookups))
      /\ activated \in 0..Len(lookups)
  BY Types DEF IInv
<1>2. CASE UNCHANGED <<open, activated>>
  <2>1. TypeOK' BY <1>2 DEF IInv, TypeOK
  <2> QED BY <1>2, <2>1 DEF IInv, OpenOnce, HomeIsPage, LoadsInto
<1>3. ASSUME NEW i \in DOMAIN open, open' = RemoveAt(open, i), activated' = Back PROVE IInv'
  <2>1. /\ open' \in Seq(1..Len(lookups)) /\ Len(open') = n - 1
        /\ \A j \in 1..(n - 1) : open'[j] = IF j < i THEN open[j] ELSE open[j + 1]
    BY <1>1, <1>3, RemoveAtSeq
  <2>2. activated' \in 0..Len(lookups)
    <3>1. activated # 0 => lookups[activated].prev \in 0..Len(lookups)
      <4>1. activated # 0 => lookups[activated] \in Lookup(Len(lookups)) BY <1>1
      <4> QED BY <4>1 DEF Lookup
    <3> QED BY <1>1, <1>3, <3>1 DEF Back
  <2>3. TypeOK' BY <1>1, <2>1, <2>2 DEF IInv, TypeOK
  <2>4. OpenOnce'
    <3> HIDE DEF n
    <3>1. DOMAIN open' = 1..(n - 1) BY <2>1
    <3>2. ASSUME NEW j \in 1..(n - 1), NEW k \in 1..(n - 1), open'[j] = open'[k] PROVE j = k
      <4> DEFINE J == IF j < i THEN j ELSE j + 1
                 K == IF k < i THEN k ELSE k + 1
      <4>1. J \in 1..n /\ K \in 1..n BY <1>1
      <4>2. open[J] = open[K] BY <2>1, <3>2
      <4>3. J = K BY <1>1, <4>1, <4>2 DEF IInv, OpenOnce
      <4> QED BY <1>1, <1>3, <4>3
    <3> QED BY <3>1, <3>2 DEF OpenOnce
  <2> QED BY <2>3, <2>4 DEF IInv, HomeIsPage, LoadsInto
<1> QED BY <1>2, <1>3 DEF Close

(* Answers change what dialogs show and may bring new lookups, but not the *)
(* open dialogs.                                                           *)
LEMMA ContentPreserves ==
  ASSUME IInv,
         lookups' \in Seq(Lookup(Len(lookups'))), Len(lookups) <= Len(lookups'),
         \A l \in 1..Len(lookups) : lookups'[l].home = lookups[l].home,
         \A l \in (Len(lookups) + 1)..Len(lookups') : lookups'[l].home # 0,
         links' \in [1..Len(lookups') -> Mark],
         requests' \in Seq(Req(Len(lookups'))), LoadsInto(requests', linkId'),
         linkId' \in 0..Len(lookups'), spinner' \in BOOLEAN,
         UNCHANGED <<activated, open, written>>
  PROVE  IInv'
<1>1. /\ Len(lookups) \in Nat /\ DOMAIN lookups = 1..Len(lookups)
      /\ open \in Seq(1..Len(lookups))
  BY Types DEF IInv
<1>2. Len(lookups') \in Nat /\ DOMAIN lookups' = 1..Len(lookups') OBVIOUS
<1>3. TypeOK'
  <2>1. open' \in Seq(1..Len(lookups'))
    <3>1. 1..Len(lookups) \subseteq 1..Len(lookups') BY <1>1, <1>2
    <3> QED BY <1>1, <3>1, SeqMonotone
  <2>2. activated' \in 0..Len(lookups') /\ written' \in [from : 0..Len(lookups'), to : 0..Len(lookups')]
    <3>1. activated \in 0..Len(lookups) /\ written \in [from : 0..Len(lookups), to : 0..Len(lookups)]
      BY Types DEF IInv
    <3>2. 0..Len(lookups) \subseteq 0..Len(lookups') BY <1>1, <1>2
    <3> QED BY <3>1, <3>2
  <2>3. /\ lookups' \in Seq([fade : {"true", "false"}, home : 0..Len(PageFades),
                             prev : 0..Len(lookups'), shown : BOOLEAN])
        /\ links' \in [DOMAIN lookups' -> {"none", "raw", "own", "twice"}]
        /\ requests' \in Seq([kind : {"open", "form", "link"}, dialog : DOMAIN lookups',
                              overtaken : BOOLEAN])
    BY <1>2 DEF Lookup, Fade, Mark, Req
  <2> QED BY <1>2, <2>1, <2>2, <2>3 DEF TypeOK
<1>4. ASSUME NEW l \in DOMAIN lookups' PROVE lookups'[l].home = 0 => l \in DOMAIN PageFades
  <2>1. CASE l \in 1..Len(lookups) BY <1>1, <2>1 DEF IInv, HomeIsPage
  <2>2. CASE l \in (Len(lookups) + 1)..Len(lookups') BY <2>2
  <2> QED BY <1>1, <1>2, <2>1, <2>2
<1>5. HomeIsPage' /\ OpenOnce' BY <1>4 DEF HomeIsPage, IInv, OpenOnce
<1>6. LoadsInto(requests, linkId)' BY DEF LoadsInto
<1> QED BY <1>3, <1>5, <1>6 DEF IInv

(* What the loss of a dialog's content leaves of the lookups.              *)
LEMMA WithoutContentKeeps ==
  ASSUME NEW n \in Nat, NEW ls \in Seq(Lookup(n)), NEW l
  PROVE  /\ WithoutContent(ls, l) \in Seq(Lookup(n))
         /\ Len(WithoutContent(ls, l)) = Len(ls)
         /\ \A m \in 1..Len(ls) :
              /\ WithoutContent(ls, l)[m].fade = ls[m].fade
              /\ WithoutContent(ls, l)[m].home = ls[m].home
              /\ WithoutContent(ls, l)[m].prev = ls[m].prev
<1> DEFINE ws == WithoutContent(ls, l)
<1>1. \A m \in 1..Len(ls) : ls[m] \in Lookup(n) OBVIOUS
<1>2. ASSUME NEW m \in 1..Len(ls)
      PROVE  /\ ws[m] \in Lookup(n) /\ ws[m].fade = ls[m].fade
             /\ ws[m].home = ls[m].home /\ ws[m].prev = ls[m].prev
  <2>1. ls[m] \in Lookup(n) /\ m \in DOMAIN ls BY <1>1
  <2>2. ws[m] = IF ls[m].home = l THEN [ls[m] EXCEPT !.shown = FALSE] ELSE ls[m]
    BY <2>1 DEF WithoutContent
  <2> HIDE DEF ws
  <2> QED BY <2>1, <2>2 DEF Lookup
<1>3. ws = [m \in 1..Len(ls) |-> ws[m]] /\ Len(ls) \in Nat BY DEF WithoutContent
<1> HIDE DEF ws
<1>4. ws \in Seq(Lookup(n)) /\ Len(ws) = Len(ls) BY <1>2, <1>3
<1> QED BY <1>2, <1>4 DEF ws

(* Redirecting the links of a dialog.                                      *)
LEMMA ModifiedKeeps ==
  ASSUME NEW D, NEW ks \in [D -> Mark], NEW l
  PROVE  Modified(ks, l) \in [D -> Mark]
BY DEF Modified, Mark

(* A click on a lookup's button opens its dialog.                          *)
LEMMA OpenPreserves ==
  ASSUME IInv, NEW l \in DOMAIN lookups, Open(l) PROVE IInv'
<1> DEFINE n == Len(open)
           ls == WithoutContent(lookups, l)
<1>1. /\ Len(lookups) \in Nat /\ DOMAIN lookups = 1..Len(lookups)
      /\ lookups \in Seq(Lookup(Len(lookups)))
      /\ n \in Nat /\ DOMAIN open = 1..n /\ open \in Seq(1..Len(lookups))
      /\ \A i \in 1..n : open[i] \in 1..Len(lookups)
      /\ open = <<>> <=> n = 0
  BY Types DEF IInv
<1>2. /\ ls \in Seq(Lookup(Len(lookups))) /\ Len(ls) = Len(lookups)
      /\ \A m \in 1..Len(lookups) : ls[m].home = lookups[m].home
  BY <1>1, WithoutContentKeeps
<1>3. /\ lookups' = [ls EXCEPT ![l].prev = activated] /\ open' = Append(open, l)
      /\ activated' = l /\ l \in 1..Len(lookups)
      /\ \A i \in 1..n : open[i] # l
  BY <1>1 DEF Open, Chained, IsOpen, ToSet
<1>4. activated \in 0..Len(lookups) BY <1>1 DEF IInv, TypeOK
<1> HIDE DEF n, ls
<1>5. ASSUME NEW m \in 1..Len(lookups)
      PROVE  /\ lookups'[m] \in Lookup(Len(lookups))
             /\ lookups'[m].home = lookups[m].home
  <2>1. ls[m] \in Lookup(Len(lookups)) /\ m \in DOMAIN ls BY <1>2
  <2> QED BY <1>2, <1>3, <1>4, <2>1 DEF Lookup
<1>6. lookups' \in Seq(Lookup(Len(lookups))) /\ Len(lookups') = Len(lookups)
      /\ DOMAIN lookups' = 1..Len(lookups)
  <2>1. ls \in [1..Len(lookups) -> Lookup(Len(lookups))] BY <1>2
  <2>2. lookups' \in [1..Len(lookups) -> Lookup(Len(lookups))] BY <1>3, <1>5, <2>1
  <2> QED BY <1>1, <2>2, FunctionIsSeq
<1>7. /\ open' \in Seq(1..Len(lookups)) /\ Len(open') = n + 1 /\ DOMAIN open' = 1..(n + 1)
      /\ open'[n + 1] = l /\ \A i \in 1..n : open'[i] = open[i]
  <2>1. n = Len(open) BY DEF n
  <2> QED BY <1>1, <1>3, <2>1
<1>q. requests' \in Seq(Req(Len(lookups))) /\ LoadsInto(requests', linkId')
  <2>1. requests \in Seq(Req(Len(lookups))) BY Types DEF IInv
  <2>2. Request("open", l) \in Req(Len(lookups)) /\ Request("open", l).kind # "link"
    BY <1>3 DEF Req, Request
  <2>3. requests' = Append(requests, Request("open", l)) /\ linkId' = linkId BY DEF Open
  <2>4. LoadsInto(requests, linkId) BY DEF IInv
  <2>5. LoadsInto(Append(requests, Request("open", l)), linkId)
    BY <2>1, <2>2, <2>4, LoadsIntoAppend
  <2> QED BY <2>1, <2>2, <2>3, <2>5
<1>8. TypeOK'
  <2>1. lookups' \in Seq([fade : {"true", "false"}, home : 0..Len(PageFades),
                          prev : 0..Len(lookups'), shown : BOOLEAN])
    BY <1>6 DEF Lookup, Fade
  <2>2. requests' \in Seq([kind : {"open", "form", "link"}, dialog : DOMAIN lookups',
                           overtaken : BOOLEAN])
    <3> QED BY <1>6, <1>q DEF Req
  <2>3. /\ activated' \in 0..Len(lookups') /\ open' \in Seq(DOMAIN lookups')
    BY <1>1, <1>3, <1>6, <1>7
  <2>4. /\ links' \in [DOMAIN lookups' -> {"none", "raw", "own", "twice"}]
        /\ linkId' \in 0..Len(lookups') /\ spinner' \in BOOLEAN
        /\ written' \in [from : 0..Len(lookups'), to : 0..Len(lookups')]
    BY <1>1, <1>6 DEF Open, IInv, TypeOK
  <2> QED BY <2>1, <2>2, <2>3, <2>4 DEF TypeOK
<1>9. HomeIsPage' BY <1>1, <1>5, <1>6 DEF IInv, HomeIsPage
<1>10. OpenOnce'
  <2>1. ASSUME NEW i \in 1..(n + 1), NEW j \in 1..(n + 1), open'[i] = open'[j] PROVE i = j
    <3>1. CASE i \in 1..n /\ j \in 1..n BY <1>1, <1>7, <2>1, <3>1 DEF IInv, OpenOnce
    <3>2. CASE i = n + 1 \/ j = n + 1 BY <1>1, <1>3, <1>7, <2>1, <3>2
    <3> QED BY <1>1, <3>1, <3>2
  <2> QED BY <1>7, <2>1 DEF OpenOnce
<1>11. LoadsInto(requests, linkId)' BY <1>q DEF LoadsInto
<1> QED BY <1>8, <1>9, <1>10, <1>11 DEF IInv

(* An answer replaces the content of a dialog.                             *)
LEMMA AnswerPreserves ==
  ASSUME IInv, NEW i \in DOMAIN requests, NEW ks \in [1..Len(lookups) -> Mark], NEW l,
         Show(i, ks, WithoutContent(lookups, l)),
         UNCHANGED <<activated, open, linkId, spinner, written>>
  PROVE  IInv'
<1>1. /\ Len(lookups) \in Nat /\ lookups \in Seq(Lookup(Len(lookups)))
      /\ linkId \in 0..Len(lookups) /\ spinner \in BOOLEAN
      /\ requests \in Seq(Req(Len(lookups)))
  BY Types DEF IInv
<1>2. /\ lookups' \in Seq(Lookup(Len(lookups))) /\ Len(lookups') = Len(lookups)
      /\ \A m \in 1..Len(lookups) : lookups'[m].home = lookups[m].home
  BY <1>1, WithoutContentKeeps DEF Show
<1>3. requests' \in Seq(Req(Len(lookups))) /\ LoadsInto(requests', linkId')
  BY <1>1, RemoveAtSeq, LoadsIntoRemove DEF Show, IInv
<1>4. links' \in [1..Len(lookups) -> Mark] BY DEF Show
<1>5. (Len(lookups) + 1)..Len(lookups') = {} BY <1>1, <1>2
<1> QED BY <1>1, <1>2, <1>3, <1>4, <1>5, ContentPreserves

(* Steps that leave the lookups as they are.                               *)
LEMMA LookupsKept ==
  ASSUME IInv, links' \in [1..Len(lookups) -> Mark],
         requests' \in Seq(Req(Len(lookups))), linkId' \in 0..Len(lookups),
         LoadsInto(requests', linkId'),
         UNCHANGED <<lookups, activated, open, spinner, written>>
  PROVE  IInv'
<1>1. /\ Len(lookups) \in Nat /\ lookups \in Seq(Lookup(Len(lookups))) /\ spinner \in BOOLEAN
  BY Types DEF IInv
<1>2. (Len(lookups) + 1)..Len(lookups') = {} BY <1>1
<1> QED BY <1>1, <1>2, ContentPreserves

(* The answer to an opening request may bring a lookup field.              *)
LEMMA OpenAnsweredPreserves ==
  ASSUME IInv, NEW i \in DOMAIN requests, OpenAnswered(i) PROVE IInv'
<1> DEFINE l == requests[i].dialog
           n == Len(lookups)
           ks == Modified([links EXCEPT ![l] = "raw"], l)
           ls == WithoutContent(lookups, l)
<1>1. /\ n \in Nat /\ DOMAIN lookups = 1..n /\ lookups \in Seq(Lookup(n))
      /\ \A m \in 1..n : lookups[m] \in Lookup(n)
      /\ linkId \in 0..n /\ links \in [1..n -> Mark] /\ requests \in Seq(Req(n))
  BY Types DEF IInv
<1>2. requests[i] \in Req(n) /\ l \in 1..n
  <2>1. requests[i] \in Req(n) BY <1>1
  <2> QED BY <2>1 DEF Req
<1>3. ks \in [1..n -> Mark]
  <2>1. [links EXCEPT ![l] = "raw"] \in [1..n -> Mark] BY <1>1 DEF Mark
  <2> QED BY <2>1, ModifiedKeeps
<1>4. /\ ls \in Seq(Lookup(n)) /\ Len(ls) = n
      /\ \A m \in 1..n : /\ ls[m].fade = lookups[m].fade /\ ls[m].home = lookups[m].home
                         /\ ls[m].prev = lookups[m].prev
  BY <1>1, WithoutContentKeeps
<1>5. RemoveAt(requests, i) \in Seq(Req(n)) /\ LoadsInto(RemoveAt(requests, i), linkId)
  BY <1>1, RemoveAtSeq, LoadsIntoRemove DEF IInv
<1>s. spinner' = FALSE /\ UNCHANGED <<activated, open, linkId, written>>
  BY DEF OpenAnswered, SpinnerAfterAnswer
<1>6. CASE Show(i, ks, ls)
  <2>1. links' = ks /\ lookups' = ls /\ requests' \in Seq(Req(n)) /\ LoadsInto(requests', linkId')
    BY <1>5, <1>6, <1>s DEF Show
  <2>2. (n + 1)..Len(lookups') = {} BY <1>1, <1>4, <2>1
  <2> HIDE DEF n, ks, ls
  <2>3. Len(lookups) = n /\ Len(lookups') = n BY <1>4, <2>1 DEF n
  <2>4. /\ lookups' \in Seq(Lookup(n)) /\ links' \in [1..n -> Mark] /\ n <= n /\ spinner' \in BOOLEAN
        /\ \A m \in 1..n : lookups'[m].home = lookups[m].home
    <3> HIDE DEF l
    <3>1. lookups' \in Seq(Lookup(n)) /\ links' \in [1..n -> Mark] BY <1>3, <1>4, <2>1
    <3>2. spinner' \in BOOLEAN BY <1>s, Zenon
    <3>4. n <= n BY <1>1
    <3>3. \A m \in 1..n : lookups'[m].home = lookups[m].home
      BY <1>4, <2>1
    <3> QED BY <3>1, <3>2, <3>3, <3>4
  <2> QED BY <1>1, <1>s, <2>1, <2>2, <2>3, <2>4, ContentPreserves
<1>7. CASE lookups[l].home = 0 /\ Show(i, Append(ks, "none"), Append(ls, NewLookup(NestedFade, l)))
  <2> DEFINE new == NewLookup(NestedFade, l)
  <2>1. /\ links' = Append(ks, "none") /\ lookups' = Append(ls, new)
        /\ requests' \in Seq(Req(n)) /\ LoadsInto(requests', linkId')
    BY <1>5, <1>7, <1>s DEF Show
  <2>2. new \in Lookup(n + 1) /\ new.home # 0
    <3>1. l \in DOMAIN PageFades BY <1>1, <1>2, <1>7 DEF IInv, HomeIsPage
    <3>2. l \in 0..Len(PageFades) /\ 0 \in 0..(n + 1) /\ l # 0
      <4>1. DOMAIN PageFades = 1..Len(PageFades) /\ Len(PageFades) \in Nat BY PageFadesType
      <4> HIDE DEF l, n, ks, ls
      <4> QED BY <1>1, <1>2, <3>1, <4>1
    <3>3. NestedFade \in Fade BY LookupAssumption DEF Fade
    <3> HIDE DEF l, n
    <3> QED BY <3>2, <3>3 DEF NewLookup, Lookup
  <2> HIDE DEF l, n, ks, ls, new
  <2>3. ls \in Seq(Lookup(n + 1))
    <3>1. Lookup(n) \subseteq Lookup(n + 1) BY <1>1 DEF Lookup
    <3> QED BY <1>4, <3>1, SeqMonotone
  <2>4. /\ lookups' \in Seq(Lookup(n + 1)) /\ Len(lookups') = n + 1
        /\ lookups'[n + 1] = new /\ \A m \in 1..n : lookups'[m] = ls[m]
    BY <1>4, <2>1, <2>2, <2>3, AppendSeq
  <2>5. links' \in [1..(n + 1) -> Mark]
    <3>1. ks \in Seq(Mark) /\ Len(ks) = n BY <1>1, <1>3, FunctionIsSeq
    <3>2. "none" \in Mark BY DEF Mark
    <3>3. Append(ks, "none") \in Seq(Mark) /\ Len(Append(ks, "none")) = n + 1
      BY <3>1, <3>2
    <3>4. Append(ks, "none") \in [1..Len(Append(ks, "none")) -> Mark] BY <3>3, SeqIsFunction
    <3> QED BY <2>1, <3>3, <3>4
  <2>6. requests' \in Seq(Req(n + 1))
    <3>1. Req(n) \subseteq Req(n + 1) BY <1>1 DEF Req
    <3> QED BY <2>1, <3>1, SeqMonotone
  <2>7. (n + 1)..Len(lookups') = {n + 1} /\ linkId \in 0..(n + 1) /\ n <= n + 1 BY <1>1, <2>4
  <2>8. Len(lookups) = n BY DEF n
  <2>9. /\ \A m \in 1..n : lookups'[m].home = lookups[m].home
        /\ \A m \in (n + 1)..Len(lookups') : lookups'[m].home # 0
    BY <1>4, <2>2, <2>4, <2>7
  <2>10. LoadsInto(requests', linkId') /\ spinner' \in BOOLEAN BY <1>s, <2>1
  <2>11. linkId' = linkId /\ UNCHANGED <<activated, open, written>> BY <1>s
  <2> QED BY <2>4, <2>5, <2>6, <2>7, <2>8, <2>9, <2>10, <2>11, ContentPreserves
<1> QED BY <1>6, <1>7 DEF OpenAnswered

(* Every step of the page keeps the invariant.                             *)
LEMMA StepIInv == IInv /\ [Next]_vars => IInv'
<1> SUFFICES ASSUME IInv, [Next]_vars PROVE IInv'
  OBVIOUS
<1>t. /\ Len(lookups) \in Nat /\ DOMAIN lookups = 1..Len(lookups)
      /\ lookups \in Seq(Lookup(Len(lookups))) /\ linkId \in 0..Len(lookups)
      /\ activated \in 0..Len(lookups)
      /\ links \in [1..Len(lookups) -> Mark] /\ requests \in Seq(Req(Len(lookups)))
      /\ written \in [from : 0..Len(lookups), to : 0..Len(lookups)]
  BY Types DEF IInv
<1>r. \A i \in DOMAIN requests : requests[i] \in Req(Len(lookups))
                                 /\ requests[i].dialog \in 1..Len(lookups)
  <2>1. \A i \in DOMAIN requests : requests[i] \in Req(Len(lookups)) BY <1>t
  <2> QED BY <2>1 DEF Req
<1>k. \A i \in DOMAIN requests :
        /\ RemoveAt(requests, i) \in Seq(Req(Len(lookups)))
        /\ LoadsInto(RemoveAt(requests, i), linkId)
        /\ [links EXCEPT ![requests[i].dialog] = "raw"] \in [1..Len(lookups) -> Mark]
  <2>1. \A m : [links EXCEPT ![m] = "raw"] \in [1..Len(lookups) -> Mark] BY <1>t DEF Mark
  <2> QED BY <1>t, <2>1, RemoveAtSeq, LoadsIntoRemove DEF IInv
<1>1. ASSUME ClickBackground PROVE IInv'
  BY <1>1, <1>t, ClosePreserves DEF ClickBackground
<1>2. ASSUME NEW l \in DOMAIN lookups, Open(l) PROVE IInv'
  BY <1>2, OpenPreserves
<1>3. ASSUME NEW l \in DOMAIN lookups, CloseByUser(l) PROVE IInv'
  BY <1>3, <1>t, ClosePreserves DEF CloseByUser
<1>4. ASSUME NEW l \in DOMAIN lookups, SetValue(l) PROVE IInv'
  <2>1. written' \in [from : 0..Len(lookups), to : 0..Len(lookups)]
    BY <1>4, <1>t DEF SetValue
  <2> QED BY <1>4, <2>1, ClosePreserves DEF SetValue
<1>5. ASSUME NEW l \in DOMAIN lookups, RequestForm(l) PROVE IInv'
  <2>1. /\ Request("form", activated) \in Req(Len(lookups))
        /\ Request("form", activated).kind # "link"
    BY <1>5, <1>t DEF RequestForm, Req, Request
  <2>2. requests' \in Seq(Req(Len(lookups))) /\ LoadsInto(requests', linkId')
    BY <1>5, <1>t, <2>1, LoadsIntoAppend DEF RequestForm, IInv
  <2> QED BY <1>5, <1>t, <2>2, LookupsKept DEF RequestForm
<1>6. ASSUME NEW l \in DOMAIN lookups, RequestLink(l) PROVE IInv'
  <2>1. activated \in 1..Len(lookups) BY <1>6, <1>t DEF RequestLink
  <2>2. requests' \in Seq(Req(Len(lookups))) /\ LoadsInto(requests', linkId')
    BY <1>6, <1>t, <2>1, LoadsIntoLink DEF RequestLink
  <2> QED BY <1>6, <1>t, <2>2, LookupsKept DEF RequestLink
<1>7. ASSUME NEW i \in DOMAIN requests, OpenAnswered(i) PROVE IInv'
  BY <1>7, OpenAnsweredPreserves
<1>8. ASSUME Reload PROVE IInv'
  BY <1>8, PageIInv
<1>9. ASSUME NEW i \in DOMAIN requests, FormAnswered(i) PROVE IInv'
  <2>1. Modified([links EXCEPT ![requests[i].dialog] = "raw"], requests[i].dialog)
          \in [1..Len(lookups) -> Mark]
    BY <1>k, ModifiedKeeps
  <2> QED BY <1>8, <1>9, <2>1, AnswerPreserves DEF FormAnswered
<1>10. ASSUME NEW i \in DOMAIN requests, FormFails(i) PROVE IInv'
  <2>1. requests' \in Seq(Req(Len(lookups))) /\ LoadsInto(requests', linkId')
    BY <1>10, <1>k DEF FormFails
  <2> QED BY <1>10, <1>t, <2>1, LookupsKept DEF FormFails
<1>11. ASSUME NEW i \in DOMAIN requests, LinkAnswered(i) PROVE IInv'
  <2>1. Modified([links EXCEPT ![requests[i].dialog] = "raw"], LinkTarget(i))
          \in [1..Len(lookups) -> Mark]
    BY <1>k, ModifiedKeeps
  <2> QED BY <1>11, <2>1, AnswerPreserves DEF LinkAnswered
<1>12. ASSUME NEW i \in DOMAIN requests, LinkFails(i) PROVE IInv'
  <2>1. Modified(links, LinkTarget(i)) \in [1..Len(lookups) -> Mark] BY <1>t, ModifiedKeeps
  <2>2. requests' \in Seq(Req(Len(lookups))) /\ LoadsInto(requests', linkId')
    BY <1>12, <1>k DEF LinkFails, Show
  <2> QED BY <1>12, <1>t, <2>1, <2>2, LookupsKept DEF LinkFails, Show
<1>13. CASE UNCHANGED vars
  <2>1. LoadsInto(requests', linkId') BY <1>13 DEF IInv, vars
  <2> QED BY <1>13, <1>t, <2>1, LookupsKept DEF vars
<1> QED
  BY <1>1, <1>2, <1>3, <1>4, <1>5, <1>6, <1>7, <1>8, <1>9, <1>10, <1>11, <1>12, <1>13
  DEF Next, OpenFails

(* The invariant holds from the load of the page on.                       *)
LEMMA Invariance == Spec => []IInv
<1>1. Init => IInv
  <2> SUFFICES ASSUME Init PROVE IInv
    OBVIOUS
  <2>1. TypeOK
    <3>1. /\ DOMAIN lookups = 1..Len(PageFades)
          /\ \A l \in 1..Len(PageFades) :
               lookups[l] = [fade |-> PageFades[l], home |-> 0, prev |-> 0, shown |-> TRUE]
      BY PageFadesType DEF Init, PageLookups, NewLookup
    <3>2. ASSUME NEW l \in 1..Len(PageFades) PROVE lookups[l] \in Lookup(Len(PageFades))
      <4>1. PageFades[l] \in Fade /\ 0 \in 0..Len(PageFades) BY PageFadesType
      <4>2. lookups[l] = [fade |-> PageFades[l], home |-> 0, prev |-> 0, shown |-> TRUE] BY <3>1
      <4> QED BY <4>1, <4>2 DEF Lookup
    <3>3. lookups \in [1..Len(PageFades) -> Lookup(Len(PageFades))]
      BY <3>1, <3>2, PageFadesType DEF Init, PageLookups
    <3>4. lookups \in Seq(Lookup(Len(PageFades))) /\ Len(lookups) = Len(PageFades)
      BY <3>3, PageFadesType, FunctionIsSeq
    <3>5. \A S : <<>> \in Seq(S) OBVIOUS
    <3>6. lookups \in Seq([fade : {"true", "false"}, home : 0..Len(PageFades),
                           prev : 0..Len(lookups), shown : BOOLEAN])
      BY <3>4 DEF Lookup, Fade
    <3>7. activated \in 0..Len(lookups) /\ linkId \in 0..Len(lookups)
          /\ written \in [from : 0..Len(lookups), to : 0..Len(lookups)]
      BY <3>4, PageFadesType DEF Init
    <3>8. links \in [DOMAIN lookups -> {"none", "raw", "own", "twice"}]
      BY <3>1, PageFadesType DEF Init
    <3>9. open \in Seq(DOMAIN lookups) /\ spinner \in BOOLEAN
          /\ requests \in Seq([kind : {"open", "form", "link"}, dialog : DOMAIN lookups,
                               overtaken : BOOLEAN])
      BY <3>5 DEF Init
    <3> QED BY <3>6, <3>7, <3>8, <3>9 DEF TypeOK
  <2>2. HomeIsPage /\ OpenOnce /\ LoadsInto(requests, linkId)
    BY DEF Init, PageLookups, HomeIsPage, OpenOnce, LoadsInto
  <2> QED BY <2>1, <2>2 DEF IInv
<1>2. IInv /\ [Next]_vars => IInv' BY StepIInv
<1> QED BY <1>1, <1>2, PTL DEF Spec

-----------------------------------------------------------------------------
(* The chain of prevLookup.                                                *)

ChainStep ==
  ChainIsStack /\ ~ ChainIsStack' =>
    \E i \in DOMAIN open : i < Len(open) /\ open' = RemoveAt(open, i)

(* Steps that leave the open dialogs and their prevLookup alone.           *)
LEMMA ContentKeepsChain ==
  ASSUME IInv, ChainIsStack, UNCHANGED <<activated, open>>,
         \A l \in 1..Len(lookups) : lookups'[l].prev = lookups[l].prev
  PROVE  ChainIsStack'
<1>1. DOMAIN open = 1..Len(open) /\ \A i \in 1..Len(open) : open[i] \in 1..Len(lookups)
  BY Types DEF IInv
<1> QED BY <1>1 DEF ChainIsStack

(* A dialog is opened on top.                                              *)
LEMMA OpenKeepsChain ==
  ASSUME IInv, ChainIsStack, NEW l \in DOMAIN lookups, Open(l)
  PROVE  ChainIsStack'
<1> DEFINE n == Len(open)
           ls == WithoutContent(lookups, l)
<1>1. /\ Len(lookups) \in Nat /\ DOMAIN lookups = 1..Len(lookups)
      /\ lookups \in Seq(Lookup(Len(lookups)))
      /\ n \in Nat /\ DOMAIN open = 1..n /\ open \in Seq(1..Len(lookups))
      /\ \A i \in 1..n : open[i] \in 1..Len(lookups)
      /\ open = <<>> <=> n = 0
  BY Types DEF IInv
<1>2. /\ ls \in Seq(Lookup(Len(lookups))) /\ Len(ls) = Len(lookups)
      /\ \A m \in 1..Len(lookups) : ls[m].prev = lookups[m].prev
  <2>1. Len(lookups) \in Nat /\ lookups \in Seq(Lookup(Len(lookups))) BY <1>1
  <2> HIDE DEF n
  <2> QED BY ONLY <2>1, WithoutContentKeeps
<1>3. /\ lookups' = [ls EXCEPT ![l].prev = activated] /\ open' = Append(open, l)
      /\ activated' = l /\ l \in 1..Len(lookups)
      /\ \A i \in 1..n : open[i] # l
  BY <1>1 DEF Open, Chained, IsOpen, ToSet
<1>4. activated = (IF n = 0 THEN 0 ELSE open[n]) BY <1>1 DEF ChainIsStack, Last
<1>5. /\ open' \in Seq(1..Len(lookups)) /\ Len(open') = n + 1 /\ DOMAIN open' = 1..(n + 1)
      /\ open'[n + 1] = l /\ \A i \in 1..n : open'[i] = open[i]
  BY <1>1, <1>3
<1> HIDE DEF n, ls
<1>6. ASSUME NEW m \in 1..Len(lookups)
      PROVE  lookups'[m].prev = IF m = l THEN activated ELSE lookups[m].prev
  <2>1. ls[m] \in Lookup(Len(lookups)) /\ m \in DOMAIN ls BY <1>2
  <2> QED BY <1>2, <1>3, <2>1 DEF Lookup
<1>7. activated' = (IF open' = <<>> THEN 0 ELSE Last(open')) BY <1>1, <1>3, <1>5 DEF Last
<1>8. ASSUME NEW i \in 1..(n + 1)
      PROVE  lookups'[open'[i]].prev = (IF i = 1 THEN 0 ELSE open'[i - 1])
  <2>1. CASE i \in 1..n
    <3>1. lookups[open[i]].prev = (IF i = 1 THEN 0 ELSE open[i - 1])
      BY <1>1, <2>1 DEF ChainIsStack
    <3>2. open'[i] = open[i] /\ open[i] # l /\ open[i] \in 1..Len(lookups)
          /\ (i # 1 => i - 1 \in 1..n)
      BY <1>1, <1>3, <1>5, <2>1
    <3> QED BY <1>5, <1>6, <3>1, <3>2
  <2>2. CASE i = n + 1
    <3>1. lookups'[open'[i]].prev = activated BY <1>3, <1>5, <1>6, <2>2
    <3>2. n # 0 => n \in 1..n /\ i - 1 = n BY <1>1, <2>2
    <3> QED BY <1>1, <1>4, <1>5, <2>2, <3>1, <3>2
  <2> QED BY <1>1, <2>1, <2>2
<1> QED BY <1>5, <1>7, <1>8 DEF ChainIsStack

(* The newest dialog is closed, which goes back to the one under it.       *)
LEMMA CloseNewestKeepsChain ==
  ASSUME IInv, ChainIsStack, open # <<>>, open' = RemoveAt(open, Len(open)),
         activated' = Back, UNCHANGED lookups
  PROVE  ChainIsStack'
<1> DEFINE n == Len(open)
<1>1. /\ n \in Nat \ {0} /\ DOMAIN open = 1..n /\ open \in Seq(1..Len(lookups))
      /\ \A i \in 1..n : open[i] \in 1..Len(lookups) /\ open[i] # 0
  BY Types DEF IInv
<1>2. /\ activated = open[n]
      /\ \A i \in 1..n : lookups[open[i]].prev = (IF i = 1 THEN 0 ELSE open[i - 1])
  BY <1>1 DEF ChainIsStack, Last
<1>3. /\ open' \in Seq(1..Len(lookups)) /\ Len(open') = n - 1
      /\ \A j \in 1..(n - 1) : open'[j] = open[j]
  <2>1. n \in DOMAIN open BY <1>1
  <2>2. /\ RemoveAt(open, n) \in Seq(1..Len(lookups)) /\ Len(RemoveAt(open, n)) = n - 1
        /\ \A j \in 1..(n - 1) : RemoveAt(open, n)[j] = IF j < n THEN open[j] ELSE open[j + 1]
    BY <1>1, <2>1, RemoveAtSeq
  <2> QED BY <1>1, <2>2
<1> HIDE DEF n
<1>4. DOMAIN open' = 1..(n - 1) BY <1>3
<1>5. open' = <<>> <=> n = 1
  <2>1. open' = <<>> <=> Len(open') = 0 BY <1>3, EmptySeq
  <2> QED BY <1>1, <1>3, <2>1
<1>6. activated' = IF n = 1 THEN 0 ELSE open[n - 1]
  <2>1. n \in 1..n BY <1>1
  <2> QED BY <1>1, <1>2, <2>1 DEF Back
<1>7. activated' = (IF open' = <<>> THEN 0 ELSE Last(open'))
  <2>1. CASE n = 1 BY <1>5, <1>6, <2>1
  <2>2. CASE n # 1
    <3>1. n - 1 \in 1..(n - 1) BY <1>1, <2>2
    <3> QED BY <1>3, <1>5, <1>6, <2>2, <3>1 DEF Last
  <2> QED BY <2>1, <2>2
<1>8. ASSUME NEW i \in 1..(n - 1)
      PROVE  lookups'[open'[i]].prev = (IF i = 1 THEN 0 ELSE open'[i - 1])
  <2>1. i \in 1..n /\ (i # 1 => i - 1 \in 1..(n - 1)) BY <1>1
  <2> QED BY <1>2, <1>3, <2>1
<1> QED BY <1>4, <1>7, <1>8 DEF ChainIsStack

LEMMA ChainSteps ==
  ASSUME IInv, [Next]_vars PROVE [ChainStep]_vars
<1> SUFFICES ASSUME ChainIsStack
             PROVE  \/ ChainIsStack'
                    \/ \E i \in DOMAIN open : i < Len(open) /\ open' = RemoveAt(open, i)
  BY DEF ChainStep
<1>t. /\ Len(lookups) \in Nat /\ lookups \in Seq(Lookup(Len(lookups)))
      /\ Len(open) \in Nat /\ DOMAIN open = 1..Len(open)
  BY Types DEF IInv
<1>1. ASSUME NEW l, Close(l), UNCHANGED lookups
      PROVE  \/ ChainIsStack'
             \/ \E i \in DOMAIN open : i < Len(open) /\ open' = RemoveAt(open, i)
  <2>1. CASE UNCHANGED <<open, activated>> BY <1>1, <2>1 DEF ChainIsStack
  <2>2. ASSUME NEW i \in DOMAIN open, open' = RemoveAt(open, i), activated' = Back
        PROVE  \/ ChainIsStack'
               \/ \E k \in DOMAIN open : k < Len(open) /\ open' = RemoveAt(open, k)
    <3>1. CASE i = Len(open)
      <4>1. open # <<>> OBVIOUS
      <4> QED BY <1>1, <2>2, <3>1, <4>1, CloseNewestKeepsChain
    <3>2. CASE i # Len(open)
      <4>1. i < Len(open) BY <1>t, <3>2
      <4> QED BY <2>2, <4>1
    <3> QED BY <3>1, <3>2
  <2> QED BY <1>1, <2>1, <2>2 DEF Close
<1>2. ASSUME NEW l \in DOMAIN lookups, Open(l) PROVE ChainIsStack'
  BY <1>2, OpenKeepsChain
<1>3. ASSUME UNCHANGED <<lookups, activated, open>> PROVE ChainIsStack'
  BY <1>3 DEF ChainIsStack
<1>4. ASSUME Reload PROVE ChainIsStack'
  BY <1>4 DEF Reload, ChainIsStack
<1>5. ASSUME NEW i, NEW ks, NEW l, Show(i, ks, WithoutContent(lookups, l)),
             UNCHANGED <<activated, open>>
      PROVE  ChainIsStack'
  BY <1>5, <1>t, WithoutContentKeeps, ContentKeepsChain DEF Show
<1>6. ASSUME NEW i \in DOMAIN requests, OpenAnswered(i) PROVE ChainIsStack'
  <2> DEFINE l == requests[i].dialog
             ls == WithoutContent(lookups, l)
             new == NewLookup(NestedFade, l)
  <2>1. UNCHANGED <<activated, open>> BY <1>6 DEF OpenAnswered
  <2>2. /\ ls \in Seq(Lookup(Len(lookups))) /\ Len(ls) = Len(lookups)
        /\ \A m \in 1..Len(lookups) : ls[m].prev = lookups[m].prev
    BY <1>t, WithoutContentKeeps
  <2>3. lookups' = ls \/ lookups' = Append(ls, new) BY <1>6 DEF OpenAnswered, Show
  <2> HIDE DEF ls, new
  <2>4. \A m \in 1..Len(lookups) : lookups'[m] = ls[m] BY <1>t, <2>2, <2>3
  <2> QED BY <2>1, <2>2, <2>4, ContentKeepsChain
<1>7. ASSUME NEW i \in DOMAIN requests, FormAnswered(i) PROVE ChainIsStack'
  BY <1>4, <1>5, <1>7 DEF FormAnswered
<1>8. ASSUME NEW i \in DOMAIN requests, LinkAnswered(i) PROVE ChainIsStack'
  BY <1>5, <1>8 DEF LinkAnswered
<1>9. ASSUME NEW i \in DOMAIN requests, LinkFails(i) PROVE ChainIsStack'
  BY <1>3, <1>9 DEF LinkFails, Show
<1> QED
  BY <1>1, <1>2, <1>3, <1>4, <1>6, <1>7, <1>8, <1>9
  DEF Next, vars, ClickBackground, CloseByUser, SetValue, RequestForm, RequestLink, OpenFails,
      FormFails

-----------------------------------------------------------------------------
(* Links that lead out of the page.                                        *)

RawStep ==
  \A l \in DOMAIN lookups :
    l \in DOMAIN links' /\ links'[l] = "raw" /\ links[l] # "raw" =>
      \E i \in DOMAIN requests :
        /\ requests[i].kind = "link" /\ requests[i].dialog = l
        /\ requests[i].overtaken
        /\ requests' = RemoveAt(requests, i)

(* Every answer but that to an overtaken link redirects what it brings.    *)
LEMMA RawSteps ==
  ASSUME IInv, [Next]_vars PROVE [RawStep]_vars
<1> DEFINE D == 1..Len(lookups)
<1>t. /\ Len(lookups) \in Nat /\ DOMAIN lookups = D /\ links \in [D -> Mark]
      /\ requests \in Seq(Req(Len(lookups)))
  BY Types DEF IInv
<1>m. \A ks \in [D -> Mark], l, m \in D :
        Modified(ks, l)[m] = "raw" => ks[m] = "raw" /\ m # l
  BY DEF Modified, Mark
<1>x. \A l \in D : [links EXCEPT ![l] = "raw"] \in [D -> Mark] BY <1>t DEF Mark
<1>d. \A i \in DOMAIN requests : requests[i] \in Req(Len(lookups)) /\ requests[i].dialog \in D
  <2>1. \A i \in DOMAIN requests : requests[i] \in Req(Len(lookups)) BY <1>t
  <2> QED BY <2>1 DEF Req
<1>n. ASSUME \A m \in D : m \in DOMAIN links' /\ links'[m] = "raw" => links[m] = "raw"
      PROVE  [RawStep]_vars
  BY <1>n, <1>t DEF RawStep
<1>1. ASSUME UNCHANGED links PROVE [RawStep]_vars
  BY <1>1, <1>n
<1>2. ASSUME NEW l \in DOMAIN lookups, Open(l) PROVE [RawStep]_vars
  <2>1. \A m \in D : links'[m] = "raw" => links[m] = "raw" BY <1>2, <1>t DEF Open
  <2> QED BY <2>1, <1>n
<1>3. ASSUME Reload PROVE [RawStep]_vars
  <2>1. \A m \in DOMAIN links' : links'[m] # "raw" BY <1>3 DEF Reload
  <2> QED BY <2>1, <1>n
<1>o. ASSUME NEW i \in DOMAIN requests, NEW m \in D,
             Modified([links EXCEPT ![requests[i].dialog] = "raw"], requests[i].dialog)[m] = "raw"
      PROVE  links[m] = "raw"
  <2> DEFINE l == requests[i].dialog
             ks == [links EXCEPT ![l] = "raw"]
  <2>1. ks \in [D -> Mark] /\ l \in D BY <1>d, <1>x
  <2>2. ks[m] = "raw" /\ m # l
    <3> HIDE DEF ks, l
    <3> QED BY <1>m, <1>o, <2>1 DEF ks, l
  <2> QED BY <1>t, <2>2
<1>4. ASSUME NEW i \in DOMAIN requests, OpenAnswered(i) PROVE [RawStep]_vars
  <2> DEFINE l == requests[i].dialog
             ks == Modified([links EXCEPT ![l] = "raw"], l)
  <2>1. links' = ks \/ links' = Append(ks, "none") BY <1>4 DEF OpenAnswered, Show
  <2>2. ks \in [D -> Mark] BY <1>d, <1>x, ModifiedKeeps
  <2>3. ks \in Seq(Mark) /\ Len(ks) = Len(lookups) BY <1>t, <2>2, FunctionIsSeq
  <2>4. \A m \in D : ks[m] = "raw" => links[m] = "raw" BY <1>o
  <2> HIDE DEF ks
  <2>5. \A m \in D : links'[m] = ks[m] BY <1>t, <2>1, <2>3
  <2> QED BY <1>n, <2>4, <2>5
<1>5. ASSUME NEW i \in DOMAIN requests, FormAnswered(i) PROVE [RawStep]_vars
  <2>1. \/ Reload
        \/ links' = Modified([links EXCEPT ![requests[i].dialog] = "raw"], requests[i].dialog)
    BY <1>5 DEF FormAnswered, Show
  <2> QED BY <1>3, <1>n, <1>o, <2>1
<1>6. ASSUME NEW i \in DOMAIN requests, LinkAnswered(i) PROVE [RawStep]_vars
  <2> DEFINE l == requests[i].dialog
             ks == [links EXCEPT ![l] = "raw"]
  <2>1. /\ requests[i].kind = "link" /\ requests' = RemoveAt(requests, i)
        /\ links' = Modified(ks, linkId)
    BY <1>6 DEF LinkAnswered, Show, LinkTarget
  <2>2. ks \in [D -> Mark] /\ l \in D BY <1>d, <1>x
  <2>3. ~ requests[i].overtaken => l = linkId BY <2>1 DEF IInv, LoadsInto
  <2>4. requests[i].overtaken \in BOOLEAN BY <1>d DEF Req
  <2>5. ASSUME NEW m \in D, links'[m] = "raw", links[m] # "raw"
        PROVE  m = l /\ requests[i].overtaken
    <3>1. ks[m] = "raw"
      <4> HIDE DEF ks
      <4> QED BY <2>1, <2>2, <2>5 DEF Modified, Mark
    <3>2. m = l BY <1>t, <2>5, <3>1
    <3>3. m # linkId
      <4> HIDE DEF ks
      <4> QED BY <1>m, <2>1, <2>2, <2>5
    <3> QED BY <2>3, <3>2, <3>3
  <2> QED BY <1>t, <2>1, <2>5 DEF RawStep
<1>7. ASSUME NEW i \in DOMAIN requests, LinkFails(i) PROVE [RawStep]_vars
  <2>1. links' = Modified(links, linkId) BY <1>7 DEF LinkFails, Show, LinkTarget
  <2>2. \A m \in D : links'[m] = "raw" => links[m] = "raw" BY <1>t, <2>1 DEF Modified, Mark
  <2> QED BY <2>2, <1>n
<1> QED
  BY <1>1, <1>2, <1>3, <1>4, <1>5, <1>6, <1>7
  DEF Next, vars, ClickBackground, CloseByUser, SetValue, RequestForm, RequestLink, OpenFails,
      FormFails

-----------------------------------------------------------------------------
(* The wait spinner.                                                       *)

IsSeq(s) == s \in Seq(ToSet(s))

AwaitInv == IsSeq(requests) /\ SpinnerIsAwaited

(* A sequence is one over its own elements.                                *)
LEMMA SeqOfItsOwn ==
  ASSUME NEW S, NEW s \in Seq(S)
  PROVE  IsSeq(s)
<1>1. s = [i \in 1..Len(s) |-> s[i]] /\ Len(s) \in Nat OBVIOUS
<1>2. \A i \in 1..Len(s) : s[i] \in ToSet(s) BY DEF ToSet
<1> QED BY <1>1, <1>2 DEF IsSeq

(* What is added to a sequence is in it, and what was in it stays.         *)
LEMMA AppendKeeps ==
  ASSUME NEW s, IsSeq(s), NEW x
  PROVE  IsSeq(Append(s, x)) /\ \E m \in DOMAIN Append(s, x) : Append(s, x)[m] = x
<1> DEFINE S == ToSet(s) \cup {x}
<1>1. s \in Seq(S) BY SeqMonotone DEF IsSeq
<1> HIDE DEF S
<1>2. x \in S BY DEF S
<1>3. Append(s, x) \in Seq(S) /\ Len(Append(s, x)) = Len(s) + 1 /\ Append(s, x)[Len(s) + 1] = x
  BY <1>1, <1>2
<1>4. Len(s) + 1 \in DOMAIN Append(s, x) BY <1>1, <1>3
<1> QED BY <1>3, <1>4, SeqOfItsOwn

(* Only the element at i goes.                                             *)
LEMMA RemoveAtKeeps ==
  ASSUME NEW s, IsSeq(s), NEW i \in DOMAIN s
  PROVE  /\ IsSeq(RemoveAt(s, i))
         /\ \A j \in DOMAIN s \ {i} :
              \E m \in DOMAIN RemoveAt(s, i) : RemoveAt(s, i)[m] = s[j]
<1> DEFINE r == RemoveAt(s, i)
<1>1. s \in Seq(ToSet(s)) BY DEF IsSeq
<1>2. Len(s) \in Nat /\ DOMAIN s = 1..Len(s) BY <1>1
<1>3. /\ r \in Seq(ToSet(s)) /\ Len(r) = Len(s) - 1
      /\ \A m \in 1..(Len(s) - 1) : r[m] = IF m < i THEN s[m] ELSE s[m + 1]
  BY <1>1, RemoveAtSeq
<1> HIDE DEF r
<1>4. IsSeq(r) /\ DOMAIN r = 1..(Len(s) - 1) BY <1>3, SeqOfItsOwn
<1>5. ASSUME NEW j \in DOMAIN s \ {i} PROVE \E m \in DOMAIN r : r[m] = s[j]
  <2> DEFINE m == IF j < i THEN j ELSE j - 1
  <2>1. m \in 1..(Len(s) - 1) /\ (IF m < i THEN m ELSE m + 1) = j BY <1>2
  <2> HIDE DEF m
  <2>2. r[m] = s[j] BY <1>3, <2>1
  <2> QED BY <1>4, <2>1, <2>2
<1> QED BY <1>4, <1>5 DEF r

(* A request that does not wait with the spinner goes.                     *)
LEMMA OtherGoes ==
  ASSUME AwaitInv, NEW i \in DOMAIN requests, requests[i].kind # "open",
         requests' = RemoveAt(requests, i), spinner' = spinner
  PROVE  AwaitInv'
<1>1. IsSeq(requests') BY RemoveAtKeeps DEF AwaitInv
<1>2. ASSUME spinner PROVE \E m \in DOMAIN requests' : requests'[m].kind = "open"
  <2>1. PICK j \in DOMAIN requests : requests[j].kind = "open"
    BY <1>2 DEF AwaitInv, SpinnerIsAwaited
  <2>2. PICK m \in DOMAIN RemoveAt(requests, i) : RemoveAt(requests, i)[m] = requests[j]
    BY <2>1, RemoveAtKeeps DEF AwaitInv
  <2> QED BY <2>1, <2>2
<1> QED BY <1>1, <1>2 DEF AwaitInv, SpinnerIsAwaited, IsSeq

(* A request is sent: if it is one for a dialog's content, the spinner is  *)
(* shown, else it is left alone.                                           *)
LEMMA RequestSent ==
  ASSUME NEW rs, IsSeq(rs), spinner => \E m \in DOMAIN rs : rs[m].kind = "open",
         NEW r, requests' = Append(rs, r), r.kind = "open" \/ spinner' = spinner
  PROVE  AwaitInv'
<1>1. IsSeq(requests') BY AppendKeeps
<1>2. \E m \in DOMAIN requests' : requests'[m] = r BY AppendKeeps
<1>3. ASSUME spinner PROVE \E m \in DOMAIN requests' : requests'[m].kind = "open"
  <2>1. PICK j \in DOMAIN rs : rs[j].kind = "open" BY <1>3
  <2>2. rs \in Seq(ToSet(rs)) BY DEF IsSeq
  <2>3. j \in DOMAIN requests' /\ requests'[j] = rs[j]
    <3>1. Len(rs) \in Nat /\ DOMAIN rs = 1..Len(rs) BY <2>2
    <3>2. requests' \in Seq(ToSet(rs) \cup {r}) BY <2>2, SeqMonotone
    <3> QED BY <2>1, <2>2, <3>1
  <2> QED BY <2>1, <2>3
<1> QED BY <1>1, <1>2, <1>3 DEF AwaitInv, SpinnerIsAwaited, IsSeq

(* Link requests that are overtaken stay what they are.                    *)
LEMMA OvertakenKeeps ==
  ASSUME NEW rs, IsSeq(rs), NEW l
  PROVE  /\ IsSeq(Overtaken(rs, l))
         /\ \A m \in DOMAIN rs : /\ m \in DOMAIN Overtaken(rs, l)
                                 /\ rs[m].kind = "open" => Overtaken(rs, l)[m].kind = "open"
<1>1. rs \in Seq(ToSet(rs)) BY DEF IsSeq
<1>2. DOMAIN rs = 1..Len(rs) /\ Len(rs) \in Nat BY <1>1
<1> DEFINE os == Overtaken(rs, l)
           S == {os[m] : m \in 1..Len(rs)}
<1>3. /\ os = [m \in 1..Len(rs) |-> os[m]]
      /\ \A m \in DOMAIN rs : rs[m].kind = "open" => os[m] = rs[m]
  BY <1>2 DEF Overtaken
<1> HIDE DEF os
<1>4. os \in Seq(S) BY <1>2, <1>3
<1>5. IsSeq(os) BY <1>4, SeqOfItsOwn
<1> QED BY <1>2, <1>3, <1>5 DEF os

LEMMA AwaitStep == AwaitInv /\ [Next]_vars => AwaitInv'
<1> SUFFICES ASSUME AwaitInv, [Next]_vars PROVE AwaitInv'
  OBVIOUS
<1>1. ASSUME UNCHANGED <<requests, spinner>> PROVE AwaitInv'
  BY <1>1 DEF AwaitInv, SpinnerIsAwaited, IsSeq
<1>2. ASSUME Reload PROVE AwaitInv'
  <2>1. <<>> \in Seq({}) OBVIOUS
  <2> QED BY <1>2, <2>1, SeqOfItsOwn DEF Reload, AwaitInv, SpinnerIsAwaited, IsSeq
<1>3. ASSUME NEW l \in DOMAIN lookups, Open(l) \/ RequestForm(l) \/ RequestLink(l)
      PROVE  AwaitInv'
  <2>1. CASE Open(l) \/ RequestForm(l)
    BY <2>1, RequestSent DEF Open, RequestForm, Request, AwaitInv, SpinnerIsAwaited
  <2>2. CASE RequestLink(l)
    <3> DEFINE rs == Overtaken(requests, activated)
    <3>1. requests' = Append(rs, Request("link", activated)) /\ spinner' = spinner
      BY <2>2 DEF RequestLink
    <3>2. IsSeq(rs) /\ (spinner => \E m \in DOMAIN rs : rs[m].kind = "open")
      BY OvertakenKeeps DEF AwaitInv, SpinnerIsAwaited
    <3> HIDE DEF rs
    <3> QED BY <3>1, <3>2, RequestSent
  <2> QED BY <1>3, <2>1, <2>2
<1>4. ASSUME NEW i \in DOMAIN requests, OpenAnswered(i) PROVE AwaitInv'
  <2>1. requests' = RemoveAt(requests, i) /\ ~ spinner'
    BY <1>4 DEF OpenAnswered, Show, SpinnerAfterAnswer
  <2> QED BY <2>1, RemoveAtKeeps DEF AwaitInv, SpinnerIsAwaited, IsSeq
<1>5. ASSUME NEW i \in DOMAIN requests,
             FormAnswered(i) \/ FormFails(i) \/ LinkAnswered(i) \/ LinkFails(i)
      PROVE  AwaitInv'
  <2>1. \/ Reload
        \/ requests[i].kind # "open" /\ requests' = RemoveAt(requests, i) /\ spinner' = spinner
    BY <1>5 DEF FormAnswered, FormFails, LinkAnswered, LinkFails, Show
  <2> QED BY <1>2, <2>1, OtherGoes
<1> QED BY <1>1, <1>2, <1>3, <1>4, <1>5
    DEF Next, vars, ClickBackground, CloseByUser, SetValue, OpenFails

-----------------------------------------------------------------------------
(* The types of the variables, on every page.                              *)
THEOREM TypeCorrect == Spec => []TypeOK
<1>1. IInv => TypeOK BY DEF IInv
<1> QED BY <1>1, Invariance, PTL

(* Whatever is opened, closed, chosen and answered, on any page: the chain *)
(* that _lookupChaining and _dialogClose keep goes only when a dialog is   *)
(* closed under a newer one.                                               *)
THEOREM ChainGoesOnlyOutOfOrder == Spec => ChainBreaksOutOfOrder
<1>1. IInv /\ [Next]_vars => [ChainStep]_vars BY ChainSteps
<1> QED BY <1>1, Invariance, PTL DEF Spec, ChainBreaksOutOfOrder, ChainStep

(* On any page, the links of a dialog come to lead out of the page only by *)
(* the answer to a link overtaken by one followed in another dialog (the   *)
(* global lookupId).                                                       *)
THEOREM RawLinksAreOvertaken == Spec => RawOnlyIfOvertaken
<1>1. IInv /\ [Next]_vars => [RawStep]_vars BY RawSteps
<1> QED BY <1>1, Invariance, PTL DEF Spec, RawOnlyIfOvertaken, RawStep

(* Whatever is opened, closed and answered, in any order: waitSpinnerShow  *)
(* never leaves the spinner on display with no opening request under way.  *)
THEOREM SpinnerGoesWithAnswers == Spec => []SpinnerIsAwaited
<1>1. Init => AwaitInv
  <2>1. <<>> \in Seq({}) OBVIOUS
  <2> QED BY <2>1, SeqOfItsOwn DEF Init, AwaitInv, SpinnerIsAwaited
<1>2. AwaitInv => SpinnerIsAwaited BY DEF AwaitInv
<1> QED BY <1>1, <1>2, AwaitStep, PTL DEF Spec
=============================================================================
