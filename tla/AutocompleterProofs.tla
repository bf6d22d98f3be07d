------------------------- MODULE AutocompleterProofs -------------------------
(***************************************************************************)
(* What holds on a page with any number of auto-completing fields and any  *)
(* number of requests: the types, at most one look-up under way, menus     *)
(* that open only for the field in focus and its last search, and counters *)
(* that add up to the requests they wait for.                              *)
(***************************************************************************)
EXTENDS Autocompleter, FiniteSetTheorems, TLAPS

(* Only the last request of the page may be under way: beforeSend aborts   *)
(* the one before it.                                                      *)
LiveIsLast == \A r \in DOMAIN requests : Live(r) => r = Len(requests)

(* requestIndex numbers the searches of a field.                           *)
Numbered == \A r \in DOMAIN requests : requests[r].index <= index[requests[r].field]

(* The delay runs only in the field the user is in: blur stops it.         *)
DelayInFocus == \A f \in Fields : timer[f] # "off" => focus = f

(* An answer that may open a menu is one the user waits for.               *)
AwaitedInFocus ==
  \A r \in DOMAIN requests :
    Live(r) /\ IsLatest(r) /\ Suggests(r)
      => /\ focus = requests[r].field
         /\ requests[r].term = term[requests[r].field]

(* Text too short is never looked up, so no menu shows suggestions for it. *)
LongTerms == \A r \in DOMAIN requests : requests[r].term \notin Short

IInv == TypeOK /\ LiveIsLast /\ Numbered /\ DelayInFocus /\ AwaitedInFocus /\ LongTerms

-----------------------------------------------------------------------------
(* Abort keeps every request and touches only the status of the last.      *)
LEMMA AbortKeeps ==
  ASSUME NEW rs \in Seq(Request)
  PROVE  /\ Abort(rs) \in Seq(Request)
         /\ Len(Abort(rs)) = Len(rs)
         /\ \A r \in 1..Len(rs) :
              /\ Abort(rs)[r].field = rs[r].field
              /\ Abort(rs)[r].index = rs[r].index
              /\ Abort(rs)[r].term = rs[r].term
              /\ Abort(rs)[r].status = "live" => rs[r].status = "live" /\ r # Len(rs)
<1>1. ASSUME NEW r \in 1..Len(rs) PROVE Abort(rs)[r] \in Request
  <2>1. rs[r] \in Request OBVIOUS
  <2>2. [rs[r] EXCEPT !.status = "aborted"] \in Request BY <2>1 DEF Request
  <2> QED BY <2>1, <2>2 DEF Abort
<1>2. DOMAIN Abort(rs) = 1..Len(rs) BY DEF Abort
<1>3. Abort(rs) = [r \in 1..Len(rs) |-> Abort(rs)[r]] BY <1>2 DEF Abort
<1>4. Abort(rs) \in Seq(Request) BY <1>1, <1>3
<1>5. Len(Abort(rs)) = Len(rs) BY <1>2, <1>4
<1>6. ASSUME NEW r \in 1..Len(rs)
      PROVE  /\ Abort(rs)[r].field = rs[r].field
             /\ Abort(rs)[r].index = rs[r].index
             /\ Abort(rs)[r].term = rs[r].term
             /\ Abort(rs)[r].status = "live" => rs[r].status = "live" /\ r # Len(rs)
  <2>1. rs[r] \in Request OBVIOUS
  <2> QED BY <2>1 DEF Abort, Request
<1> QED BY <1>4, <1>5, <1>6

(* A search numbers its request beyond all of its field, and leaves no     *)
(* other request of the page under way.                                    *)
LEMMA SearchPreserves ==
  ASSUME IInv, NEW f \in Fields, Search(f), value[f] \notin Short, focus = f,
         term' = [term EXCEPT ![f] = value[f]],
         timer' \in [Fields -> {"off", "plain", "modified"}],
         \A g \in Fields : timer'[g] # "off" => timer[g] # "off",
         UNCHANGED <<focus, value>>
  PROVE  IInv'
<1> DEFINE old == IF Superseded THEN Abort(requests) ELSE requests
           new == [field |-> f, index |-> index[f] + 1, term |-> value[f], status |-> "live"]
<1>t. TypeOK /\ LiveIsLast /\ Numbered /\ DelayInFocus /\ AwaitedInFocus /\ LongTerms BY DEF IInv
<1>r. requests \in Seq(Request) BY <1>t DEF TypeOK
<1>i. index \in [Fields -> Nat] /\ index' = [index EXCEPT ![f] = @ + 1]
  BY <1>t DEF TypeOK, Search
<1>n. new \in Request BY <1>t, <1>i DEF TypeOK, Request
<1>q. requests' = Append(old, new) BY DEF Search
<1>o. /\ old \in Seq(Request) /\ Len(old) = Len(requests)
      /\ \A r \in 1..Len(requests) :
           /\ old[r].field = requests[r].field
           /\ old[r].index = requests[r].index
           /\ old[r].term = requests[r].term
           /\ old[r].status # "live"
  <2>1. CASE Superseded
    BY <1>r, <1>t, <2>1, AbortKeeps DEF LiveIsLast, Live
  <2>2. CASE ~ Superseded
    <3>1. ASSUME NEW r \in 1..Len(requests) PROVE requests[r].status # "live"
      BY <1>r, <1>t, <2>2, <3>1 DEF Superseded, Done, LiveIsLast, Live
    <3> QED BY <1>r, <2>2, <3>1
  <2> QED BY <2>1, <2>2
<1> HIDE DEF old, new
<1>a. /\ requests' \in Seq(Request) /\ Len(requests') = Len(requests) + 1
      /\ DOMAIN requests' = 1..(Len(requests) + 1)
      /\ requests'[Len(requests) + 1] = new
      /\ \A r \in 1..Len(requests) : requests'[r] = old[r]
  BY <1>o, <1>n, <1>q
<1>1. TypeOK'
  BY <1>t, <1>a, <1>i DEF TypeOK, Search
<1>2. LiveIsLast'
  BY <1>a, <1>o, <1>r DEF LiveIsLast, Live
<1>3. Numbered'
  <2>1. ASSUME NEW r \in DOMAIN requests' PROVE requests'[r].index <= index'[requests'[r].field]
    <3>1. CASE r = Len(requests) + 1 BY <1>a, <1>i, <3>1 DEF new
    <3>2. CASE r \in 1..Len(requests)
      <4>1. requests[r] \in Request BY <1>r, <3>2
      <4>2. requests[r].index <= index[requests[r].field] BY <1>t, <1>r, <3>2 DEF Numbered
      <4>3. requests[r].index \in Nat /\ requests[r].field \in Fields BY <4>1 DEF Request
      <4>4. \A g \in Fields : index[g] \in Nat /\ index'[g] \in Nat /\ index[g] <= index'[g] BY <1>i
      <4>5. requests'[r].index = requests[r].index /\ requests'[r].field = requests[r].field
        BY <1>a, <1>o, <3>2
      <4> QED BY <4>2, <4>3, <4>4, <4>5
    <3> QED BY <1>a, <1>r, <3>1, <3>2
  <2> QED BY <2>1 DEF Numbered
<1>4. DelayInFocus' BY <1>t DEF DelayInFocus
<1>5. AwaitedInFocus'
  <2>1. ASSUME NEW r \in DOMAIN requests', Live(r)'
        PROVE  focus' = requests'[r].field /\ requests'[r].term = term'[requests'[r].field]
    <3>1. r = Len(requests) + 1 BY <1>a, <1>2, <2>1 DEF LiveIsLast
    <3> QED BY <1>a, <1>t, <3>1 DEF new, TypeOK
  <2> QED BY <2>1 DEF AwaitedInFocus
<1>6. LongTerms'
  BY <1>a, <1>o, <1>t, <1>r DEF LongTerms, new
<1> QED BY <1>1, <1>2, <1>3, <1>4, <1>5, <1>6 DEF IInv

-----------------------------------------------------------------------------
(* The initial page has no request.                                        *)
LEMMA InitIInv == Init => IInv
BY AutocompleterAssumption
DEF Init, IInv, TypeOK, LiveIsLast, Numbered, DelayInFocus, AwaitedInFocus, LongTerms, Live

(* A search that closes instead cancels what its field waits for.          *)
LEMMA CloseCancels ==
  ASSUME IInv, NEW f \in Fields, Close(f),
         value' \in [Fields -> Values],
         term' \in [Fields -> Values], \A g \in Fields : g # f => term'[g] = term[g],
         timer' \in [Fields -> {"off", "plain", "modified"}],
         \A g \in Fields : timer'[g] # "off" => focus' = g,
         focus' \in Fields \cup {NoField}, focus' = focus \/ focus = f,
         UNCHANGED <<index, pending, loading, requests>>
  PROVE  IInv'
<1>t. TypeOK /\ LiveIsLast /\ Numbered /\ DelayInFocus /\ AwaitedInFocus /\ LongTerms BY DEF IInv
<1>c. cancel' \in [Fields -> BOOLEAN] /\ cancel'[f] /\ \A g \in Fields : g # f => cancel'[g] = cancel[g]
  BY <1>t DEF TypeOK, Close
<1>1. TypeOK' BY <1>t, <1>c DEF TypeOK, Close
<1>2. LiveIsLast' BY <1>t DEF LiveIsLast, Live
<1>3. Numbered' BY <1>t DEF Numbered
<1>4. DelayInFocus' BY DEF DelayInFocus
<1>5. AwaitedInFocus'
  <2> SUFFICES ASSUME NEW r \in DOMAIN requests, Live(r), IsLatest(r), ~ cancel'[requests[r].field]
               PROVE  /\ focus' = requests[r].field
                      /\ requests[r].term = term'[requests[r].field]
    BY DEF AwaitedInFocus, Live, IsLatest, Suggests
  <2>1. requests[r] \in Request BY <1>t DEF TypeOK
  <2>2. requests[r].field \in Fields /\ requests[r].field # f BY <1>c, <2>1 DEF Request
  <2>3. focus = requests[r].field /\ requests[r].term = term[requests[r].field]
    BY <1>t, <1>c, <2>2 DEF AwaitedInFocus, Suggests
  <2> QED BY <2>2, <2>3
<1>6. LongTerms' BY <1>t DEF LongTerms
<1> QED BY <1>1, <1>2, <1>3, <1>4, <1>5, <1>6 DEF IInv

(* Moving into a field, typing and choosing with the arrows leave what is  *)
(* looked up alone.                                                        *)
LEMMA EditPreserves ==
  ASSUME IInv, value' \in [Fields -> Values],
         timer' \in [Fields -> {"off", "plain", "modified"}],
         focus' \in Fields \cup {NoField}, focus' = focus \/ focus = NoField,
         \A f \in Fields : timer'[f] # "off" => focus' = f,
         UNCHANGED <<widget, requests>>
  PROVE  IInv'
<1>t. TypeOK /\ LiveIsLast /\ Numbered /\ DelayInFocus /\ AwaitedInFocus /\ LongTerms BY DEF IInv
<1>w. UNCHANGED <<term, menu, cancel, index, pending, loading>> BY DEF widget
<1>1. TypeOK' BY <1>t, <1>w DEF TypeOK
<1>2. LiveIsLast' BY <1>t DEF LiveIsLast, Live
<1>3. Numbered' BY <1>t, <1>w DEF Numbered
<1>4. DelayInFocus' BY DEF DelayInFocus
<1>5. AwaitedInFocus'
  <2> SUFFICES ASSUME NEW r \in DOMAIN requests, Live(r), IsLatest(r), Suggests(r)
               PROVE  /\ focus' = requests[r].field
                      /\ requests[r].term = term[requests[r].field]
    BY <1>w DEF AwaitedInFocus, Live, IsLatest, Suggests
  <2>1. requests[r] \in Request BY <1>t DEF TypeOK
  <2>2. requests[r].field # NoField BY <2>1, AutocompleterAssumption DEF Request
  <2> QED BY <1>t, <2>2 DEF AwaitedInFocus
<1>6. LongTerms' BY <1>t DEF LongTerms
<1> QED BY <1>1, <1>2, <1>3, <1>4, <1>5, <1>6 DEF IInv

(* A request that ends, answered or not, is waited for no longer.          *)
LEMMA EndPreserves ==
  ASSUME IInv, NEW r \in DOMAIN requests,
         NEW how \in {"answered", "silent", "http", "cut"},
         requests' = [requests EXCEPT ![r].status = how],
         menu' \in [Fields -> (Values \ Short) \cup {NoMenu}],
         pending' \in [Fields -> Int], loading' \in [Fields -> BOOLEAN],
         UNCHANGED <<focus, value, timer, term, cancel, index>>
  PROVE  IInv'
<1>t. TypeOK /\ LiveIsLast /\ Numbered /\ DelayInFocus /\ AwaitedInFocus /\ LongTerms BY DEF IInv
<1>r. requests \in Seq(Request) /\ \A s \in DOMAIN requests : requests[s] \in Request
  BY <1>t DEF TypeOK
<1>a. /\ requests' \in Seq(Request) /\ Len(requests') = Len(requests)
      /\ DOMAIN requests' = DOMAIN requests
  <2>1. [requests[r] EXCEPT !.status = how] \in Request BY <1>r DEF Request
  <2> QED BY <1>r, <2>1
<1>b. \A s \in DOMAIN requests :
        /\ requests'[s].field = requests[s].field /\ requests'[s].index = requests[s].index
        /\ requests'[s].term = requests[s].term
        /\ requests'[s].status = "live" => requests[s].status = "live"
  BY <1>r DEF Request
<1>1. TypeOK' BY <1>t, <1>a DEF TypeOK
<1>2. LiveIsLast' BY <1>t, <1>a, <1>b DEF LiveIsLast, Live
<1>3. Numbered' BY <1>t, <1>a, <1>b DEF Numbered
<1>4. DelayInFocus' BY <1>t DEF DelayInFocus
<1>5. AwaitedInFocus' BY <1>t, <1>a, <1>b DEF AwaitedInFocus, Live, IsLatest, Suggests
<1>6. LongTerms' BY <1>t, <1>a, <1>b DEF LongTerms
<1> QED BY <1>1, <1>2, <1>3, <1>4, <1>5, <1>6 DEF IInv

(* search() of the field in focus, by the delay or by an arrow key.        *)
LEMMA SearchOrClosePreserves ==
  ASSUME IInv, NEW f \in Fields, SearchOrClose(f), focus = f,
         timer' \in [Fields -> {"off", "plain", "modified"}],
         \A g \in Fields : timer'[g] # "off" => timer[g] # "off",
         UNCHANGED <<focus, value>>
  PROVE  IInv'
<1>t. TypeOK /\ DelayInFocus BY DEF IInv
<1>1. CASE value[f] \in Short /\ Close(f) /\ UNCHANGED <<index, pending, loading, requests>>
  <2>1. term' \in [Fields -> Values] /\ \A g \in Fields : g # f => term'[g] = term[g]
    BY <1>t DEF SearchOrClose, TypeOK
  <2>2. \A g \in Fields : timer'[g] # "off" => focus' = g BY <1>t DEF DelayInFocus
  <2> QED BY <1>1, <1>t, <2>1, <2>2, CloseCancels DEF TypeOK
<1>2. CASE value[f] \notin Short /\ Search(f)
  BY <1>2, SearchPreserves DEF SearchOrClose
<1> QED BY <1>1, <1>2 DEF SearchOrClose

(* Every step of the page keeps the invariant.                             *)
LEMMA StepIInv == IInv /\ [Next]_vars => IInv'
<1> SUFFICES ASSUME IInv, [Next]_vars PROVE IInv'
  OBVIOUS
<1>t. TypeOK /\ DelayInFocus /\ LongTerms BY DEF IInv
<1>1. ASSUME NEW f \in Fields, Focus(f) PROVE IInv'
  BY <1>1, <1>t, EditPreserves, AutocompleterAssumption DEF Focus, TypeOK, DelayInFocus
<1>2. ASSUME NEW f \in Fields, Blur(f) PROVE IInv'
  <2>1. /\ timer' \in [Fields -> {"off", "plain", "modified"}]
        /\ \A g \in Fields : timer'[g] # "off" => g # f /\ timer[g] # "off"
    BY <1>2, <1>t DEF Blur, TypeOK
  <2>2. \A g \in Fields : timer'[g] = "off" BY <1>2, <1>t, <2>1 DEF Blur, DelayInFocus
  <2> QED BY <1>2, <1>t, <2>1, <2>2, CloseCancels DEF Blur, TypeOK
<1>3. ASSUME NEW f \in Fields, CloseOnClickOutside(f) PROVE IInv'
  BY <1>3, <1>t, CloseCancels DEF CloseOnClickOutside, TypeOK, DelayInFocus
<1>4. ASSUME NEW f \in Fields, Escape(f) PROVE IInv'
  <2>1. value' \in [Fields -> Values] BY <1>4, <1>t DEF Escape, TypeOK
  <2> QED BY <1>4, <1>t, <2>1, CloseCancels DEF Escape, TypeOK, DelayInFocus
<1>5. ASSUME NEW f \in Fields, DelayEnds(f) PROVE IInv'
  <2>1. /\ focus = f /\ timer' \in [Fields -> {"off", "plain", "modified"}]
        /\ \A g \in Fields : timer'[g] # "off" => timer[g] # "off"
        /\ UNCHANGED <<focus, value>>
    BY <1>5, <1>t DEF DelayEnds, DelayInFocus, TypeOK
  <2>2. CASE SearchOrClose(f) BY <2>1, <2>2, SearchOrClosePreserves
  <2>3. CASE UNCHANGED <<widget, requests>>
    BY <1>t, <2>1, <2>3, EditPreserves DEF TypeOK, DelayInFocus
  <2> QED BY <1>5, <2>2, <2>3 DEF DelayEnds
<1>6. ASSUME NEW f \in Fields, ArrowSearches(f) PROVE IInv'
  BY <1>6, <1>t, SearchOrClosePreserves DEF ArrowSearches, TypeOK
<1>7. ASSUME NEW f \in Fields, NEW v \in Values, Arrow(f, v) PROVE IInv'
  <2>1. value' \in [Fields -> Values] BY <1>7, <1>t DEF Arrow, TypeOK
  <2> QED BY <1>7, <1>t, <2>1, EditPreserves DEF Arrow, TypeOK, DelayInFocus
<1>8. ASSUME NEW f \in Fields, NEW v \in Values, Select(f, v) PROVE IInv'
  <2>1. /\ value' \in [Fields -> Values] /\ term' \in [Fields -> Values]
        /\ \A g \in Fields : g # f => term'[g] = term[g]
    BY <1>8, <1>t DEF Select, TypeOK
  <2> QED BY <1>8, <1>t, <2>1, CloseCancels DEF Select, TypeOK, DelayInFocus
<1>9. ASSUME NEW f \in Fields, NEW v \in Values, NEW key \in {"plain", "modified"}, Type(f, v, key)
      PROVE  IInv'
  <2>1. /\ value' \in [Fields -> Values] /\ timer' \in [Fields -> {"off", "plain", "modified"}]
        /\ \A g \in Fields : timer'[g] # "off" => focus' = g
    BY <1>9, <1>t DEF Type, TypeOK, DelayInFocus
  <2> QED BY <1>9, <1>t, <2>1, EditPreserves DEF Type, TypeOK
<1>10. ASSUME NEW r \in DOMAIN requests, Answer(r) PROVE IInv'
  <2>1. requests[r] \in Request /\ requests[r].term \notin Short BY <1>t DEF TypeOK, LongTerms
  <2>2. /\ menu' \in [Fields -> (Values \ Short) \cup {NoMenu}]
        /\ pending' \in [Fields -> Int] /\ loading' \in [Fields -> BOOLEAN]
    BY <1>10, <1>t, <2>1 DEF Answer, TypeOK, Request
  <2> QED BY <1>10, <2>2, EndPreserves DEF Answer
<1>11. ASSUME NEW r \in DOMAIN requests, NEW how \in Failures, Fail(r, how) PROVE IInv'
  <2>1. how \in {"answered", "silent", "http", "cut"} BY AutocompleterAssumption DEF FailureKinds
  <2> QED BY <1>11, <1>t, <2>1, EndPreserves DEF Fail, widget, TypeOK
<1>12. CASE UNCHANGED vars
  BY <1>12, <1>t, EditPreserves DEF vars, widget, TypeOK, DelayInFocus
<1> QED
  BY <1>1, <1>2, <1>3, <1>4, <1>5, <1>6, <1>7, <1>8, <1>9, <1>10, <1>11, <1>12 DEF Next

LEMMA Invariance == Spec => []IInv
BY InitIInv, StepIInv, PTL DEF Spec

(* A menu that changes is that of the answered request, which its user     *)
(* still waits for.                                                        *)
LEMMA MenuStep ==
  ASSUME IInv, [Next]_vars, NEW f \in Fields, menu'[f] \notin {NoMenu, menu[f]}
  PROVE  focus' = f /\ menu'[f] = term'[f]
<1>t. TypeOK /\ AwaitedInFocus BY DEF IInv
<1>1. ASSUME NEW g \in Fields, Close(g) PROVE FALSE
  BY <1>1, <1>t DEF Close, TypeOK
<1>2. ASSUME NEW g \in Fields, Search(g) PROVE FALSE
  BY <1>2, <1>t DEF Search, TypeOK
<1>3. PICK r \in DOMAIN requests : Answer(r)
  <2>1. \A g \in Fields : ~ SearchOrClose(g) BY <1>1, <1>2 DEF SearchOrClose
  <2> QED
    BY <1>1, <2>1
    DEF Next, vars, widget, Focus, Type, Blur, CloseOnClickOutside, Escape, Arrow, Select,
        DelayEnds, ArrowSearches, Fail
<1>4. requests[r] \in Request BY <1>t DEF TypeOK
<1>5. /\ f = requests[r].field /\ IsLatest(r) /\ Suggests(r)
      /\ menu'[f] = requests[r].term
  BY <1>3, <1>4, <1>t DEF Answer, TypeOK, Request
<1>6. focus = f /\ requests[r].term = term[f] BY <1>3, <1>5, <1>t DEF AwaitedInFocus, Answer
<1> QED BY <1>3, <1>5, <1>6 DEF Answer

-----------------------------------------------------------------------------
(* The types of the variables, on every page.                              *)
THEOREM TypeCorrect == Spec => []TypeOK
<1>1. IInv => TypeOK BY DEF IInv
<1> QED BY <1>1, Invariance, PTL

(* However many fields share LAST_AUTOCOMP_REF, one look-up at most is     *)
(* under way.                                                              *)
THEOREM OneLookupAlways == Spec => []OneLookup
<1>1. IInv => OneLookup BY DEF IInv, LiveIsLast, OneLookup, Live
<1> QED BY <1>1, Invariance, PTL

(* In whatever order answers come, a menu opens only under the field in    *)
(* focus, for the text it last searched for.                               *)
THEOREM MenusOpenForFocus == Spec => MenuOpensForFocus
<1>1. IInv /\ [Next]_vars
        => [\A f \in Fields :
              menu'[f] \notin {NoMenu, menu[f]} => focus' = f /\ menu'[f] = term'[f]]_vars
  BY MenuStep
<1> QED BY <1>1, Invariance, PTL DEF Spec, MenuOpensForFocus

-----------------------------------------------------------------------------
(* The sum of the counters                                                 *)

(* Every set of numbers has a least one.                                   *)
LEMMA LeastNumber ==
  ASSUME NEW S \in SUBSET Nat, S # {}
  PROVE  \E x \in S : \A y \in S : x <= y
<1> DEFINE R == {p \in Nat \X Nat : p[1] < p[2]}
<1>1. IsWellFoundedOn(R, Nat) BY NatLessThanWellFounded DEF OpToRel
<1> HIDE DEF R
<1>2. PICK x \in S : \A y \in S : ~ (<<y, x>> \in R) BY <1>1, WFMin
<1>3. \A y \in S : ~ (y < x) BY <1>2 DEF R
<1> QED BY <1>3

(* The sums that MapThenSumSet builds, one for each set s of fields: an    *)
(* element of s and the sum of the others.                                 *)
Any(s) == CHOOSE x \in s : TRUE
SumStep(p, g, s) == IF s = {} THEN 0 ELSE p[Any(s)] + g[s \ {Any(s)}]
SumsOf(p, F) == CHOOSE g : g = [s \in SUBSET F |-> SumStep(p, g, s)]

Upto(F, n) == {s \in SUBSET F : Cardinality(s) <= n}
Sums(p, F, n, g) ==
    g \in [Upto(F, n) -> Int] /\ \A s \in Upto(F, n) : g[s] = SumStep(p, g, s)
HasSums(p, F, n) == \E g : Sums(p, F, n, g)

LEMMA OneLess ==
  ASSUME NEW F, IsFiniteSet(F), NEW s \in SUBSET F, s # {}
  PROVE  /\ Any(s) \in s /\ Any(s) \in F /\ s \ {Any(s)} \in SUBSET F
         /\ Cardinality(s) \in Nat
         /\ Cardinality(s \ {Any(s)}) = Cardinality(s) - 1
<1>1. Any(s) \in s BY DEF Any
<1>2. IsFiniteSet(s) BY FS_Subset
<1>3. Cardinality(s) \in Nat BY <1>2, FS_CardinalityType
<1>4. Cardinality(s \ {Any(s)}) = Cardinality(s) - 1 BY <1>1, <1>2, FS_RemoveElement
<1> QED BY <1>1, <1>3, <1>4

(* There are such sums for the sets of n members.                          *)
LEMMA SumsExist ==
  ASSUME NEW F, IsFiniteSet(F), NEW p \in [F -> Int], NEW n \in Nat
  PROVE  HasSums(p, F, n)
<1> DEFINE Bad == {m \in 0 .. n : ~ HasSums(p, F, m)}
<1>1. SUFFICES ASSUME Bad # {} PROVE FALSE OBVIOUS
<1>2. Bad \in SUBSET Nat OBVIOUS
<1> HIDE DEF Bad
<1>3. PICK m \in Bad : \A l \in Bad : m <= l BY <1>1, <1>2, LeastNumber
<1> USE DEF Bad
<1>4. m \in 0 .. n /\ m \in Nat /\ ~ HasSums(p, F, m) BY <1>3
<1>5. CASE m = 0
  <2> DEFINE g == [s \in Upto(F, 0) |-> 0]
  <2>1. \A s \in Upto(F, 0) : s = {}
    <3> SUFFICES ASSUME NEW s \in Upto(F, 0) PROVE s = {} OBVIOUS
    <3>1. s \in SUBSET F /\ Cardinality(s) <= 0 BY DEF Upto
    <3>2. IsFiniteSet(s) /\ Cardinality(s) \in Nat BY <3>1, FS_Subset, FS_CardinalityType
    <3> QED BY <3>1, <3>2, FS_EmptySet
  <2>2. Sums(p, F, 0, g) BY <2>1 DEF Sums, SumStep
  <2> QED BY <1>4, <1>5, <2>2 DEF HasSums
<1>6. CASE m # 0
  <2>1. m - 1 \in 0 .. n /\ m - 1 \notin Bad BY <1>3, <1>4, <1>6
  <2>2. PICK g : Sums(p, F, m - 1, g) BY <2>1 DEF HasSums
  <2> DEFINE h == [s \in Upto(F, m) |-> SumStep(p, g, s)]
  <2>3. ASSUME NEW s \in Upto(F, m) PROVE h[s] \in Int /\ h[s] = SumStep(p, h, s)
    <3>1. s \in SUBSET F /\ Cardinality(s) <= m BY DEF Upto
    <3>2. CASE s = {} BY <3>2 DEF SumStep
    <3>3. CASE s # {}
      <4> DEFINE t == s \ {Any(s)}
      <4>1. /\ Any(s) \in F /\ t \in SUBSET F
            /\ Cardinality(s) \in Nat /\ Cardinality(t) = Cardinality(s) - 1
        BY <3>1, <3>3, OneLess
      <4>2. t \in Upto(F, m - 1) /\ t \in Upto(F, m) BY <1>4, <3>1, <4>1 DEF Upto
      <4>3. h[t] = g[t] /\ g[t] \in Int BY <2>2, <4>2 DEF Sums
      <4>4. SumStep(p, h, s) = SumStep(p, g, s) BY <3>3, <4>3 DEF SumStep
      <4>5. SumStep(p, g, s) \in Int BY <3>3, <4>1, <4>3 DEF SumStep
      <4> QED BY <4>4, <4>5
    <3> QED BY <3>2, <3>3
  <2>4. Sums(p, F, m, h) BY <2>3 DEF Sums
  <2> QED BY <1>4, <2>4 DEF HasSums
<1> QED BY <1>5, <1>6

(* The sums of all sets of fields: they are determined by the steps.       *)
IsSums(p, F, g) == g = [s \in SUBSET F |-> SumStep(p, g, s)]

LEMMA SumsUnique ==
  ASSUME NEW F, IsFiniteSet(F), NEW p, NEW g, NEW h, IsSums(p, F, g), IsSums(p, F, h)
  PROVE  g = h
<1>0. \A s \in SUBSET F : g[s] = SumStep(p, g, s) /\ h[s] = SumStep(p, h, s)
  <2>1. \A s \in SUBSET F : g[s] = SumStep(p, g, s) BY Zenon DEF IsSums
  <2>2. \A s \in SUBSET F : h[s] = SumStep(p, h, s) BY Zenon DEF IsSums
  <2> QED BY <2>1, <2>2
<1> DEFINE Bad == {Cardinality(s) : s \in {t \in SUBSET F : g[t] # h[t]}}
<1>1. CASE Bad = {}
  <2>1. \A s \in SUBSET F : g[s] = h[s] BY <1>1
  <2>2. g = [s \in SUBSET F |-> g[s]] /\ h = [s \in SUBSET F |-> h[s]]
    <3>1. g = [s \in SUBSET F |-> SumStep(p, g, s)] BY DEF IsSums
    <3>2. h = [s \in SUBSET F |-> SumStep(p, h, s)] BY DEF IsSums
    <3> QED BY <1>0, <3>1, <3>2
  <2> QED BY <2>1, <2>2
<1>2. CASE Bad # {}
  <2>1. Bad \in SUBSET Nat BY FS_Subset, FS_CardinalityType
  <2> HIDE DEF Bad
  <2>2. PICK m \in Bad : \A l \in Bad : m <= l BY <1>2, <2>1, LeastNumber
  <2> USE DEF Bad
  <2>3. PICK s \in SUBSET F : g[s] # h[s] /\ Cardinality(s) = m BY <2>2
  <2>4. s # {} BY <1>0, <2>3 DEF SumStep
  <2> DEFINE t == s \ {Any(s)}
  <2>5. /\ t \in SUBSET F /\ Cardinality(s) \in Nat
        /\ Cardinality(t) = Cardinality(s) - 1
    BY <2>4, OneLess
  <2>6. g[t] = h[t]
    <3>1. ASSUME g[t] # h[t] PROVE FALSE
      <4>1. Cardinality(t) \in Bad BY <2>5, <3>1
      <4> HIDE DEF Bad, t
      <4>2. m <= Cardinality(t) BY <2>2, <4>1
      <4> QED BY <2>3, <2>5, <4>2
    <3> QED BY <3>1
  <2>7. SumStep(p, g, s) = SumStep(p, h, s) BY <2>4, <2>6 DEF SumStep
  <2> QED BY <1>0, <2>3, <2>7
<1> QED BY <1>1, <1>2

LEMMA SumsOfAll ==
  ASSUME NEW F, IsFiniteSet(F), NEW p \in [F -> Int]
  PROVE  /\ IsSums(p, F, SumsOf(p, F)) /\ SumsOf(p, F) \in [SUBSET F -> Int]
         /\ \A s \in SUBSET F : SumsOf(p, F)[s] = SumStep(p, SumsOf(p, F), s)
<1>1. Cardinality(F) \in Nat BY FS_CardinalityType
<1>2. PICK g : Sums(p, F, Cardinality(F), g) BY <1>1, SumsExist DEF HasSums
<1>3. Upto(F, Cardinality(F)) = SUBSET F BY FS_Subset DEF Upto
<1>4. g \in [SUBSET F -> Int] /\ \A s \in SUBSET F : g[s] = SumStep(p, g, s)
  BY <1>2, <1>3 DEF Sums
<1>5. IsSums(p, F, g)
  <2>1. g = [s \in SUBSET F |-> g[s]] BY <1>4
  <2> QED BY <1>4, <2>1 DEF IsSums
<1>6. IsSums(p, F, SumsOf(p, F)) BY <1>5 DEF IsSums, SumsOf
<1>7. SumsOf(p, F) = g BY <1>5, <1>6, SumsUnique
<1> QED BY <1>4, <1>6, <1>7

(* Counters at zero have no sum, and one counter moves the sum as far as   *)
(* it moves itself.                                                        *)
LEMMA SumOfNone ==
  ASSUME NEW F, IsFiniteSet(F)
  PROVE  SumsOf([f \in F |-> 0], F)[F] = 0
<1> DEFINE p == [f \in F |-> 0]
           h == [s \in SUBSET F |-> 0]
<1>1. p \in [F -> Int] OBVIOUS
<1>2. ASSUME NEW s \in SUBSET F PROVE h[s] = SumStep(p, h, s)
  <2>1. CASE s # {}
    <3>1. Any(s) \in F /\ s \ {Any(s)} \in SUBSET F BY <2>1, OneLess
    <3> QED BY <2>1, <3>1 DEF SumStep
  <2> QED BY <2>1 DEF SumStep
<1>3. IsSums(p, F, h) BY <1>2 DEF IsSums
<1>4. SumsOf(p, F) = h
  <2> HIDE DEF p, h
  <2>1. IsSums(p, F, SumsOf(p, F)) BY <1>1, SumsOfAll
  <2> QED BY <1>3, <2>1, SumsUnique
<1> QED BY <1>4

LEMMA SumMoves ==
  ASSUME NEW F, IsFiniteSet(F), NEW p \in [F -> Int], NEW q \in [F -> Int],
         NEW f \in F, NEW n \in Int, q[f] = p[f] + n, \A g \in F \ {f} : q[g] = p[g]
  PROVE  SumsOf(q, F)[F] = SumsOf(p, F)[F] + n
<1> DEFINE g == SumsOf(p, F)
           h == [s \in SUBSET F |-> g[s] + (IF f \in s THEN n ELSE 0)]
<1>2. /\ g \in [SUBSET F -> Int] /\ \A s \in SUBSET F : g[s] = SumStep(p, g, s)
  BY SumsOfAll
<1>3. ASSUME NEW s \in SUBSET F PROVE h[s] = SumStep(q, h, s)
  <2> HIDE DEF g
  <2>1. CASE s = {}
    <3>1. g[s] = 0 /\ f \notin s BY <1>2, <2>1 DEF SumStep
    <3>2. h[s] = 0 BY <3>1
    <3> QED BY <2>1, <3>2 DEF SumStep
  <2>2. CASE s # {}
    <3>1. Any(s) \in s /\ Any(s) \in F /\ s \ {Any(s)} \in SUBSET F BY <2>2, OneLess
    <3>2. g[s] = p[Any(s)] + g[s \ {Any(s)}] BY <1>2, <2>2 DEF SumStep
    <3>3. g[s \ {Any(s)}] \in Int /\ p[Any(s)] \in Int /\ p[f] \in Int BY <1>2, <3>1
    <3>4. SumStep(q, h, s) = q[Any(s)] + h[s \ {Any(s)}] BY <2>2 DEF SumStep
    <3>5. h[s \ {Any(s)}]
            = g[s \ {Any(s)}] + (IF f \in s \ {Any(s)} THEN n ELSE 0)
      BY <3>1
    <3>6. h[s] = g[s] + (IF f \in s THEN n ELSE 0) OBVIOUS
    <3> HIDE DEF h
    <3>7. CASE f = Any(s) BY <3>1, <3>2, <3>3, <3>4, <3>5, <3>6, <3>7
    <3>8. CASE f # Any(s) BY <3>1, <3>2, <3>3, <3>4, <3>5, <3>6, <3>8
    <3> QED BY <3>7, <3>8
  <2> QED BY <2>1, <2>2
<1>4. IsSums(q, F, h) BY <1>3 DEF IsSums
<1>5. SumsOf(q, F) = h
  <2> HIDE DEF h
  <2>1. IsSums(q, F, SumsOf(q, F)) BY SumsOfAll
  <2> QED BY <1>4, <2>1, SumsUnique
<1>6. h[F] = g[F] + n OBVIOUS
<1> QED BY <1>5, <1>6

-----------------------------------------------------------------------------
(* What the counters count                                                 *)

Total == SumsOf(pending, Fields)[Fields]

(* The requests of rs whose answer, or the news of whose failure, the      *)
(* counters wait for.                                                      *)
Owes(rs, r) ==
    \/ rs[r].status \in {"live", "silent", "http"}
    \/ r = Len(rs) /\ rs[r].status = "cut"

OwedOf(rs) == {r \in DOMAIN rs : Owes(rs, r)}
Owed == OwedOf(requests)

(* Nobody aborts a request without sending one after it.                   *)
LastStands == requests # <<>> => requests[Len(requests)].status # "aborted"

Balance == IInv /\ LastStands /\ Total = Cardinality(Owed)

LEMMA OwedFinite == ASSUME TypeOK PROVE IsFiniteSet(Owed) /\ Cardinality(Owed) \in Nat
<1>1. requests \in Seq(Request) /\ Len(requests) \in Nat /\ DOMAIN requests = 1 .. Len(requests)
  BY DEF TypeOK
<1>2. IsFiniteSet(1 .. Len(requests)) BY <1>1, FS_Interval
<1>3. Owed \in SUBSET (1 .. Len(requests)) BY <1>1 DEF Owed, OwedOf
<1> QED BY <1>2, <1>3, FS_Subset, FS_CardinalityType

(* The three kinds of requests that PendingBalance counts are apart.       *)
LEMMA BalanceSuffices == ASSUME Balance PROVE PendingBalance
<1> DEFINE Lives  == {r \in DOMAIN requests : Live(r)}
           Untold == {r \in DOMAIN requests : requests[r].status \in {"silent", "http"}}
           CutNow == {r \in DOMAIN requests : r = Len(requests) /\ requests[r].status = "cut"}
<1>1. IsFiniteSet(Owed) BY OwedFinite DEF Balance, IInv
<1>2. Owed = (Lives \cup Untold) \cup CutNow BY DEF Owed, OwedOf, Owes, Live
<1>3. Lives \in SUBSET Owed /\ Untold \in SUBSET Owed /\ CutNow \in SUBSET Owed BY <1>2
<1>4. Lives \cap Untold = {} /\ (Lives \cup Untold) \cap CutNow = {} BY DEF Live
<1>5. IsFiniteSet(Lives) /\ IsFiniteSet(Untold) /\ IsFiniteSet(CutNow) BY <1>1, <1>3, FS_Subset
<1>6. Cardinality(Owed) = Cardinality(Lives) + Cardinality(Untold) + Cardinality(CutNow)
  <2> HIDE DEF Lives, Untold, CutNow
  <2>1. /\ IsFiniteSet(Lives \cup Untold)
        /\ Cardinality(Lives \cup Untold)
             = Cardinality(Lives) + Cardinality(Untold) - Cardinality(Lives \cap Untold)
    BY <1>5, FS_Union
  <2>2. Cardinality((Lives \cup Untold) \cup CutNow)
          = Cardinality(Lives \cup Untold) + Cardinality(CutNow)
              - Cardinality((Lives \cup Untold) \cap CutNow)
    BY <1>5, <2>1, FS_Union
  <2>3. /\ Cardinality(Lives) \in Nat /\ Cardinality(Untold) \in Nat
        /\ Cardinality(CutNow) \in Nat
    BY <1>5, FS_CardinalityType
  <2> QED BY <1>2, <1>4, <2>1, <2>2, <2>3, FS_EmptySet
<1>7. MapThenSumSet(LAMBDA f : pending[f], Fields) = Total
  BY DEF MapThenSumSet, MapThenFoldSet, Total, SumsOf, SumStep, Any
<1> QED BY <1>6, <1>7 DEF Balance, PendingBalance

LEMMA InitBalance == Init => Balance
<1> SUFFICES ASSUME Init PROVE Balance OBVIOUS
<1>1. IInv BY InitIInv
<1>2. LastStands BY DEF Init, LastStands
<1>3. Owed = {} BY DEF Init, Owed, OwedOf
<1>4. Total = 0 BY SumOfNone, AutocompleterAssumption DEF Init, Total
<1> QED BY <1>1, <1>2, <1>3, <1>4, FS_EmptySet DEF Balance

(* Steps that send nothing and hear nothing.                               *)
LEMMA QuietBalance ==
  ASSUME Balance, IInv', UNCHANGED <<pending, requests>> PROVE Balance'
<1>1. Total' = Total /\ Owed' = Owed /\ LastStands'
  BY DEF Balance, Total, Owed, LastStands
<1> QED BY <1>1 DEF Balance

(* A request that is sent is owed its answer.  It takes the place of one   *)
(* that it aborts, or that was cut off.                                    *)
LEMMA SearchBalance ==
  ASSUME Balance, IInv', NEW f \in Fields, Search(f)
  PROVE  Balance'
<1>t. /\ TypeOK /\ LiveIsLast /\ LastStands /\ requests \in Seq(Request)
      /\ pending \in [Fields -> Int] /\ TypeOK'
  BY DEF Balance, IInv, TypeOK
<1> DEFINE n == Len(requests)
           sent == [field |-> f, index |-> index[f] + 1, term |-> value[f], status |-> "live"]
           old == IF Superseded THEN Abort(requests) ELSE requests
<1>1. /\ n \in Nat /\ DOMAIN requests = 1 .. n
      /\ \A r \in 1 .. n : requests[r] \in Request
  BY <1>t
<1>2. /\ DOMAIN requests' = 1 .. (n + 1) /\ Len(requests') = n + 1
      /\ requests'[n + 1] = sent /\ \A r \in 1 .. n : requests'[r] = old[r]
  <2>1. old \in Seq(Request) /\ Len(old) = n BY <1>t, AbortKeeps
  <2>2. requests' = Append(old, sent) BY DEF Search
  <2> HIDE DEF old, sent
  <2> QED BY <1>1, <2>1, <2>2
<1>3. LastStands' BY <1>1, <1>2 DEF LastStands
<1>4. IsFiniteSet(Owed) /\ Cardinality(Owed) \in Nat /\ Owed \subseteq 1 .. n
  BY <1>t, <1>1, OwedFinite DEF Owed, OwedOf
<1>5. \A r \in 1 .. n : requests[r].status = "live" => r = n BY <1>t, <1>1 DEF LiveIsLast, Live
<1>6. CASE Superseded
  <2>1. n \in Owed
    <3>1. n >= 1 /\ n \in 1 .. n BY <1>t, <1>1, <1>6 DEF Superseded
    <3>2. requests[n].status \in {"live", "cut"}
      BY <1>t, <1>1, <1>6, <3>1 DEF Superseded, Done, LastStands, Request
    <3> QED BY <1>1, <3>1, <3>2 DEF Owed, OwedOf, Owes
  <2>2. \A r \in 1 .. n :
          requests'[r].status = IF r = n /\ requests[r].status = "live" THEN "aborted"
                                ELSE requests[r].status
    BY <1>1, <1>2, <1>6 DEF Abort, Request
  <2>3. Owed' = (Owed \ {n}) \cup {n + 1}
    <3>1. \A r \in 1 .. n : Owes(requests', r) <=> Owes(requests, r) /\ r # n
      <4> SUFFICES ASSUME NEW r \in 1 .. n PROVE Owes(requests', r) <=> Owes(requests, r) /\ r # n OBVIOUS
      <4>1. r # n + 1 /\ n + 1 = Len(requests') BY <1>1, <1>2
      <4>2. n \in 1 .. n /\ requests[n].status \notin {"silent", "http"}
        BY <1>t, <1>1, <1>6 DEF Superseded, Done
      <4>3. CASE r = n BY <2>2, <4>1, <4>2, <4>3 DEF Owes
      <4>4. CASE r # n BY <1>5, <2>2, <4>1, <4>4 DEF Owes
      <4> QED BY <4>3, <4>4
    <3>2. Owes(requests', n + 1) BY <1>2 DEF Owes
    <3>3. DOMAIN requests' = (1 .. n) \cup {n + 1} BY <1>1, <1>2
    <3> HIDE DEF n
    <3> QED BY <1>4, <3>1, <3>2, <3>3, <1>1 DEF Owed, OwedOf
  <2>4. Cardinality(Owed') = Cardinality(Owed)
    <3>1. IsFiniteSet(Owed \ {n}) /\ Cardinality(Owed \ {n}) = Cardinality(Owed) - 1
      BY <1>4, <2>1, FS_RemoveElement
    <3>2. n + 1 \notin Owed \ {n}
      <4> HIDE DEF n
      <4> QED BY <1>1, <1>4
    <3>3. Cardinality((Owed \ {n}) \cup {n + 1}) = Cardinality(Owed \ {n}) + 1
      BY <3>1, <3>2, FS_AddElement
    <3> QED BY <1>4, <2>3, <3>1, <3>3
  <2>5. pending' = pending BY <1>t, <1>6 DEF Search
  <2>6. Total' = Total BY <2>5 DEF Total
  <2> QED BY <1>3, <2>4, <2>6 DEF Balance
<1>7. CASE ~ Superseded
  <2>1. \A r \in 1 .. n : requests'[r] = requests[r] BY <1>2, <1>7
  <2>2. ASSUME NEW r \in 1 .. n, r = n PROVE requests[r].status \notin {"live", "cut"}
    <3>1. requests # <<>> BY <2>2
    <3>2. Done(n) BY <1>7, <3>1 DEF Superseded
    <3> QED BY <2>2, <3>2 DEF Done
  <2>3. Owed' = Owed \cup {n + 1}
    <3>1. \A r \in 1 .. n : Owes(requests', r) <=> Owes(requests, r)
      <4> SUFFICES ASSUME NEW r \in 1 .. n PROVE Owes(requests', r) <=> Owes(requests, r) OBVIOUS
      <4>1. r # n + 1 /\ n + 1 = Len(requests') BY <1>1, <1>2
      <4> QED BY <2>1, <2>2, <4>1 DEF Owes
    <3>2. Owes(requests', n + 1) BY <1>2 DEF Owes
    <3>3. DOMAIN requests' = (1 .. n) \cup {n + 1} BY <1>1, <1>2
    <3> HIDE DEF n
    <3> QED BY <1>4, <3>1, <3>2, <3>3, <1>1 DEF Owed, OwedOf
  <2>4. Cardinality(Owed') = Cardinality(Owed) + 1
    <3>1. n + 1 \notin Owed
      <4> HIDE DEF n
      <4> QED BY <1>1, <1>4
    <3> QED BY <1>4, <2>3, <3>1, FS_AddElement
  <2>5. pending' = [pending EXCEPT ![f] = pending[f] + 1] BY <1>7 DEF Search
  <2>6. Total' = Total + 1
    <3>1. IsFiniteSet(Fields) /\ pending' \in [Fields -> Int]
      BY <1>t, AutocompleterAssumption DEF TypeOK
    <3>2. pending'[f] = pending[f] + 1 /\ \A g \in Fields \ {f} : pending'[g] = pending[g]
      BY <1>t, <2>5
    <3>3. pending \in [Fields -> Int] /\ 1 \in Int BY <1>t
    <3> QED BY <3>1, <3>2, <3>3, SumMoves DEF Total
  <2> QED BY <1>3, <2>4, <2>6 DEF Balance
<1> QED BY <1>6, <1>7

(* An answer settles the request that was under way.                       *)
LEMMA AnswerBalance ==
  ASSUME Balance, IInv', NEW r \in DOMAIN requests, Answer(r)
  PROVE  Balance'
<1>t. /\ TypeOK /\ LiveIsLast /\ LastStands /\ requests \in Seq(Request)
      /\ pending \in [Fields -> Int] /\ TypeOK'
  BY DEF Balance, IInv, TypeOK
<1>1. requests[r] \in Request /\ requests[r].status = "live" /\ requests[r].field \in Fields
  <2>1. requests[r] \in Request BY <1>t
  <2>2. Live(r) BY DEF Answer
  <2> QED BY <2>1, <2>2 DEF Live, Request
<1>2. /\ DOMAIN requests' = DOMAIN requests /\ Len(requests') = Len(requests)
      /\ requests'[r].status = "answered"
      /\ \A s \in DOMAIN requests : s # r => requests'[s] = requests[s]
  <2>1. requests' = [requests EXCEPT ![r].status = "answered"] BY DEF Answer
  <2>2. requests' \in Seq(Request)
    <3>1. [requests[r] EXCEPT !.status = "answered"] \in Request BY <1>1 DEF Request
    <3> QED BY <1>t, <2>1, <3>1
  <2>3. DOMAIN requests' = DOMAIN requests BY <2>1
  <2> QED BY <1>t, <1>1, <2>1, <2>2, <2>3 DEF Request
<1>3. r = Len(requests) BY <1>t, <1>1 DEF LiveIsLast, Live
<1>4. LastStands' BY <1>2, <1>3 DEF LastStands
<1>5. Owed' = Owed \ {r} /\ r \in Owed BY <1>1, <1>2 DEF Owed, OwedOf, Owes
<1>6. Cardinality(Owed') = Cardinality(Owed) - 1 /\ Cardinality(Owed) \in Nat
  BY <1>t, <1>5, OwedFinite, FS_RemoveElement
<1> DEFINE f == requests[r].field
<1>7. pending' = [pending EXCEPT ![f] = pending[f] - 1] /\ f \in Fields BY <1>1 DEF Answer
<1>8. Total' = Total - 1
  <2>1. IsFiniteSet(Fields) /\ pending' \in [Fields -> Int]
    BY <1>t, AutocompleterAssumption DEF TypeOK
  <2> HIDE DEF f
  <2>2. pending'[f] = pending[f] + (-1) /\ \A g \in Fields \ {f} : pending'[g] = pending[g]
    BY <1>t, <1>7
  <2>3. f \in Fields /\ pending \in [Fields -> Int] /\ -1 \in Int BY <1>t, <1>7
  <2>4. Total' = Total + (-1) BY <2>1, <2>2, <2>3, SumMoves DEF Total
  <2>5. Total \in Nat BY <1>6 DEF Balance
  <2> QED BY <2>4, <2>5
<1> QED BY <1>4, <1>6, <1>8 DEF Balance

(* A failure stays owed: nobody is told of it.                             *)
LEMMA FailBalance ==
  ASSUME Balance, IInv', NEW r \in DOMAIN requests, NEW how \in Failures, Fail(r, how)
  PROVE  Balance'
<1>t. TypeOK /\ LiveIsLast /\ LastStands /\ requests \in Seq(Request)
  BY DEF Balance, IInv, TypeOK
<1>0. how \in {"silent", "http", "cut"} BY AutocompleterAssumption DEF FailureKinds
<1>1. requests[r] \in Request /\ requests[r].status = "live"
  BY <1>t DEF Fail, Live
<1>2. /\ DOMAIN requests' = DOMAIN requests /\ Len(requests') = Len(requests)
      /\ requests'[r].status = how
      /\ \A s \in DOMAIN requests : s # r => requests'[s] = requests[s]
  <2>1. requests' = [requests EXCEPT ![r].status = how] BY DEF Fail
  <2>2. requests' \in Seq(Request)
    <3>1. [requests[r] EXCEPT !.status = how] \in Request BY <1>0, <1>1 DEF Request
    <3> QED BY <1>t, <2>1, <3>1
  <2>3. DOMAIN requests' = DOMAIN requests BY <2>1
  <2> QED BY <1>t, <1>1, <2>1, <2>2, <2>3 DEF Request
<1>3. r = Len(requests) BY <1>t, <1>1 DEF LiveIsLast, Live
<1>4. LastStands' BY <1>0, <1>2, <1>3 DEF LastStands
<1>5. Owed' = Owed BY <1>0, <1>1, <1>2, <1>3 DEF Owed, OwedOf, Owes
<1>6. Total' = Total BY DEF Fail, widget, Total
<1> QED BY <1>4, <1>5, <1>6 DEF Balance

LEMMA StepBalance == Balance /\ [Next]_vars => Balance'
<1> SUFFICES ASSUME Balance, [Next]_vars PROVE Balance'
  OBVIOUS
<1>1. IInv' BY StepIInv DEF Balance
<1>2. ASSUME NEW f \in Fields, SearchOrClose(f) PROVE Balance'
  BY <1>1, <1>2, SearchBalance, QuietBalance DEF SearchOrClose
<1>3. ASSUME NEW f \in Fields, DelayEnds(f) \/ ArrowSearches(f) PROVE Balance'
  BY <1>1, <1>2, <1>3, QuietBalance DEF DelayEnds, ArrowSearches, widget
<1>4. ASSUME NEW f \in Fields, Focus(f) \/ Blur(f) \/ CloseOnClickOutside(f) \/ Escape(f)
      PROVE  Balance'
  BY <1>1, <1>4, QuietBalance DEF Focus, Blur, CloseOnClickOutside, Escape, widget
<1>5. ASSUME NEW f \in Fields, NEW v \in Values,
             \/ Arrow(f, v) \/ Select(f, v)
             \/ \E key \in {"plain", "modified"} : Type(f, v, key)
      PROVE  Balance'
  BY <1>1, <1>5, QuietBalance DEF Arrow, Select, Type, widget
<1>6. CASE UNCHANGED vars BY <1>1, <1>6, QuietBalance DEF vars
<1> QED BY <1>1, <1>3, <1>4, <1>5, <1>6, AnswerBalance, FailBalance DEF Next

(* However the answers and failures come, the counters of the fields of a  *)
(* page add up to what is owed: no answer is counted twice, and only a     *)
(* failure that nobody is told of stays counted.                           *)
THEOREM PendingAddsUp == Spec => []PendingBalance
<1>1. Balance => PendingBalance BY BalanceSuffices
<1> QED BY <1>1, InitBalance, StepBalance, PTL DEF Spec
=============================================================================
