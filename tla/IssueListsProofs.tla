-------------------------- MODULE IssueListsProofs --------------------------
(***************************************************************************)
(* Proofs about IssueLists and the operators of Candidates it is built     *)
(* from: for every set of issues, every size of a page, all labels in any  *)
(* case and all lists of them, every order of changes on GitHub.           *)
(***************************************************************************)
EXTENDS IssueLists, SequenceTheorems, FiniteSetTheorems, TLAPS


-----------------------------------------------------------------------------
(* What sort_for_dispatch sorts.                                             *)
Issue == [number : DOMAIN Identifier, labels : SUBSET Labels,
          created : Nat \cup {Unset}, priority : Nat \cup {Unset}]

(* An absent value comes after every other, and the others in their order.    *)
LEMMA AbsentLastOrders ==
  ASSUME NEW a \in Nat \cup {Unset}, NEW b \in Nat \cup {Unset}, NEW c \in Nat \cup {Unset}
  PROVE  /\ ~AbsentLast(a, a)
         /\ AbsentLast(a, b) => ~AbsentLast(b, a)
         /\ AbsentLast(a, b) /\ AbsentLast(b, c) => AbsentLast(a, c)
         /\ a = b \/ AbsentLast(a, b) \/ AbsentLast(b, a)
  BY CandidatesAssumption DEF AbsentLast

(* sort_for_dispatch compares consistently, and leaves no two issues of a     *)
(* different number in an order of their own: the order of dispatch is the    *)
(* same at every tick, whatever order GitHub and the pages gave.             *)
THEOREM DispatchOrderIsTotal ==
  ASSUME NEW a \in Issue, NEW b \in Issue, NEW c \in Issue
  PROVE  /\ ~DispatchedBefore(a, a)
         /\ DispatchedBefore(a, b) => ~DispatchedBefore(b, a)
         /\ DispatchedBefore(a, b) /\ DispatchedBefore(b, c) => DispatchedBefore(a, c)
         /\ a.number # b.number => DispatchedBefore(a, b) \/ DispatchedBefore(b, a)
<1>1. /\ Identifier[a.number] \in Nat /\ Identifier[b.number] \in Nat
      /\ Identifier[c.number] \in Nat
      /\ a.number # b.number => Identifier[a.number] # Identifier[b.number]
  BY CandidatesAssumption DEF Issue
<1>2. /\ a.priority \in Nat \cup {Unset} /\ a.created \in Nat \cup {Unset}
      /\ b.priority \in Nat \cup {Unset} /\ b.created \in Nat \cup {Unset}
      /\ c.priority \in Nat \cup {Unset} /\ c.created \in Nat \cup {Unset}
  BY DEF Issue
<1>3. /\ ~AbsentLast(a.priority, a.priority)
      /\ AbsentLast(a.priority, b.priority) => ~AbsentLast(b.priority, a.priority)
      /\ AbsentLast(a.priority, b.priority) /\ AbsentLast(b.priority, c.priority)
           => AbsentLast(a.priority, c.priority)
      /\ a.priority = b.priority \/ AbsentLast(a.priority, b.priority)
           \/ AbsentLast(b.priority, a.priority)
  BY <1>2, AbsentLastOrders
<1>4. /\ ~AbsentLast(a.created, a.created)
      /\ AbsentLast(a.created, b.created) => ~AbsentLast(b.created, a.created)
      /\ AbsentLast(a.created, b.created) /\ AbsentLast(b.created, c.created)
           => AbsentLast(a.created, c.created)
      /\ a.created = b.created \/ AbsentLast(a.created, b.created)
           \/ AbsentLast(b.created, a.created)
  BY <1>2, AbsentLastOrders
<1>5. ~DispatchedBefore(a, a)
  BY <1>1, <1>3, <1>4 DEF DispatchedBefore
<1>6. DispatchedBefore(a, b) => ~DispatchedBefore(b, a)
  BY <1>1, <1>3, <1>4 DEF DispatchedBefore
<1>7. DispatchedBefore(a, b) /\ DispatchedBefore(b, c) => DispatchedBefore(a, c)
  BY <1>1, <1>3, <1>4 DEF DispatchedBefore
<1>8. a.number # b.number => DispatchedBefore(a, b) \/ DispatchedBefore(b, a)
  BY <1>1, <1>3, <1>4 DEF DispatchedBefore
<1>. QED
  BY <1>5, <1>6, <1>7, <1>8

(* effective_exclude_labels: whatever is labelled as claimed, in whatever     *)
(* case the configuration has the claim label or lists it, passes no filter;  *)
(* and what is excluded by the configuration stays excluded.                 *)
THEOREM ClaimedIsNoCandidate ==
  ASSUME NEW labels, NEW include, NEW exclude \in LabelLists,
         NEW claim_label \in DOMAIN LowerCase
  PROVE  LET effective == EffectiveExcludeLabels(exclude, claim_label) IN
         /\ LowerCase[claim_label] \in labels => ~PassesLabelFilters(labels, include, effective)
         /\ IsGiven(exclude) /\ HasAny(labels, exclude)
              => ~PassesLabelFilters(labels, include, effective)
<1> DEFINE effective == EffectiveExcludeLabels(exclude, claim_label)
           base == IF exclude = Unset THEN {} ELSE exclude
<1>1. base \subseteq effective /\ effective \subseteq base \cup {claim_label}
  BY DEF EffectiveExcludeLabels
<1>2. LowerCase[claim_label] \in Lowered(effective)
  BY DEF EffectiveExcludeLabels, Lowered
<1>3. IsGiven(effective)
  <2>1. effective # Unset
    BY <1>1, IssueListsAssumption DEF LabelLists, NoneIsNoList
  <2>2. effective # {}
    BY <1>2 DEF Lowered
  <2>. QED
    BY <2>1, <2>2 DEF IsGiven
<1>4. HasAny(labels, exclude) /\ IsGiven(exclude) => HasAny(labels, effective)
  BY <1>1 DEF IsGiven, HasAny, Lowered
<1>5. LowerCase[claim_label] \in labels => HasAny(labels, effective)
  BY <1>2 DEF HasAny
<1>. QED
  BY <1>3, <1>4, <1>5 DEF PassesLabelFilters
-----------------------------------------------------------------------------
(* What is read, and what is known of it while GitHub changes.               *)
Item == [state : ListStates \cup {"none"}, labels : SUBSET Labels]
Read == [number : Numbers \ PullRequests, state : ListStates, labels : SUBSET Labels,
         created : {Created[n] : n \in Numbers}, priority : {Unset}]

(* What a list may be asked for: "open", and any configured state.            *)
StateNames == {"open"} \cup (STRING \ {"none"})

Typed ==
  /\ github \in [Numbers -> Item] /\ query \in Queries
  /\ at \in {"listing", "looking up", "done", "failed"}
  /\ page \in Nat \ {0} /\ (page - 1) * PerPage <= Cardinality(Numbers)
  /\ states \in Seq(StateNames)
  /\ ids \in SUBSET Numbers /\ \A n \in ids : github[n].state # "none"
  /\ all \in Seq(Read) /\ result \in Seq(Read)
  /\ touched \in SUBSET Numbers /\ left \in SUBSET touched /\ arrived \in SUBSET touched
  /\ at = "listing" => query.kind = "list" /\ states # <<>>
  /\ at = "looking up" => query.kind = "lookup" /\ ids # {}
  /\ \A k \in DOMAIN states : \E j \in DOMAIN query.states : states[k] = query.states[j]

(* What has been read was so on GitHub, and is so as long as it is untouched. *)
WasHeld(issues) ==
  \A k \in DOMAIN issues :
    [number |-> issues[k].number, state |-> issues[k].state, labels |-> issues[k].labels] \in held
Current(issues) ==
  \A k \in DOMAIN issues :
    issues[k].number \notin touched =>
      /\ issues[k] = ToDomain(issues[k].number)
      /\ query.kind = "list" => InList(github, issues[k].number)
Passing(issues) ==
  \A k \in DOMAIN issues : PassesLabelFilters(issues[k].labels, query.include, query.exclude)

Genuine ==
  /\ \A n \in Numbers : Content(n) \in held
  /\ WasHeld(all) /\ Current(all)
  /\ WasHeld(result) /\ Current(result) /\ Passing(result)

(* How often an issue is among those read, and where it stands in its list.   *)
Occurs(n, issues) == \E k \in DOMAIN issues : issues[k].number = n
Once(n, issues) ==
  \A j, k \in DOMAIN issues : issues[j].number = n /\ issues[k].number = n => j = k
Position(n) == Place(n, Listed(github[n].state))
Later(n) == \E k \in DOMAIN states : k # 1 /\ states[k] = github[n].state
Untouched == Numbers \ touched
Advanced(n) == \E m \in left : m > n
PushedBack(n) == \E m \in arrived : m > n

(* An issue in a list that no earlier one left is read already or to come:    *)
(* on a later page of the list being read, or in a later list.               *)
NotMissed ==
  /\ at = "listing" =>
       \A n \in Untouched \ PullRequests :
         InList(github, n) /\ ~Advanced(n) =>
           \/ Occurs(n, all) \/ Later(n)
           \/ github[n].state = states[1] /\ Position(n) > (page - 1) * PerPage
  /\ IsList => \A n \in Untouched : Wanted(n) /\ ~Advanced(n) => Occurs(n, result)

(* An issue in a list that no earlier one entered is read once, and not to    *)
(* come again.                                                               *)
NotDoubled ==
  /\ at = "listing" =>
       \A n \in Untouched :
         ~PushedBack(n) =>
           /\ Once(n, all)
           /\ Occurs(n, all) =>
                /\ ~Later(n)
                /\ github[n].state = states[1] => Position(n) <= (page - 1) * PerPage
  /\ IsList => \A n \in Untouched : ~PushedBack(n) => Once(n, result)

(* No state is configured twice.                                             *)
AllDifferent(list) == \A j, k \in DOMAIN list : list[j] = list[k] => j = k
EachStateOnce == AllDifferent(ActiveStates) /\ AllDifferent(TerminalStates)
-----------------------------------------------------------------------------
(* Places in a finite set: if of two elements what is up to the one is always *)
(* part of what is up to the other, counting it numbers the elements.         *)
Chain(S, upTo) ==
  /\ IsFiniteSet(S) /\ upTo \in [S -> SUBSET S] /\ \A x \in S : x \in upTo[x]
  /\ \A x, y \in S : x # y =>
       \/ upTo[x] \subseteq upTo[y] /\ y \notin upTo[x]
       \/ upTo[y] \subseteq upTo[x] /\ x \notin upTo[y]

Numbered(S, upTo) ==
  /\ Cardinality(S) \in Nat
  /\ \A x \in S : Cardinality(upTo[x]) \in 1 .. Cardinality(S)
  /\ \A x, y \in S : Cardinality(upTo[x]) = Cardinality(upTo[y]) => x = y
  /\ \A k \in 1 .. Cardinality(S) : \E x \in S : Cardinality(upTo[x]) = k

LEMMA ChainIsNumbered ==
  ASSUME NEW S, NEW upTo, Chain(S, upTo)
  PROVE  Numbered(S, upTo)
<1> USE DEF Chain
<1> DEFINE places == 1 .. Cardinality(S)
           rank == [x \in S |-> Cardinality(upTo[x])]
<1>1. Cardinality(S) \in Nat
  BY FS_CardinalityType
<1>2. ASSUME NEW x \in S PROVE Cardinality(upTo[x]) \in places
  <2>1. IsFiniteSet(upTo[x]) /\ Cardinality(upTo[x]) <= Cardinality(S)
    BY FS_Subset
  <2>2. Cardinality(upTo[x]) \in Nat /\ Cardinality(upTo[x]) # 0
    BY <2>1, FS_CardinalityType, FS_EmptySet
  <2> QED
    BY <1>1, <2>1, <2>2
<1>3. ASSUME NEW x \in S, NEW y \in S, Cardinality(upTo[x]) = Cardinality(upTo[y]), x # y
      PROVE  FALSE
  <2>1. IsFiniteSet(upTo[x]) /\ IsFiniteSet(upTo[y])
    BY FS_Subset
  <2>2. upTo[x] # upTo[y] /\ (upTo[x] \subseteq upTo[y] \/ upTo[y] \subseteq upTo[x])
    BY <1>3
  <2>3. CASE upTo[x] \subseteq upTo[y]
    BY <1>3, <2>1, <2>2, <2>3, FS_Subset
  <2>4. CASE upTo[y] \subseteq upTo[x]
    BY <1>3, <2>1, <2>2, <2>4, FS_Subset
  <2> QED
    BY <2>2, <2>3, <2>4
<1>4. rank \in Injection(S, places)
  BY <1>2, <1>3 DEF Injection, IsInjective
<1>5. IsFiniteSet(places) /\ Cardinality(places) = Cardinality(S)
  BY <1>1, FS_Interval
<1>6. rank \in Surjection(S, places)
  <2> HIDE DEF rank, places
  <2> QED
    BY <1>4, <1>5, FS_Injection
<1> QED
  BY <1>1, <1>2, <1>3, <1>6 DEF Surjection, Numbered

(* The newest first.                                                         *)
LEMMA PlacesAreNumbered ==
  ASSUME NEW S \in SUBSET Nat, IsFiniteSet(S)
  PROVE  /\ Cardinality(S) \in Nat
         /\ \A n \in S : Place(n, S) \in 1 .. Cardinality(S)
         /\ \A m, n \in S : Place(m, S) = Place(n, S) => m = n
         /\ \A k \in 1 .. Cardinality(S) : \E n \in S : Place(n, S) = k
<1> DEFINE upTo == [n \in S |-> {m \in S : m >= n}]
<1>1. upTo \in [S -> SUBSET S] /\ \A n \in S : n \in upTo[n]
  OBVIOUS
<1>2. ASSUME NEW x \in S, NEW y \in S, x < y
      PROVE  upTo[y] \subseteq upTo[x] /\ x \notin upTo[y]
  <2>1. x \in Nat /\ y \in Nat /\ \A m \in S : m \in Nat
    OBVIOUS
  <2>2. upTo[x] = {m \in S : m >= x} /\ upTo[y] = {m \in S : m >= y}
    OBVIOUS
  <2> HIDE DEF upTo
  <2>3. ASSUME NEW m \in upTo[y] PROVE m \in upTo[x]
    <3>1. m \in S /\ m >= y
      BY <2>2
    <3> QED
      BY <1>2, <2>1, <2>2, <3>1
  <2>4. x \notin upTo[y]
    BY <1>2, <2>1, <2>2
  <2> QED
    BY <2>3, <2>4
<1>3. \A n \in S : Place(n, S) = Cardinality(upTo[n])
  BY DEF Place
<1> HIDE DEF upTo
<1>4. \A x, y \in S : x # y => x < y \/ y < x
  OBVIOUS
<1>5. Chain(S, upTo)
  BY <1>1, <1>2, <1>4 DEF Chain
<1>6. Numbered(S, upTo)
  BY <1>5, ChainIsNumbered, Zenon
<1> QED
  BY <1>3, <1>6 DEF Numbered

(* ElementsAt has what is at the places, each place once.                     *)
LEMMA ElementsAtIs ==
  ASSUME NEW s, NEW places \in SUBSET Nat, IsFiniteSet(places)
  PROVE  /\ DOMAIN ElementsAt(s, places) = 1 .. Cardinality(places)
         /\ Cardinality(places) \in Nat
         /\ \A k \in DOMAIN ElementsAt(s, places) :
              \E p \in places : ElementsAt(s, places)[k] = s[p]
         /\ \A p \in places :
              \E k \in DOMAIN ElementsAt(s, places) : ElementsAt(s, places)[k] = s[p]
         /\ \A j, k \in DOMAIN ElementsAt(s, places) : j # k =>
              \E p, q \in places : /\ p # q /\ ElementsAt(s, places)[j] = s[p]
                                   /\ ElementsAt(s, places)[k] = s[q]
<1> DEFINE upTo == [p \in places |-> {q \in places : q <= p}]
           chosen(k) == CHOOSE p \in places : Cardinality({q \in places : q <= p}) = k
<1>1. Chain(places, upTo)
  <2>1. upTo \in [places -> SUBSET places] /\ \A p \in places : p \in upTo[p]
    OBVIOUS
  <2>2. ASSUME NEW x \in places, NEW y \in places, x < y
        PROVE  upTo[x] \subseteq upTo[y] /\ y \notin upTo[x]
    <3>1. x \in Nat /\ y \in Nat /\ \A p \in places : p \in Nat
      OBVIOUS
    <3>2. upTo[x] = {q \in places : q <= x} /\ upTo[y] = {q \in places : q <= y}
      OBVIOUS
    <3> HIDE DEF upTo
    <3>3. ASSUME NEW q \in upTo[x] PROVE q \in upTo[y]
      <4>1. q \in places /\ q <= x
        BY <3>2
      <4> QED
        BY <2>2, <3>1, <3>2, <4>1
    <3>4. y \notin upTo[x]
      BY <2>2, <3>1, <3>2
    <3> QED
      BY <3>3, <3>4
  <2>3. \A x, y \in places : x # y => x < y \/ y < x
    OBVIOUS
  <2> HIDE DEF upTo
  <2> QED
    BY <2>1, <2>2, <2>3 DEF Chain
<1>2. \A p \in places : Cardinality({q \in places : q <= p}) = Cardinality(upTo[p])
  OBVIOUS
<1>3. /\ DOMAIN ElementsAt(s, places) = 1 .. Cardinality(places)
      /\ \A k \in 1 .. Cardinality(places) : ElementsAt(s, places)[k] = s[chosen(k)]
  BY DEF ElementsAt
<1>4. Numbered(places, upTo)
  <2> HIDE DEF upTo
  <2> QED
    BY <1>1, ChainIsNumbered, Zenon
<1>5. ASSUME NEW k \in 1 .. Cardinality(places)
      PROVE  chosen(k) \in places /\ Cardinality(upTo[chosen(k)]) = k
  <2>1. \E p \in places : Cardinality({q \in places : q <= p}) = k
    <3> HIDE DEF upTo
    <3> QED
      BY <1>2, <1>4 DEF Numbered
  <2>2. chosen(k) \in places /\ Cardinality({q \in places : q <= chosen(k)}) = k
    BY <2>1
  <2> HIDE DEF upTo, chosen
  <2> QED
    BY <1>2, <2>2
<1> HIDE DEF upTo, chosen
<1>6. ASSUME NEW p \in places
      PROVE  \E k \in 1 .. Cardinality(places) : chosen(k) = p
  <2>1. Cardinality(upTo[p]) \in 1 .. Cardinality(places)
    BY <1>4 DEF Numbered
  <2>2. chosen(Cardinality(upTo[p])) = p
    BY <1>4, <1>5, <2>1 DEF Numbered
  <2> QED
    BY <2>1, <2>2
<1>7. ASSUME NEW j \in 1 .. Cardinality(places), NEW k \in 1 .. Cardinality(places), j # k
      PROVE  chosen(j) # chosen(k)
  BY <1>5, <1>7
<1>8. Cardinality(places) \in Nat
  BY <1>4 DEF Numbered
<1> HIDE DEF ElementsAt
<1>9. ASSUME NEW k \in DOMAIN ElementsAt(s, places)
      PROVE  \E p \in places : ElementsAt(s, places)[k] = s[p]
  BY <1>3, <1>5
<1>10. ASSUME NEW p \in places
       PROVE  \E k \in DOMAIN ElementsAt(s, places) : ElementsAt(s, places)[k] = s[p]
  BY <1>3, <1>6
<1>11. ASSUME NEW j \in DOMAIN ElementsAt(s, places),
              NEW k \in DOMAIN ElementsAt(s, places), j # k
       PROVE  \E p, q \in places : /\ p # q /\ ElementsAt(s, places)[j] = s[p]
                                   /\ ElementsAt(s, places)[k] = s[q]
  BY <1>3, <1>5, <1>7, <1>11
<1>12. DOMAIN ElementsAt(s, places) = 1 .. Cardinality(places)
  BY <1>3
<1> QED
  BY <1>8, <1>9, <1>10, <1>11, <1>12, Zenon


-----------------------------------------------------------------------------
(* Label filters.                                                            *)

(* A part of a list repeats nothing the list does not repeat.                 *)
LEMMA PartOfList ==
  ASSUME NEW S, NEW s \in Seq(S), NEW places \in SUBSET DOMAIN s
  PROVE  /\ ElementsAt(s, places) \in Seq(S)
         /\ \A k \in DOMAIN ElementsAt(s, places) :
              \E p \in places : ElementsAt(s, places)[k] = s[p]
         /\ \A p \in places :
              \E k \in DOMAIN ElementsAt(s, places) : ElementsAt(s, places)[k] = s[p]
         /\ \A n : Once(n, s) => Once(n, ElementsAt(s, places))
<1>1. /\ places \in SUBSET Nat /\ IsFiniteSet(places)
      /\ \A p \in places : s[p] \in S
  <2>1. Len(s) \in Nat /\ DOMAIN s = 1 .. Len(s)
    OBVIOUS
  <2>2. IsFiniteSet(DOMAIN s)
    BY <2>1, FS_Interval
  <2> QED
    BY <2>1, <2>2, FS_Subset
<1> DEFINE e == ElementsAt(s, places)
<1>2. /\ DOMAIN e = 1 .. Cardinality(places) /\ Cardinality(places) \in Nat
      /\ \A k \in DOMAIN e : \E p \in places : e[k] = s[p]
      /\ \A p \in places : \E k \in DOMAIN e : e[k] = s[p]
      /\ \A j, k \in DOMAIN e : j # k =>
           \E p, q \in places : p # q /\ e[j] = s[p] /\ e[k] = s[q]
  <2> HIDE DEF e
  <2> QED
    BY <1>1, ElementsAtIs DEF e
<1>3. e = [k \in 1 .. Cardinality(places) |-> e[k]]
  BY DEF ElementsAt
<1> HIDE DEF e
<1>4. e \in Seq(S)
  <2>1. \A k \in 1 .. Cardinality(places) : e[k] \in S
    BY <1>1, <1>2
  <2>2. e \in [1 .. Cardinality(places) -> S]
    BY <1>3, <2>1
  <2>3. [1 .. Cardinality(places) -> S] \in {[1 .. n -> S] : n \in Nat}
    BY <1>2
  <2>4. Seq(S) = UNION {[1 .. n -> S] : n \in Nat}
    BY SeqDef, Zenon
  <2> QED
    BY <2>2, <2>3, <2>4, Zenon
<1>5. ASSUME NEW n, Once(n, s) PROVE Once(n, e)
  <2> SUFFICES ASSUME NEW j \in DOMAIN e, NEW k \in DOMAIN e, j # k,
                      e[j].number = n, e[k].number = n
               PROVE  FALSE
    BY DEF Once
  <2>1. PICK p \in places, q \in places : p # q /\ e[j] = s[p] /\ e[k] = s[q]
    BY <1>2
  <2> QED
    BY <1>5, <2>1 DEF Once
<1> QED
  BY <1>2, <1>4, <1>5 DEF e

(* apply_label_filters keeps the issues that issue_passes_label_filters lets  *)
(* pass, and no others: a list and a single issue are filtered alike.         *)
LEMMA FiltersAgree ==
  ASSUME NEW S, NEW issues \in Seq(S), NEW include, NEW exclude
  PROVE  LET kept == ApplyLabelFilters(issues, include, exclude) IN
         /\ kept \in Seq(S)
         /\ \A k \in DOMAIN kept :
              \E p \in DOMAIN issues : /\ kept[k] = issues[p]
                                       /\ PassesLabelFilters(issues[p].labels, include, exclude)
         /\ \A p \in DOMAIN issues :
              PassesLabelFilters(issues[p].labels, include, exclude) =>
                \E k \in DOMAIN kept : kept[k] = issues[p]
         /\ \A n : Once(n, issues) => Once(n, kept)
<1> DEFINE included == {p \in DOMAIN issues : HasAny(issues[p].labels, include)}
           whitelisted == IF IsGiven(include) THEN ElementsAt(issues, included) ELSE issues
           remaining == {p \in DOMAIN whitelisted : ~HasAny(whitelisted[p].labels, exclude)}
           kept == IF IsGiven(exclude) THEN ElementsAt(whitelisted, remaining) ELSE whitelisted
<1>1. ApplyLabelFilters(issues, include, exclude) = kept
  BY DEF ApplyLabelFilters
<1>2. included \in SUBSET DOMAIN issues /\ remaining \in SUBSET DOMAIN whitelisted
  OBVIOUS
<1>3. /\ whitelisted \in Seq(S)
      /\ \A k \in DOMAIN whitelisted :
           \E p \in DOMAIN issues : /\ whitelisted[k] = issues[p]
                                    /\ IsGiven(include) => HasAny(issues[p].labels, include)
      /\ \A p \in DOMAIN issues :
           (IsGiven(include) => HasAny(issues[p].labels, include)) =>
             \E k \in DOMAIN whitelisted : whitelisted[k] = issues[p]
      /\ \A n : Once(n, issues) => Once(n, whitelisted)
  <2>1. CASE ~IsGiven(include)
    BY <2>1
  <2>2. CASE IsGiven(include)
    <3>1. whitelisted = ElementsAt(issues, included)
      BY <2>2
    <3>2. \A p : p \in included <=> p \in DOMAIN issues /\ HasAny(issues[p].labels, include)
      OBVIOUS
    <3> HIDE DEF included, whitelisted
    <3> QED
      BY <1>2, <2>2, <3>1, <3>2, PartOfList
  <2> QED
    BY <2>1, <2>2
<1> HIDE DEF included, whitelisted
<1>4. /\ kept \in Seq(S)
      /\ \A k \in DOMAIN kept :
           \E p \in DOMAIN whitelisted :
             /\ kept[k] = whitelisted[p]
             /\ IsGiven(exclude) => ~HasAny(whitelisted[p].labels, exclude)
      /\ \A p \in DOMAIN whitelisted :
           (IsGiven(exclude) => ~HasAny(whitelisted[p].labels, exclude)) =>
             \E k \in DOMAIN kept : kept[k] = whitelisted[p]
      /\ \A n : Once(n, whitelisted) => Once(n, kept)
  <2>1. CASE ~IsGiven(exclude)
    BY <1>3, <2>1
  <2>2. CASE IsGiven(exclude)
    <3>1. kept = ElementsAt(whitelisted, remaining)
      BY <2>2
    <3>2. \A p : p \in remaining <=>
                   p \in DOMAIN whitelisted /\ ~HasAny(whitelisted[p].labels, exclude)
      OBVIOUS
    <3> HIDE DEF remaining, kept
    <3> QED
      BY <1>2, <1>3, <2>2, <3>1, <3>2, PartOfList
  <2> QED
    BY <2>1, <2>2
<1> HIDE DEF kept
<1>5. ASSUME NEW k \in DOMAIN kept
      PROVE  \E p \in DOMAIN issues : /\ kept[k] = issues[p]
                                      /\ PassesLabelFilters(issues[p].labels, include, exclude)
  <2>1. PICK q \in DOMAIN whitelisted :
          /\ kept[k] = whitelisted[q]
          /\ IsGiven(exclude) => ~HasAny(whitelisted[q].labels, exclude)
    BY <1>4
  <2>2. PICK p \in DOMAIN issues :
          /\ whitelisted[q] = issues[p]
          /\ IsGiven(include) => HasAny(issues[p].labels, include)
    BY <1>3
  <2> QED
    BY <2>1, <2>2 DEF PassesLabelFilters
<1>6. ASSUME NEW p \in DOMAIN issues, PassesLabelFilters(issues[p].labels, include, exclude)
      PROVE  \E k \in DOMAIN kept : kept[k] = issues[p]
  <2>1. PICK q \in DOMAIN whitelisted : whitelisted[q] = issues[p]
    BY <1>3, <1>6 DEF PassesLabelFilters
  <2>2. PICK k \in DOMAIN kept : kept[k] = whitelisted[q]
    BY <1>4, <1>6, <2>1 DEF PassesLabelFilters
  <2> QED
    BY <2>1, <2>2
<1>7. \A n : Once(n, issues) => Once(n, kept)
  BY <1>3, <1>4
<1>8. kept \in Seq(S)
  BY <1>4
<1> QED
  BY <1>1, <1>5, <1>6, <1>7, <1>8, Zenon

-----------------------------------------------------------------------------
(* Pages.                                                                    *)
LEMMA Joined ==
  ASSUME NEW S, NEW s \in Seq(S), NEW t \in Seq(S)
  PROVE  /\ s \o t \in Seq(S)
         /\ \A k \in DOMAIN (s \o t) : \/ \E j \in DOMAIN s : (s \o t)[k] = s[j]
                                       \/ \E j \in DOMAIN t : (s \o t)[k] = t[j]
         /\ \A j \in DOMAIN s : \E k \in DOMAIN (s \o t) : (s \o t)[k] = s[j]
         /\ \A j \in DOMAIN t : \E k \in DOMAIN (s \o t) : (s \o t)[k] = t[j]
         /\ \A n : Once(n, s) /\ Once(n, t) /\ ~(Occurs(n, s) /\ Occurs(n, t)) => Once(n, s \o t)
<1> DEFINE u == s \o t
<1>1. /\ u \in Seq(S) /\ Len(s) \in Nat /\ Len(t) \in Nat
      /\ DOMAIN s = 1 .. Len(s) /\ DOMAIN t = 1 .. Len(t) /\ DOMAIN u = 1 .. Len(s) + Len(t)
      /\ \A i \in 1 .. Len(s) + Len(t) : u[i] = IF i <= Len(s) THEN s[i] ELSE t[i - Len(s)]
  BY ConcatProperties
<1> HIDE DEF u
<1>2. ASSUME NEW k \in DOMAIN u
      PROVE  \/ k \in DOMAIN s /\ u[k] = s[k]
             \/ k - Len(s) \in DOMAIN t /\ u[k] = t[k - Len(s)] /\ k \notin DOMAIN s
  BY <1>1
<1>3. ASSUME NEW j \in DOMAIN s PROVE j \in DOMAIN u /\ u[j] = s[j]
  BY <1>1
<1>4. ASSUME NEW j \in DOMAIN t PROVE Len(s) + j \in DOMAIN u /\ u[Len(s) + j] = t[j]
  BY <1>1
<1>5. ASSUME NEW n, Once(n, s), Once(n, t), ~(Occurs(n, s) /\ Occurs(n, t))
      PROVE  Once(n, u)
  <2> SUFFICES ASSUME NEW j \in DOMAIN u, NEW k \in DOMAIN u, u[j].number = n, u[k].number = n
               PROVE  j = k
    BY DEF Once
  <2>1. CASE j \in DOMAIN s /\ k \in DOMAIN s
    BY <1>2, <1>5, <2>1 DEF Once
  <2>2. CASE j \notin DOMAIN s /\ k \notin DOMAIN s
    <3>1. j - Len(s) = k - Len(s)
      BY <1>2, <1>5, <2>2 DEF Once
    <3> QED
      BY <1>1, <3>1
  <2>3. CASE ~(j \in DOMAIN s <=> k \in DOMAIN s)
    BY <1>2, <1>5, <2>3 DEF Occurs
  <2> QED
    BY <2>1, <2>2, <2>3
<1> QED
  BY <1>1, <1>2, <1>3, <1>4, <1>5 DEF u

(* A page makes one issue of each item that is no pull request.              *)
LEMMA PageIsRead ==
  ASSUME Typed, NEW body \in SUBSET Numbers, \A n \in body : github[n].state \in ListStates
  PROVE  /\ IssuesOf(body) \in Seq(Read)
         /\ \A k \in DOMAIN IssuesOf(body) :
              \E n \in body \ PullRequests : IssuesOf(body)[k] = ToDomain(n)
         /\ \A n \in body \ PullRequests :
              \E k \in DOMAIN IssuesOf(body) : IssuesOf(body)[k] = ToDomain(n)
         /\ \A n : Once(n, IssuesOf(body))
<1> DEFINE S == body \ PullRequests
           nth(k) == CHOOSE n \in S : Place(n, S) = k
           issues == IssuesOf(body)
<1>1. S \in SUBSET Nat /\ IsFiniteSet(S)
  BY IssueListsAssumption, FS_Subset
<1>2. /\ Cardinality(S) \in Nat
      /\ \A n \in S : Place(n, S) \in 1 .. Cardinality(S)
      /\ \A m, n \in S : Place(m, S) = Place(n, S) => m = n
      /\ \A k \in 1 .. Cardinality(S) : \E n \in S : Place(n, S) = k
  <2> HIDE DEF S
  <2> QED
    BY <1>1, PlacesAreNumbered
<1>3. issues = [k \in 1 .. Cardinality(S) |-> ToDomain(nth(k))]
  BY DEF IssuesOf
<1>4. ASSUME NEW k \in 1 .. Cardinality(S) PROVE nth(k) \in S /\ Place(nth(k), S) = k
  <2> HIDE DEF S
  <2> QED
    BY <1>2
<1>5. ASSUME NEW n \in S PROVE ToDomain(n) \in Read /\ ToDomain(n).number = n
  <2>1. n \in Numbers \ PullRequests /\ github[n] \in Item /\ github[n].state \in ListStates
    BY DEF Typed
  <2> QED
    BY <2>1 DEF ToDomain, Read, Item
<1> HIDE DEF S, nth, issues
<1>6. DOMAIN issues = 1 .. Cardinality(S) /\ \A k \in DOMAIN issues : issues[k] = ToDomain(nth(k))
  BY <1>3
<1>7. issues \in Seq(Read)
  <2>1. issues \in [1 .. Cardinality(S) -> Read]
    BY <1>3, <1>4, <1>5
  <2>2. [1 .. Cardinality(S) -> Read] \in {[1 .. n -> Read] : n \in Nat}
    BY <1>2
  <2>3. Seq(Read) = UNION {[1 .. n -> Read] : n \in Nat}
    BY SeqDef, Zenon
  <2> QED
    BY <2>1, <2>2, <2>3, Zenon
<1>8. ASSUME NEW n \in S PROVE \E k \in DOMAIN issues : issues[k] = ToDomain(n)
  <2>1. Place(n, S) \in 1 .. Cardinality(S) /\ nth(Place(n, S)) = n
    BY <1>2, <1>4
  <2> QED
    BY <1>6, <2>1
<1>9. ASSUME NEW j \in DOMAIN issues, NEW k \in DOMAIN issues, issues[j].number = issues[k].number
      PROVE  j = k
  <2>1. nth(j) = nth(k)
    BY <1>4, <1>5, <1>6, <1>9
  <2> QED
    BY <1>4, <1>6, <2>1
<1>10. ASSUME NEW k \in DOMAIN issues PROVE \E n \in S : issues[k] = ToDomain(n)
  BY <1>4, <1>6
<1>11. \A n : Once(n, issues)
  BY <1>9 DEF Once
<1> QED
  BY <1>7, <1>8, <1>10, <1>11 DEF issues, S

(* The first place of a page, less one.                                      *)
Before == (page - 1) * PerPage

LEMMA PagesFollow ==
  ASSUME Typed
  PROVE  /\ Before \in Nat /\ PerPage \in Nat \ {0} /\ page \in Nat \ {0}
         /\ page * PerPage = Before + PerPage
         /\ \A p : p = page + 1 => (p - 1) * PerPage = Before + PerPage
<1>1. page \in Nat \ {0} /\ page - 1 \in Nat /\ PerPage \in Nat \ {0}
  <2>1. page \in Nat \ {0}
    BY DEF Typed
  <2>2. PerPage \in Nat \ {0}
    BY IssueListsAssumption
  <2> QED
    BY <2>1, <2>2
<1>2. ASSUME NEW m \in Nat, NEW n \in Nat PROVE m * n \in Nat /\ (m + 1) * n = m * n + n
  OBVIOUS
<1>3. Before \in Nat /\ ((page - 1) + 1) * PerPage = Before + PerPage
  BY <1>1, <1>2 DEF Before
<1>4. (page - 1) + 1 = page /\ \A p : p = page + 1 => p - 1 = page
  BY <1>1
<1> QED
  BY <1>1, <1>3, <1>4

(* A page that is not full is the last: nothing stands behind it; a full one  *)
(* ends within the list.                                                     *)
LEMMA PageIsCut ==
  ASSUME Typed, at = "listing"
  PROVE  LET list == Listed(states[1])
             body == Answer(states[1], page)
         IN /\ list \in SUBSET Numbers /\ body \in SUBSET list
            /\ \A n \in list : /\ github[n].state = states[1] /\ states[1] # "none"
                               /\ github[n].state \in ListStates
                               /\ Place(n, list) \in Nat \ {0}
            /\ \A n \in list : n \in body <=> /\ Place(n, list) > Before
                                              /\ Place(n, list) <= Before + PerPage
            /\ IsLastPage(body) => \A n \in list : Place(n, list) <= Before + PerPage
            /\ ~IsLastPage(body) => Before + PerPage <= Cardinality(Numbers)
<1> DEFINE list == Listed(states[1])
           body == Answer(states[1], page)
           cut == Before + 1 .. Before + PerPage
           f == [n \in body |-> Place(n, list)]
<1>1. /\ Before \in Nat /\ PerPage \in Nat \ {0} /\ page * PerPage = Before + PerPage
  BY PagesFollow
<1>2. list \in SUBSET Numbers /\ body \in SUBSET list
  BY DEF Listed, Answer
<1>3. /\ list \in SUBSET Nat /\ IsFiniteSet(list) /\ IsFiniteSet(body)
      /\ Cardinality(list) <= Cardinality(Numbers) /\ Cardinality(Numbers) \in Nat
  <2> HIDE DEF list, body
  <2> QED
    BY <1>2, IssueListsAssumption, FS_Subset, FS_CardinalityType
<1>4. /\ Cardinality(list) \in Nat
      /\ \A n \in list : Place(n, list) \in 1 .. Cardinality(list)
      /\ \A m, n \in list : Place(m, list) = Place(n, list) => m = n
      /\ \A k \in 1 .. Cardinality(list) : \E n \in list : Place(n, list) = k
  <2> HIDE DEF list
  <2> QED
    BY <1>3, PlacesAreNumbered
<1>5. \A n : n \in body <=> n \in list /\ Place(n, list) \in cut
  BY <1>1 DEF Answer, Before
<1>6. states[1] # "none"
  BY DEF Typed, StateNames
<1>7. ASSUME NEW n \in list
      PROVE  github[n].state = states[1] /\ github[n].state \in ListStates
  <2>1. github[n].state = states[1] /\ github[n] \in Item
    BY DEF Listed, Matches, Typed
  <2> QED
    BY <1>6, <2>1 DEF Item
<1> HIDE DEF list, body
<1>8. Cardinality(cut) = PerPage /\ IsFiniteSet(cut)
  BY <1>1, FS_Interval
<1>9. f \in Injection(body, cut)
  BY <1>2, <1>4, <1>5 DEF Injection, IsInjective
<1>10. /\ Cardinality(body) \in Nat /\ Cardinality(body) <= PerPage
       /\ Cardinality(body) = PerPage <=> f \in Surjection(body, cut)
  <2> HIDE DEF f, cut
  <2> QED
    BY <1>3, <1>8, <1>9, FS_Injection, FS_CardinalityType
<1>11. ASSUME IsLastPage(body), NEW n \in list PROVE Place(n, list) <= Before + PerPage
  <2> SUFFICES ASSUME Place(n, list) > Before + PerPage PROVE FALSE
    BY <1>1, <1>4
  <2>1. \A k \in cut : \E m \in body : f[m] = k
    BY <1>1, <1>4, <1>5
  <2>2. f \in Surjection(body, cut)
    BY <1>9, <2>1 DEF Surjection, Injection
  <2> QED
    BY <1>1, <1>10, <1>11, <2>2 DEF IsLastPage
<1>12. ASSUME ~IsLastPage(body) PROVE Before + PerPage <= Cardinality(Numbers)
  <2>1. f \in Surjection(body, cut)
    BY <1>1, <1>10, <1>12 DEF IsLastPage
  <2>2. Before + PerPage \in cut
    BY <1>1
  <2>3. PICK m \in body : f[m] = Before + PerPage
    BY <2>1, <2>2 DEF Surjection
  <2> QED
    BY <1>1, <1>2, <1>3, <1>4, <2>3
<1>13. \A n \in list : Place(n, list) \in Nat \ {0}
  BY <1>4
<1>14. \A n \in list : n \in body <=> /\ Place(n, list) > Before
                                      /\ Place(n, list) <= Before + PerPage
  BY <1>1, <1>4, <1>5
<1> QED
  BY <1>2, <1>6, <1>7, <1>11, <1>12, <1>13, <1>14 DEF list, body

-----------------------------------------------------------------------------
(* Steps of a fetch.                                                         *)

(* What has been read once one more page is.                                 *)
ReadNow == all \o IssuesOf(Answer(states[1], page))

LEMMA ReadNowIs ==
  ASSUME Typed, Genuine, at = "listing"
  PROVE  LET body == Answer(states[1], page) IN
         /\ ReadNow \in Seq(Read) /\ WasHeld(ReadNow) /\ Current(ReadNow)
         /\ \A n : Occurs(n, ReadNow) <=> Occurs(n, all) \/ n \in body \ PullRequests
         /\ \A n : Once(n, all) /\ ~(Occurs(n, all) /\ n \in body) => Once(n, ReadNow)
<1> DEFINE body == Answer(states[1], page)
           issues == IssuesOf(body)
<1>1. /\ body \in SUBSET Numbers /\ \A n \in body : github[n].state \in ListStates
      /\ \A n \in body : n \in Listed(states[1])
  BY PageIsCut
<1>2. /\ issues \in Seq(Read)
      /\ \A k \in DOMAIN issues : \E n \in body \ PullRequests : issues[k] = ToDomain(n)
      /\ \A n \in body \ PullRequests : \E k \in DOMAIN issues : issues[k] = ToDomain(n)
      /\ \A n : Once(n, issues)
  <2> HIDE DEF body
  <2> QED
    BY <1>1, PageIsRead
<1>3. \A n : ToDomain(n).number = n
  BY DEF ToDomain
<1>4. \A n \in body : query.kind = "list" /\ InList(github, n)
  <2>1. query.kind = "list" /\ states # <<>> /\ states \in Seq(StateNames)
    BY DEF Typed
  <2>2. 1 \in DOMAIN states
    BY <2>1
  <2>3. PICK j \in DOMAIN query.states : states[1] = query.states[j]
    BY <2>2 DEF Typed
  <2> QED
    BY <1>1, <2>1, <2>3 DEF Listed, InList
<1>5. all \in Seq(Read)
  BY DEF Typed
<1> HIDE DEF body, issues
<1>6. ReadNow = all \o issues
  BY DEF ReadNow, issues, body
<1> HIDE DEF ReadNow
<1>7. /\ ReadNow \in Seq(Read)
      /\ \A k \in DOMAIN ReadNow : \/ \E j \in DOMAIN all : ReadNow[k] = all[j]
                                   \/ \E j \in DOMAIN issues : ReadNow[k] = issues[j]
      /\ \A j \in DOMAIN all : \E k \in DOMAIN ReadNow : ReadNow[k] = all[j]
      /\ \A j \in DOMAIN issues : \E k \in DOMAIN ReadNow : ReadNow[k] = issues[j]
      /\ \A n : Once(n, all) /\ Once(n, issues) /\ ~(Occurs(n, all) /\ Occurs(n, issues))
                  => Once(n, ReadNow)
  <2>1. /\ (all \o issues) \in Seq(Read)
        /\ \A k \in DOMAIN (all \o issues) : \/ \E j \in DOMAIN all : (all \o issues)[k] = all[j]
                                     \/ \E j \in DOMAIN issues : (all \o issues)[k] = issues[j]
        /\ \A j \in DOMAIN all : \E k \in DOMAIN (all \o issues) : (all \o issues)[k] = all[j]
        /\ \A j \in DOMAIN issues : \E k \in DOMAIN (all \o issues) : (all \o issues)[k] = issues[j]
        /\ \A n : Once(n, all) /\ Once(n, issues) /\ ~(Occurs(n, all) /\ Occurs(n, issues))
                    => Once(n, (all \o issues))
    BY <1>2, <1>5, Joined
  <2> QED
    BY <1>6, <2>1, Zenon
<1>8. \A n : Occurs(n, issues) <=> n \in body \ PullRequests
  BY <1>2, <1>3 DEF Occurs
<1>9. \A n : Occurs(n, ReadNow) <=> Occurs(n, all) \/ Occurs(n, issues)
  BY <1>7 DEF Occurs
<1>10. \A n : Once(n, all) /\ ~(Occurs(n, all) /\ n \in body) => Once(n, ReadNow)
  BY <1>2, <1>7, <1>8
<1>11. WasHeld(ReadNow)
  <2> SUFFICES ASSUME NEW k \in DOMAIN ReadNow
               PROVE  [number |-> ReadNow[k].number, state |-> ReadNow[k].state,
                       labels |-> ReadNow[k].labels] \in held
    BY DEF WasHeld
  <2>1. CASE \E j \in DOMAIN all : ReadNow[k] = all[j]
    BY <2>1 DEF Genuine, WasHeld
  <2>2. CASE \E j \in DOMAIN issues : ReadNow[k] = issues[j]
    <3>1. PICK n \in body : ReadNow[k] = ToDomain(n)
      BY <1>2, <2>2
    <3>2. Content(n) \in held
      BY <1>1 DEF Genuine
    <3> QED
      BY <3>1, <3>2 DEF ToDomain, Content
  <2> QED
    BY <1>7, <2>1, <2>2
<1>12. Current(ReadNow)
  <2> SUFFICES ASSUME NEW k \in DOMAIN ReadNow, ReadNow[k].number \notin touched
               PROVE  /\ ReadNow[k] = ToDomain(ReadNow[k].number)
                      /\ query.kind = "list" => InList(github, ReadNow[k].number)
    BY DEF Current
  <2>1. CASE \E j \in DOMAIN all : ReadNow[k] = all[j]
    BY <2>1 DEF Genuine, Current
  <2>2. CASE \E j \in DOMAIN issues : ReadNow[k] = issues[j]
    <3>1. PICK n \in body : ReadNow[k] = ToDomain(n)
      BY <1>2, <2>2
    <3> QED
      BY <1>3, <1>4, <3>1
  <2> QED
    BY <1>7, <2>1, <2>2
<1> QED
  BY <1>7, <1>8, <1>9, <1>10, <1>11, <1>12, Zenon DEF body

(* The three ends of a page.                                                 *)
FullPage ==
  /\ ~IsLastPage(Answer(states[1], page))
  /\ page' = page + 1 /\ all' = ReadNow /\ UNCHANGED <<at, states, result>>
NextList ==
  /\ IsLastPage(Answer(states[1], page)) /\ Len(states) > 1
  /\ states' = Tail(states) /\ page' = 1 /\ all' = ReadNow /\ UNCHANGED <<at, result>>
LastList ==
  /\ IsLastPage(Answer(states[1], page)) /\ Len(states) = 1
  /\ states' = Tail(states) /\ page' = 1 /\ Return(ReadNow)

LEMMA PageEnds ==
  ASSUME Typed, FetchPage
  PROVE  /\ at = "listing" /\ UNCHANGED <<github, query, ids, held, left, arrived, touched>>
         /\ FullPage \/ NextList \/ LastList
         /\ states # <<>> /\ Len(states) \in Nat \ {0} /\ DOMAIN states = 1 .. Len(states)
         /\ Tail(states) \in Seq(StateNames)
         /\ DOMAIN Tail(states) = 1 .. Len(states) - 1
         /\ \A k \in DOMAIN Tail(states) : Tail(states)[k] = states[k + 1]
<1>1. at = "listing" /\ states # <<>> /\ states \in Seq(StateNames)
  BY DEF FetchPage, Typed
<1>2. Len(states) \in Nat \ {0} /\ Head(states) = states[1]
  BY <1>1
<1>3. FullPage \/ NextList \/ LastList
  <2> DEFINE body == Answer(Head(states), page)
             read == all \o IssuesOf(body)
  <2>1. body = Answer(states[1], page) /\ read = ReadNow
    BY <1>2, Zenon DEF ReadNow
  <2>2. IF ~IsLastPage(body)
        THEN page' = page + 1 /\ all' = read /\ UNCHANGED <<at, states, result>>
        ELSE /\ NextState
             /\ IF Len(states) = 1 THEN Return(read) ELSE all' = read /\ UNCHANGED <<at, result>>
    BY DEF FetchPage
  <2> HIDE DEF body, read
  <2>3. CASE ~IsLastPage(body)
    BY <2>1, <2>2, <2>3 DEF FullPage
  <2>4. CASE IsLastPage(body) /\ Len(states) = 1
    <3>1. Return(ReadNow)
      BY <2>1, <2>2, <2>4, Zenon
    <3> QED
      BY <2>1, <2>2, <2>4, <3>1 DEF LastList, NextState
  <2>5. CASE IsLastPage(body) /\ Len(states) # 1
    <3>1. Len(states) > 1
      <4>1. Len(states) \in Nat \ {0} /\ Len(states) # 1
        BY <1>2, <2>5, Zenon
      <4>2. \A n \in Nat \ {0} : n # 1 => n > 1
        OBVIOUS
      <4> QED
        BY <4>1, <4>2, Zenon
    <3>2. NextState /\ all' = read /\ UNCHANGED <<at, result>>
      BY <2>2, <2>5, Zenon
    <3> QED
      BY <2>1, <2>5, <3>1, <3>2 DEF NextList, NextState
  <2> QED
    BY <2>3, <2>4, <2>5
<1>4. UNCHANGED <<github, query, ids, held, left, arrived, touched>>
  BY DEF FetchPage, history
<1>5. /\ Tail(states) \in Seq(StateNames)
      /\ DOMAIN Tail(states) = 1 .. Len(states) - 1
      /\ \A k \in DOMAIN Tail(states) : Tail(states)[k] = states[k + 1]
  BY <1>1, HeadTailProperties
<1> QED
  BY <1>1, <1>2, <1>3, <1>4, <1>5

(* What is returned.                                                         *)
LEMMA ReturnIs ==
  ASSUME NEW issues \in Seq(Read), WasHeld(issues), Current(issues), Return(issues),
         UNCHANGED <<github, query, held, left, arrived, touched>>
  PROVE  /\ at' = "done" /\ all' = <<>> /\ result' \in Seq(Read)
         /\ WasHeld(result)' /\ Current(result)' /\ Passing(result)'
         /\ \A n \in Untouched :
              Occurs(n, issues) /\ PassesLabelFilters(github[n].labels, query.include, query.exclude)
                => Occurs(n, result')
         /\ \A n : Once(n, issues) => Once(n, result')
<1>1. /\ result' \in Seq(Read)
      /\ \A k \in DOMAIN result' :
           \E p \in DOMAIN issues :
             /\ result'[k] = issues[p]
             /\ PassesLabelFilters(issues[p].labels, query.include, query.exclude)
      /\ \A p \in DOMAIN issues :
           PassesLabelFilters(issues[p].labels, query.include, query.exclude) =>
             \E k \in DOMAIN result' : result'[k] = issues[p]
      /\ \A n : Once(n, issues) => Once(n, result')
  <2>1. result' = ApplyLabelFilters(issues, query.include, query.exclude)
    BY DEF Return
  <2> QED
    BY <2>1, FiltersAgree
<1>2. WasHeld(result)'
  BY <1>1 DEF WasHeld
<1>3. Current(result)'
  <2>1. \A n : ToDomain(n)' = ToDomain(n) /\ (InList(github, n)' <=> InList(github, n))
    BY DEF ToDomain, InList
  <2> QED
    BY <1>1, <2>1 DEF Current
<1>4. Passing(result)'
  BY <1>1 DEF Passing
<1>5. ASSUME NEW n \in Untouched, Occurs(n, issues),
             PassesLabelFilters(github[n].labels, query.include, query.exclude)
      PROVE  Occurs(n, result')
  <2>1. PICK p \in DOMAIN issues : issues[p].number = n
    BY <1>5 DEF Occurs
  <2>2. issues[p] = ToDomain(n)
    BY <2>1 DEF Current, Untouched
  <2>3. issues[p].labels = github[n].labels
    BY <2>2 DEF ToDomain
  <2> QED
    BY <1>1, <1>5, <2>1, <2>3 DEF Occurs
<1> QED
  BY <1>1, <1>2, <1>3, <1>4, <1>5 DEF Return

LEMMA Added ==
  ASSUME NEW S, NEW s \in Seq(S), NEW x \in S
  PROVE  /\ Append(s, x) \in Seq(S)
         /\ \A k \in DOMAIN Append(s, x) :
              \/ Append(s, x)[k] = x
              \/ k \in DOMAIN s /\ Append(s, x)[k] = s[k]
  BY AppendProperties

(* What an issue looked up adds.                                             *)
LEMMA FoundIs ==
  ASSUME Typed, Genuine, NEW n \in Numbers, LookUp(n)
  PROVE  /\ at = "looking up" /\ query.kind = "lookup" /\ ids' = ids \ {n}
         /\ UNCHANGED <<github, query, page, states, held, left, arrived, touched>>
         /\ \E found \in Seq(Read) :
              /\ WasHeld(found) /\ Current(found)
              /\ \/ ids' = {} /\ Return(found)
                 \/ ids' # {} /\ all' = found /\ UNCHANGED <<at, result>>
<1> DEFINE read == IF n \in PullRequests THEN all ELSE Append(all, ToDomain(n))
<1>1. /\ at = "looking up" /\ n \in ids /\ ids' = ids \ {n} /\ query.kind = "lookup"
      /\ UNCHANGED <<github, query, page, states, held, left, arrived, touched>>
      /\ all \in Seq(Read)
  <2>1. /\ at = "looking up" /\ n \in ids /\ ids' = ids \ {n}
        /\ UNCHANGED <<github, query, page, states, held, left, arrived, touched>>
    BY DEF LookUp, history
  <2>2. query.kind = "lookup" /\ all \in Seq(Read)
    BY <2>1 DEF Typed
  <2> QED
    BY <2>1, <2>2
<1>2. PICK found \in {all, read} :
        IF ids' = {} THEN Return(found) ELSE all' = found /\ UNCHANGED <<at, result>>
  BY DEF LookUp
<1>3. CASE found = all
  BY <1>1, <1>2, <1>3 DEF Genuine
<1>4. CASE n \notin PullRequests /\ found = Append(all, ToDomain(n))
  <2>1. github[n] \in Item /\ github[n].state # "none"
    BY <1>1 DEF Typed
  <2>2. ToDomain(n) \in Read
    BY <1>4, <2>1 DEF ToDomain, Read, Item
  <2>3. /\ found \in Seq(Read)
        /\ \A k \in DOMAIN found : \/ found[k] = ToDomain(n)
                                   \/ k \in DOMAIN all /\ found[k] = all[k]
    <3> DEFINE x == ToDomain(n)
    <3>1. all \in Seq(Read) /\ x \in Read /\ found = Append(all, x)
      BY <1>1, <1>4, <2>2
    <3> HIDE DEF x
    <3>2. /\ found \in Seq(Read)
          /\ \A k \in DOMAIN found : found[k] = x \/ (k \in DOMAIN all /\ found[k] = all[k])
      BY <3>1, Added
    <3> QED
      BY <3>2 DEF x
  <2>4. ToDomain(n).number = n /\ Content(n) \in held
        /\ Content(n) = [number |-> ToDomain(n).number, state |-> ToDomain(n).state,
                         labels |-> ToDomain(n).labels]
    BY DEF Genuine, ToDomain, Content
  <2>5. WasHeld(found)
    BY <2>3, <2>4 DEF WasHeld, Genuine
  <2>6. Current(found)
    BY <1>1, <2>3, <2>4 DEF Current, Genuine
  <2> QED
    BY <1>1, <1>2, <2>3, <2>5, <2>6
<1> QED
  BY <1>1, <1>2, <1>3, <1>4

(* What a change leaves alone.                                               *)
LEMMA ChangeIs ==
  ASSUME Typed, NEW n \in Numbers, NEW state \in ListStates, NEW labels \in Labelings,
         Change(n, state, labels)
  PROVE  /\ at \in {"listing", "looking up"}
         /\ UNCHANGED <<query, at, page, states, ids, all, result>>
         /\ touched' = touched \cup {n} /\ held \subseteq held' /\ Content(n)' \in held'
         /\ github' \in [Numbers -> Item] /\ github'[n].state = state
         /\ \A m \in Numbers \ {n} : github'[m] = github[m]
         /\ left \subseteq left' /\ left' \subseteq left \cup {n}
         /\ arrived \subseteq arrived' /\ arrived' \subseteq arrived \cup {n}
         /\ InList(github, n) /\ (state # github[n].state \/ ~InList(github', n)) => n \in left'
         /\ InList(github', n) /\ (state # github[n].state \/ ~InList(github, n)) => n \in arrived'
<1>1. [state |-> state, labels |-> labels] \in Item
  BY IssueListsAssumption DEF Item
<1>2. /\ github' = [github EXCEPT ![n] = [state |-> state, labels |-> labels]]
      /\ github \in [Numbers -> Item]
  BY DEF Change, Typed
<1>3. /\ github' \in [Numbers -> Item] /\ github'[n].state = state
      /\ \A m \in Numbers \ {n} : github'[m] = github[m]
  BY <1>1, <1>2
<1>4. /\ left' = left \cup {m \in {n} : InList(github, m) /\ (state # github[n].state \/ ~InList(github', m))}
      /\ arrived' = arrived \cup {m \in {n} : InList(github', m) /\ (state # github[n].state \/ ~InList(github, m))}
  BY DEF Change
<1>5. /\ at \in {"listing", "looking up"}
      /\ UNCHANGED <<query, at, page, states, ids, all, result>>
      /\ touched' = touched \cup {n} /\ held \subseteq held' /\ Content(n)' \in held'
  BY DEF Change
<1> QED
  BY <1>3, <1>4, <1>5

-----------------------------------------------------------------------------
(* Every step keeps the types.                                               *)
LEMMA TypedStep ==
  ASSUME Typed, Genuine, [NextLists]_listVars PROVE Typed'
<1>1. CASE FetchPage
  <2>1. /\ at = "listing" /\ UNCHANGED <<github, query, ids, held, left, arrived, touched>>
        /\ FullPage \/ NextList \/ LastList
        /\ states # <<>> /\ Len(states) \in Nat \ {0} /\ DOMAIN states = 1 .. Len(states)
        /\ Tail(states) \in Seq(StateNames)
        /\ DOMAIN Tail(states) = 1 .. Len(states) - 1
        /\ \A k \in DOMAIN Tail(states) : Tail(states)[k] = states[k + 1]
    BY <1>1, PageEnds
  <2>2. ReadNow \in Seq(Read) /\ WasHeld(ReadNow) /\ Current(ReadNow)
    BY <2>1, ReadNowIs
  <2>3. \A k \in DOMAIN Tail(states) : \E j \in DOMAIN query.states : Tail(states)[k] = query.states[j]
    <3> TAKE k \in DOMAIN Tail(states)
    <3>1. k + 1 \in DOMAIN states /\ Tail(states)[k] = states[k + 1]
      BY <2>1
    <3> QED
      BY <3>1 DEF Typed
  <2>4. <<>> \in Seq(Read) /\ (1 - 1) * PerPage = 0 /\ Cardinality(Numbers) \in Nat
    BY IssueListsAssumption, FS_CardinalityType
  <2>5. CASE FullPage
    <3>1. Before + PerPage <= Cardinality(Numbers)
      BY <2>1, <2>5, PageIsCut DEF FullPage
    <3>2. page' \in Nat \ {0} /\ (page' - 1) * PerPage <= Cardinality(Numbers)
      BY <2>5, <3>1, PagesFollow DEF FullPage
    <3>3. all' \in Seq(Read) /\ UNCHANGED <<at, states, result>>
      BY <2>2, <2>5 DEF FullPage
    <3> QED
      BY <2>1, <3>2, <3>3 DEF Typed
  <2>6. CASE NextList
    <3>1. states' = Tail(states) /\ page' = 1 /\ all' \in Seq(Read) /\ UNCHANGED <<at, result>>
      BY <2>2, <2>6 DEF NextList
    <3>2. states' # <<>>
      <4>1. 1 \in DOMAIN states'
        BY <2>1, <2>6, <3>1 DEF NextList
      <4> QED
        BY <4>1
    <3> QED
      BY <2>1, <2>3, <2>4, <3>1, <3>2 DEF Typed
  <2>7. CASE LastList
    <3>1. states' = Tail(states) /\ page' = 1 /\ Return(ReadNow)
      BY <2>7 DEF LastList
    <3>2. at' = "done" /\ all' = <<>> /\ result' \in Seq(Read)
      BY <2>1, <2>2, <3>1, ReturnIs
    <3> QED
      BY <2>1, <2>3, <2>4, <3>1, <3>2 DEF Typed
  <2> QED
    BY <2>1, <2>5, <2>6, <2>7
<1>2. CASE FetchFails
  <2>1. /\ at' = "failed" /\ page' = 1 /\ states' = <<>> /\ ids' = {} /\ all' = <<>>
        /\ UNCHANGED <<github, query, result, held, left, arrived, touched>>
    BY <1>2 DEF FetchFails, history
  <2>2. /\ <<>> \in Seq(Read) /\ <<>> \in Seq(StateNames) /\ DOMAIN <<>> = {}
        /\ (1 - 1) * PerPage = 0 /\ Cardinality(Numbers) \in Nat
    BY IssueListsAssumption, FS_CardinalityType
  <2>3. /\ github' \in [Numbers -> Item] /\ query' \in Queries /\ result' \in Seq(Read)
        /\ touched' \in SUBSET Numbers /\ left' \in SUBSET touched' /\ arrived' \in SUBSET touched'
    BY <2>1 DEF Typed
  <2>4. /\ at' \in {"listing", "looking up", "done", "failed"}
        /\ at' # "listing" /\ at' # "looking up" /\ ids' \in SUBSET Numbers /\ DOMAIN states' = {}
        /\ page' \in Nat \ {0} /\ (page' - 1) * PerPage <= Cardinality(Numbers)
    BY <2>1, <2>2
  <2>5. states' \in Seq(StateNames) /\ all' \in Seq(Read) /\ \A n \in ids' : FALSE
    BY <2>1, <2>2
  <2> QED
    BY <2>3, <2>4, <2>5, Zenon DEF Typed
<1>3. ASSUME NEW n \in Numbers, LookUp(n) PROVE Typed'
  <2>1. /\ at = "looking up" /\ query.kind = "lookup" /\ ids' = ids \ {n}
        /\ UNCHANGED <<github, query, page, states, held, left, arrived, touched>>
    BY <1>3, FoundIs
  <2>2. PICK found \in Seq(Read) :
          /\ WasHeld(found) /\ Current(found)
          /\ \/ ids' = {} /\ Return(found)
             \/ ids' # {} /\ all' = found /\ UNCHANGED <<at, result>>
    BY <1>3, FoundIs
  <2>3. CASE ids' = {} /\ Return(found)
    <3>1. at' = "done" /\ all' = <<>> /\ result' \in Seq(Read)
      BY <2>1, <2>2, <2>3, ReturnIs
    <3>2. <<>> \in Seq(Read)
      OBVIOUS
    <3> QED
      BY <2>1, <2>3, <3>1, <3>2 DEF Typed
  <2>4. CASE ids' # {} /\ all' = found /\ UNCHANGED <<at, result>>
    BY <2>1, <2>2, <2>4 DEF Typed
  <2> QED
    BY <2>2, <2>3, <2>4
<1>4. ASSUME NEW n \in Numbers, NEW state \in ListStates, NEW labels \in Labelings,
             Change(n, state, labels)
      PROVE  Typed'
  <2>1. /\ UNCHANGED <<query, at, page, states, ids, all, result>>
        /\ touched' = touched \cup {n}
        /\ github' \in [Numbers -> Item] /\ github'[n].state = state
        /\ \A m \in Numbers \ {n} : github'[m] = github[m]
        /\ left' \subseteq left \cup {n} /\ arrived' \subseteq arrived \cup {n}
    BY <1>4, ChangeIs
  <2>2. \A m \in ids' : github'[m].state # "none"
    BY <2>1 DEF Typed, ListStates
  <2> QED
    BY <2>1, <2>2 DEF Typed
<1>5. CASE UNCHANGED listVars
  BY <1>5 DEF listVars, history, Typed
<1> QED
  BY <1>1, <1>2, <1>3, <1>4, <1>5 DEF NextLists

(* What was read is genuine.                                                 *)
LEMMA GenuineStep ==
  ASSUME Typed, Genuine, [NextLists]_listVars PROVE Genuine'
<1>1. ASSUME UNCHANGED <<github, query, held, touched>>
      PROVE  /\ \A n \in Numbers : Content(n)' \in held'
             /\ \A n : ToDomain(n)' = ToDomain(n) /\ (InList(github, n)' <=> InList(github, n))
  BY <1>1 DEF Genuine, Content, ToDomain, InList
<1>2. ASSUME UNCHANGED <<github, query, held, touched>>, NEW issues, all' = issues,
             WasHeld(issues), Current(issues)
      PROVE  WasHeld(all)' /\ Current(all)'
  <2>1. \A n : ToDomain(n)' = ToDomain(n) /\ (InList(github, n)' <=> InList(github, n))
    BY <1>1, <1>2
  <2> QED
    BY <1>2, <2>1 DEF WasHeld, Current
<1>3. ASSUME UNCHANGED <<github, query, held, touched, result>>
      PROVE  WasHeld(result)' /\ Current(result)' /\ Passing(result)'
  <2>1. \A n : ToDomain(n)' = ToDomain(n) /\ (InList(github, n)' <=> InList(github, n))
    BY <1>1, <1>3
  <2> QED
    BY <1>3, <2>1 DEF WasHeld, Current, Passing, Genuine
<1>4. WasHeld(<<>>) /\ Current(<<>>)
  BY DEF WasHeld, Current
<1>5. CASE FetchPage
  <2>1. /\ at = "listing" /\ UNCHANGED <<github, query, held, left, arrived, touched>>
        /\ FullPage \/ NextList \/ LastList
    BY <1>5, PageEnds
  <2>2. ReadNow \in Seq(Read) /\ WasHeld(ReadNow) /\ Current(ReadNow)
    BY <2>1, ReadNowIs
  <2>3. CASE FullPage \/ NextList
    <3>1. all' = ReadNow /\ UNCHANGED result
      BY <2>3 DEF FullPage, NextList
    <3> QED
      BY <1>1, <1>2, <1>3, <2>1, <2>2, <3>1 DEF Genuine
  <2>4. CASE LastList
    <3>1. Return(ReadNow)
      BY <2>4 DEF LastList
    <3>2. all' = <<>> /\ WasHeld(result)' /\ Current(result)' /\ Passing(result)'
      BY <2>1, <2>2, <3>1, ReturnIs
    <3> QED
      BY <1>1, <1>2, <1>4, <2>1, <3>2 DEF Genuine
  <2> QED
    BY <2>1, <2>3, <2>4
<1>6. CASE FetchFails
  <2>1. all' = <<>> /\ UNCHANGED <<github, query, result, held, touched>>
    BY <1>6 DEF FetchFails, history
  <2> QED
    BY <1>1, <1>2, <1>3, <1>4, <2>1 DEF Genuine
<1>7. ASSUME NEW n \in Numbers, LookUp(n) PROVE Genuine'
  <2>1. UNCHANGED <<github, query, held, left, arrived, touched>>
    BY <1>7, FoundIs
  <2>2. PICK found \in Seq(Read) :
          /\ WasHeld(found) /\ Current(found)
          /\ \/ ids' = {} /\ Return(found)
             \/ ids' # {} /\ all' = found /\ UNCHANGED <<at, result>>
    BY <1>7, FoundIs
  <2>3. CASE Return(found)
    <3>1. all' = <<>> /\ WasHeld(result)' /\ Current(result)' /\ Passing(result)'
      BY <2>1, <2>2, <2>3, ReturnIs
    <3> QED
      BY <1>1, <1>2, <1>4, <2>1, <3>1 DEF Genuine
  <2>4. CASE all' = found /\ UNCHANGED <<at, result>>
    BY <1>1, <1>2, <1>3, <2>1, <2>2, <2>4 DEF Genuine
  <2> QED
    BY <2>2, <2>3, <2>4
<1>8. ASSUME NEW n \in Numbers, NEW state \in ListStates, NEW labels \in Labelings,
             Change(n, state, labels)
      PROVE  Genuine'
  <2>1. /\ UNCHANGED <<query, all, result>>
        /\ touched' = touched \cup {n} /\ held \subseteq held' /\ Content(n)' \in held'
        /\ \A m \in Numbers \ {n} : github'[m] = github[m]
    BY <1>8, ChangeIs
  <2>2. \A m \in Numbers \ {n} : /\ Content(m)' = Content(m) /\ ToDomain(m)' = ToDomain(m)
                                 /\ InList(github, m)' <=> InList(github, m)
    BY <2>1 DEF Content, ToDomain, InList
  <2>3. \A m \in Numbers : Content(m)' \in held'
    BY <2>1, <2>2 DEF Genuine
  <2>4. ASSUME NEW issues \in Seq(Read), issues' = issues, WasHeld(issues), Current(issues)
        PROVE  WasHeld(issues)' /\ Current(issues)'
    <3>1. \A k \in DOMAIN issues : issues[k].number \in Numbers
      <4>1. \A k \in DOMAIN issues : issues[k] \in Read
        BY ElementOfSeq, LenProperties
      <4> QED
        BY <4>1 DEF Read
    <3>2. WasHeld(issues)'
      BY <2>1, <2>4 DEF WasHeld
    <3>3. Current(issues)'
      BY <2>1, <2>2, <2>4, <3>1 DEF Current
    <3> QED
      BY <3>2, <3>3
  <2> QED
    BY <2>1, <2>3, <2>4 DEF Genuine, Passing, Typed
<1>9. CASE UNCHANGED listVars
  <2>1. UNCHANGED <<github, query, held, touched, all, result>>
    BY <1>9 DEF listVars, history
  <2> QED
    BY <1>1, <1>2, <1>3, <2>1 DEF Genuine
<1> QED
  BY <1>5, <1>6, <1>7, <1>8, <1>9 DEF NextLists

-----------------------------------------------------------------------------
(* Where an issue stands in its list moves only when an earlier one leaves or *)
(* enters it.                                                                *)
LEMMA PositionsHold ==
  ASSUME Typed, Typed', NEW n \in Numbers, NEW state \in ListStates, NEW labels \in Labelings,
         Change(n, state, labels), at = "listing",
         NEW m \in Numbers \ {n}, github[m].state = states[1]
  PROVE  /\ Position(m) \in Nat /\ Position(m)' \in Nat
         /\ ~(n > m /\ n \in left') => Position(m) <= Position(m)'
         /\ ~(n > m /\ n \in arrived') => Position(m)' <= Position(m)
<1>1. /\ UNCHANGED <<query, states>> /\ github' \in [Numbers -> Item] /\ github'[n].state = state
      /\ \A i \in Numbers \ {n} : github'[i] = github[i]
      /\ InList(github, n) /\ (state # github[n].state \/ ~InList(github', n)) => n \in left'
      /\ InList(github', n) /\ (state # github[n].state \/ ~InList(github, n)) => n \in arrived'
  BY ChangeIs
<1>2. m \in Nat /\ n \in Nat /\ n # m
  BY IssueListsAssumption
<1>3. PICK j \in DOMAIN query.states : states[1] = query.states[j]
  <2>1. states # <<>> /\ states \in Seq(StateNames)
    BY DEF Typed
  <2>2. 1 \in DOMAIN states
    BY <2>1
  <2> QED
    BY <2>2 DEF Typed
<1> DEFINE s == github[m].state
           Front == {i \in Listed(s) : i >= m}
           front == {i \in Numbers : Matches(github'[i], s, query.label) /\ i >= m}
<1>4. /\ Listed(s) = {i \in Numbers : Matches(github[i], s, query.label)}
      /\ Listed(s)' = {i \in Numbers : Matches(github'[i], s, query.label)}
  BY <1>1 DEF Listed, Matches
<1>5. Position(m) = Cardinality(Front) /\ Position(m)' = Cardinality(front)
  <2>1. Front' = front
    BY <1>1, <1>4
  <2> QED
    BY <2>1, <1>1 DEF Position, Place
<1>6. /\ Position(m) \in Nat /\ Position(m)' \in Nat
      /\ \A S \in SUBSET Numbers : Front \subseteq S => Position(m) <= Cardinality(S)
      /\ \A S \in SUBSET Numbers : front \subseteq S => Position(m)' <= Cardinality(S)
  <2>1. Front \in SUBSET Numbers /\ front \in SUBSET Numbers
    BY <1>4
  <2> HIDE DEF Front, front
  <2>2. /\ IsFiniteSet(Numbers)
        /\ \A S \in SUBSET Numbers : IsFiniteSet(S)
    BY IssueListsAssumption, FS_Subset
  <2>3. Cardinality(Front) \in Nat /\ Cardinality(front) \in Nat
    BY <2>1, <2>2, FS_CardinalityType
  <2>4. ASSUME NEW S \in SUBSET Numbers, NEW T \in SUBSET S
        PROVE  Cardinality(T) <= Cardinality(S)
    BY <2>2, FS_Subset
  <2> QED
    BY <1>5, <2>1, <2>3, <2>4
<1>7. ASSUME ~(n > m /\ n \in left') PROVE Front \subseteq front
  <2> SUFFICES ASSUME NEW i \in Numbers, Matches(github[i], s, query.label), i >= m
               PROVE  Matches(github'[i], s, query.label)
    BY <1>4
  <2>1. CASE i # n
    BY <1>1, <2>1
  <2>2. CASE i = n
    <3>1. n > m
      BY <1>2, <2>2
    <3>2. InList(github, n) /\ github[n].state = s
      BY <1>3, <2>2 DEF InList, Matches
    <3>3. state = s /\ InList(github', n)
      BY <1>1, <1>7, <3>1, <3>2
    <3> QED
      BY <1>1, <2>2, <3>3 DEF InList, Matches
  <2> QED
    BY <2>1, <2>2
<1>8. ASSUME ~(n > m /\ n \in arrived') PROVE front \subseteq Front
  <2> SUFFICES ASSUME NEW i \in Numbers, Matches(github'[i], s, query.label), i >= m
               PROVE  Matches(github[i], s, query.label)
    BY <1>4
  <2>1. CASE i # n
    BY <1>1, <2>1
  <2>2. CASE i = n
    <3>1. n > m
      BY <1>2, <2>2
    <3>2. InList(github', n) /\ state = s
      BY <1>1, <1>3, <2>2 DEF InList, Matches
    <3>3. github[n].state = s /\ InList(github, n)
      BY <1>1, <1>8, <3>1, <3>2
    <3> QED
      BY <2>2, <3>3 DEF InList, Matches
  <2> QED
    BY <2>1, <2>2
<1>9. Front \in SUBSET Numbers /\ front \in SUBSET Numbers
  BY <1>4
<1> HIDE DEF Front, front
<1>10. ~(n > m /\ n \in left') => Position(m) <= Position(m)'
  BY <1>5, <1>6, <1>7, <1>9
<1>11. ~(n > m /\ n \in arrived') => Position(m)' <= Position(m)
  BY <1>5, <1>6, <1>8, <1>9
<1> QED
  BY <1>6, <1>10, <1>11

(* What stays of an issue that is not changed.                               *)
LEMMA UntouchedStays ==
  ASSUME Typed, NEW n \in Numbers, NEW state \in ListStates, NEW labels \in Labelings,
         Change(n, state, labels), NEW m \in Untouched'
  PROVE  /\ m \in Untouched /\ m \in Numbers \ {n} /\ github'[m] = github[m]
         /\ InList(github, m)' <=> InList(github, m)
         /\ Occurs(m, all)' <=> Occurs(m, all)
         /\ Once(m, all)' <=> Once(m, all)
         /\ Later(m)' <=> Later(m)
         /\ Advanced(m) => Advanced(m)'
         /\ PushedBack(m) => PushedBack(m)'
         /\ n > m /\ n \in left' => Advanced(m)'
         /\ n > m /\ n \in arrived' => PushedBack(m)'
<1>1. /\ UNCHANGED <<query, at, page, states, ids, all, result>>
      /\ touched' = touched \cup {n}
      /\ \A i \in Numbers \ {n} : github'[i] = github[i]
      /\ left \subseteq left' /\ arrived \subseteq arrived'
  BY ChangeIs
<1>2. m \in Untouched /\ m \in Numbers \ {n} /\ github'[m] = github[m]
  BY <1>1 DEF Untouched
<1> QED
  BY <1>1, <1>2 DEF InList, Occurs, Once, Later, Advanced, PushedBack

(* An issue in one of the lists of a query stands somewhere in it.            *)
LEMMA PositionIsPositive ==
  ASSUME Typed, NEW n \in Numbers, InList(github, n)
  PROVE  Position(n) \in Nat \ {0}
<1> DEFINE list == Listed(github[n].state)
<1>1. n \in list /\ list \in SUBSET Numbers
  BY DEF InList, Matches, Listed
<1>2. list \in SUBSET Nat /\ IsFiniteSet(list) /\ Position(n) = Place(n, list)
  BY <1>1, IssueListsAssumption, FS_Subset DEF Position
<1> HIDE DEF list
<1> QED
  BY <1>1, <1>2, PlacesAreNumbered

(* An issue of the list being read is on the page when its place is.          *)
LEMMA PlaceOnPage ==
  ASSUME Typed, at = "listing", NEW n \in Numbers, InList(github, n), github[n].state = states[1]
  PROVE  LET body == Answer(states[1], page) IN
         /\ Position(n) \in Nat \ {0}
         /\ n \in body <=> Position(n) > Before /\ Position(n) <= Before + PerPage
         /\ IsLastPage(body) => Position(n) <= Before + PerPage
<1>1. n \in Listed(states[1])
  BY DEF InList, Matches, Listed
<1>2. Position(n) = Place(n, Listed(states[1]))
  BY DEF Position
<1> QED
  BY <1>1, <1>2, PageIsCut

(* A step misses no issue that none left before.                              *)
LEMMA NotMissedStep ==
  ASSUME Typed, Typed', Genuine, NotMissed, [NextLists]_listVars PROVE NotMissed'
<1>1. CASE FetchPage
  <2>1. /\ at = "listing" /\ UNCHANGED <<github, query, ids, held, left, arrived, touched>>
        /\ FullPage \/ NextList \/ LastList
        /\ states # <<>> /\ Len(states) \in Nat \ {0} /\ DOMAIN states = 1 .. Len(states)
        /\ Tail(states) \in Seq(StateNames)
        /\ DOMAIN Tail(states) = 1 .. Len(states) - 1
        /\ \A k \in DOMAIN Tail(states) : Tail(states)[k] = states[k + 1]
    BY <1>1, PageEnds
  <2> DEFINE body == Answer(states[1], page)
  <2>2. /\ ReadNow \in Seq(Read) /\ WasHeld(ReadNow) /\ Current(ReadNow)
        /\ \A n : Occurs(n, ReadNow) <=> Occurs(n, all) \/ n \in body \ PullRequests
    BY <2>1, ReadNowIs
  <2>3. Before \in Nat /\ PerPage \in Nat \ {0}
        /\ \A p : p = page + 1 => (p - 1) * PerPage = Before + PerPage
    BY PagesFollow
  <2>4. ASSUME NEW n \in Untouched \ PullRequests, InList(github, n), ~Advanced(n)
        PROVE  \/ Occurs(n, ReadNow) \/ Later(n)
               \/ /\ github[n].state = states[1] /\ ~IsLastPage(body)
                  /\ Position(n) \in Nat /\ Position(n) > Before + PerPage
    <3>1. CASE Occurs(n, all) \/ Later(n)
      BY <2>2, <3>1
    <3>2. CASE github[n].state = states[1] /\ Position(n) > (page - 1) * PerPage
      <4>1. /\ Position(n) \in Nat \ {0}
            /\ n \in body <=> Position(n) > Before /\ Position(n) <= Before + PerPage
            /\ IsLastPage(body) => Position(n) <= Before + PerPage
        BY <2>1, <2>4, <3>2, PlaceOnPage DEF Untouched
      <4>2. n \in body \/ (Position(n) > Before + PerPage /\ ~IsLastPage(body))
        BY <2>3, <3>2, <4>1 DEF Before
      <4> QED
        BY <2>2, <2>4, <3>2, <4>1, <4>2
    <3> QED
      BY <2>1, <2>4, <3>1, <3>2 DEF NotMissed
  <2>5. ASSUME NEW n
        PROVE  /\ InList(github, n)' <=> InList(github, n)
               /\ Advanced(n)' <=> Advanced(n)
               /\ n \in Untouched' <=> n \in Untouched
               /\ Position(n)' = Position(n)
    BY <2>1 DEF InList, Advanced, Untouched, Position, Place, Listed
  <2>6. CASE FullPage
    <3>1. /\ page' = page + 1 /\ all' = ReadNow /\ UNCHANGED <<at, states, result>>
          /\ (page' - 1) * PerPage = Before + PerPage
      BY <2>3, <2>6 DEF FullPage
    <3>2. ASSUME NEW n \in (Untouched \ PullRequests)', InList(github, n)', ~Advanced(n)'
          PROVE  \/ Occurs(n, all)' \/ Later(n)'
                 \/ github'[n].state = states'[1] /\ Position(n)' > (page' - 1) * PerPage
      <4>1. n \in Untouched \ PullRequests /\ InList(github, n) /\ ~Advanced(n)
            /\ Position(n)' = Position(n)
        BY <2>5, <3>2
      <4>2. (Occurs(n, all)' <=> Occurs(n, ReadNow)) /\ (Later(n)' <=> Later(n))
        BY <2>1, <3>1 DEF Occurs, Later
      <4> QED
        BY <2>1, <2>4, <3>1, <4>1, <4>2
    <3>3. ~IsList'
      BY <2>1, <3>1 DEF IsList
    <3> QED
      BY <3>2, <3>3 DEF NotMissed
  <2>7. CASE NextList
    <3>1. /\ states' = Tail(states) /\ page' = 1 /\ all' = ReadNow /\ UNCHANGED <<at, result>>
          /\ IsLastPage(body) /\ Len(states) > 1
      BY <2>7 DEF NextList
    <3>2. ASSUME NEW n \in (Untouched \ PullRequests)', InList(github, n)', ~Advanced(n)'
          PROVE  \/ Occurs(n, all)' \/ Later(n)'
                 \/ github'[n].state = states'[1] /\ Position(n)' > (page' - 1) * PerPage
      <4>1. n \in Untouched \ PullRequests /\ InList(github, n) /\ ~Advanced(n)
        BY <2>5, <3>2
      <4>2. CASE Occurs(n, ReadNow)
        BY <3>1, <4>2 DEF Occurs
      <4>3. CASE Later(n)
        <5>1. PICK k \in DOMAIN states : k # 1 /\ states[k] = github[n].state
          BY <4>3 DEF Later
        <5>2. k - 1 \in DOMAIN states' /\ states'[k - 1] = github[n].state
          BY <2>1, <3>1, <5>1
        <5>3. CASE k - 1 # 1
          BY <2>1, <5>2, <5>3 DEF Later
        <5>4. CASE k - 1 = 1
          <6>1. at' = "listing" /\ github'[n].state = states'[1] /\ n \in Numbers
            BY <2>1, <3>1, <4>1, <5>2, <5>4 DEF Untouched
          <6>2. Position(n)' \in Nat \ {0}
            BY <2>5, <4>1, <6>1, PositionIsPositive
          <6>3. (page' - 1) * PerPage = 0
            BY <2>3, <3>1
          <6> QED
            BY <6>1, <6>2, <6>3
        <5> QED
          BY <5>3, <5>4
      <4> QED
        BY <2>4, <3>1, <4>1, <4>2, <4>3
    <3>3. ~IsList'
      BY <2>1, <3>1 DEF IsList
    <3> QED
      BY <3>2, <3>3 DEF NotMissed
  <2>8. CASE LastList
    <3>1. Return(ReadNow) /\ IsLastPage(body) /\ Len(states) = 1
      BY <2>8 DEF LastList
    <3>2. /\ at' = "done"
          /\ \A n \in Untouched :
               Occurs(n, ReadNow) /\ PassesLabelFilters(github[n].labels, query.include, query.exclude)
                 => Occurs(n, result')
      BY <2>1, <2>2, <3>1, ReturnIs
    <3>3. ASSUME NEW n \in Untouched', Wanted(n)', ~Advanced(n)' PROVE Occurs(n, result)'
      <4>1. /\ n \in Untouched \ PullRequests /\ InList(github, n) /\ ~Advanced(n)
            /\ PassesLabelFilters(github[n].labels, query.include, query.exclude)
        BY <2>1, <2>5, <3>3 DEF Wanted
      <4>2. ~Later(n)
        BY <2>1, <3>1 DEF Later
      <4>3. Occurs(n, ReadNow)
        BY <2>4, <3>1, <4>1, <4>2
      <4>4. Occurs(n, result')
        BY <3>2, <4>1, <4>3
      <4> QED
        BY <4>4 DEF Occurs
    <3> QED
      BY <3>2, <3>3 DEF NotMissed
  <2> QED
    BY <2>1, <2>6, <2>7, <2>8
<1>2. CASE FetchFails
  BY <1>2 DEF FetchFails, NotMissed, IsList
<1>3. ASSUME NEW n \in Numbers, LookUp(n) PROVE NotMissed'
  <2>1. at = "looking up" /\ query.kind = "lookup" /\ UNCHANGED query
    BY <1>3, FoundIs
  <2>2. at' \in {"looking up", "done"}
    BY <1>3, <2>1 DEF LookUp, Return
  <2> QED
    BY <2>1, <2>2 DEF NotMissed, IsList
<1>4. ASSUME NEW n \in Numbers, NEW state \in ListStates, NEW labels \in Labelings,
             Change(n, state, labels)
      PROVE  NotMissed'
  <2>1. at \in {"listing", "looking up"} /\ UNCHANGED <<query, at, page, states, ids, all, result>>
    BY <1>4, ChangeIs
  <2>2. ASSUME at' = "listing", NEW m \in (Untouched \ PullRequests)', InList(github, m)', ~Advanced(m)'
        PROVE  \/ Occurs(m, all)' \/ Later(m)'
               \/ github'[m].state = states'[1] /\ Position(m)' > (page' - 1) * PerPage
    <3>1. /\ m \in Untouched /\ m \in Numbers \ {n} /\ github'[m] = github[m]
          /\ InList(github, m) /\ ~Advanced(m)
          /\ Occurs(m, all)' <=> Occurs(m, all)
          /\ Later(m)' <=> Later(m)
          /\ ~(n > m /\ n \in left')
      BY <1>4, <2>2, UntouchedStays
    <3>2. CASE Occurs(m, all) \/ Later(m)
      BY <3>1, <3>2
    <3>3. CASE github[m].state = states[1] /\ Position(m) > (page - 1) * PerPage
      <4>1. Position(m) \in Nat /\ Position(m)' \in Nat /\ Position(m) <= Position(m)'
        BY <1>4, <2>1, <2>2, <3>1, <3>3, PositionsHold
      <4>2. Before \in Nat /\ Before' = Before /\ Before = (page - 1) * PerPage
        BY <2>1, PagesFollow DEF Before
      <4>3. Position(m)' > Before
        BY <3>3, <4>1, <4>2
      <4> QED
        BY <2>1, <3>1, <3>3, <4>2, <4>3
    <3> QED
      BY <2>1, <2>2, <3>1, <3>2, <3>3 DEF NotMissed
  <2>3. ~IsList'
    BY <2>1 DEF IsList
  <2> QED
    BY <2>2, <2>3 DEF NotMissed
<1>5. CASE UNCHANGED listVars
  BY <1>5 DEF listVars, history, NotMissed, IsList, Untouched, InList, Advanced, Occurs, Later,
              Position, Place, Listed, Wanted
<1> QED
  BY <1>1, <1>2, <1>3, <1>4, <1>5 DEF NextLists

(* A step repeats no issue that none entered before, when no state is listed  *)
(* twice.                                                                    *)
LEMMA NotDoubledStep ==
  ASSUME Typed, Typed', Genuine, NotDoubled, AllDifferent(states), [NextLists]_listVars
  PROVE  NotDoubled' /\ AllDifferent(states)'
<1>1. CASE FetchPage
  <2>1. /\ at = "listing" /\ UNCHANGED <<github, query, ids, held, left, arrived, touched>>
        /\ FullPage \/ NextList \/ LastList
        /\ states # <<>> /\ Len(states) \in Nat \ {0} /\ DOMAIN states = 1 .. Len(states)
        /\ Tail(states) \in Seq(StateNames)
        /\ DOMAIN Tail(states) = 1 .. Len(states) - 1
        /\ \A k \in DOMAIN Tail(states) : Tail(states)[k] = states[k + 1]
    BY <1>1, PageEnds
  <2> DEFINE body == Answer(states[1], page)
  <2>2. /\ ReadNow \in Seq(Read) /\ WasHeld(ReadNow) /\ Current(ReadNow)
        /\ \A n : Occurs(n, ReadNow) <=> Occurs(n, all) \/ n \in body \ PullRequests
        /\ \A n : Once(n, all) /\ ~(Occurs(n, all) /\ n \in body) => Once(n, ReadNow)
    BY <2>1, ReadNowIs
  <2>3. Before \in Nat /\ PerPage \in Nat \ {0}
        /\ \A p : p = page + 1 => (p - 1) * PerPage = Before + PerPage
    BY PagesFollow
  <2>4. ASSUME NEW n \in body
        PROVE  /\ github[n].state = states[1] /\ Position(n) \in Nat
               /\ Position(n) > Before /\ Position(n) <= Before + PerPage
    <3>1. /\ n \in Listed(states[1]) /\ github[n].state = states[1]
          /\ Place(n, Listed(states[1])) \in Nat
          /\ Place(n, Listed(states[1])) > Before
          /\ Place(n, Listed(states[1])) <= Before + PerPage
      BY <2>1, PageIsCut
    <3> QED
      BY <3>1 DEF Position
  <2>5. ASSUME NEW n \in Untouched, ~PushedBack(n)
        PROVE  /\ Once(n, ReadNow)
               /\ Occurs(n, ReadNow) =>
                    /\ ~Later(n)
                    /\ github[n].state = states[1] =>
                         /\ Position(n) \in Nat /\ Position(n) <= Before + PerPage
    <3>1. /\ Once(n, all)
          /\ Occurs(n, all) =>
               /\ ~Later(n)
               /\ github[n].state = states[1] => Position(n) <= Before
      BY <2>1, <2>5 DEF NotDoubled, Before
    <3>2. n \in body => ~Occurs(n, all)
      BY <2>3, <2>4, <3>1
    <3>3. n \in body => ~Later(n)
      BY <2>1, <2>4 DEF Later, AllDifferent
    <3>4. Occurs(n, all) /\ github[n].state = states[1] =>
            Position(n) \in Nat /\ Position(n) <= Before + PerPage
      <4> SUFFICES ASSUME Occurs(n, all), github[n].state = states[1]
                   PROVE  Position(n) \in Nat /\ Position(n) <= Before + PerPage
        OBVIOUS
      <4>1. PICK k \in DOMAIN all : all[k].number = n
        BY DEF Occurs
      <4>2. InList(github, n)
        BY <2>1, <4>1 DEF Genuine, Current, Untouched, Typed
      <4>3. Position(n) \in Nat \ {0}
        BY <4>2, PositionIsPositive DEF Untouched
      <4> QED
        BY <2>3, <3>1, <4>3
    <3> QED
      BY <2>2, <2>4, <3>1, <3>2, <3>3, <3>4
  <2>6. ASSUME NEW n
        PROVE  /\ PushedBack(n)' <=> PushedBack(n)
               /\ n \in Untouched' <=> n \in Untouched
               /\ Position(n)' = Position(n)
    BY <2>1 DEF PushedBack, Untouched, Position, Place, Listed
  <2>7. ASSUME states' = Tail(states) PROVE AllDifferent(states)'
    <3> SUFFICES ASSUME NEW j \in DOMAIN states', NEW k \in DOMAIN states', states'[j] = states'[k]
                 PROVE  j = k
      BY DEF AllDifferent
    <3>1. /\ j + 1 \in DOMAIN states /\ k + 1 \in DOMAIN states
          /\ states[j + 1] = states[k + 1] /\ j \in Int /\ k \in Int
      BY <2>1, <2>7
    <3>2. j + 1 = k + 1
      BY <3>1 DEF AllDifferent
    <3> QED
      BY <3>1, <3>2
  <2>8. CASE FullPage
    <3>1. /\ page' = page + 1 /\ all' = ReadNow /\ UNCHANGED <<at, states, result>>
          /\ (page' - 1) * PerPage = Before + PerPage
      BY <2>3, <2>8 DEF FullPage
    <3>2. ASSUME NEW n \in Untouched', ~PushedBack(n)'
          PROVE  /\ Once(n, all)'
                 /\ Occurs(n, all)' =>
                      /\ ~Later(n)'
                      /\ github'[n].state = states'[1] => Position(n)' <= (page' - 1) * PerPage
      <4>1. /\ Occurs(n, all)' <=> Occurs(n, ReadNow)
            /\ Once(n, all)' <=> Once(n, ReadNow)
            /\ Later(n)' <=> Later(n)
        BY <2>1, <3>1 DEF Occurs, Once, Later
      <4>2. n \in Untouched /\ ~PushedBack(n) /\ Position(n)' = Position(n)
        BY <2>6, <3>2
      <4> QED
        BY <2>1, <2>5, <3>1, <4>1, <4>2
    <3>3. ~IsList' /\ AllDifferent(states)'
      BY <2>1, <3>1 DEF IsList, AllDifferent
    <3> QED
      BY <3>2, <3>3 DEF NotDoubled
  <2>9. CASE NextList
    <3>1. /\ states' = Tail(states) /\ page' = 1 /\ all' = ReadNow /\ UNCHANGED <<at, result>>
          /\ Len(states) > 1
      BY <2>9 DEF NextList
    <3>2. ASSUME NEW n \in Untouched', ~PushedBack(n)'
          PROVE  /\ Once(n, all)'
                 /\ Occurs(n, all)' => ~Later(n)' /\ github'[n].state # states'[1]
      <4>1. /\ Occurs(n, all)' <=> Occurs(n, ReadNow)
            /\ Once(n, all)' <=> Once(n, ReadNow)
        BY <3>1 DEF Occurs, Once
      <4>2. n \in Untouched /\ ~PushedBack(n)
        BY <2>6, <3>2
      <4>3. ASSUME NEW k \in DOMAIN states', states'[k] = github[n].state PROVE Later(n)
        <5>1. k + 1 \in DOMAIN states /\ states[k + 1] = github[n].state /\ k + 1 # 1
          BY <2>1, <3>1, <4>3
        <5> QED
          BY <5>1 DEF Later
      <4>4. 1 \in DOMAIN states'
        BY <2>1, <3>1
      <4>5. ~Later(n) => ~Later(n)' /\ github'[n].state # states'[1]
        BY <2>1, <4>3, <4>4 DEF Later
      <4> QED
        BY <2>5, <4>1, <4>2, <4>5
    <3>3. ~IsList'
      BY <2>1, <3>1 DEF IsList
    <3> QED
      BY <2>7, <3>1, <3>2, <3>3 DEF NotDoubled
  <2>10. CASE LastList
    <3>1. Return(ReadNow) /\ states' = Tail(states)
      BY <2>10 DEF LastList
    <3>2. at' = "done" /\ \A n : Once(n, ReadNow) => Once(n, result')
      BY <2>1, <2>2, <3>1, ReturnIs
    <3>3. ASSUME NEW n \in Untouched', ~PushedBack(n)' PROVE Once(n, result)'
      <4>1. Once(n, result')
        BY <2>5, <2>6, <3>2, <3>3
      <4> QED
        BY <4>1 DEF Once
    <3> QED
      BY <2>7, <3>1, <3>2, <3>3 DEF NotDoubled
  <2> QED
    BY <2>1, <2>8, <2>9, <2>10
<1>2. CASE FetchFails
  <2>1. at' = "failed" /\ states' = <<>>
    BY <1>2 DEF FetchFails
  <2> QED
    BY <2>1 DEF NotDoubled, IsList, AllDifferent
<1>3. ASSUME NEW n \in Numbers, LookUp(n) PROVE NotDoubled' /\ AllDifferent(states)'
  <2>1. at = "looking up" /\ query.kind = "lookup" /\ UNCHANGED <<query, states>>
    BY <1>3, FoundIs
  <2>2. at' \in {"looking up", "done"}
    BY <1>3, <2>1 DEF LookUp, Return
  <2> QED
    BY <2>1, <2>2 DEF NotDoubled, IsList, AllDifferent
<1>4. ASSUME NEW n \in Numbers, NEW state \in ListStates, NEW labels \in Labelings,
             Change(n, state, labels)
      PROVE  NotDoubled' /\ AllDifferent(states)'
  <2>1. at \in {"listing", "looking up"} /\ UNCHANGED <<query, at, page, states, ids, all, result>>
    BY <1>4, ChangeIs
  <2>2. ASSUME at' = "listing", NEW m \in Untouched', ~PushedBack(m)'
        PROVE  /\ Once(m, all)'
               /\ Occurs(m, all)' =>
                    /\ ~Later(m)'
                    /\ github'[m].state = states'[1] => Position(m)' <= (page' - 1) * PerPage
    <3>1. /\ m \in Untouched /\ m \in Numbers \ {n} /\ github'[m] = github[m]
          /\ ~PushedBack(m)
          /\ Occurs(m, all)' <=> Occurs(m, all)
          /\ Once(m, all)' <=> Once(m, all)
          /\ Later(m)' <=> Later(m)
          /\ ~(n > m /\ n \in arrived')
      BY <1>4, <2>2, UntouchedStays
    <3>2. /\ Once(m, all)
          /\ Occurs(m, all) =>
               /\ ~Later(m)
               /\ github[m].state = states[1] => Position(m) <= Before
      BY <2>1, <2>2, <3>1 DEF NotDoubled, Before
    <3>3. Before \in Nat /\ (page' - 1) * PerPage = Before
      BY <2>1, PagesFollow DEF Before
    <3>4. ASSUME github[m].state = states[1], Position(m) <= Before PROVE Position(m)' <= Before
      <4>1. Position(m) \in Nat /\ Position(m)' \in Nat /\ Position(m)' <= Position(m)
        BY <1>4, <2>1, <2>2, <3>1, <3>4, PositionsHold
      <4> QED
        BY <3>3, <3>4, <4>1
    <3> QED
      BY <2>1, <3>1, <3>2, <3>3, <3>4
  <2>3. ~IsList' /\ AllDifferent(states)'
    BY <2>1 DEF IsList, AllDifferent
  <2> QED
    BY <2>2, <2>3 DEF NotDoubled
<1>5. CASE UNCHANGED listVars
  BY <1>5 DEF listVars, history, NotDoubled, IsList, Untouched, PushedBack, Occurs, Once, Later,
              Position, Place, Listed, AllDifferent
<1> QED
  BY <1>1, <1>2, <1>3, <1>4, <1>5 DEF NextLists

-----------------------------------------------------------------------------
(* The beginning of a fetch.                                                 *)
LEMMA QueriesAre ==
  ASSUME NEW q \in Queries
  PROVE  /\ q.kind \in {"list", "lookup"} /\ q.states \in Seq(StateNames)
         /\ EachStateOnce => AllDifferent(q.states)
<1>1. /\ ActiveStates \in Seq(StateNames) /\ TerminalStates \in Seq(StateNames)
      /\ <<"open">> \in Seq(StateNames) /\ <<>> \in Seq(StateNames)
  <2>1. ASSUME NEW S, NEW s \in Seq(S) PROVE s \in Seq({"open"} \cup S)
    OBVIOUS
  <2>2. ActiveStates \in Seq(STRING \ {"none"}) /\ TerminalStates \in Seq(STRING \ {"none"})
    BY IssueListsAssumption
  <2>3. \A S : <<"open">> \in Seq({"open"} \cup S) /\ <<>> \in Seq({"open"} \cup S)
    OBVIOUS
  <2> QED
    BY <2>1, <2>2, <2>3 DEF StateNames
<1>2. AllDifferent(<<"open">>) /\ AllDifferent(<<>>)
  BY DEF AllDifferent
<1>3. q.states \in {ActiveStates, TerminalStates, <<"open">>, <<>>} /\ q.kind \in {"list", "lookup"}
  BY DEF Queries, CandidateQueries, Candidate, Labelled, Terminal, ById, ActiveOrOpen
<1> QED
  BY <1>1, <1>2, <1>3 DEF EachStateOnce

LEMMA FetchBegins ==
  ASSUME InitLists
  PROVE  /\ Typed /\ Genuine /\ NotMissed
         /\ EachStateOnce => NotDoubled /\ AllDifferent(states)
<1>1. github \in [Numbers -> Item]
  <2>1. [state : {"none"}, labels : {{}}] \subseteq Item
    BY DEF Item
  <2>2. [state : ListStates, labels : Labelings] \subseteq Item
    BY IssueListsAssumption DEF Item
  <2>3. github \in [Numbers -> [state : {"none"}, labels : {{}}] \cup [state : ListStates, labels : Labelings]]
    BY DEF InitLists
  <2> QED
    BY <2>1, <2>2, <2>3
<1>2. /\ query.kind \in {"list", "lookup"} /\ query.states \in Seq(StateNames)
      /\ EachStateOnce => AllDifferent(query.states)
  BY QueriesAre DEF InitLists
<1>3. /\ <<>> \in Seq(Read) /\ DOMAIN <<>> = {} /\ (1 - 1) * PerPage = 0
      /\ Cardinality(Numbers) \in Nat
  BY IssueListsAssumption, FS_CardinalityType
<1>4. /\ all = <<>> /\ result = <<>> /\ page = 1 /\ states = query.states
      /\ left = {} /\ arrived = {} /\ touched = {} /\ held = {Content(n) : n \in Numbers}
      /\ query \in Queries
  BY DEF InitLists
<1>5. /\ query.kind = "lookup" => at = "looking up" /\ ids \in LookUps
      /\ query.kind = "list" => /\ at = IF query.states = <<>> THEN "done" ELSE "listing"
                                /\ ids = {}
  BY <1>2 DEF InitLists
<1>6. ids \in SUBSET Numbers /\ (at = "looking up" => ids # {}) /\ \A n \in ids : github[n].state # "none"
  BY <1>2, <1>5, IssueListsAssumption DEF InitLists
<1>7. Typed
  <2>1. at \in {"listing", "looking up", "done", "failed"}
    BY <1>2, <1>5
  <2>2. /\ at = "listing" => query.kind = "list" /\ states # <<>>
        /\ at = "looking up" => query.kind = "lookup" /\ ids # {}
    BY <1>2, <1>4, <1>5, <1>6
  <2>3. page \in Nat \ {0} /\ (page - 1) * PerPage <= Cardinality(Numbers)
    BY <1>3, <1>4
  <2>4. \A k \in DOMAIN states : \E j \in DOMAIN query.states : states[k] = query.states[j]
    BY <1>4
  <2> QED
    BY <1>1, <1>2, <1>3, <1>4, <1>6, <2>1, <2>2, <2>3, <2>4 DEF Typed
<1> USE DEF Occurs, Once
<1>8. Genuine
  BY <1>3, <1>4 DEF Genuine, WasHeld, Current, Passing
<1>9. NotMissed
  <2>1. ASSUME at = "listing", NEW n \in Untouched \ PullRequests, InList(github, n)
        PROVE  \/ Later(n)
               \/ github[n].state = states[1] /\ Position(n) > (page - 1) * PerPage
    <3>1. PICK k \in DOMAIN states : states[k] = github[n].state
      BY <1>4, <2>1 DEF InList, Matches
    <3>2. Position(n) \in Nat \ {0} /\ (page - 1) * PerPage = 0
      BY <1>3, <1>4, <1>7, <2>1, PositionIsPositive DEF Untouched
    <3>3. CASE k = 1
      BY <3>1, <3>2, <3>3
    <3>4. CASE k # 1
      BY <3>1, <3>4 DEF Later
    <3> QED
      BY <3>3, <3>4
  <2>2. IsList => \A n : ~Wanted(n)
    <3> SUFFICES ASSUME at = "done", query.kind = "list" PROVE \A n : ~Wanted(n)
      BY DEF IsList
    <3>1. DOMAIN query.states = {}
      BY <1>3, <1>5
    <3> QED
      BY <3>1 DEF Wanted, InList
  <2> QED
    BY <2>1, <2>2 DEF NotMissed
<1>10. NotDoubled
  BY <1>3, <1>4 DEF NotDoubled
<1> QED
  BY <1>2, <1>4, <1>7, <1>8, <1>9, <1>10

LEMMA FetchKeeps == ListsSpec => [](Typed /\ Genuine /\ NotMissed)
<1>1. InitLists => Typed /\ Genuine /\ NotMissed
  BY FetchBegins
<1>2. Typed /\ Genuine /\ NotMissed /\ [NextLists]_listVars => (Typed /\ Genuine /\ NotMissed)'
  BY TypedStep, GenuineStep, NotMissedStep
<1> QED
  BY <1>1, <1>2, PTL DEF ListsSpec

LEMMA FetchRepeatsNothing ==
  ASSUME EachStateOnce
  PROVE  ListsSpec => [](NotDoubled /\ AllDifferent(states))
<1>1. InitLists => NotDoubled /\ AllDifferent(states)
  BY FetchBegins
<1>2. /\ Typed /\ Genuine /\ NotMissed /\ (Typed /\ Genuine /\ NotMissed)'
      /\ NotDoubled /\ AllDifferent(states) /\ [NextLists]_listVars
      => (NotDoubled /\ AllDifferent(states))'
  BY NotDoubledStep
<1> QED
  BY <1>1, <1>2, FetchKeeps, PTL DEF ListsSpec


-----------------------------------------------------------------------------
(* The types of the fetch: no request is for a page the list cannot have, and *)
(* a fetch that goes on has something left to ask for.                       *)
LEMMA PagesAreCounted ==
  ASSUME NEW p \in Nat \ {0}, NEW size \in Nat \ {0}, NEW n \in Nat, (p - 1) * size <= n
  PROVE  p \in 1 .. n \div size + 1
  OBVIOUS

LEMMA IssuesAreRead ==
  ASSUME Typed
  PROVE  /\ \A k \in DOMAIN all : all[k] \in Read
         /\ \A k \in DOMAIN result : result[k] \in Read
<1>1. ASSUME NEW S, NEW s \in Seq(S), NEW k \in DOMAIN s PROVE s[k] \in S
  OBVIOUS
<1>2. all \in Seq(Read) /\ result \in Seq(Read)
  BY DEF Typed
<1> QED
  BY <1>1, <1>2

THEOREM ListsTypes == ListsSpec => []ListsTypeOK
<1>1. Typed => ListsTypeOK
  <2> SUFFICES ASSUME Typed PROVE ListsTypeOK
    OBVIOUS
  <2>1. Cardinality(Numbers) \in Nat /\ PerPage \in Nat \ {0}
    BY IssueListsAssumption, FS_CardinalityType
  <2>2. page \in 1 .. Cardinality(Numbers) \div PerPage + 1
    BY <2>1, PagesAreCounted DEF Typed
  <2>3. \A k \in DOMAIN all : all[k].number \in Numbers /\ all[k].state \in ListStates
    BY IssuesAreRead DEF Read
  <2> QED
    BY <2>2, <2>3 DEF Typed, ListsTypeOK
<1> QED
  BY <1>1, FetchKeeps, PTL

(* What fetch_candidate_issues, fetch_issues_with_label,                      *)
(* fetch_issues_by_states and fetch_issue_states_by_ids return are issues as   *)
(* GitHub held them during the fetch, none of them a pull request, each let    *)
(* pass by the filter of a single issue; and no candidate is claimed.         *)
THEOREM ReturnedWereWanted == ListsSpec => []ReturnedWasWanted
<1>1. ASSUME NEW labels, query \in CandidateQueries,
             PassesLabelFilters(labels, query.include, query.exclude)
      PROVE  LowerCase[ClaimLabel] \notin labels
  <2>1. PICK f \in Filters : query = Candidate(f)
    BY <1>1 DEF CandidateQueries
  <2>2. f.exclude \in LabelLists /\ ClaimLabel \in DOMAIN LowerCase
    BY IssueListsAssumption
  <2>3. query.exclude = EffectiveExcludeLabels(f.exclude, ClaimLabel)
    BY <2>1 DEF Candidate
  <2> QED
    BY <1>1, <2>2, <2>3, ClaimedIsNoCandidate
<1>2. Typed /\ Genuine => ReturnedWasWanted
  <2> SUFFICES ASSUME Typed, Genuine, NEW k \in DOMAIN result
               PROVE  /\ result[k].number \notin PullRequests
                      /\ [number |-> result[k].number, state |-> result[k].state,
                          labels |-> result[k].labels] \in held
                      /\ PassesLabelFilters(result[k].labels, query.include, query.exclude)
                      /\ query \in CandidateQueries => LowerCase[ClaimLabel] \notin result[k].labels
    BY DEF ReturnedWasWanted
  <2>1. result[k].number \notin PullRequests
    BY IssuesAreRead DEF Read
  <2>2. [number |-> result[k].number, state |-> result[k].state, labels |-> result[k].labels] \in held
    BY DEF Genuine, WasHeld
  <2>3. PassesLabelFilters(result[k].labels, query.include, query.exclude)
    BY DEF Genuine, Passing
  <2> QED
    BY <1>1, <2>1, <2>2, <2>3
<1> QED
  BY <1>2, FetchKeeps, PTL

(* A list that lacks an issue wanted all along lost one listed before it while *)
(* it was read: pages, states and filters lose none by themselves.            *)
THEOREM RemovalsCauseMisses == ListsSpec => []MissedOnlyByRemoval
<1>1. NotMissed => MissedOnlyByRemoval
  BY DEF NotMissed, MissedOnlyByRemoval, Wanted, Untouched, Advanced, Occurs, Returned
<1> QED
  BY <1>1, FetchKeeps, PTL

(* When no state is configured twice, a list that has an untouched issue twice *)
(* got a new one before it while it was read.                                *)
THEOREM InsertionsCauseDoubles ==
  ASSUME EachStateOnce
  PROVE  ListsSpec => []DoubledOnlyByInsertion
<1>1. Typed /\ NotDoubled => DoubledOnlyByInsertion
  <2> SUFFICES ASSUME Typed, NotDoubled, IsList, NEW j \in DOMAIN result, NEW k \in DOMAIN result,
                      j # k, result[j].number = result[k].number, result[j].number \notin touched
               PROVE  PushedBack(result[j].number)
    BY DEF DoubledOnlyByInsertion, PushedBack
  <2>1. result[j].number \in Untouched
    BY IssuesAreRead DEF Read, Untouched
  <2> QED
    BY <2>1 DEF NotDoubled, Once
<1> QED
  BY <1>1, FetchKeeps, FetchRepeatsNothing, PTL

(* When no state is configured twice and nothing changes during the fetch, a   *)
(* list is exactly what is wanted, each issue once, however many pages.        *)
THEOREM QuietListsAreExact ==
  ASSUME EachStateOnce
  PROVE  ListsSpec => []QuietListIsExact
<1>1. Typed /\ Genuine /\ NotMissed /\ NotDoubled => QuietListIsExact
  <2> SUFFICES ASSUME Typed, Genuine, NotMissed, NotDoubled, IsList, touched = {}
               PROVE  /\ Returned = {n \in Numbers : Wanted(n)}
                      /\ Cardinality(Returned) = Len(result)
    BY DEF QuietListIsExact
  <2>1. result \in Seq(Read) /\ Untouched = Numbers /\ left = {}
    BY DEF Typed, Untouched
  <2>2. \A n \in Numbers : Wanted(n) => n \in Returned
    BY <2>1 DEF NotMissed, Advanced, Occurs, Returned
  <2>3. ASSUME NEW k \in DOMAIN result
        PROVE  result[k].number \in Numbers /\ Wanted(result[k].number)
    <3>1. result[k].number \in Numbers \ PullRequests
      BY IssuesAreRead DEF Read
    <3>2. /\ result[k] = ToDomain(result[k].number) /\ InList(github, result[k].number)
          /\ PassesLabelFilters(result[k].labels, query.include, query.exclude)
      BY DEF Genuine, Current, Passing, IsList
    <3>3. result[k].labels = github[result[k].number].labels
      BY <3>2 DEF ToDomain
    <3> QED
      BY <3>1, <3>2, <3>3 DEF Wanted
  <2>4. \A n \in Numbers : Once(n, result)
    <3>1. arrived = {}
      BY DEF Typed
    <3> QED
      BY <2>1, <3>1 DEF NotDoubled, PushedBack
  <2> DEFINE length == Len(result)
             number == [k \in 1 .. length |-> result[k].number]
  <2>5. DOMAIN result = 1 .. length /\ length \in Nat
    BY <2>1
  <2> HIDE DEF length
  <2>6. number \in Bijection(1 .. length, Returned)
    <3>1. number \in [1 .. length -> Returned]
      BY <2>5 DEF Returned
    <3>2. \A j, k \in 1 .. length : number[j] = number[k] => j = k
      BY <2>3, <2>4, <2>5 DEF Once
    <3>3. \A n \in Returned : \E k \in 1 .. length : number[k] = n
      BY <2>5 DEF Returned
    <3> HIDE DEF number
    <3> QED
      BY <3>1, <3>2, <3>3 DEF Bijection, Injection, Surjection, IsInjective
  <2>7. IsFiniteSet(1 .. length) /\ Cardinality(1 .. length) = length
    BY <2>5, FS_Interval
  <2>8. Cardinality(Returned) = length
    <3> HIDE DEF number
    <3> QED
      BY <2>6, <2>7, FS_Bijection DEF ExistsBijection
  <2> QED
    BY <2>2, <2>3, <2>8 DEF Returned, length
<1> QED
  BY <1>1, FetchKeeps, FetchRepeatsNothing, PTL
=============================================================================
