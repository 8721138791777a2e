----------------------------- MODULE IssueLists -----------------------------
(***************************************************************************)
(* Lists of issues, read from GitHub while it changes: a list page by page *)
(* (fetch_candidate_issues, fetch_issues_with_label, fetch_issues_by_states*)
(* of client.rs), the states of given issues one request after the other   *)
(* (fetch_issue_states_by_ids).                                            *)
(*                                                                         *)
(* GitHub lists the newest first and counts pages from the list as it is   *)
(* at the request.  Pull requests are in its lists.  One behaviour is one  *)
(* fetch; every request may fail.                                          *)
(***************************************************************************)
EXTENDS Candidates

CONSTANTS
  Numbers,        \* issue and pull request numbers, in the order of creation
  PullRequests,   \* those that are pull requests
  Labelings,      \* sets of labels an issue may have
  Created,        \* created_at of each number, in whole seconds
  LookUps,        \* sets of issues that may be looked up together
  PerPage,        \* PER_PAGE
  ActiveStates, TerminalStates,  \* sequences of states
  Filters,        \* pairs of include_labels and exclude_labels
  ClaimLabel, PrOpenLabel,
  MaxChanges      \* bound: changes on GitHub during one fetch

(* None is not a list of labels.                                             *)
NoneIsNoList == \A list \in SUBSET DOMAIN LowerCase : list # Unset
LabelLists == {Unset} \cup SUBSET DOMAIN LowerCase

(* A state may be configured that no issue ever has, but not the one that     *)
(* stands here for "not yet created".                                        *)
ASSUME IssueListsAssumption ==
  /\ Numbers \subseteq Nat /\ IsFiniteSet(Numbers) /\ PerPage \in Nat \ {0}
  /\ Labelings \subseteq SUBSET Labels
  /\ LookUps \subseteq SUBSET Numbers /\ {} \notin LookUps
  /\ {ActiveStates, TerminalStates} \subseteq Seq(STRING \ {"none"})
  /\ \A f \in Filters : {f.include, f.exclude} \subseteq LabelLists
  /\ ClaimLabel \in DOMAIN LowerCase /\ NoneIsNoList

VARIABLES
  github,   \* state and labels of each number; state none: not yet created
  query,    \* what is fetched: states, label, filter
  at,       \* listing, looking up, done, failed; idle: no fetch
  page,     \* page to ask for, of the first of states
  states,   \* states left to list
  ids,      \* issues left to look up
  all,      \* issues read so far
  result,   \* what the fetch returns
  held,     \* what GitHub has held of each issue since the fetch began (history)
  left, arrived, touched  \* issues that left or entered a list, or changed (history)

history == <<held, left, arrived, touched>>
listVars == <<github, query, at, page, states, ids, all, result, history>>

-----------------------------------------------------------------------------
ListStates == {"open", "closed"}
Content(n) == [number |-> n, state |-> github[n].state, labels |-> github[n].labels]

(* What a query asks GitHub for, and what it does with the answer.            *)
ActiveOrOpen == IF ActiveStates = <<>> THEN <<"open">> ELSE ActiveStates
Candidate(f) == [kind |-> "list", states |-> ActiveOrOpen, label |-> Unset,
                 include |-> f.include, exclude |-> EffectiveExcludeLabels(f.exclude, ClaimLabel)]
Labelled == [kind |-> "list", states |-> ActiveOrOpen, label |-> PrOpenLabel,
             include |-> Unset, exclude |-> Unset]
Terminal == [kind |-> "list", states |-> TerminalStates, label |-> Unset,
             include |-> Unset, exclude |-> Unset]
ById == [kind |-> "lookup", states |-> <<>>, label |-> Unset, include |-> Unset, exclude |-> Unset]
CandidateQueries == {Candidate(f) : f \in Filters}
Queries == CandidateQueries \cup {Labelled, Terminal, ById}

Matches(item, state, label) ==
  item.state = state /\ (label # Unset => label \in item.labels)
InList(g, n) == \E k \in DOMAIN query.states : Matches(g[n], query.states[k], query.label)

(* GitHub's answer to a request for a page: a set, as the order is given.     *)
Listed(state) == {n \in Numbers : Matches(github[n], state, query.label)}
Place(n, list) == Cardinality({m \in list : m >= n})
Answer(state, number) ==
  {n \in Listed(state) :
     Place(n, Listed(state)) \in (number - 1) * PerPage + 1 .. number * PerPage}

(* github_issue_to_domain: priority is never set.                             *)
ToDomain(n) == [number |-> n, state |-> github[n].state, labels |-> github[n].labels,
                created |-> Created[n], priority |-> Unset]

(* Pull requests are skipped.                                                *)
IssuesOf(body) ==
  LET issues == body \ PullRequests IN
  [k \in 1 .. Cardinality(issues) |-> ToDomain(CHOOSE n \in issues : Place(n, issues) = k)]

(* Mutant: a page is the last when its issues, without pull requests, do not  *)
(* fill it.                                                                  *)
LastByIssues(body) == Len(IssuesOf(body)) < PerPage

IsLastPage(body) == Cardinality(body) < PerPage

-----------------------------------------------------------------------------
(* Mutant: the last list does not end the fetch.                              *)
ReturnStaysListing(issues) ==
  /\ at' = at /\ all' = <<>>
  /\ result' = ApplyLabelFilters(issues, query.include, query.exclude)

Return(issues) ==
  /\ at' = "done" /\ all' = <<>>
  /\ result' = ApplyLabelFilters(issues, query.include, query.exclude)

(* Mutant: after the last page of a state the next state goes on counting.    *)
NextStateKeepsPage == states' = Tail(states) /\ page' = page

NextState == states' = Tail(states) /\ page' = 1

(* One page.  A page that is not full, or empty, is the last of its state.    *)
FetchPage ==
  /\ at = "listing"
  /\ LET body == Answer(Head(states), page)
         read == all \o IssuesOf(body)
     IN IF ~IsLastPage(body)
        THEN page' = page + 1 /\ all' = read /\ UNCHANGED <<at, states, result>>
        ELSE /\ NextState
             /\ IF Len(states) = 1 THEN Return(read)
                                   ELSE all' = read /\ UNCHANGED <<at, result>>
  /\ UNCHANGED <<github, query, ids, history>>

(* One issue, in the order of the identifiers, which is that of a HashMap.    *)
(* It is skipped when its request is refused, or it is a pull request.        *)
LookUp(n) ==
  /\ at = "looking up" /\ n \in ids /\ ids' = ids \ {n}
  /\ LET read == IF n \in PullRequests THEN all ELSE Append(all, ToDomain(n)) IN
     \E found \in {all, read} :
       IF ids' = {} THEN Return(found) ELSE all' = found /\ UNCHANGED <<at, result>>
  /\ UNCHANGED <<github, query, page, states, history>>

(* Mutant: a failing request is repeated from the first page, what was read   *)
(* being kept.                                                               *)
FetchRestarts ==
  /\ at = "listing" /\ page' = 1
  /\ UNCHANGED <<github, query, at, states, ids, all, result, history>>

(* A transport error, an answer that is not JSON or, for a list, a refusal:   *)
(* what was read is dropped.                                                 *)
FetchFails ==
  /\ at \in {"listing", "looking up"} /\ at' = "failed"
  /\ page' = 1 /\ states' = <<>> /\ ids' = {} /\ all' = <<>>
  /\ UNCHANGED <<github, query, result, history>>

-----------------------------------------------------------------------------
(* People and agents; numbers are given in order.                             *)
Change(n, state, labels) ==
  /\ at \in {"listing", "looking up"} /\ Cardinality(touched) < MaxChanges /\ n \notin touched
  /\ IF github[n].state = "none"
     THEN state = "open" /\ \A m \in Numbers : m < n => github[m].state # "none"
     ELSE github[n] # [state |-> state, labels |-> labels]
  /\ github' = [github EXCEPT ![n] = [state |-> state, labels |-> labels]]
  /\ held' = held \cup {Content(n)'}
  /\ touched' = touched \cup {n}
  /\ left' = left \cup {m \in {n} : InList(github, m) /\ (state # github[n].state \/ ~InList(github', m))}
  /\ arrived' = arrived \cup {m \in {n} : InList(github', m) /\ (state # github[n].state \/ ~InList(github, m))}
  /\ UNCHANGED <<query, at, page, states, ids, all, result>>

ListsIdle ==
  /\ github = [n \in Numbers |-> [state |-> "none", labels |-> {}]]
  /\ query = ById /\ at = "idle" /\ page = 1 /\ states = <<>> /\ ids = {}
  /\ all = <<>> /\ result = <<>> /\ held = {} /\ left = {} /\ arrived = {} /\ touched = {}

InitLists ==
  /\ github \in [Numbers -> [state : {"none"}, labels : {{}}] \cup [state : ListStates, labels : Labelings]]
  /\ \A m, n \in Numbers : m < n /\ github[m].state = "none" => github[n].state = "none"
  /\ query \in Queries
  /\ ids \in IF query.kind = "lookup" THEN LookUps ELSE {{}}
  /\ \A n \in ids : github[n].state # "none"
  /\ at = (CASE query.kind = "lookup" -> "looking up"
             [] query.kind = "list" -> IF query.states = <<>> THEN "done" ELSE "listing")
  /\ page = 1 /\ states = query.states /\ all = <<>> /\ result = <<>>
  /\ held = {Content(n) : n \in Numbers}
  /\ left = {} /\ arrived = {} /\ touched = {}

NextLists ==
  \/ FetchPage \/ FetchFails
  \/ \E n \in Numbers : LookUp(n)
  \/ \E n \in Numbers, state \in ListStates, labels \in Labelings : Change(n, state, labels)

ListsSpec == InitLists /\ [][NextLists]_listVars

-----------------------------------------------------------------------------
IsList == at = "done" /\ query.kind = "list"
Returned == {result[k].number : k \in DOMAIN result}
Wanted(n) == InList(github, n) /\ n \notin PullRequests
             /\ PassesLabelFilters(github[n].labels, query.include, query.exclude)

ListsTypeOK ==
  /\ at \in {"listing", "looking up", "done", "failed", "idle"}
  /\ page \in 1 .. Cardinality(Numbers) \div PerPage + 1
  /\ at = "listing" => states # <<>>
  /\ at = "looking up" => ids # {}
  /\ \A k \in DOMAIN all : all[k].number \in Numbers /\ all[k].state \in ListStates
  /\ left \cup arrived \subseteq touched /\ touched \subseteq Numbers

(* Everything returned is an issue, was so on GitHub at some moment of the    *)
(* fetch, and was wanted: a list's filter agrees with that of a single issue, *)
(* and what is claimed is no candidate.                                      *)
ReturnedWasWanted ==
  at = "done" => \A k \in DOMAIN result :
    LET i == result[k] IN
    /\ i.number \notin PullRequests
    /\ [number |-> i.number, state |-> i.state, labels |-> i.labels] \in held
    /\ PassesLabelFilters(i.labels, query.include, query.exclude)
    /\ query \in CandidateQueries => LowerCase[ClaimLabel] \notin i.labels

(* While nothing changes, a list is complete and without repetition.          *)
QuietListIsExact ==
  IsList /\ touched = {} =>
    /\ Returned = {n \in Numbers : Wanted(n)}
    /\ Cardinality(Returned) = Len(result)

(* An issue that was wanted all along is missed only when one listed before   *)
(* it left the list between two pages, ...                                   *)
MissedOnlyByRemoval ==
  IsList => \A n \in Numbers \ touched :
    Wanted(n) /\ n \notin Returned => \E m \in left : m > n

(* ... and returned twice only when one entered before it.                    *)
DoubledOnlyByInsertion ==
  IsList => \A j, k \in DOMAIN result :
    j # k /\ result[j].number = result[k].number /\ result[j].number \notin touched
    => \E m \in arrived : m > result[j].number
=============================================================================
