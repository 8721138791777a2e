----------------------------- MODULE Candidates -----------------------------
(***************************************************************************)
(* Which issues are candidates and in which order they are dispatched: the *)
(* label filters (filter.rs), the labels always excluded (config.rs), the  *)
(* order and the retry delay (scheduling.rs).  Pure operators.             *)
(*                                                                         *)
(* An issue is a record with number, labels (lowercase), created and       *)
(* priority.  A list of labels in the configuration is a set of labels in  *)
(* any case, or Unset.                                                     *)
(***************************************************************************)
EXTENDS Integers, Sequences, FiniteSets

CONSTANTS
  Labels,      \* labels in lowercase
  LowerCase,   \* lowercase of every label a configuration may name
  Identifier,  \* place of each issue number among identifiers, compared as text
  Unset,       \* an Option that is None
  MaxU64       \* bound: u64::MAX, scaled

ASSUME CandidatesAssumption ==
  /\ LowerCase \in [DOMAIN LowerCase -> Labels] /\ Labels \subseteq DOMAIN LowerCase
  /\ \A l \in Labels : LowerCase[l] = l
  /\ \A n \in DOMAIN Identifier : Identifier[n] \in Nat
  /\ \A m, n \in DOMAIN Identifier : Identifier[m] = Identifier[n] => m = n
  /\ Unset \notin Nat /\ MaxU64 \in Nat

-----------------------------------------------------------------------------
(* Label filters.                                                            *)
IsGiven(list) == list # Unset /\ list # {}
Lowered(list) == {LowerCase[l] : l \in list}
HasAny(labels, list) == labels \cap Lowered(list) # {}

(* issue_passes_label_filters: one issue, when it is due for a retry.         *)
PassesLabelFilters(labels, include, exclude) ==
  /\ IsGiven(include) => HasAny(labels, include)
  /\ IsGiven(exclude) => ~HasAny(labels, exclude)

(* What a sequence has at some of its places, in its order.                   *)
ElementsAt(s, places) ==
  [k \in 1 .. Cardinality(places) |->
     s[CHOOSE p \in places : Cardinality({q \in places : q <= p}) = k]]

(* apply_label_filters: a list of issues, whitelist before blacklist.         *)
ApplyLabelFilters(issues, include, exclude) ==
  LET Included == {p \in DOMAIN issues : HasAny(issues[p].labels, include)}
      whitelisted == IF IsGiven(include) THEN ElementsAt(issues, Included) ELSE issues
      Kept == {p \in DOMAIN whitelisted : ~HasAny(whitelisted[p].labels, exclude)}
  IN IF IsGiven(exclude) THEN ElementsAt(whitelisted, Kept) ELSE whitelisted

(* Mutant: the claim label is added to an empty list only.                    *)
ExcludeOrClaimLabel(exclude, claim_label) ==
  IF IsGiven(exclude) THEN exclude ELSE {claim_label}

(* effective_exclude_labels: the claim label is added unless a label equal to *)
(* it in another case is there.                                              *)
EffectiveExcludeLabels(exclude, claim_label) ==
  LET base == IF exclude = Unset THEN {} ELSE exclude
  IN IF \E l \in base : LowerCase[l] = LowerCase[claim_label]
     THEN base ELSE base \cup {claim_label}

-----------------------------------------------------------------------------
(* sort_for_dispatch.  An absent priority or time comes last; the priority    *)
(* i32::MAX, which stands for an absent one, is not used by the tracker.      *)
AbsentLast(a, b) == a # Unset /\ (b = Unset \/ a < b)

DispatchedBefore(a, b) ==
  \/ AbsentLast(a.priority, b.priority)
  \/ /\ a.priority = b.priority
     /\ \/ AbsentLast(a.created, b.created)
        \/ a.created = b.created /\ Identifier[a.number] < Identifier[b.number]

-----------------------------------------------------------------------------
(* retry_delay_ms, in units of continuation_delay; saturating_mul and _pow.   *)
Saturated(n) == IF n > MaxU64 THEN MaxU64 ELSE n

RetryDelay(attempt, cap, continuation) ==
  LET doublings == IF attempt = 0 THEN 0 ELSE attempt - 1
      delay == Saturated(10 * Saturated(2 ^ doublings))
  IN IF continuation THEN 1 ELSE IF delay < cap THEN delay ELSE cap
=============================================================================
