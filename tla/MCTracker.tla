----------------------------- MODULE MCTracker ------------------------------
(* The requests of one tick, which come one after the other: fetches of lists *)
(* and the decision about a pull request, each from any state GitHub may be  *)
(* in.                                                                       *)
EXTENDS IssueLists, FixPr, TLC

CONSTANT unset

AllLabels == {"bug", "claimed", "pr-open", "wontfix"}
InCapitals == ("BUG" :> "bug") @@ ("CLAIMED" :> "claimed") @@ ("Claimed" :> "claimed")
              @@ ("Wontfix" :> "wontfix")
Cases == [l \in AllLabels |-> l] @@ InCapitals
SomeNumbers == 1 .. 4
SomePulls == {2}
SomeLabelings == {{"bug"}, {"claimed", "pr-open"}}
AsText == [n \in SomeNumbers |-> n]
Seconds == [n \in SomeNumbers |-> n \div 2]
Both == <<"open", "closed">>
Closed == <<"closed">>
SomeLookUps == {{1, 3}, {2, 4}}
SomeFilters == {[include |-> unset, exclude |-> unset],
                [include |-> unset, exclude |-> {"CLAIMED"}],
                [include |-> {"BUG", "Claimed"}, exclude |-> {"Wontfix"}]}
WithOrWithout == BOOLEAN

(* retry_delay_ms: saturation never makes a delay other than the smaller of   *)
(* the cap and the exact product.                                            *)
Exact(attempt) == 10 * 2 ^ (IF attempt = 0 THEN 0 ELSE attempt - 1)
ASSUME DelayIsExact ==
  \A attempt \in 0 .. 12, cap \in {0, 1, 9, 10, 11, 40, MaxU64 - 1, MaxU64} :
    /\ RetryDelay(attempt, cap, FALSE) = IF Exact(attempt) < cap THEN Exact(attempt) ELSE cap
    /\ RetryDelay(attempt, cap, TRUE) = 1

Init == \/ InitLists /\ FixPrIdle /\ handle = FALSE
        \/ ListsIdle /\ InitFixPr

Next == \/ at # "idle" /\ NextLists /\ UNCHANGED fixPrVars
        \/ at = "idle" /\ NextFixPr /\ UNCHANGED listVars

Spec == Init /\ [][Next]_<<listVars, fixPrVars>>
=============================================================================
