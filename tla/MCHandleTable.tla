--------------------------- MODULE MCHandleTable ---------------------------
(* Small instances of HandleTable for TLC. *)
EXTENDS HandleTable, TLC

IdSymmetry == Permutations(Grants) \cup Permutations(Handles) \cup Permutations(Ops)
              \cup Permutations(Drops)

\* Two instances are explored in one run: what the constants allow is cut down to
\* the states that belong to one of them.  Each conjunct counts something that
\* only grows, so no state of either instance is reached through a state that is cut.
GrantsInstance ==
    /\ Cardinality(used) <= 2
    /\ \A p \in Picks : picks[p] = "none"

PicksInstance ==
    /\ Cardinality(issued) <= 2
    /\ Cardinality({o \in Ops : frame[o] # "idle"}) <= 1

EitherInstance == GrantsInstance \/ PicksInstance

=============================================================================
