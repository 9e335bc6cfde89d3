--------------------------- MODULE MCGrantLedger ---------------------------
(* Small instances of GrantLedger for TLC. *)
EXTENDS GrantLedger, TLC

CONSTANTS net, fs, here, there

Narrow == {here}
Wide == {here, there}

\* A version that declares a little of each capability, and a later one that
\* widens one of them and no longer declares the other.
McManifests ==
    {[version |-> 1, declares |-> (net :> {Narrow} @@ fs :> {Narrow})],
     [version |-> 2, declares |-> (net :> {Wide} @@ fs :> {})]}

McPatternLists == {{}, {Narrow}, {Wide}}

\* The run plays the earlier sessions itself: what it starts from need only hold
\* what no session writes, a file of the old shape and a floor nobody can read.
SmallInit ==
    /\ Init
    /\ diskFloor \in {0, Corrupt}
    /\ diskGrants[fs] = {}

\* The bundle that is pinned is the earlier of the two, as after an update that was
\* served and not yet pinned.
SmallNext == Next /\ (pinned' = None \/ pinned'.version = 1)

SmallSpec == SmallInit /\ [][SmallNext]_vars

=============================================================================
