------------------------- MODULE GrantLedgerProofs -------------------------
(***************************************************************************)
(* The safety invariants of GrantLedger hold for every set of              *)
(* capabilities, patterns and manifests.                                   *)
(*                                                                         *)
(* IInv adds three facts to the checked invariants: a record whose         *)
(* manifest is set exists, and is hydrated exactly when a manifest was     *)
(* registered first (Registered); nothing is live while a forget ends the  *)
(* session (DropsEmpty), which is why memory may then be dropped without a *)
(* cascade; and the floor itself is at or above what was registered and    *)
(* written (FloorKept), from which what it admits follows (NoReplay).      *)
(***************************************************************************)
EXTENDS GrantLedger, TLAPS

\* What registration leaves behind.
Registered ==
    /\ manifest # None => known
    /\ hydrated <=> first # None

\* dropOrigin has emptied the table, and lets nothing in before it returns.
DropsEmpty == forgetting = "dropping" => live = {}

\* The floor in memory and the one on disk are at or above what they promise, or
\* unreadable; nothing was registered in a session that has no record yet.
FloorKept ==
    /\ diskFloor = Corrupt \/ diskFloor >= assured
    /\ known => floor = Corrupt \/ (floor >= assured /\ floor >= registered)
    /\ ~known => registered = 0

IInv ==
    /\ TypeOK
    /\ Registered
    /\ DropsEmpty
    /\ HandlesWithinGrants
    /\ RestoredWithinManifest
    /\ FloorKept
    /\ RevokedStaysRevoked

LEMMA InitEstablishes == Init => IInv
<1> SUFFICES ASSUME Init PROVE IInv
  OBVIOUS
<1> USE GrantLedgerAssumption
<1>1. {m.version : m \in Manifests} \subseteq Nat
  OBVIOUS
<1>2. NoGrants \in [Caps -> PatternLists] /\ NoIds \in [Caps -> 0 .. MaxMints]
  BY DEF NoGrants, NoIds
<1>3. TypeOK
  <2>1. diskFloor \in Nat \cup {Corrupt} /\ assured \in Nat /\ registered \in Nat
    BY <1>1 DEF Init
  <2>2. decided \in [Caps -> Decisions]
    BY DEF Init, Decisions
  <2>3. grants \in [Caps -> PatternLists] /\ ids \in [Caps -> 0 .. MaxMints]
    BY <1>2 DEF Init
  <2>4. /\ known \in BOOLEAN /\ hydrated \in BOOLEAN
        /\ manifest \in Manifests \cup {None} /\ pinned \in Manifests \cup {None}
    BY DEF Init
  <2>6. minted \in 0 .. MaxMints /\ floor \in Nat \cup {Corrupt}
    BY DEF Init
  <2>7. /\ diskShape \in {"none", "old", "file"}
        /\ diskGrants \in [Caps -> PatternLists]
        /\ diskShape = "none" => diskGrants = NoGrants
    BY DEF Init
  <2>5. /\ live \subseteq [cap : Caps, id : 0 .. MaxMints, target : Targets]
        /\ cascading \subseteq Caps \X (0 .. MaxMints)
        /\ forgetting \in {"no", "revoking", "dropping"} /\ toRevoke \subseteq Caps
        /\ first \in Manifests \cup {None} /\ restored \subseteq Caps
    BY DEF Init
  <2> QED BY <2>1, <2>2, <2>3, <2>4, <2>5, <2>6, <2>7 DEF TypeOK
<1>4. Registered /\ DropsEmpty /\ HandlesWithinGrants /\ RestoredWithinManifest
  BY DEF Init, Registered, DropsEmpty, HandlesWithinGrants, RestoredWithinManifest
<1>5. FloorKept
  <2>1. diskFloor = Corrupt \/ diskFloor \in Nat
    BY <1>1 DEF Init
  <2> QED BY <2>1 DEF Init, FloorKept
<1>6. RevokedStaysRevoked
  BY DEF Init, RevokedStaysRevoked
<1> QED BY <1>3, <1>4, <1>5, <1>6 DEF IInv

-----------------------------------------------------------------------------
(* Helpers *)

LEMMA HydrationTypes ==
    ASSUME TypeOK, NEW m \in Manifests, NEW reads \in BOOLEAN
    PROVE  /\ hydrateGrants(m, reads) \in [Caps -> PatternLists]
           /\ \A c \in Caps : hydrateGrants(m, reads)[c] # {} =>
                 hydrateGrants(m, reads)[c] = diskGrants[c] /\ Allowed(m, c, diskGrants[c])
           /\ \A c \in Caps : diskGrants[c] = {} => hydrateGrants(m, reads)[c] = {}
BY GrantLedgerAssumption DEF hydrateGrants, TypeOK

\* A hydration leaves every live handle within its grant, or reports its grant.
LEMMA HydrationReports ==
    ASSUME TypeOK, HandlesWithinGrants, NEW m \in Manifests, NEW reads \in BOOLEAN,
           replaceHydratedGrants(m, reads), live' = live
    PROVE  /\ HandlesWithinGrants'
           /\ grants' = hydrateGrants(m, reads)
           /\ restored' = {c \in Caps : hydrateGrants(m, reads)[c] # {}}
           /\ minted' \in 0 .. MaxMints
           /\ ids' \in [Caps -> 0 .. MaxMints]
           /\ cascading' \subseteq Caps \X (0 .. MaxMints)
<1> USE GrantLedgerAssumption
<1> DEFINE fresh == {c \in Caps \ unchanged(m, reads) : hydrateGrants(m, reads)[c] # {}}
           id == IF fresh = {} THEN minted ELSE minted + 1
           reported == {x \in Caps \ unchanged(m, reads) : grants[x] # {}}
<1>1. /\ id <= MaxMints /\ minted' = id
      /\ grants' = hydrateGrants(m, reads)
      /\ ids' = [c \in Caps |-> IF c \in fresh THEN id
                                 ELSE IF c \in unchanged(m, reads) THEN ids[c] ELSE 0]
      /\ restored' = {c \in Caps : hydrateGrants(m, reads)[c] # {}}
      /\ cascading' = cascading \cup {<<c, ids[c]>> : c \in reported}
  BY DEF replaceHydratedGrants, replaceGrants
<1>2. minted \in 0 .. MaxMints /\ ids \in [Caps -> 0 .. MaxMints]
      /\ cascading \subseteq Caps \X (0 .. MaxMints)
      /\ live \subseteq [cap : Caps, id : 0 .. MaxMints, target : Targets]
  BY DEF TypeOK
<1>3. minted' \in 0 .. MaxMints
  BY <1>1, <1>2
<1>4. ids' \in [Caps -> 0 .. MaxMints]
  BY <1>1, <1>2
<1>5. cascading' \subseteq Caps \X (0 .. MaxMints)
  BY <1>1, <1>2
<1>6. HandlesWithinGrants'
  <2> SUFFICES ASSUME NEW h \in live, <<h.cap, h.id>> \notin cascading'
               PROVE  h.id = ids'[h.cap] /\ \E p \in grants'[h.cap] : h.target \in p
    BY DEF HandlesWithinGrants
  <2>1. h.cap \in Caps /\ h.id = ids[h.cap] /\ \E p \in grants[h.cap] : h.target \in p
    BY <1>1, <1>2 DEF HandlesWithinGrants
  <2>2. h.cap \notin reported
    BY <1>1, <2>1
  <2>3. h.cap \in unchanged(m, reads)
    BY <2>1, <2>2
  <2>4. hydrateGrants(m, reads)[h.cap] = grants[h.cap] /\ h.cap \notin fresh
    BY <2>3 DEF unchanged
  <2> QED BY <1>1, <2>1, <2>3, <2>4
<1> QED BY <1>1, <1>3, <1>4, <1>5, <1>6

\* No revocation leaves a live handle outside its grant.
LEMMA RevocationReaches ==
    ASSUME TypeOK, HandlesWithinGrants, NEW c \in Caps,
           grants' = [grants EXCEPT ![c] = {}],
           ids' = [ids EXCEPT ![c] = 0],
           revokeHandles(IF grants[c] # {} THEN {<<c, ids[c]>>} ELSE {}),
           cascading' = cascading
    PROVE  /\ HandlesWithinGrants' /\ live' \subseteq live
           /\ grants' \in [Caps -> PatternLists] /\ ids' \in [Caps -> 0 .. MaxMints]
<1> USE GrantLedgerAssumption
<1>1. /\ grants \in [Caps -> PatternLists] /\ ids \in [Caps -> 0 .. MaxMints]
      /\ live \subseteq [cap : Caps, id : 0 .. MaxMints, target : Targets]
  BY DEF TypeOK
<1>2. live' \subseteq live
  BY DEF revokeHandles
<1>3. grants' \in [Caps -> PatternLists] /\ ids' \in [Caps -> 0 .. MaxMints]
  BY <1>1
<1>4. HandlesWithinGrants'
  <2> SUFFICES ASSUME NEW h \in live', <<h.cap, h.id>> \notin cascading
               PROVE  h.id = ids'[h.cap] /\ \E p \in grants'[h.cap] : h.target \in p
    BY DEF HandlesWithinGrants
  <2>1. h.cap \in Caps /\ h.id = ids[h.cap] /\ \E p \in grants[h.cap] : h.target \in p
    BY <1>1, <1>2 DEF HandlesWithinGrants
  <2>2. h.cap # c
    BY <2>1 DEF revokeHandles
  <2> QED BY <1>1, <2>1, <2>2
<1> QED BY <1>2, <1>3, <1>4

-----------------------------------------------------------------------------
(* Hydration and registration *)

\* The floor of the origin's record keeps what it promised, read or not.
LEMMA RecordFloorHolds ==
    ASSUME TypeOK, FloorKept, NEW floorReads \in BOOLEAN
    PROVE  /\ recordFloor(floorReads) \in Nat \cup {Corrupt}
           /\ \/ recordFloor(floorReads) = Corrupt
              \/ /\ recordFloor(floorReads) >= assured
                 /\ recordFloor(floorReads) >= registered
BY DEF TypeOK, FloorKept, recordFloor

\* What a hydration (or none, once registered) does to what the ledger grants.
LEMMA HydratedOrNot ==
    ASSUME IInv, NEW m \in Manifests, NEW reads \in BOOLEAN, live' = live,
           UNCHANGED <<diskGrants, decided, forgetting>>,
           IF hydrated THEN UNCHANGED <<grants, ids, minted, restored, cascading>>
                       ELSE replaceHydratedGrants(m, reads)
    PROVE  /\ HandlesWithinGrants' /\ RevokedStaysRevoked' /\ DropsEmpty'
           /\ grants' \in [Caps -> PatternLists]
           /\ ids' \in [Caps -> 0 .. MaxMints]
           /\ minted' \in 0 .. MaxMints
           /\ restored' \subseteq Caps
           /\ cascading' \subseteq Caps \X (0 .. MaxMints)
           /\ \A c \in restored' : IF hydrated THEN Allowed(first, c, grants'[c])
                                               ELSE Allowed(m, c, grants'[c])
<1>1. CASE hydrated
  <2>1. HandlesWithinGrants' /\ RevokedStaysRevoked' /\ DropsEmpty'
    BY <1>1 DEF IInv, HandlesWithinGrants, RevokedStaysRevoked, DropsEmpty
  <2>2. \A c \in restored' : Allowed(first, c, grants'[c])
    BY <1>1 DEF IInv, RestoredWithinManifest
  <2> QED BY <1>1, <2>1, <2>2 DEF IInv, TypeOK
<1>2. CASE ~hydrated
  <2>1. /\ HandlesWithinGrants'
        /\ grants' = hydrateGrants(m, reads)
        /\ restored' = {c \in Caps : hydrateGrants(m, reads)[c] # {}}
        /\ minted' \in 0 .. MaxMints
        /\ ids' \in [Caps -> 0 .. MaxMints]
        /\ cascading' \subseteq Caps \X (0 .. MaxMints)
    BY <1>2, HydrationReports DEF IInv
  <2>2. RevokedStaysRevoked'
    BY <2>1, HydrationTypes DEF IInv, RevokedStaysRevoked
  <2>3. DropsEmpty'
    BY DEF IInv, DropsEmpty
  <2> QED BY <1>2, <2>1, <2>2, <2>3, HydrationTypes DEF IInv
<1> QED BY <1>1, <1>2

LEMMA RegisterAppPreserves ==
    ASSUME IInv, NEW m \in Manifests, NEW floorReads \in BOOLEAN, NEW reads \in BOOLEAN,
           NEW ok \in BOOLEAN, RegisterApp(m, floorReads, reads, ok)
    PROVE  IInv'
<1> USE GrantLedgerAssumption
<1>0. /\ known' = TRUE /\ manifest' = m /\ hydrated' = TRUE
      /\ first' = IF first = None THEN m ELSE first
      /\ raiseFloor(recordFloor(floorReads), m.version, ok)
      /\ registered' = IF m.version > registered THEN m.version ELSE registered
      /\ IF hydrated THEN UNCHANGED <<grants, ids, minted, restored, cascading>>
                     ELSE replaceHydratedGrants(m, reads)
      /\ UNCHANGED <<pinned, diskShape, diskGrants, live, forgetting, toRevoke, decided>>
  BY DEF RegisterApp, forgetVars
<1>1. /\ HandlesWithinGrants' /\ RevokedStaysRevoked' /\ DropsEmpty'
      /\ grants' \in [Caps -> PatternLists]
      /\ ids' \in [Caps -> 0 .. MaxMints]
      /\ minted' \in 0 .. MaxMints
      /\ restored' \subseteq Caps
      /\ cascading' \subseteq Caps \X (0 .. MaxMints)
      /\ \A c \in restored' : IF hydrated THEN Allowed(first, c, grants'[c])
                                          ELSE Allowed(m, c, grants'[c])
  BY <1>0, HydratedOrNot
<1>2. /\ FloorKept' /\ floor' \in Nat \cup {Corrupt} /\ diskFloor' \in Nat \cup {Corrupt}
      /\ assured' \in Nat /\ registered' \in Nat
  <2> DEFINE from == recordFloor(floorReads)
  <2>1. /\ from \in Nat \cup {Corrupt}
        /\ from = Corrupt \/ (from >= assured /\ from >= registered)
    BY RecordFloorHolds DEF IInv
  <2>2. /\ m.version \in Nat /\ assured \in Nat /\ registered \in Nat
        /\ diskFloor \in Nat \cup {Corrupt}
        /\ diskFloor = Corrupt \/ diskFloor >= assured
    BY DEF IInv, TypeOK, FloorKept
  <2> HIDE DEF from
  <2>5. known' = TRUE /\ registered' = IF m.version > registered THEN m.version ELSE registered
    BY <1>0
  <2>6. raiseFloor(from, m.version, ok)
    BY <1>0 DEF from
  <2>3. CASE Newer(m.version, from)
    <3>1. floor' = m.version /\ m.version > from /\ from \in Nat
      BY <2>1, <2>3, <2>6 DEF raiseFloor, Newer
    <3>2. \/ diskFloor' = m.version /\ assured' = m.version
          \/ UNCHANGED <<diskFloor, assured>>
      BY <2>3, <2>6 DEF raiseFloor
    <3>3. from >= assured /\ from >= registered
      BY <2>1, <3>1, GrantLedgerAssumption
    <3> QED BY <2>2, <2>5, <3>1, <3>2, <3>3 DEF FloorKept
  <2>4. CASE ~Newer(m.version, from)
    <3>1. floor' = from /\ UNCHANGED <<diskFloor, assured>>
      BY <2>4, <2>6 DEF raiseFloor
    <3>2. from = Corrupt \/ from >= m.version
      BY <2>1, <2>2, <2>4 DEF Newer
    <3> QED BY <2>1, <2>2, <2>5, <3>1, <3>2 DEF FloorKept
  <2> QED BY <2>3, <2>4
<1>3. Registered'
  BY <1>0 DEF Registered
<1>4. RestoredWithinManifest'
  BY <1>0, <1>1 DEF IInv, Registered, RestoredWithinManifest
<1>5. TypeOK'
  BY <1>0, <1>1, <1>2 DEF IInv, TypeOK
<1> QED BY <1>1, <1>2, <1>3, <1>4, <1>5 DEF IInv

LEMMA HydrateFromPinnedPreserves ==
    ASSUME IInv, NEW m \in Manifests, NEW floorReads \in BOOLEAN, NEW reads \in BOOLEAN,
           HydrateFromPinned(m, floorReads, reads)
    PROVE  IInv'
<1> USE GrantLedgerAssumption
<1>0. /\ known' = TRUE /\ pinned' = m /\ floor' = recordFloor(floorReads)
      /\ IF hydrated THEN UNCHANGED <<grants, ids, minted, restored, cascading>>
                     ELSE replaceHydratedGrants(m, reads)
      /\ UNCHANGED <<manifest, hydrated, diskShape, diskGrants, diskFloor, live, forgetting,
                     toRevoke, first, registered, assured, decided>>
  BY DEF HydrateFromPinned, forgetVars, diskVars
<1>1. /\ HandlesWithinGrants' /\ RevokedStaysRevoked' /\ DropsEmpty'
      /\ grants' \in [Caps -> PatternLists]
      /\ ids' \in [Caps -> 0 .. MaxMints]
      /\ minted' \in 0 .. MaxMints
      /\ restored' \subseteq Caps
      /\ cascading' \subseteq Caps \X (0 .. MaxMints)
      /\ \A c \in restored' : IF hydrated THEN Allowed(first, c, grants'[c])
                                          ELSE Allowed(m, c, grants'[c])
  BY <1>0, HydratedOrNot
<1>2. FloorKept' /\ floor' \in Nat \cup {Corrupt}
  BY <1>0, RecordFloorHolds DEF IInv, FloorKept
<1>3. Registered' /\ RestoredWithinManifest'
  BY <1>0, <1>1 DEF IInv, Registered, RestoredWithinManifest
<1>4. TypeOK'
  BY <1>0, <1>1, <1>2 DEF IInv, TypeOK
<1> QED BY <1>1, <1>2, <1>3, <1>4 DEF IInv

-----------------------------------------------------------------------------
(* Steps that leave the ledger alone *)

LEMMA TouchPreserves ==
    ASSUME IInv, NEW floorReads \in BOOLEAN, Touch(floorReads)
    PROVE  IInv'
<1> USE GrantLedgerAssumption
<1>0. /\ known' = TRUE /\ floor' = recordFloor(floorReads)
      /\ UNCHANGED <<manifest, pinned, grants, ids, hydrated, minted, diskShape, diskGrants,
                     diskFloor, live, cascading, forgetting, toRevoke, first, restored,
                     registered, assured, decided>>
  BY DEF Touch, diskVars, handleVars, forgetVars, historyVars
<1>1. FloorKept' /\ floor' \in Nat \cup {Corrupt}
  BY <1>0, RecordFloorHolds DEF IInv, FloorKept
<1>2. TypeOK'
  BY <1>0, <1>1 DEF IInv, TypeOK
<1>3. Registered' /\ DropsEmpty' /\ RestoredWithinManifest'
  BY <1>0 DEF IInv, Registered, DropsEmpty, RestoredWithinManifest
<1>4. HandlesWithinGrants' /\ RevokedStaysRevoked'
  BY <1>0 DEF IInv, HandlesWithinGrants, RevokedStaysRevoked
<1> QED BY <1>1, <1>2, <1>3, <1>4 DEF IInv

\* A step that only touches live handles and their cascade.
LEMMA HandleStepPreserves ==
    ASSUME IInv, UNCHANGED <<memoryVars, diskVars, forgetVars, historyVars>>,
           HandlesWithinGrants', DropsEmpty',
           live' \subseteq [cap : Caps, id : 0 .. MaxMints, target : Targets],
           cascading' \subseteq cascading
    PROVE  IInv'
<1> USE DEF memoryVars, diskVars, forgetVars, historyVars
<1>1. TypeOK'
  BY DEF IInv, TypeOK
<1>2. Registered' /\ RestoredWithinManifest' /\ FloorKept'
  BY DEF IInv, Registered, RestoredWithinManifest, FloorKept
<1>3. RevokedStaysRevoked'
  BY DEF IInv, RevokedStaysRevoked
<1> QED BY <1>1, <1>2, <1>3 DEF IInv

LEMMA UsePreserves ==
    ASSUME IInv, Use
    PROVE  IInv'
<1> USE GrantLedgerAssumption
<1>0. /\ live \subseteq [cap : Caps, id : 0 .. MaxMints, target : Targets]
      /\ ids \in [Caps -> 0 .. MaxMints]
  BY DEF IInv, TypeOK
<1>1. ASSUME NEW c \in Caps, NEW t \in Targets, Acquire(c, t)
      PROVE  IInv'
  <2>1. /\ live' = live \cup {[cap |-> c, id |-> ids[c], target |-> t]}
        /\ forgetting # "dropping" /\ \E p \in grants[c] : t \in p
        /\ UNCHANGED <<memoryVars, diskVars, cascading, forgetVars, historyVars>>
    BY <1>1 DEF Acquire
  <2>2. UNCHANGED <<grants, ids, cascading, forgetting>>
    BY <2>1 DEF memoryVars, forgetVars
  <2>3. live' \subseteq [cap : Caps, id : 0 .. MaxMints, target : Targets]
    BY <1>0, <2>1
  <2> DEFINE n == [cap |-> c, id |-> ids[c], target |-> t]
  <2>4. HandlesWithinGrants'
    <3>1. n.cap = c /\ n.id = ids[c] /\ n.target = t
      OBVIOUS
    <3>2. live' = live \cup {n}
      BY <2>1
    <3>3. \E p \in grants[c] : t \in p
      BY <2>1
    <3> HIDE DEF n
    <3>4. HandlesWithinGrants
      BY DEF IInv
    <3> QED BY <2>2, <3>1, <3>2, <3>3, <3>4 DEF HandlesWithinGrants
  <2>5. DropsEmpty'
    BY <2>1, <2>2 DEF DropsEmpty
  <2> QED BY <2>1, <2>3, <2>4, <2>5, HandleStepPreserves
<1>2. ASSUME NEW h \in live, HandleEnds(h)
      PROVE  IInv'
  <2>1. /\ live' = live \ {h}
        /\ UNCHANGED <<memoryVars, diskVars, cascading, forgetVars, historyVars>>
    BY <1>2 DEF HandleEnds
  <2>2. HandlesWithinGrants' /\ DropsEmpty'
    BY <2>1 DEF IInv, HandlesWithinGrants, DropsEmpty, memoryVars, forgetVars
  <2> QED BY <1>0, <2>1, <2>2, HandleStepPreserves
<1>3. ASSUME NEW g \in cascading, Cascade(g)
      PROVE  IInv'
  <2>1. /\ cascading' = cascading \ {g}
        /\ live' = {h \in live : <<h.cap, h.id>> \notin {g}}
        /\ UNCHANGED <<memoryVars, diskVars, forgetVars, historyVars>>
    BY <1>3 DEF Cascade, revokeHandles
  <2>2. HandlesWithinGrants' /\ DropsEmpty'
    BY <2>1 DEF IInv, HandlesWithinGrants, DropsEmpty, memoryVars, forgetVars
  <2> QED BY <1>0, <2>1, <2>2, HandleStepPreserves
<1> QED BY <1>1, <1>2, <1>3 DEF Use

LEMMA PersistPicksPreserves ==
    ASSUME IInv, NEW reads \in BOOLEAN, PersistPicks(reads)
    PROVE  IInv'
<1>0. /\ diskShape' = "file"
      /\ diskGrants' = IF reads /\ diskShape = "file" THEN diskGrants ELSE NoGrants
      /\ UNCHANGED <<memoryVars, diskFloor, handleVars, forgetVars, historyVars>>
  BY DEF PersistPicks
<1> USE DEF memoryVars, handleVars, forgetVars, historyVars
<1>1. TypeOK'
  BY <1>0, GrantLedgerAssumption DEF IInv, TypeOK, NoGrants
<1>2. Registered' /\ DropsEmpty' /\ RestoredWithinManifest' /\ FloorKept'
  BY <1>0 DEF IInv, Registered, DropsEmpty, RestoredWithinManifest, FloorKept
<1>3. HandlesWithinGrants' /\ RevokedStaysRevoked'
  BY <1>0 DEF IInv, HandlesWithinGrants, RevokedStaysRevoked, NoGrants
<1> QED BY <1>1, <1>2, <1>3 DEF IInv

LEMMA RestartPreserves ==
    ASSUME IInv, Restart
    PROVE  IInv'
<1> USE GrantLedgerAssumption
<1>0. /\ known' = FALSE /\ manifest' = None /\ pinned' = None
      /\ grants' = NoGrants /\ ids' = NoIds /\ hydrated' = FALSE
      /\ floor' = 0 /\ minted' = 0
      /\ live' = {} /\ cascading' = {}
      /\ forgetting' = "no" /\ toRevoke' = {}
      /\ first' = None /\ restored' = {} /\ registered' = 0
      /\ UNCHANGED <<diskShape, diskGrants, diskFloor, assured, decided>>
  BY DEF Restart, diskVars
<1>1. NoGrants \in [Caps -> PatternLists] /\ NoIds \in [Caps -> 0 .. MaxMints]
  BY DEF NoGrants, NoIds
<1>2. TypeOK'
  <2>1. /\ diskFloor' \in Nat \cup {Corrupt} /\ assured' \in Nat /\ registered' \in Nat
        /\ decided' \in [Caps -> Decisions]
        /\ diskShape' \in {"none", "old", "file"}
        /\ diskGrants' \in [Caps -> PatternLists]
        /\ diskShape' = "none" => diskGrants' = NoGrants
    BY <1>0 DEF IInv, TypeOK
  <2>2. NoGrants' = NoGrants
    BY DEF NoGrants
  <2>3. grants' \in [Caps -> PatternLists] /\ ids' \in [Caps -> 0 .. MaxMints]
    BY <1>0, <1>1
  <2>4. /\ known' \in BOOLEAN /\ hydrated' \in BOOLEAN
        /\ manifest' \in Manifests \cup {None} /\ pinned' \in Manifests \cup {None}
    BY <1>0
  <2>6. minted' \in 0 .. MaxMints /\ floor' \in Nat \cup {Corrupt}
    BY <1>0
  <2>5. /\ live' \subseteq [cap : Caps, id : 0 .. MaxMints, target : Targets]
        /\ cascading' \subseteq Caps \X (0 .. MaxMints)
        /\ forgetting' \in {"no", "revoking", "dropping"} /\ toRevoke' \subseteq Caps
        /\ first' \in Manifests \cup {None} /\ restored' \subseteq Caps
    BY <1>0
  <2> QED BY <2>1, <2>2, <2>3, <2>4, <2>5, <2>6 DEF TypeOK
<1>3. Registered' /\ DropsEmpty' /\ RestoredWithinManifest' /\ FloorKept' /\ HandlesWithinGrants'
  BY <1>0 DEF IInv, Registered, DropsEmpty, RestoredWithinManifest, FloorKept,
              HandlesWithinGrants
<1>4. RevokedStaysRevoked'
  BY <1>0 DEF IInv, RevokedStaysRevoked, NoGrants
<1> QED BY <1>2, <1>3, <1>4 DEF IInv

-----------------------------------------------------------------------------
(* The user's decisions *)

LEMMA GrantPreserves ==
    ASSUME IInv, NEW c \in Caps, NEW wanted \in PatternLists, NEW floorReads \in BOOLEAN,
           NEW ok \in BOOLEAN, Grant(c, wanted, floorReads, ok)
    PROVE  IInv'
<1> USE GrantLedgerAssumption
<1>0. /\ minted < MaxMints /\ minted' = minted + 1
      /\ known' = TRUE /\ floor' = recordFloor(floorReads)
      /\ grants' = [grants EXCEPT ![c] = wanted]
      /\ ids' = [ids EXCEPT ![c] = minted + 1]
      /\ writeGrants(grants', ok)
      /\ IF grants[c] # {} THEN replaceGrant(c, wanted) ELSE UNCHANGED live
      /\ restored' = restored \ {c}
      /\ decided' = [decided EXCEPT ![c] = "open"]
      /\ UNCHANGED <<manifest, pinned, hydrated, diskFloor, cascading, forgetting, toRevoke,
                     first, registered, assured>>
  BY DEF Grant, forgetVars
<1>1. /\ minted \in 0 .. MaxMints /\ grants \in [Caps -> PatternLists]
      /\ ids \in [Caps -> 0 .. MaxMints] /\ decided \in [Caps -> Decisions]
      /\ live \subseteq [cap : Caps, id : 0 .. MaxMints, target : Targets]
      /\ diskGrants \in [Caps -> PatternLists]
  BY DEF IInv, TypeOK
<1>2. /\ minted' \in 0 .. MaxMints /\ grants' \in [Caps -> PatternLists]
      /\ ids' \in [Caps -> 0 .. MaxMints] /\ decided' \in [Caps -> Decisions]
  BY <1>0, <1>1 DEF Decisions
<1>3. \/ diskShape' = "file" /\ diskGrants' = grants'
      \/ UNCHANGED <<diskShape, diskGrants>>
  BY <1>0 DEF writeGrants
<1>4. /\ live' \subseteq [cap : Caps, id : 0 .. MaxMints, target : Targets]
      /\ HandlesWithinGrants' /\ DropsEmpty'
  <2>1. CASE grants[c] = {}
    <3>1. live' = live
      BY <1>0, <2>1
    <3>2. \A h \in live : <<h.cap, h.id>> \notin cascading => h.cap # c
      BY <1>1, <2>1 DEF IInv, HandlesWithinGrants
    <3> QED BY <1>0, <1>1, <3>1, <3>2 DEF IInv, HandlesWithinGrants, DropsEmpty
  <2>2. CASE grants[c] # {}
    <3> DEFINE old == {h \in live : h.cap = c /\ h.id = ids[c]}
               kept == {h \in old : \E w \in wanted : h.target \in w}
    <3>1. live' = (live \ old) \cup {[h EXCEPT !.id = minted + 1] : h \in kept}
      BY <1>0, <2>2 DEF replaceGrant
    <3>2. ASSUME NEW h \in kept
          PROVE  LET n == [h EXCEPT !.id = minted + 1]
                 IN  /\ n \in [cap : Caps, id : 0 .. MaxMints, target : Targets]
                     /\ n.cap = c /\ n.id = minted + 1 /\ n.target = h.target
      <4>1. h \in [cap : Caps, id : 0 .. MaxMints, target : Targets] /\ h.cap = c
        BY <1>1, <3>2
      <4>2. minted + 1 \in 0 .. MaxMints
        BY <1>0, <1>1
      <4> QED BY <4>1, <4>2
    <3>3. live' \subseteq [cap : Caps, id : 0 .. MaxMints, target : Targets]
      BY <1>1, <3>1, <3>2
    <3>4. HandlesWithinGrants'
      <4> SUFFICES ASSUME NEW n \in live', <<n.cap, n.id>> \notin cascading
                   PROVE  n.id = ids'[n.cap] /\ \E p \in grants'[n.cap] : n.target \in p
        BY <1>0 DEF HandlesWithinGrants
      <4>1. CASE n \in live \ old
        <5>1. n.cap \in Caps /\ n.id = ids[n.cap] /\ \E p \in grants[n.cap] : n.target \in p
          BY <1>1, <4>1 DEF IInv, HandlesWithinGrants
        <5>2. n.cap # c
          BY <4>1, <5>1
        <5> QED BY <1>0, <1>1, <5>1, <5>2
      <4>2. CASE n \notin live \ old
        <5>1. PICK h \in kept : n = [h EXCEPT !.id = minted + 1]
          BY <3>1, <4>2
        <5>2. n.cap = c /\ n.id = minted + 1 /\ n.target = h.target
          BY <3>2, <5>1
        <5>3. ids'[c] = minted + 1 /\ grants'[c] = wanted
          BY <1>0, <1>1
        <5> QED BY <5>1, <5>2, <5>3
      <4> QED BY <4>1, <4>2
    <3>5. DropsEmpty'
      BY <1>0, <3>1 DEF IInv, DropsEmpty
    <3> QED BY <3>3, <3>4, <3>5
  <2> QED BY <2>1, <2>2
<1>5. FloorKept' /\ floor' \in Nat \cup {Corrupt}
  BY <1>0, RecordFloorHolds DEF IInv, FloorKept
<1>6. Registered' /\ RestoredWithinManifest'
  BY <1>0, <1>1 DEF IInv, TypeOK, Registered, RestoredWithinManifest
<1>7. RevokedStaysRevoked'
  BY <1>0, <1>1, <1>3 DEF IInv, RevokedStaysRevoked
<1>8. TypeOK'
  BY <1>0, <1>2, <1>3, <1>4, <1>5 DEF IInv, TypeOK
<1> QED BY <1>4, <1>5, <1>6, <1>7, <1>8 DEF IInv


\* What the three revocations share: memory, the handles and the history move
\* together, and the disk either takes the new patterns or stays as it was.
LEMMA StrikePreserves ==
    ASSUME IInv, NEW c \in Caps,
           grants' = [grants EXCEPT ![c] = {}],
           ids' = [ids EXCEPT ![c] = 0],
           revokeHandles(IF grants[c] # {} THEN {<<c, ids[c]>>} ELSE {}),
           restored' = restored \ {c},
           UNCHANGED <<known, manifest, pinned, hydrated, floor, minted, diskFloor,
                       cascading, first, registered, assured>>,
           diskShape' \in {"none", "old", "file"},
           diskGrants' \in [Caps -> PatternLists],
           diskShape' = "none" => diskGrants' = NoGrants,
           RevokedStaysRevoked',
           decided' \in [Caps -> Decisions],
           forgetting' \in {"no", "revoking", "dropping"}, toRevoke' \subseteq Caps,
           forgetting' = "dropping" => forgetting = "dropping"
    PROVE  IInv'
<1>1. /\ HandlesWithinGrants' /\ live' \subseteq live
      /\ grants' \in [Caps -> PatternLists] /\ ids' \in [Caps -> 0 .. MaxMints]
  BY RevocationReaches DEF IInv
<1>2. NoGrants' = NoGrants
  BY DEF NoGrants
<1>3. TypeOK'
  BY <1>1, <1>2 DEF IInv, TypeOK
<1>4. Registered' /\ DropsEmpty' /\ FloorKept'
  BY <1>1 DEF IInv, Registered, DropsEmpty, FloorKept
<1>5. RestoredWithinManifest'
  BY DEF IInv, TypeOK, RestoredWithinManifest
<1> QED BY <1>1, <1>3, <1>4, <1>5 DEF IInv

LEMMA RevokePreserves ==
    ASSUME IInv, NEW c \in Caps, NEW ok \in BOOLEAN, Revoke(c, ok)
    PROVE  IInv'
<1>0. /\ grants[c] # {}
      /\ grants' = [grants EXCEPT ![c] = {}]
      /\ ids' = [ids EXCEPT ![c] = 0]
      /\ writeGrants(grants', ok)
      /\ revokeHandles({<<c, ids[c]>>})
      /\ restored' = restored \ {c}
      /\ decided' = IF ok THEN [decided EXCEPT ![c] = "revoked"] ELSE decided
      /\ UNCHANGED <<known, manifest, pinned, hydrated, floor, minted, diskFloor,
                     cascading, forgetting, toRevoke, first, registered, assured>>
  BY DEF Revoke, forgetVars
<1>1. /\ grants \in [Caps -> PatternLists] /\ diskGrants \in [Caps -> PatternLists]
      /\ decided \in [Caps -> Decisions] /\ diskShape \in {"none", "old", "file"}
      /\ diskShape = "none" => diskGrants = NoGrants
      /\ forgetting \in {"no", "revoking", "dropping"} /\ toRevoke \subseteq Caps
  BY DEF IInv, TypeOK
<1>2. revokeHandles(IF grants[c] # {} THEN {<<c, ids[c]>>} ELSE {})
  BY <1>0
<1>3. IF ok THEN diskShape' = "file" /\ diskGrants' = grants'
            ELSE UNCHANGED <<diskShape, diskGrants>>
  BY <1>0 DEF writeGrants
<1>4. grants' \in [Caps -> PatternLists] /\ decided' \in [Caps -> Decisions]
  BY <1>0, <1>1, GrantLedgerAssumption DEF Decisions
<1>5. RevokedStaysRevoked'
  BY <1>0, <1>1, <1>3 DEF IInv, RevokedStaysRevoked
<1>6. /\ diskShape' \in {"none", "old", "file"}
      /\ diskGrants' \in [Caps -> PatternLists]
      /\ diskShape' = "none" => diskGrants' = NoGrants
  BY <1>1, <1>3, <1>4
<1> QED BY <1>0, <1>1, <1>2, <1>4, <1>5, <1>6, StrikePreserves

\* revokePersisted, on its own or as a step of a forget.
LEMMA RevokePersistedPreserves ==
    ASSUME IInv, NEW c \in Caps, NEW reads \in BOOLEAN, NEW ok \in BOOLEAN,
           revokePersisted(c, reads, ok),
           forgetting' \in {"no", "revoking", "dropping"}, toRevoke' \subseteq Caps,
           forgetting' = "dropping" => forgetting = "dropping"
    PROVE  IInv'
<1>0. /\ grants' = [grants EXCEPT ![c] = {}]
      /\ ids' = [ids EXCEPT ![c] = 0]
      /\ IF strikes(c, reads)
         THEN writeGrants([diskGrants EXCEPT ![c] = {}], ok)
         ELSE UNCHANGED <<diskShape, diskGrants>>
      /\ revokeHandles(IF grants[c] # {} THEN {<<c, ids[c]>>} ELSE {})
      /\ restored' = restored \ {c}
      /\ decided' = [decided EXCEPT ![c] =
                        IF ~seesDisk(reads) THEN IF grants[c] # {} THEN "struck" ELSE @
                        ELSE IF strikes(c, reads) => ok THEN "revoked" ELSE @]
      /\ UNCHANGED <<known, manifest, pinned, hydrated, floor, minted, diskFloor,
                     cascading, first, registered, assured>>
  BY DEF revokePersisted
<1>1. /\ grants \in [Caps -> PatternLists] /\ diskGrants \in [Caps -> PatternLists]
      /\ decided \in [Caps -> Decisions] /\ diskShape \in {"none", "old", "file"}
      /\ diskShape = "none" => diskGrants = NoGrants
  BY DEF IInv, TypeOK
<1>2. \/ strikes(c, reads) /\ ok /\ diskShape' = "file" /\ diskGrants' = [diskGrants EXCEPT ![c] = {}]
      \/ ~(strikes(c, reads) /\ ok) /\ UNCHANGED <<diskShape, diskGrants>>
  BY <1>0 DEF writeGrants
<1>3. decided' \in [Caps -> Decisions]
  BY <1>0, <1>1 DEF Decisions
<1>4. /\ diskShape' \in {"none", "old", "file"}
      /\ diskGrants' \in [Caps -> PatternLists]
      /\ diskShape' = "none" => diskGrants' = NoGrants
  BY <1>1, <1>2, GrantLedgerAssumption
<1>5. RevokedStaysRevoked'
  <2> SUFFICES ASSUME NEW d \in Caps, decided'[d] = "revoked"
               PROVE  grants'[d] = {} /\ diskGrants'[d] = {}
    BY DEF RevokedStaysRevoked
  <2>1. CASE d # c
    <3>1. decided[d] = "revoked" /\ grants'[d] = grants[d] /\ diskGrants'[d] = diskGrants[d]
      BY <1>0, <1>1, <1>2, <2>1
    <3> QED BY <3>1 DEF IInv, RevokedStaysRevoked
  <2>2. CASE d = c
    <3>1. grants'[c] = {}
      BY <1>0, <1>1
    <3>2. CASE diskGrants[c] = {}
      BY <1>1, <1>2, <2>2, <3>1, <3>2
    <3>3. CASE diskGrants[c] # {}
      <4>1. decided[c] # "revoked"
        BY <3>3 DEF IInv, RevokedStaysRevoked
      <4>3. strikes(c, reads) /\ ok
        BY <1>0, <1>1, <2>2, <3>3, <4>1 DEF strikes
      <4> QED BY <1>1, <1>2, <2>2, <3>1, <4>3
    <3> QED BY <3>2, <3>3
  <2> QED BY <2>1, <2>2
<1> QED BY <1>0, <1>3, <1>4, <1>5, StrikePreserves

-----------------------------------------------------------------------------
(* Forgetting *)

LEMMA ForgetPreserves ==
    ASSUME IInv, Forget
    PROVE  IInv'
<1> USE GrantLedgerAssumption
<1>1. CASE ForgetBegins
  <2>0. /\ forgetting' = "revoking" /\ toRevoke' \subseteq Caps
        /\ UNCHANGED <<memoryVars, diskVars, handleVars, historyVars>>
    BY <1>1 DEF ForgetBegins
  <2> USE DEF memoryVars, diskVars, handleVars, historyVars
  <2>1. TypeOK'
    BY <2>0 DEF IInv, TypeOK, NoGrants
  <2>2. Registered' /\ DropsEmpty' /\ RestoredWithinManifest' /\ FloorKept'
    BY <2>0 DEF IInv, Registered, DropsEmpty, RestoredWithinManifest, FloorKept
  <2>3. HandlesWithinGrants' /\ RevokedStaysRevoked'
    BY <2>0 DEF IInv, HandlesWithinGrants, RevokedStaysRevoked
  <2> QED BY <2>1, <2>2, <2>3 DEF IInv
<1>2. ASSUME NEW c \in Caps, NEW reads \in BOOLEAN, NEW ok \in BOOLEAN,
             ForgetRevokes(c, reads, ok)
      PROVE  IInv'
  <2>1. /\ forgetting = "revoking" /\ revokePersisted(c, reads, ok)
        /\ \/ toRevoke' = toRevoke \ {c} /\ forgetting' = forgetting
           \/ toRevoke' = {} /\ forgetting' = "no"
    BY <1>2 DEF ForgetRevokes
  <2>2. toRevoke \subseteq Caps
    BY DEF IInv, TypeOK
  <2> QED BY <2>1, <2>2, RevokePersistedPreserves
<1>3. CASE ForgetDrops
  <2>0. /\ forgetting' = "dropping" /\ live' = {}
        /\ UNCHANGED <<memoryVars, diskVars, cascading, toRevoke, historyVars>>
    BY <1>3 DEF ForgetDrops
  <2> USE DEF memoryVars, diskVars, historyVars
  <2>1. TypeOK'
    BY <2>0 DEF IInv, TypeOK, NoGrants
  <2>2. Registered' /\ DropsEmpty' /\ RestoredWithinManifest' /\ FloorKept'
    BY <2>0 DEF IInv, Registered, DropsEmpty, RestoredWithinManifest, FloorKept
  <2>3. HandlesWithinGrants' /\ RevokedStaysRevoked'
    BY <2>0 DEF IInv, HandlesWithinGrants, RevokedStaysRevoked
  <2> QED BY <2>1, <2>2, <2>3 DEF IInv
<1>4. ASSUME NEW upTo \in 0 .. 4, ForgetEnds(upTo)
      PROVE  IInv'
  <2>0. /\ forgetting = "dropping" /\ forgetting' = "no"
        /\ \/ diskFloor' = 0 /\ assured' = 0
           \/ upTo # 4 /\ UNCHANGED <<diskFloor, assured>>
        /\ \/ diskShape' = "none" /\ diskGrants' = NoGrants
           \/ UNCHANGED <<diskShape, diskGrants>>
        /\ \/ /\ known' = FALSE /\ manifest' = None /\ hydrated' = FALSE /\ floor' = 0
              /\ grants' = NoGrants /\ ids' = NoIds /\ first' = None /\ restored' = {}
              /\ registered' = 0 /\ upTo = 4
           \/ UNCHANGED <<known, manifest, hydrated, floor, grants, ids, first, restored,
                          registered>>
        /\ UNCHANGED <<pinned, minted, live, cascading, toRevoke, decided>>
    BY <1>4 DEF ForgetEnds, handleVars
  <2>1. live = {} /\ live' = {}
    BY <2>0 DEF IInv, DropsEmpty
  <2>2. NoGrants \in [Caps -> PatternLists] /\ NoIds \in [Caps -> 0 .. MaxMints]
        /\ NoGrants' = NoGrants
    BY DEF NoGrants, NoIds, IInv, TypeOK
  <2>3. TypeOK'
    <3>1. /\ diskShape' \in {"none", "old", "file"}
          /\ diskGrants' \in [Caps -> PatternLists]
          /\ diskShape' = "none" => diskGrants' = NoGrants'
          /\ diskFloor' \in Nat \cup {Corrupt} /\ assured' \in Nat /\ registered' \in Nat
      BY <2>0, <2>2 DEF IInv, TypeOK
    <3>2. /\ known' \in BOOLEAN /\ hydrated' \in BOOLEAN
          /\ manifest' \in Manifests \cup {None} /\ first' \in Manifests \cup {None}
          /\ restored' \subseteq Caps
      BY <2>0 DEF IInv, TypeOK
    <3>3. floor' \in Nat \cup {Corrupt}
      BY <2>0 DEF IInv, TypeOK
    <3>4. grants' \in [Caps -> PatternLists] /\ ids' \in [Caps -> 0 .. MaxMints]
      BY <2>0, <2>2 DEF IInv, TypeOK
    <3> QED BY <2>0, <3>1, <3>2, <3>3, <3>4 DEF IInv, TypeOK
  <2>4. Registered' /\ DropsEmpty' /\ RestoredWithinManifest'
    BY <2>0 DEF IInv, Registered, DropsEmpty, RestoredWithinManifest
  <2>5. FloorKept'
    BY <2>0 DEF IInv, TypeOK, FloorKept
  <2>6. HandlesWithinGrants'
    BY <2>1 DEF HandlesWithinGrants
  <2>7. RevokedStaysRevoked'
    BY <2>0 DEF IInv, RevokedStaysRevoked, NoGrants
  <2> QED BY <2>3, <2>4, <2>5, <2>6, <2>7 DEF IInv
<1> QED BY <1>1, <1>2, <1>3, <1>4 DEF Forget, Outcomes

LEMMA StutterPreserves ==
    ASSUME IInv, UNCHANGED vars
    PROVE  IInv'
<1> USE DEF vars, memoryVars, diskVars, handleVars, forgetVars, historyVars
<1>1. HandlesWithinGrants' /\ DropsEmpty'
  BY DEF IInv, HandlesWithinGrants, DropsEmpty
<1>2. live' \subseteq [cap : Caps, id : 0 .. MaxMints, target : Targets]
  BY DEF IInv, TypeOK
<1> QED BY <1>1, <1>2, HandleStepPreserves

LEMMA NextPreserves ==
    ASSUME IInv, [Next]_vars
    PROVE  IInv'
<1>1. ASSUME NEW floorReads \in BOOLEAN, Touch(floorReads)
      PROVE  IInv'
  BY <1>1, TouchPreserves
<1>2. CASE Register
  <2>1. PICK m \in Manifests, floorReads \in BOOLEAN, reads \in BOOLEAN :
          \/ \E ok \in BOOLEAN : RegisterApp(m, floorReads, reads, ok)
          \/ HydrateFromPinned(m, floorReads, reads)
    BY <1>2 DEF Register, Outcomes
  <2> QED BY <2>1, RegisterAppPreserves, HydrateFromPinnedPreserves
<1>3. CASE Decide
  <2>1. ASSUME NEW c \in Caps, NEW reads \in BOOLEAN, NEW ok \in BOOLEAN,
               RevokePersisted(c, reads, ok)
        PROVE  IInv'
    <3>1. revokePersisted(c, reads, ok) /\ forgetting' = forgetting /\ toRevoke' = toRevoke
      BY <2>1 DEF RevokePersisted, forgetVars
    <3>2. forgetting \in {"no", "revoking", "dropping"} /\ toRevoke \subseteq Caps
      BY DEF IInv, TypeOK
    <3> QED BY <3>1, <3>2, RevokePersistedPreserves
  <2>2. PICK c \in Caps :
          \/ \E wanted \in PatternLists, floorReads, ok \in BOOLEAN :
                Grant(c, wanted, floorReads, ok)
          \/ \E ok \in BOOLEAN : Revoke(c, ok)
          \/ \E reads, ok \in BOOLEAN : RevokePersisted(c, reads, ok)
    BY <1>3 DEF Decide, Outcomes
  <2> QED BY <2>1, <2>2, GrantPreserves, RevokePreserves
<1>4. ASSUME NEW reads \in BOOLEAN, PersistPicks(reads)
      PROVE  IInv'
  BY <1>4, PersistPicksPreserves
<1>5. CASE Forget
  BY <1>5, ForgetPreserves
<1>6. CASE Use
  BY <1>6, UsePreserves
<1>7. CASE Restart
  BY <1>7, RestartPreserves
<1>8. CASE UNCHANGED vars
  BY <1>8, StutterPreserves
<1> QED BY <1>1, <1>2, <1>3, <1>4, <1>5, <1>6, <1>7, <1>8 DEF Next, Outcomes

-----------------------------------------------------------------------------
(* Theorems *)

\* The invariant is inductive: it holds at the start and every step keeps it.
THEOREM Inductive == Spec => []IInv
<1>1. Init => IInv
  BY InitEstablishes
<1>2. IInv /\ [Next]_vars => IInv'
  BY NextPreserves
<1> QED BY <1>1, <1>2, PTL DEF Spec

\* Every variable of the ledger, the files and the table holds a value of its
\* type in every reachable state (OriginRecord, grants.json, the floor file).
THEOREM TypeCorrect == Spec => []TypeOK
<1>1. IInv => TypeOK
  BY DEF IInv
<1> QED BY <1>1, Inductive, PTL

\* No live handle reaches more than the grant the ledger holds now, except one
\* whose grant a hydration has superseded and whose revocation is queued
\* (registerApp's cascade, grant, revoke, revokePersisted, forgetOrigin).
THEOREM HandlesStayWithinGrants == Spec => []HandlesWithinGrants
<1>1. IInv => HandlesWithinGrants
  BY DEF IInv
<1> QED BY <1>1, Inductive, PTL

\* A grant restored from disk is one the first registered manifest declares,
\* even when a pinned bundle with another manifest was hydrated before it
\* (hydrateGrants, hydrateFromPinnedManifest).
THEOREM RestoredGrantsAreDeclared == Spec => []RestoredWithinManifest
<1>1. IInv => RestoredWithinManifest
  BY DEF IInv
<1> QED BY <1>1, Inductive, PTL

\* The version floor admits no version below the highest one registered in the
\* session, even when its raise could not be written or an older one was registered
\* after it, nor below one whose raise an earlier session wrote; a floor that cannot
\* be read admits nothing (raiseFloor, hydrateFloor, isAtOrAboveFloor).
THEOREM FloorHolds == Spec => []NoReplay
<1>1. IInv => NoReplay
  BY GrantLedgerAssumption DEF IInv, TypeOK, FloorKept, NoReplay, isAtOrAboveFloor
<1> QED BY <1>1, Inductive, PTL

\* A revocation that resolved having seen what the disk holds is final until the
\* user grants again: no restart, failed read or write, hydration or forget brings
\* the grant back (revoke, revokePersisted, persistGrants).  It says nothing of a
\* revokePersisted that met a file of the old shape or one it could not read.
THEOREM RevocationIsFinal == Spec => []RevokedStaysRevoked
<1>1. IInv => RevokedStaysRevoked
  BY DEF IInv
<1> QED BY <1>1, Inductive, PTL

=============================================================================
