---------------------------- MODULE GrantLedger ----------------------------
(***************************************************************************)
(* What one origin was granted, in memory and on disk, over any number of  *)
(* restarts of the browser: src/broker/grants/{grant-ledger,               *)
(* grant-persistence,update-safety,node-ledger-storage}.ts, called as      *)
(* src/broker/index.ts and src/broker/forget-origin.ts call it.            *)
(*                                                                         *)
(* A call of the ledger runs to its end in one turn, its writes included,  *)
(* and so does HandleTable.revoke up to its first await; a call of the     *)
(* broker that revokes several grants, or forgets an origin, takes several *)
(* turns.  A write either lands whole or throws and leaves the file as it  *)
(* was (adapters/atomic-write.ts); `ok' says which.  A read may fail too:   *)
(* `reads' says whether grants.json could be read and parsed, `floorReads' *)
(* the floor file.  The browser may stop between any two steps.            *)
(*                                                                         *)
(* Left out: the rollback acknowledgement and the remembered declines,     *)
(* which no grant depends on; origins that may not be persisted, for which *)
(* nothing is read or written; acquisitions in flight (HandleTable).       *)
(***************************************************************************)
EXTENDS Naturals, FiniteSets

CONSTANTS
    Caps,            \* capability kinds
    Targets,         \* what an operation can reach
    PatternLists,    \* lists of patterns, a pattern being the set of its targets
    Manifests,       \* [version, declares]: what the origin may serve
    MaxMints,        \* bound of the model: grant ids minted in one session
    MaxLive,         \* bound of the model: handles live at once
    Corrupt,         \* CORRUPT_FLOOR_SENTINEL
    None

ASSUME GrantLedgerAssumption ==
    /\ PatternLists \subseteq SUBSET SUBSET Targets
    /\ {} \in PatternLists
    /\ Manifests \subseteq [version : Nat, declares : [Caps -> PatternLists]]
    /\ MaxMints \in Nat /\ MaxLive \in Nat
    /\ Corrupt \notin Nat
    /\ None \notin Manifests

VARIABLES
    known,           \* whether GrantLedger.#origins holds the origin
    manifest,        \* OriginRecord.manifest
    pinned,          \* createBroker's pinnedManifests
    grants,          \* OriginRecord.grants: patterns, {} where there is none
    ids,             \* the GrantId of each, 0 where there is none
    hydrated,        \* OriginRecord.grantsHydrated
    floor,           \* OriginRecord.versionFloor, 0 for '0.0.0'
    diskShape,       \* grants.json: "none", "old" (bare record) or "file"
    diskGrants,      \* the patterns it holds
    diskFloor,       \* the version floor file, 0 when there is none
    minted,          \* newGrantId: how many ids this session has seen
    live,            \* the handles in the origin's table: [cap, id, target]
    cascading,       \* superseded grants whose handles are not revoked yet
    forgetting,      \* "no", "revoking" or "dropping" (forget-origin.ts)
    toRevoke,        \* the capabilities a forget has still to revoke
    first,           \* history: the manifest first registered this session
    restored,        \* history: capabilities whose grant came from the disk
    registered,      \* history: the highest version registered this session
    assured,         \* history: the highest version whose raise was written
    decided          \* history: the last decision on each capability that resolved

memoryVars  == <<known, manifest, pinned, grants, ids, hydrated, floor, minted>>
diskVars    == <<diskShape, diskGrants, diskFloor>>
handleVars  == <<live, cascading>>
forgetVars  == <<forgetting, toRevoke>>
historyVars == <<first, restored, registered, assured, decided>>
vars == <<memoryVars, diskVars, handleVars, forgetVars, historyVars>>

\* "open": granted, or never decided.  "revoked": a revoke resolved, or a
\* revokePersisted that saw what the disk holds.  "struck": a revokePersisted of a
\* live grant resolved without seeing it.
Decisions == {"open", "revoked", "struck"}

NoGrants == [c \in Caps |-> {}]
NoIds == [c \in Caps |-> 0]

Init ==
    /\ known = FALSE /\ manifest = None /\ pinned = None
    /\ grants = NoGrants /\ ids = NoIds /\ hydrated = FALSE
    /\ floor = 0 /\ minted = 0
    /\ diskShape \in {"none", "old", "file"}
    /\ diskGrants \in [Caps -> PatternLists]
    /\ diskShape = "none" => diskGrants = NoGrants
    /\ diskFloor \in {m.version : m \in Manifests} \cup {0, Corrupt}
    /\ live = {} /\ cascading = {}
    /\ forgetting = "no" /\ toRevoke = {}
    /\ first = None /\ restored = {} /\ decided = [c \in Caps |-> "open"]
    /\ registered = 0
    /\ assured = IF diskFloor = Corrupt THEN 0 ELSE diskFloor

-----------------------------------------------------------------------------
(* Helpers *)

\* !widensAuthority: every wanted pattern is covered by one that is held.
Covers(held, wanted) == \A w \in wanted : \E h \in held : w \subseteq h

\* decideGrantRequest's verdict on a list of patterns for c.
Allowed(m, c, wanted) == m.declares[c] # {} /\ Covers(m.declares[c], wanted)

\* compareVersions(v, f) === 1, which no unorderable floor satisfies.
Newer(v, f) == f # Corrupt /\ v > f

\* isAtOrAboveFloor, by which decideUpdate lets a version in without asking the
\* user to go back.
isAtOrAboveFloor(v, f) == f # Corrupt /\ v >= f

\* The floor of the origin's record, which #record creates and fills from disk
\* at the first touch of a session (hydrateFloor).
recordFloor(floorReads) ==
    IF known THEN floor ELSE IF floorReads THEN diskFloor ELSE Corrupt

\* hydrateGrants: what the disk holds and a fresh request would still obtain.
hydrateGrants(m, reads) ==
    [c \in Caps |-> IF reads /\ Allowed(m, c, diskGrants[c]) THEN diskGrants[c] ELSE {}]

\* HandleTable.revoke: nothing of these grants stays live.
revokeHandles(gone) == live' = {h \in live : <<h.cap, h.id>> \notin gone}

\* The capabilities whose grant a hydration under m leaves as it is.
unchanged(m, reads) ==
    {c \in Caps : grants[c] # {} /\ hydrateGrants(m, reads)[c] = grants[c]}

\* Memory holds what the disk restores under m: `kept' keep their ids, and the
\* grants in `reported' are superseded.
replaceGrants(m, reads, kept, reported) ==
    LET fresh == {c \in Caps \ kept : hydrateGrants(m, reads)[c] # {}}
        id == IF fresh = {} THEN minted ELSE minted + 1
    IN  /\ id <= MaxMints
        /\ minted' = id
        /\ grants' = hydrateGrants(m, reads)
        /\ ids' = [c \in Caps |-> IF c \in fresh THEN id ELSE IF c \in kept THEN ids[c] ELSE 0]
        /\ restored' = {c \in Caps : hydrateGrants(m, reads)[c] # {}}
        /\ cascading' = cascading \cup {<<c, ids[c]>> : c \in {x \in reported : grants[x] # {}}}

\* Faulty variant: grants whose patterns did not change lose their id as well,
\* and are not reported.
renewHydratedGrants(m, reads) == replaceGrants(m, reads, {}, Caps \ unchanged(m, reads))

\* replaceHydratedGrants: what the disk restores replaces what memory holds, a
\* grant that stays the same keeps its id, and every other one is reported.
replaceHydratedGrants(m, reads) ==
    replaceGrants(m, reads, unchanged(m, reads), Caps \ unchanged(m, reads))

\* Faulty variant: the grants are written into whatever record is there.
writeGrantsInPlace(g, ok) ==
    IF ok THEN UNCHANGED diskShape /\ diskGrants' = g
          ELSE UNCHANGED <<diskShape, diskGrants>>

\* LedgerStorage.writeGrants, which always writes the current shape.
writeGrants(g, ok) ==
    IF ok THEN diskShape' = "file" /\ diskGrants' = g
          ELSE UNCHANGED <<diskShape, diskGrants>>

-----------------------------------------------------------------------------
(* Registration and hydration *)

\* Any question about the origin that creates its record (versionFloorFor).
Touch(floorReads) ==
    /\ ~known
    /\ known' = TRUE
    /\ floor' = recordFloor(floorReads)
    /\ UNCHANGED <<manifest, pinned, grants, ids, hydrated, minted, diskVars, handleVars,
                   forgetVars, historyVars>>

\* Faulty variant: the floor follows the manifest wherever it goes.
raiseFloorAlways(from, v, ok) ==
    /\ floor' = IF from = Corrupt THEN Corrupt ELSE v
    /\ IF from # Corrupt /\ ok
       THEN diskFloor' = v /\ assured' = IF v > assured THEN v ELSE assured
       ELSE UNCHANGED <<diskFloor, assured>>

\* raiseFloor: in memory first, whatever becomes of the write.
raiseFloor(from, v, ok) ==
    IF Newer(v, from)
    THEN /\ floor' = v
         /\ IF ok THEN diskFloor' = v /\ assured' = v ELSE UNCHANGED <<diskFloor, assured>>
    ELSE floor' = from /\ UNCHANGED <<diskFloor, assured>>

\* Broker.registerApp up to its first await.  The superseded grants are revoked
\* one per turn, whether or not the floor could be written.  The manifest need not
\* be at the floor: a rollback the user accepted, or a version nobody compared.
RegisterApp(m, floorReads, reads, ok) ==
    /\ known' = TRUE
    /\ manifest' = m
    /\ hydrated' = TRUE
    /\ first' = IF first = None THEN m ELSE first
    /\ raiseFloor(recordFloor(floorReads), m.version, ok)
    /\ registered' = IF m.version > registered THEN m.version ELSE registered
    /\ IF hydrated THEN UNCHANGED <<grants, ids, minted, restored, cascading>>
                   ELSE replaceHydratedGrants(m, reads)
    /\ UNCHANGED <<pinned, diskShape, diskGrants, live, forgetVars, decided>>

\* Faulty variant: a registration does not close the early seam.
HydrateAnyTime(m, floorReads, reads) ==
    /\ known' = TRUE
    /\ pinned' = m
    /\ floor' = recordFloor(floorReads)
    /\ replaceHydratedGrants(m, reads)
    /\ UNCHANGED <<manifest, hydrated, diskVars, live, forgetVars, first, registered,
                   assured, decided>>

\* Broker.app.hydrateFromPinnedManifest: before the first registration of a
\* session, for a manifest of the installed bundle (loader/electron/serve.ts).
HydrateFromPinned(m, floorReads, reads) ==
    /\ known' = TRUE
    /\ pinned' = m
    /\ floor' = recordFloor(floorReads)
    /\ IF hydrated THEN UNCHANGED <<grants, ids, minted, restored, cascading>>
                   ELSE replaceHydratedGrants(m, reads)
    /\ UNCHANGED <<manifest, hydrated, diskVars, live, forgetVars, first, registered,
                   assured, decided>>

\* The next superseded grant is handed to HandleTable.revoke: the first in the
\* turn that reported it, each later one once the teardowns of the one before
\* have settled.  The model gives each a turn of its own.
Cascade(g) ==
    /\ g \in cascading
    /\ cascading' = cascading \ {g}
    /\ revokeHandles({g})
    /\ UNCHANGED <<memoryVars, diskVars, forgetVars, historyVars>>

-----------------------------------------------------------------------------
(* The user's decisions *)

\* Broker.manifestFor.
manifestFor == IF manifest # None THEN manifest ELSE pinned

\* HandleTable.replaceGrant: what the new patterns reach is filed under the new
\* id, the rest is revoked.
replaceGrant(c, wanted) ==
    LET old == {h \in live : h.cap = c /\ h.id = ids[c]}
        kept == {h \in old : \E w \in wanted : h.target \in w}
    IN  live' = (live \ old) \cup {[h EXCEPT !.id = minted + 1] : h \in kept}

\* Broker.grant, for patterns that decideGrantRequest has just allowed.
Grant(c, wanted, floorReads, ok) ==
    /\ manifestFor # None
    /\ wanted # {}
    /\ Allowed(manifestFor, c, wanted)
    /\ minted < MaxMints
    /\ minted' = minted + 1
    /\ known' = TRUE
    /\ floor' = recordFloor(floorReads)
    /\ grants' = [grants EXCEPT ![c] = wanted]
    /\ ids' = [ids EXCEPT ![c] = minted + 1]
    /\ writeGrants(grants', ok)
    /\ IF grants[c] # {} THEN replaceGrant(c, wanted) ELSE UNCHANGED live
    /\ restored' = restored \ {c}
    /\ decided' = [decided EXCEPT ![c] = "open"]
    /\ UNCHANGED <<manifest, pinned, hydrated, diskFloor, cascading, forgetVars, first,
                   registered, assured>>

\* Faulty variant: the ledger forgets the grant and leaves the file to later.
RevokeInMemory(c, ok) ==
    /\ grants[c] # {}
    /\ grants' = [grants EXCEPT ![c] = {}]
    /\ ids' = [ids EXCEPT ![c] = 0]
    /\ revokeHandles({<<c, ids[c]>>})
    /\ restored' = restored \ {c}
    /\ decided' = IF ok THEN [decided EXCEPT ![c] = "revoked"] ELSE decided
    /\ UNCHANGED <<known, manifest, pinned, hydrated, floor, minted, diskVars,
                   cascading, forgetVars, first, registered, assured>>

\* Broker.revoke of the grant that stands for c: in memory, on disk, and the
\* cascade even when the write threw.
Revoke(c, ok) ==
    /\ grants[c] # {}
    /\ grants' = [grants EXCEPT ![c] = {}]
    /\ ids' = [ids EXCEPT ![c] = 0]
    /\ writeGrants(grants', ok)
    /\ revokeHandles({<<c, ids[c]>>})
    /\ restored' = restored \ {c}
    /\ decided' = IF ok THEN [decided EXCEPT ![c] = "revoked"] ELSE decided
    /\ UNCHANGED <<known, manifest, pinned, hydrated, floor, minted, diskFloor,
                   cascading, forgetVars, first, registered, assured>>

\* readPersistedApp shows what the disk holds: a file of the old shape, or one that
\* cannot be read or parsed, looks like none.
seesDisk(reads) == diskShape = "none" \/ (reads /\ diskShape = "file")

\* Whether revokePersisted has something to write.
strikes(c, reads) == seesDisk(reads) /\ diskGrants[c] # {}

\* Broker.revokePersisted: by capability, for an app that may not be loaded.
revokePersisted(c, reads, ok) ==
    /\ grants' = [grants EXCEPT ![c] = {}]
    /\ ids' = [ids EXCEPT ![c] = 0]
    /\ IF strikes(c, reads)
       THEN writeGrants([diskGrants EXCEPT ![c] = {}], ok)
       ELSE UNCHANGED <<diskShape, diskGrants>>
    /\ revokeHandles(IF grants[c] # {} THEN {<<c, ids[c]>>} ELSE {})
    /\ restored' = restored \ {c}
    /\ decided' = [decided EXCEPT ![c] =
                      IF ~seesDisk(reads) THEN IF grants[c] # {} THEN "struck" ELSE @
                      ELSE IF strikes(c, reads) => ok THEN "revoked" ELSE @]
    /\ UNCHANGED <<known, manifest, pinned, hydrated, floor, minted, diskFloor,
                   cascading, first, registered, assured>>

RevokePersisted(c, reads, ok) ==
    /\ revokePersisted(c, reads, ok)
    /\ UNCHANGED forgetVars

\* PickedPathLedger writes its half of the same file, and keeps the other half
\* only if it can read it.
PersistPicks(reads) ==
    /\ diskShape' = "file"
    /\ diskGrants' = IF reads /\ diskShape = "file" THEN diskGrants ELSE NoGrants
    /\ UNCHANGED <<memoryVars, diskFloor, handleVars, forgetVars, historyVars>>

-----------------------------------------------------------------------------
(* Forgetting an origin: forget-origin.ts, then GrantLedger.forgetOrigin *)

ForgetBegins ==
    /\ forgetting = "no"
    /\ forgetting' = "revoking"
    /\ toRevoke' = {c \in Caps : grants[c] # {}}
    /\ UNCHANGED <<memoryVars, diskVars, handleVars, historyVars>>

\* One capability per turn; a failed write rejects and forgets nothing more, a
\* file it could not read does not stop it.
ForgetRevokes(c, reads, ok) ==
    /\ forgetting = "revoking"
    /\ c \in toRevoke
    /\ revokePersisted(c, reads, ok)
    /\ IF strikes(c, reads) => ok
       THEN toRevoke' = toRevoke \ {c} /\ UNCHANGED forgetting
       ELSE toRevoke' = {} /\ forgetting' = "no"

\* dropOrigin closes every handle and refuses new ones until it returns.
ForgetDrops ==
    /\ forgetting = "revoking"
    /\ toRevoke = {}
    /\ forgetting' = "dropping"
    /\ live' = {}
    /\ UNCHANGED <<memoryVars, diskVars, cascading, toRevoke, historyVars>>

\* GrantLedger.forgetOrigin: the files one after another, then memory, which a
\* failed delete leaves alone.  `upTo' is how many of the files went: the floor
\* is the first, grants.json the third of four.
ForgetEnds(upTo) ==
    /\ forgetting = "dropping"
    /\ forgetting' = "no"
    /\ IF upTo >= 1 THEN diskFloor' = 0 /\ assured' = 0 ELSE UNCHANGED <<diskFloor, assured>>
    /\ IF upTo >= 3 THEN diskShape' = "none" /\ diskGrants' = NoGrants
                    ELSE UNCHANGED <<diskShape, diskGrants>>
    /\ IF upTo = 4
       THEN /\ known' = FALSE /\ manifest' = None /\ hydrated' = FALSE /\ floor' = 0
            /\ grants' = NoGrants /\ ids' = NoIds /\ first' = None /\ restored' = {}
            /\ registered' = 0
       ELSE UNCHANGED <<known, manifest, hydrated, floor, grants, ids, first, restored,
                        registered>>
    /\ UNCHANGED <<pinned, minted, handleVars, toRevoke, decided>>

-----------------------------------------------------------------------------
(* Handles, and the end of the process *)

\* A capability looks the grant up and registers what it produced.
Acquire(c, t) ==
    /\ Cardinality(live) < MaxLive
    /\ forgetting # "dropping"
    /\ \E p \in grants[c] : t \in p
    /\ live' = live \cup {[cap |-> c, id |-> ids[c], target |-> t]}
    /\ UNCHANGED <<memoryVars, diskVars, cascading, forgetVars, historyVars>>

HandleEnds(h) ==
    /\ h \in live
    /\ live' = live \ {h}
    /\ UNCHANGED <<memoryVars, diskVars, cascading, forgetVars, historyVars>>

\* The browser stops and starts again: what is left is what the disk holds.
Restart ==
    /\ known' = FALSE /\ manifest' = None /\ pinned' = None
    /\ grants' = NoGrants /\ ids' = NoIds /\ hydrated' = FALSE
    /\ floor' = 0 /\ minted' = 0
    /\ live' = {} /\ cascading' = {}
    /\ forgetting' = "no" /\ toRevoke' = {}
    /\ first' = None /\ restored' = {} /\ registered' = 0
    /\ UNCHANGED <<diskVars, assured, decided>>

-----------------------------------------------------------------------------

\* How a read or a write can go, where the call makes one at all.
Outcomes(made) == IF made THEN BOOLEAN ELSE {TRUE}

Register == \E m \in Manifests, floorReads \in Outcomes(~known), reads \in Outcomes(~hydrated) :
    \/ \E ok \in Outcomes(Newer(m.version, recordFloor(floorReads))) :
          RegisterApp(m, floorReads, reads, ok)
    \/ HydrateFromPinned(m, floorReads, reads)

Decide == \E c \in Caps :
    \/ \E wanted \in PatternLists, floorReads \in Outcomes(~known), ok \in BOOLEAN :
          Grant(c, wanted, floorReads, ok)
    \/ \E ok \in BOOLEAN : Revoke(c, ok)
    \/ \E reads \in Outcomes(diskShape = "file") :
          \E ok \in Outcomes(strikes(c, reads)) : RevokePersisted(c, reads, ok)

Forget ==
    \/ ForgetBegins
    \/ \E c \in Caps, reads \in Outcomes(diskShape = "file") :
          \E ok \in Outcomes(strikes(c, reads)) : ForgetRevokes(c, reads, ok)
    \/ ForgetDrops
    \/ \E upTo \in 0 .. 4 : ForgetEnds(upTo)

Use ==
    \/ \E c \in Caps, t \in Targets : Acquire(c, t)
    \/ \E h \in live : HandleEnds(h)
    \/ \E g \in cascading : Cascade(g)

Next ==
    \/ \E floorReads \in BOOLEAN : Touch(floorReads)
    \/ \E reads \in Outcomes(diskShape = "file") : PersistPicks(reads)
    \/ Register \/ Decide \/ Forget \/ Use \/ Restart

Spec == Init /\ [][Next]_vars

-----------------------------------------------------------------------------
(* Properties *)

\* The variables hold values of their types, and a file that is not there holds
\* nothing.
TypeOK ==
    /\ known \in BOOLEAN /\ hydrated \in BOOLEAN
    /\ manifest \in Manifests \cup {None} /\ pinned \in Manifests \cup {None}
    /\ grants \in [Caps -> PatternLists]
    /\ ids \in [Caps -> 0 .. MaxMints] /\ minted \in 0 .. MaxMints
    /\ floor \in Nat \cup {Corrupt} /\ diskFloor \in Nat \cup {Corrupt}
    /\ diskShape \in {"none", "old", "file"}
    /\ diskGrants \in [Caps -> PatternLists]
    /\ diskShape = "none" => diskGrants = NoGrants
    /\ live \subseteq [cap : Caps, id : 0 .. MaxMints, target : Targets]
    /\ cascading \subseteq Caps \X (0 .. MaxMints)
    /\ forgetting \in {"no", "revoking", "dropping"} /\ toRevoke \subseteq Caps
    /\ first \in Manifests \cup {None} /\ restored \subseteq Caps
    /\ registered \in Nat /\ assured \in Nat /\ decided \in [Caps -> Decisions]

\* A live handle reaches only what the grant in the ledger gives now, under that
\* grant's id, unless its revocation is already on its way: whatever hydration,
\* replacement, failed write or forgetting came in between (replaceHydratedGrants,
\* grant, revoke, revokePersisted, forgetOrigin).
HandlesWithinGrants ==
    \A h \in live :
        \/ <<h.cap, h.id>> \in cascading
        \/ h.id = ids[h.cap] /\ \E p \in grants[h.cap] : h.target \in p

\* Once the origin is registered, a grant that came off the disk is one the
\* manifest registered first would be given, whatever an earlier bundle declared
\* and in whichever order the two hydrations ran (hydrateGrants).
RestoredWithinManifest ==
    hydrated => \A c \in restored : Allowed(first, c, grants[c])

\* T19: decideUpdate never finds a version at or above the floor that is below one
\* registered this session, whatever became of the write and whatever was
\* registered since, or below one whose raise was written in an earlier session; and
\* what is on disk would not let one in after a restart.  A floor that cannot be
\* read lets nothing in (raiseFloor, hydrateFloor, isAtOrAboveFloor).
NoReplay ==
    \A m \in Manifests :
        /\ known /\ isAtOrAboveFloor(m.version, floor) =>
              m.version >= registered /\ m.version >= assured
        /\ isAtOrAboveFloor(m.version, diskFloor) => m.version >= assured

\* A capability whose revocation resolved having seen the disk is neither live nor
\* on disk until it is granted again: no restart, hydration, failed read or later
\* write brings it back (revoke, revokePersisted, persistGrants).  A
\* revokePersisted that resolved without seeing a file of the old shape, or one it
\* could not read, is the exception ("struck"): StruckStaysRevoked is about it.
RevokedStaysRevoked ==
    \A c \in Caps : decided[c] = "revoked" => grants[c] = {} /\ diskGrants[c] = {}

\* grant-ledger.ts, revokePersisted: it also drops the grant in memory, so the two
\* cannot disagree; a revocation from the settings list that resolved is final.
StruckStaysRevoked ==
    \A c \in Caps : decided[c] # "open" => grants[c] = {}

=============================================================================
