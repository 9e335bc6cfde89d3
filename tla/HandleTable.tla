---------------------------- MODULE HandleTable ----------------------------
(***************************************************************************)
(* The per-origin handle table and the revocation cascade of the           *)
(* capability broker, for one origin and one of its capabilities:          *)
(* src/broker/handles/{handles,handle-store,grant-replacement,             *)
(* origin-registry}.ts, driven as src/broker/index.ts and                  *)
(* src/broker/capabilities/ drive it.                                      *)
(*                                                                         *)
(* A step is one synchronous stretch of broker code.  The unlink pass of   *)
(* closeTree, the cascade of revoke, the whole of replaceGrant and the     *)
(* ledger change that precedes them contain no await, so each is one step; *)
(* destroying a resource, dialling, opening a file and showing a picker    *)
(* are awaited, so other steps come between their start and their end.     *)
(*                                                                         *)
(* Left out: the slots of the in-flight budget (module InFlight; here an   *)
(* operation may wait or start at once), and the eviction of tombstones    *)
(* (REVOKED_GRANT_MEMORY and CLOSED_ID_MEMORY, 576 entries each).          *)
(***************************************************************************)
EXTENDS Naturals, FiniteSets

CONSTANTS
    Grants,          \* GrantIds; GrantLedger.grant mints a new one each time
    Handles,         \* handle ids; newHandleId never repeats one
    Ops,             \* calls of HandleTable.run
    FilePicks,       \* pickIds of files chosen in the picker
    DirPicks,        \* pickIds of folders chosen in the picker
    Drops,           \* calls of dropOrigin
    SocketLimit,     \* the socket allowance assertCapacity enforces
    MaxSessions,     \* bound of the model: how many sessions may end
    None

Picks == FilePicks \cup DirPicks
Authorities == Grants \cup Picks
Scopes == Grants \cup Handles

ASSUME HandleTableAssumption ==
    /\ SocketLimit \in Nat
    /\ MaxSessions \in Nat
    /\ Grants \cap Handles = {}
    /\ Grants \cap Picks = {}
    /\ FilePicks \cap DirPicks = {}
    /\ None \notin Grants \cup Handles \cup Picks

VARIABLES
    current,         \* GrantLedger.currentGrant, None when nothing is granted
    issued,          \* the grant ids minted so far
    open,            \* whether OriginRegistry holds a table for the origin
    session,         \* how many tables dropOrigin has deleted: names the table
    dropping,        \* OriginTable.dropping
    handles,         \* the keys of OriginTable.handles
    auth,            \* HandleRecord.authorisation
    parent,          \* HandleEntry.parentId
    children,        \* HandleRecord.children
    filed,           \* OriginTable.byGrant and byPickedPath
    operations,      \* grantOperations and HandleRecord.operations
    revokedGrants,   \* OriginTable.revokedGrants
    grantAliases,    \* OriginTable.grantAliases, None where there is no entry
    recentlyClosed,  \* the keys of OriginTable.recentlyClosed
    used,            \* the handle ids given out so far
    teardown,        \* handles whose destroy has not settled
    frame,           \* where each call of run is suspended
    scope,           \* the grant or handle it is attributed to
    home,            \* the table it captured
    aborted,         \* calls whose signal fired and whose promise is rejected
    picks,           \* PickedPathLedger: "none", "recorded" or "revoked"
    folder,          \* the handle registered for a picked folder itself
    opening,         \* picked files whose deps.fs.open has not settled
    dropPending,     \* calls of dropOrigin that have not returned
    dropHome,        \* the table each captured
    dropWaits        \* the handles whose teardown it awaits

ledgerVars  == <<current, issued>>
tableVars   == <<open, session, dropping, revokedGrants, grantAliases>>
handleVars  == <<handles, auth, parent, children, filed, recentlyClosed, used, teardown>>
opVars      == <<operations, frame, scope, home, aborted>>
pickVars    == <<picks, folder, opening>>
dropVars    == <<dropPending, dropHome, dropWaits>>
vars == <<ledgerVars, tableVars, handleVars, opVars, pickVars, dropVars>>

NoAliases == [g \in Grants |-> None]

Init ==
    /\ current = None /\ issued = {}
    /\ open = FALSE /\ session = 0 /\ dropping = FALSE
    /\ revokedGrants = {} /\ grantAliases = NoAliases
    /\ handles = {} /\ recentlyClosed = {} /\ used = {} /\ teardown = {}
    /\ auth = [h \in Handles |-> None]
    /\ parent = [h \in Handles |-> None]
    /\ children = [h \in Handles |-> {}]
    /\ filed = [a \in Authorities |-> {}]
    /\ operations = [s \in Scopes |-> {}]
    /\ frame = [o \in Ops |-> "idle"]
    /\ scope = [o \in Ops |-> None]
    /\ home = [o \in Ops |-> 0]
    /\ aborted = {}
    /\ picks = [p \in Picks |-> "none"]
    /\ folder = [p \in DirPicks |-> None]
    /\ opening = {}
    /\ dropPending = {}
    /\ dropHome = [d \in Drops |-> 0]
    /\ dropWaits = [d \in Drops |-> {}]

-----------------------------------------------------------------------------
(* Helpers of the table *)

\* The calls suspended inside run.
Unfinished == {o \in Ops : frame[o] \in {"waiting", "running", "landed"}}

\* `grantId', or the grant that replaced it and kept its handles.
currentGrantFor(g) == IF grantAliases[g] = None THEN g ELSE grantAliases[g]

aliasesOf(g) == {a \in Grants : grantAliases[a] = g}

\* Faulty variant: an acquisition files under the id it was called with.
filedAsCalled(a) == a

\* What an authority stands for when a handle is inserted under it.
filedUnder(a) == IF a \in Grants THEN currentGrantFor(a) ELSE a

\* Faulty variant: no tombstones are consulted.
assertSessionOpen(a) == ~dropping

assertAcquirable(a) ==
    /\ ~dropping
    /\ a \in Grants => currentGrantFor(a) \notin revokedGrants

\* Grant-authorised handles are sockets here, picked ones are files.
assertCapacity(a) ==
    a \in Grants => Cardinality({h \in handles : auth[h] \in Grants}) < SocketLimit

\* What keeps a table from being reaped.
HoldsSomething ==
    \/ dropping
    \/ handles # {}
    \/ \E o \in Unfinished : home[o] = session
    \/ revokedGrants # {}
    \/ \E g \in Grants : operations[g] # {}
    \/ recentlyClosed # {}

\* OriginRegistry.reap, as the last thing a step does, when the step leaves the
\* aliases `al'.
reap(al) ==
    /\ open' = HoldsSomething'
    /\ grantAliases' = IF HoldsSomething' THEN al ELSE NoAliases

\* Faulty variant: the id generator does not remember what it gave out.
insertUnrecorded(h, a, p) ==
    /\ h \in Handles \ used
    /\ open' = TRUE
    /\ handles' = handles \cup {h}
    /\ auth' = [auth EXCEPT ![h] = filedUnder(a)]
    /\ filed' = [filed EXCEPT ![filedUnder(a)] = @ \cup {h}]
    /\ parent' = [parent EXCEPT ![h] = p]
    /\ children' = [q \in Handles |-> IF q = p THEN children[q] \cup {h} ELSE children[q]]
    /\ UNCHANGED <<used, recentlyClosed, teardown>>

\* OriginTable.insert: h becomes a live handle under `a', derived from p if any.
insert(h, a, p) ==
    /\ h \in Handles \ used
    /\ used' = used \cup {h}
    /\ open' = TRUE
    /\ handles' = handles \cup {h}
    /\ auth' = [auth EXCEPT ![h] = filedUnder(a)]
    /\ filed' = [filed EXCEPT ![filedUnder(a)] = @ \cup {h}]
    /\ parent' = [parent EXCEPT ![h] = p]
    /\ children' = [q \in Handles |-> IF q = p THEN children[q] \cup {h} ELSE children[q]]
    /\ UNCHANGED <<recentlyClosed, teardown>>

\* Faulty variant: closing a server leaves its connections.
RootsOnly(roots) == roots

\* A handle and everything derived from it: an accepted connection derives
\* nothing itself.
Tree(roots) == roots \cup {h \in handles : \E p \in roots : h \in children[p]}

\* The unlink pass of closeTree, for a set of trees.
closeTree(doomed) ==
    /\ handles' = handles \ doomed
    /\ children' = [p \in Handles |-> children[p] \ {h \in doomed : parent[h] = p}]
    /\ recentlyClosed' = recentlyClosed \cup doomed
    /\ teardown' = teardown \cup doomed
    /\ UNCHANGED <<parent, used>>

\* closeTree's removal from byGrant or byPickedPath, by the record's authorisation.
unfile(doomed) == [a \in Authorities |-> filed[a] \ {h \in doomed : auth[h] = a}]

\* cancelOperation for every call registered with one of these scopes, and the
\* scopes' sets emptied.
cancelOperations(scopes) ==
    /\ aborted' = aborted \cup UNION {operations[s] : s \in scopes}
    /\ operations' = [s \in Scopes |-> IF s \in scopes THEN {} ELSE operations[s]]

-----------------------------------------------------------------------------
(* The user's decisions: Broker.grant and Broker.revoke *)

\* GrantLedger.grant, then HandleTable.grantIssued for the fresh id, which is in
\* no set yet, when no grant of the capability stands.
GrantFirst(g) ==
    /\ g \notin issued
    /\ current = None
    /\ current' = g
    /\ issued' = issued \cup {g}
    /\ revokedGrants' = revokedGrants \ {g}
    /\ UNCHANGED <<open, session, dropping, grantAliases, handleVars, opVars, pickVars, dropVars>>

\* HandleTable.replaceGrant.  `keeps' are the handles whose own stillCovered
\* predicate holds; a derived handle is judged by the one it came from.
replaceGrantIn(replaced, replacement, keeps, coversAll) ==
    LET judge(h) == IF parent[h] \in handles THEN parent[h] ELSE h
        kept == {h \in filed[replaced] : judge(h) \in keeps}
        doomed == Tree(filed[replaced] \ kept)
    IN  /\ closeTree(doomed)
        /\ auth' = [h \in Handles |-> IF h \in kept THEN replacement ELSE auth[h]]
        /\ filed' = [unfile(doomed \cup kept) EXCEPT ![replacement] = @ \cup kept]
        /\ IF coversAll
           THEN /\ cancelOperations(doomed)
                /\ UNCHANGED revokedGrants
                /\ reap([g \in Grants |->
                            IF g = replaced \/ grantAliases[g] = replaced
                            THEN replacement ELSE grantAliases[g]])
           ELSE /\ cancelOperations(doomed \cup {replaced})
                /\ revokedGrants' = revokedGrants \cup {replaced}
                /\ reap(grantAliases)

\* GrantLedger.grant over a standing grant, and the replacement of its handles
\* in the same turn.  coversAll comes from the pattern sets (widensAuthority),
\* `keeps' from what each handle reached: nothing ties one to the other.
GrantReplaces(g, keeps, coversAll) ==
    /\ g \notin issued
    /\ current # None
    /\ current' = g
    /\ issued' = issued \cup {g}
    /\ UNCHANGED <<session, dropping, frame, scope, home, pickVars, dropVars>>
    /\ replaceGrantIn(current, g, keeps, coversAll)

\* HandleTable.revoke for g and for every grant whose in-flight work answers to
\* it: tombstoned first, so that an acquisition still to come is refused.  The
\* tombstone keeps the table from being reaped.
revokeCascade(g) ==
    LET withdrawn == {g} \cup aliasesOf(g)
        doomed == Tree(UNION {filed[a] : a \in withdrawn})
    IN  /\ revokedGrants' = revokedGrants \cup withdrawn
        /\ grantAliases' = [a \in Grants |-> IF a \in aliasesOf(g) THEN None ELSE grantAliases[a]]
        /\ open' = TRUE
        /\ cancelOperations(withdrawn \cup doomed)
        /\ closeTree(doomed)
        /\ filed' = unfile(doomed)
        /\ UNCHANGED auth

\* Broker.revoke: the ledger first, then the cascade, in one turn.  The id may
\* be one that a replacement or an earlier revoke already retired.
Revoke(g) ==
    /\ g \in issued
    /\ current' = IF current = g THEN None ELSE current
    /\ revokeCascade(g)
    /\ UNCHANGED <<issued, session, dropping, frame, scope, home, pickVars, dropVars>>

-----------------------------------------------------------------------------
(* HandleTable.run and the work under it *)

\* Faulty variant: a call is registered only once it has a slot.
RegisterWhenRunning(o, s, f) ==
    /\ frame[o] = "idle"
    /\ f \in {"waiting", "running"}
    /\ frame' = [frame EXCEPT ![o] = f]
    /\ scope' = [scope EXCEPT ![o] = s]
    /\ home' = [home EXCEPT ![o] = session]
    /\ operations' = [operations EXCEPT ![s] = IF f = "running" THEN @ \cup {o} ELSE @]
    /\ UNCHANGED aborted

Register(o, s, f) ==
    /\ frame[o] = "idle"
    /\ f \in {"waiting", "running"}
    /\ frame' = [frame EXCEPT ![o] = f]
    /\ scope' = [scope EXCEPT ![o] = s]
    /\ home' = [home EXCEPT ![o] = session]
    /\ operations' = [operations EXCEPT ![s] = @ \cup {o}]
    /\ UNCHANGED aborted

\* A capability reads the ledger and calls run in the same turn (net.connect,
\* net.listen, fs.open ...).  A refused call leaves no trace.
RunForGrant(o, f) ==
    /\ current # None
    /\ current \notin revokedGrants
    /\ ~dropping
    /\ Register(o, current, f)
    /\ open' = TRUE
    /\ UNCHANGED <<ledgerVars, session, dropping, revokedGrants, grantAliases,
                   handleVars, pickVars, dropVars>>

\* An operation on a handle the origin holds.
RunForHandle(o, h, f) ==
    /\ h \in handles
    /\ Register(o, h, f)
    /\ UNCHANGED <<ledgerVars, tableVars, handleVars, pickVars, dropVars>>

\* A slot is handed over to a call that waited for one.
SlotFreed(o) ==
    /\ frame[o] = "waiting"
    /\ o \notin aborted
    /\ frame' = [frame EXCEPT ![o] = "running"]
    /\ UNCHANGED <<ledgerVars, tableVars, handleVars, operations, scope, home, aborted,
                   pickVars, dropVars>>

\* The app withdraws its own call (abandon.ts).  The call stays registered until
\* run's finally.
Abandon(o) ==
    /\ frame[o] \in {"waiting", "running"}
    /\ o \notin aborted
    /\ aborted' = aborted \cup {o}
    /\ UNCHANGED <<ledgerVars, tableVars, handleVars, operations, frame, scope, home,
                   pickVars, dropVars>>

\* Faulty variant: the work acquires without looking at its signal.
LandBlindly(o, h) ==
    LET a == IF scope[o] \in Grants THEN scope[o] ELSE auth[scope[o]] IN
    /\ frame[o] = "running"
    /\ scope[o] \in Grants \/ \E p \in DirPicks : folder[p] = scope[o]
    /\ assertAcquirable(a)
    /\ assertCapacity(a)
    /\ insert(h, a, None)
    /\ frame' = [frame EXCEPT ![o] = "landed"]
    /\ UNCHANGED <<ledgerVars, session, dropping, revokedGrants, grantAliases,
                   operations, scope, home, aborted, pickVars, dropVars>>

\* The work ends: it looks at signal.aborted and acquires in the same turn.
\* What a withdrawn call produced is destroyed and nothing is registered.  A
\* grant's work acquires under the grant run was called with; a folder's open
\* acquires a second row under the folder's pick (user-selected.ts).
Land(o, h) ==
    LET a == IF scope[o] \in Grants THEN scope[o] ELSE auth[scope[o]] IN
    /\ frame[o] = "running"
    /\ o \notin aborted
    /\ scope[o] \in Grants \/ \E p \in DirPicks : folder[p] = scope[o]
    /\ assertAcquirable(a)
    /\ assertCapacity(a)
    /\ insert(h, a, None)
    /\ frame' = [frame EXCEPT ![o] = "landed"]
    /\ UNCHANGED <<ledgerVars, session, dropping, revokedGrants, grantAliases,
                   operations, scope, home, aborted, pickVars, dropVars>>

\* run's finally: the call was cancelled, or its work settled, or its wait for a
\* slot expired.
Return(o) ==
    /\ o \in Unfinished
    /\ frame' = [frame EXCEPT ![o] = "over"]
    /\ operations' = [operations EXCEPT ![scope[o]] = @ \ {o}]
    /\ UNCHANGED <<ledgerVars, session, dropping, revokedGrants, handleVars, scope, home,
                   aborted, pickVars, dropVars>>
    /\ IF home[o] = session THEN reap(grantAliases) ELSE UNCHANGED <<open, grantAliases>>

-----------------------------------------------------------------------------
(* Handles coming from handles, and ending on their own *)

\* acquireDerived: a listening socket accepted a connection, after an await.
Accept(p, h) ==
    /\ p \in handles
    /\ auth[p] \in Grants
    /\ parent[p] = None
    /\ assertAcquirable(auth[p])
    /\ assertCapacity(auth[p])
    /\ insert(h, auth[p], p)
    /\ UNCHANGED <<ledgerVars, session, dropping, revokedGrants, grantAliases,
                   opVars, pickVars, dropVars>>

\* release, fail and abort: the app closes the handle or its resource dies.
Close(h) ==
    /\ h \in handles
    /\ closeTree(Tree({h}))
    /\ filed' = unfile(Tree({h}))
    /\ cancelOperations(Tree({h}))
    /\ UNCHANGED <<ledgerVars, tableVars, auth, frame, scope, home, pickVars, dropVars>>

\* The promise of a destroy callback settles, well or badly.
TeardownSettles(h) ==
    /\ h \in teardown
    /\ teardown' = teardown \ {h}
    /\ UNCHANGED <<ledgerVars, tableVars, handles, auth, parent, children, filed,
                   recentlyClosed, used, opVars, pickVars, dropVars>>

-----------------------------------------------------------------------------
(* The picker: user-selected.ts and Broker.revokeUserSelectedPath *)

\* pickFiles: the dialog answered, the pick is recorded, and the file is opened
\* before its handle is registered.
PickFile(p) ==
    /\ p \in FilePicks
    /\ picks[p] = "none"
    /\ picks' = [picks EXCEPT ![p] = "recorded"]
    /\ opening' = opening \cup {p}
    /\ UNCHANGED <<folder, ledgerVars, tableVars, handleVars, opVars, dropVars>>

\* deps.fs.open settled: pickFiles acquires without looking back.
PickFileOpened(p, h) ==
    /\ p \in opening
    /\ opening' = opening \ {p}
    /\ assertAcquirable(p)
    /\ insert(h, p, None)
    /\ UNCHANGED <<ledgerVars, session, dropping, revokedGrants, grantAliases,
                   opVars, picks, folder, dropVars>>

\* deps.fs.open failed, or the session is ending: nothing is registered.
PickFileFailed(p) ==
    /\ p \in opening
    /\ opening' = opening \ {p}
    /\ UNCHANGED <<ledgerVars, tableVars, handleVars, opVars, picks, folder, dropVars>>

\* pickDirectory: recorded and registered in one turn.
PickDirectory(p, h) ==
    /\ p \in DirPicks
    /\ picks[p] = "none"
    /\ picks' = [picks EXCEPT ![p] = "recorded"]
    /\ assertAcquirable(p)
    /\ insert(h, p, None)
    /\ folder' = [folder EXCEPT ![p] = h]
    /\ UNCHANGED <<ledgerVars, session, dropping, revokedGrants, grantAliases,
                   opVars, opening, dropVars>>

\* The folder was chosen while the session was ending: its pick stays recorded,
\* acquire refuses the handle.
PickDirectoryRefused(p) ==
    /\ p \in DirPicks
    /\ picks[p] = "none"
    /\ picks' = [picks EXCEPT ![p] = "recorded"]
    /\ ~assertAcquirable(p)
    /\ UNCHANGED <<ledgerVars, tableVars, handleVars, opVars, folder, opening, dropVars>>

\* The person withdraws one picked path: the ledger, then revokeUserSelected.
RevokePick(p) ==
    /\ picks[p] = "recorded"
    /\ picks' = [picks EXCEPT ![p] = "revoked"]
    /\ closeTree(Tree(filed[p]))
    /\ filed' = unfile(Tree(filed[p]))
    /\ cancelOperations(Tree(filed[p]))
    /\ UNCHANGED <<ledgerVars, session, dropping, revokedGrants, auth, frame, scope, home,
                   folder, opening, dropVars>>
    /\ IF open THEN reap(grantAliases) ELSE UNCHANGED <<open, grantAliases>>

-----------------------------------------------------------------------------
(* The end of a session: dropOrigin *)

\* Faulty variant: only calls on handles are cancelled.
DropHandlesOnly(d) ==
    /\ open
    /\ session < MaxSessions
    /\ d \notin dropPending
    /\ dropping' = TRUE
    /\ cancelOperations(handles)
    /\ closeTree(handles)
    /\ filed' = unfile(handles)
    /\ dropPending' = dropPending \cup {d}
    /\ dropHome' = [dropHome EXCEPT ![d] = session]
    /\ dropWaits' = [dropWaits EXCEPT ![d] = handles]
    /\ UNCHANGED <<ledgerVars, open, session, revokedGrants, grantAliases, auth,
                   frame, scope, home, pickVars>>

\* Up to the await: no call in flight and no handle survives this turn.
Drop(d) ==
    /\ open
    /\ session < MaxSessions
    /\ d \notin dropPending
    /\ dropping' = TRUE
    /\ cancelOperations(Grants \cup handles)
    /\ closeTree(handles)
    /\ filed' = unfile(handles)
    /\ dropPending' = dropPending \cup {d}
    /\ dropHome' = [dropHome EXCEPT ![d] = session]
    /\ dropWaits' = [dropWaits EXCEPT ![d] = handles]
    /\ UNCHANGED <<ledgerVars, open, session, revokedGrants, grantAliases, auth,
                   frame, scope, home, pickVars>>

\* OriginRegistry.deleteIfCurrent: everything the table remembered goes with it.
deleteTable ==
    /\ open' = FALSE
    /\ session' = session + 1
    /\ dropping' = FALSE
    /\ revokedGrants' = {}
    /\ grantAliases' = NoAliases
    /\ recentlyClosed' = {}
    /\ operations' = [s \in Scopes |-> {}]

\* Every teardown this call started has settled.
DropReturns(d) ==
    /\ d \in dropPending
    /\ dropWaits[d] \cap teardown = {}
    /\ dropPending' = dropPending \ {d}
    /\ IF dropHome[d] = session
       THEN deleteTable
       ELSE UNCHANGED <<tableVars, recentlyClosed, operations>>
    /\ UNCHANGED <<ledgerVars, handles, auth, parent, children, filed, used, teardown,
                   frame, scope, home, aborted, pickVars, dropHome, dropWaits>>

-----------------------------------------------------------------------------

Decide == \E g \in Grants :
    \/ GrantFirst(g)
    \/ \E keeps \in SUBSET handles, coversAll \in BOOLEAN : GrantReplaces(g, keeps, coversAll)
    \/ Revoke(g)

Operate == \E o \in Ops :
    \/ \E f \in {"waiting", "running"} : RunForGrant(o, f)
    \/ \E h \in Handles, f \in {"waiting", "running"} : RunForHandle(o, h, f)
    \/ SlotFreed(o)
    \/ Abandon(o)
    \/ \E h \in Handles : Land(o, h)
    \/ Return(o)

Hold == \E h \in Handles :
    \/ \E p \in Handles : Accept(p, h)
    \/ Close(h)
    \/ TeardownSettles(h)

PickStep == \E p \in Picks :
    \/ PickFile(p)
    \/ \E h \in Handles : PickFileOpened(p, h)
    \/ PickFileFailed(p)
    \/ \E h \in Handles : PickDirectory(p, h)
    \/ PickDirectoryRefused(p)
    \/ RevokePick(p)

EndSession == \E d \in Drops : Drop(d) \/ DropReturns(d)

Next == Decide \/ Operate \/ Hold \/ PickStep \/ EndSession

Spec == Init /\ [][Next]_vars

-----------------------------------------------------------------------------
(* Properties *)

\* The variables hold values of their types; ids that were never given out are
\* nowhere in the table.
TypeOK ==
    /\ current \in Grants \cup {None} /\ issued \subseteq Grants
    /\ open \in BOOLEAN /\ session \in 0 .. MaxSessions /\ dropping \in BOOLEAN
    /\ handles \subseteq used /\ used \subseteq Handles
    /\ auth \in [Handles -> Authorities \cup {None}]
    /\ parent \in [Handles -> Handles \cup {None}]
    /\ children \in [Handles -> SUBSET Handles]
    /\ filed \in [Authorities -> SUBSET Handles]
    /\ operations \in [Scopes -> SUBSET Ops]
    /\ revokedGrants \subseteq Grants
    /\ grantAliases \in [Grants -> Grants \cup {None}]
    /\ recentlyClosed \subseteq Handles /\ teardown \subseteq Handles
    /\ frame \in [Ops -> {"idle", "waiting", "running", "landed", "over"}]
    /\ scope \in [Ops -> Scopes \cup {None}]
    /\ home \in [Ops -> 0 .. MaxSessions]
    /\ aborted \subseteq Ops
    /\ picks \in [Picks -> {"none", "recorded", "revoked"}]
    /\ folder \in [DirPicks -> Handles \cup {None}]
    /\ opening \subseteq FilePicks
    /\ dropPending \subseteq Drops
    /\ dropHome \in [Drops -> 0 .. MaxSessions]
    /\ dropWaits \in [Drops -> SUBSET Handles]

\* Revocation is complete: whatever dial, accept or replacement was under way,
\* a live handle authorised by a grant is authorised by the one grant the user's
\* ledger holds now (revoke, replaceGrant, assertAcquirable, insert).
LiveUnderCurrentGrant ==
    \A h \in handles : auth[h] \in Grants => auth[h] = current

\* byGrant and byPickedPath list exactly the live handles of each authority, so
\* the next cascade reaches all of them and nothing else (insert, refile, closeTree).
IndexesAgree ==
    \A a \in Authorities : filed[a] = {h \in handles : auth[h] = a}

\* A live accepted connection hangs under a live server that lists it, and the
\* two answer to the same grant (acquireDerived, refile).
TreeAgrees ==
    /\ \A h \in handles : parent[h] # None =>
          /\ parent[h] \in handles
          /\ h \in children[parent[h]]
          /\ auth[h] = auth[parent[h]]
    /\ \A p \in handles : \A h \in children[p] : h \in handles /\ parent[h] = p

\* The next cascade reaches everything it must and nothing else: by grant or pick
\* through the indexes, by server through the tree (insert, refile, closeTree).
CascadeIsExact == IndexesAgree /\ TreeAgrees

\* A call of run that nobody cancelled can still be cancelled: it is registered
\* with its grant or its live handle in the table that is current, and if that
\* grant no longer stands its acquisition will be refused.
NoOrphanOperation ==
    \A o \in Unfinished \ aborted :
        /\ home[o] = session
        /\ o \in operations[scope[o]]
        /\ scope[o] \in Handles => scope[o] \in handles
        /\ scope[o] \in Grants => currentGrantFor(scope[o]) \in {current} \cup revokedGrants

\* From the moment a session starts to end, nothing it held is live and nothing
\* it called is uncancelled, and nothing new is let in (dropOrigin).
SessionEndIsTotal ==
    dropping => handles = {} /\ Unfinished \subseteq aborted

\* A file opened inside a picked folder, however long the open took, is live
\* only while the folder's pick is in the permissions list (revokeUserSelected).
FolderPickGoverns ==
    \A h \in handles : auth[h] \in DirPicks => picks[auth[h]] = "recorded"

\* handles.ts, revokeUserSelected: there is no window for a late acquisition to
\* race an already-issued revoke of a pick.
PickGoverns ==
    \A h \in handles : auth[h] \in Picks => picks[auth[h]] = "recorded"

\* handles.ts, dropOrigin: the table must not be handed out again until the
\* previous session's descriptors are actually gone.
OneSessionAtATime ==
    open => \A d \in dropPending :
        dropHome[d] < session => dropWaits[d] \cap teardown = {}

\* The table implements what Capability promises.
Promise == INSTANCE Capability WITH
    authority <- current,
    granted <- {h \in handles : auth[h] \in Grants},
    picked <- {h \in handles : auth[h] \in Picks},
    ended <- used \ handles

ImplementsPromise == Promise!Spec

=============================================================================
