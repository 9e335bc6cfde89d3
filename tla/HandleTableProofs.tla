------------------------- MODULE HandleTableProofs -------------------------
(***************************************************************************)
(* For every number of grants, handles, calls and sessions: no handle is   *)
(* live under a grant the user withdrew or replaced, the revocation index  *)
(* is exact, and the end of a session leaves nothing uncancelled.          *)
(***************************************************************************)
EXTENDS HandleTable, TLAPS

(* TypeOK in the groups of variables that the actions leave alone together. *)
LedgerTypes ==
    /\ current \in Grants \cup {None} /\ issued \subseteq Grants
    /\ open \in BOOLEAN /\ session \in 0 .. MaxSessions /\ dropping \in BOOLEAN
    /\ revokedGrants \subseteq Grants
    /\ grantAliases \in [Grants -> Grants \cup {None}]

HandleTypes ==
    /\ handles \subseteq used /\ used \subseteq Handles
    /\ auth \in [Handles -> Authorities \cup {None}]
    /\ parent \in [Handles -> Handles \cup {None}]
    /\ children \in [Handles -> SUBSET Handles]
    /\ filed \in [Authorities -> SUBSET Handles]
    /\ recentlyClosed \subseteq Handles /\ teardown \subseteq Handles

OpTypes ==
    /\ operations \in [Scopes -> SUBSET Ops]
    /\ frame \in [Ops -> {"idle", "waiting", "running", "landed", "over"}]
    /\ scope \in [Ops -> Scopes \cup {None}]
    /\ home \in [Ops -> 0 .. MaxSessions]
    /\ aborted \subseteq Ops

PickTypes ==
    /\ picks \in [Picks -> {"none", "recorded", "revoked"}]
    /\ folder \in [DirPicks -> Handles \cup {None}]
    /\ opening \subseteq FilePicks

DropTypes ==
    /\ dropPending \subseteq Drops
    /\ dropHome \in [Drops -> 0 .. MaxSessions]
    /\ dropWaits \in [Drops -> SUBSET Handles]

\* The grant that stands is neither tombstoned nor an alias, and tombstones and
\* aliases name only grants that were issued, so a fresh id has neither.
LedgerAgrees ==
    /\ current \in Grants => current \in issued /\ grantAliases[current] = None
    /\ current \notin revokedGrants
    /\ revokedGrants \subseteq issued
    /\ \A a \in Grants : grantAliases[a] # None => a \in issued

\* A live handle has an authority, a derived handle derives nothing, and an id
\* not given out has no children.
HandlesAgree ==
    /\ \A h \in handles : auth[h] \in Authorities
    /\ \A h \in handles : parent[h] # None => parent[parent[h]] = None
    /\ \A h \in Handles \ used : children[h] = {}

\* A call inside run has a scope; a folder's own row carries its pick for good.
ScopesAgree ==
    /\ \A o \in Ops : frame[o] # "idle" => scope[o] \in Scopes
    /\ \A p \in DirPicks : folder[p] # None => folder[p] \in used /\ auth[folder[p]] = p

\* A dropOrigin captured a past table or the current one, and that it is still
\* dropping.
DropsAgree ==
    \A d \in dropPending :
        /\ dropHome[d] <= session
        /\ dropHome[d] = session => dropping /\ session < MaxSessions

\* The inductive invariant: the types, the indexes and the tree of the live
\* handles, and what the calls, the drops and the picks in flight rely on.
LedgerInv == LedgerTypes /\ LedgerAgrees
HandleInv == HandleTypes /\ IndexesAgree /\ TreeAgrees /\ HandlesAgree

IInv ==
    /\ LedgerInv
    /\ HandleInv
    /\ OpTypes
    /\ PickTypes
    /\ DropTypes
    /\ LiveUnderCurrentGrant
    /\ NoOrphanOperation
    /\ SessionEndIsTotal
    /\ ScopesAgree
    /\ DropsAgree
    /\ FolderPickGoverns

\* The groups together are TypeOK.
LEMMA TypesTogether ==
    IInv => TypeOK
BY DEF IInv, LedgerInv, HandleInv, LedgerTypes, HandleTypes, OpTypes, PickTypes, DropTypes, TypeOK

-----------------------------------------------------------------------------
(* What the two changes to the set of handles preserve *)

\* A handle inserted under a pick or under what stands for the current grant,
\* derived from nothing or from a live underived handle of the same authority,
\* leaves the indexes and the tree exact (insert).
LEMMA InsertPreserves ==
    ASSUME HandleInv, LedgerTypes, LiveUnderCurrentGrant,
           NEW h, NEW a \in Authorities, NEW p \in handles \cup {None},
           insert(h, a, p), a \in Grants => filedUnder(a) = current, UNCHANGED current,
           p # None => parent[p] = None /\ auth[p] = filedUnder(a)
    PROVE  /\ h \in Handles \ used /\ used' = used \cup {h}
           /\ handles' = handles \cup {h}
           /\ auth'[h] = filedUnder(a)
           /\ \A x \in used : auth'[x] = auth[x]
           /\ HandleInv'
           /\ LiveUnderCurrentGrant'
<1> USE HandleTableAssumption DEF insert
<1>1. filedUnder(a) \in Authorities
  BY DEF filedUnder, currentGrantFor, Authorities, LedgerTypes
<1>2. /\ h \in Handles \ used /\ h \notin handles
      /\ auth \in [Handles -> Authorities \cup {None}]
      /\ filed \in [Authorities -> SUBSET Handles]
      /\ parent \in [Handles -> Handles \cup {None}]
      /\ children \in [Handles -> SUBSET Handles]
      /\ handles \subseteq used /\ used \subseteq Handles
      /\ p \in Handles => p # h
  BY DEF HandleInv, HandleTypes
<1>3. /\ auth'[h] = filedUnder(a)
      /\ \A x \in Handles \ {h} : auth'[x] = auth[x]
      /\ auth' \in [Handles -> Authorities \cup {None}]
  BY <1>1, <1>2
<1>4. /\ filed' \in [Authorities -> SUBSET Handles]
      /\ filed'[filedUnder(a)] = filed[filedUnder(a)] \cup {h}
      /\ \A b \in Authorities \ {filedUnder(a)} : filed'[b] = filed[b]
  BY <1>1, <1>2
<1>5. /\ parent' \in [Handles -> Handles \cup {None}]
      /\ parent'[h] = p
      /\ \A x \in Handles \ {h} : parent'[x] = parent[x]
  BY <1>2
<1>6. /\ children' \in [Handles -> SUBSET Handles]
      /\ \A q \in Handles : q = p => children'[q] = children[q] \cup {h}
      /\ \A q \in Handles : q # p => children'[q] = children[q]
  BY <1>2
<1>7. IndexesAgree'
  <2> SUFFICES ASSUME NEW b \in Authorities
               PROVE  filed'[b] = {x \in handles' : auth'[x] = b}
    BY DEF IndexesAgree
  <2>1. filed[b] = {x \in handles : auth[x] = b}
    BY DEF HandleInv, IndexesAgree
  <2>2. \A x \in handles : auth'[x] = auth[x]
    BY <1>2, <1>3
  <2>3. CASE b = filedUnder(a)
    BY <1>2, <1>3, <1>4, <2>1, <2>2, <2>3
  <2>4. CASE b # filedUnder(a)
    BY <1>2, <1>3, <1>4, <2>1, <2>2, <2>4
  <2> QED BY <2>3, <2>4
<1>8. LiveUnderCurrentGrant'
  <2>1. auth'[h] \in Grants => auth'[h] = current'
    <3>1. a \notin Grants => filedUnder(a) \notin Grants
      BY DEF filedUnder
    <3> QED BY <1>3, <3>1
  <2>2. \A x \in handles : auth'[x] \in Grants => auth'[x] = current'
    BY <1>2, <1>3 DEF LiveUnderCurrentGrant
  <2> QED BY <2>1, <2>2 DEF LiveUnderCurrentGrant
<1>9. HandlesAgree'
  <2>1. \A x \in handles' : parent'[x] # None => parent'[parent'[x]] = None
    <3> SUFFICES ASSUME NEW x \in handles', parent'[x] # None
                 PROVE  parent'[parent'[x]] = None
      OBVIOUS
    <3>1. CASE x = h
      BY <1>2, <1>5, <3>1
    <3>2. CASE x # h
      <4>1. x \in handles /\ parent'[x] = parent[x] /\ parent[x] \in handles
        BY <1>2, <1>5, <3>2 DEF HandleInv, TreeAgrees
      <4>2. parent[x] # h /\ parent[parent[x]] = None
        BY <1>2, <1>5, <4>1 DEF HandleInv, HandlesAgree
      <4> QED BY <1>2, <1>5, <4>1, <4>2
    <3> QED BY <3>1, <3>2
  <2>2. \A x \in Handles \ used' : children'[x] = {}
    BY <1>2, <1>6 DEF HandleInv, HandlesAgree
  <2>3. \A x \in handles' : auth'[x] \in Authorities
    BY <1>1, <1>2, <1>3 DEF HandleInv, HandlesAgree
  <2> QED BY <2>1, <2>2, <2>3 DEF HandlesAgree
<1>10. TreeAgrees'
  <2>1. ASSUME NEW x \in handles', parent'[x] # None
        PROVE  /\ parent'[x] \in handles' /\ x \in children'[parent'[x]]
               /\ auth'[x] = auth'[parent'[x]]
    <3>1. CASE x = h
      BY <1>2, <1>3, <1>5, <1>6, <2>1, <3>1
    <3>2. CASE x # h
      <4>1. x \in handles /\ x # h /\ parent'[x] = parent[x]
        BY <1>2, <1>5, <3>2
      <4>2. parent[x] \in handles /\ x \in children[parent[x]] /\ auth[x] = auth[parent[x]]
        BY <2>1, <4>1 DEF HandleInv, TreeAgrees
      <4> QED BY <1>2, <1>3, <1>6, <4>1, <4>2
    <3> QED BY <3>1, <3>2
  <2>2. ASSUME NEW q \in handles', NEW x \in children'[q]
        PROVE  x \in handles' /\ parent'[x] = q
    <3>1. CASE q = h
      BY <1>2, <1>6, <3>1 DEF HandleInv, HandlesAgree
    <3>2. CASE q # h /\ x = h
      <4>1. q \in handles /\ h \notin children[q]
        BY <1>2, <3>2 DEF HandleInv, TreeAgrees
      <4> QED BY <1>2, <1>5, <1>6, <2>2, <3>2, <4>1
    <3>3. CASE q # h /\ x # h
      <4>1. q \in handles /\ x \in children[q]
        BY <1>2, <1>6, <2>2, <3>3
      <4>2. x \in handles /\ parent[x] = q
        BY <4>1 DEF HandleInv, TreeAgrees
      <4> QED BY <1>2, <1>5, <3>3, <4>2
    <3> QED BY <3>1, <3>2, <3>3
  <2> QED BY <2>1, <2>2 DEF TreeAgrees
<1>11. HandleTypes'
  BY <1>2, <1>3, <1>4, <1>5, <1>6 DEF HandleTypes, HandleInv
<1> QED
  BY <1>2, <1>3, <1>7, <1>8, <1>9, <1>10, <1>11 DEF HandleInv

\* A set of handles with everything derived from them is what Tree returns.
LEMMA TreeIsClosed ==
    ASSUME HandleInv, NEW roots \in SUBSET handles
    PROVE  /\ Tree(roots) \in SUBSET handles
           /\ roots \subseteq Tree(roots)
           /\ \A x \in handles : parent[x] \in Tree(roots) => x \in Tree(roots)
<1> USE HandleTableAssumption
<1>1. Tree(roots) \in SUBSET handles /\ roots \subseteq Tree(roots)
  BY DEF Tree
<1>2. ASSUME NEW x \in handles, parent[x] \in Tree(roots)
      PROVE  x \in Tree(roots)
  <2>1. parent[x] \in handles /\ parent[x] # None
    BY <1>1, <1>2 DEF HandleInv, HandleTypes
  <2>2. x \in children[parent[x]]
    BY <2>1 DEF HandleInv, TreeAgrees
  <2>3. parent[parent[x]] = None
    BY <2>1 DEF HandleInv, HandlesAgree
  <2>4. parent[x] \in roots
    <3>1. ASSUME NEW r \in roots, parent[x] \in children[r] PROVE FALSE
      <4>1. parent[parent[x]] = r
        BY <2>1, <3>1 DEF HandleInv, TreeAgrees
      <4> QED BY <2>3, <4>1 DEF HandleInv, HandleTypes
    <3> QED BY <1>2, <3>1 DEF Tree
  <2> QED BY <2>2, <2>4 DEF Tree
<1> QED BY <1>1, <1>2

\* closeTree takes exactly the doomed handles out of the table, its indexes and
\* its tree, when what derives from a doomed handle is doomed too.
LEMMA ClosePreserves ==
    ASSUME HandleInv, NEW doomed \in SUBSET handles,
           \A x \in handles : parent[x] \in doomed => x \in doomed,
           closeTree(doomed), filed' = unfile(doomed), UNCHANGED auth
    PROVE  HandleInv' /\ handles' = handles \ doomed
<1> USE HandleTableAssumption DEF closeTree, unfile
<1>0. /\ handles \subseteq used /\ used \subseteq Handles
      /\ parent \in [Handles -> Handles \cup {None}]
      /\ children \in [Handles -> SUBSET Handles]
      /\ filed \in [Authorities -> SUBSET Handles]
  BY DEF HandleInv, HandleTypes
<1>1. IndexesAgree'
  <2> SUFFICES ASSUME NEW b \in Authorities
               PROVE  filed'[b] = {x \in handles' : auth'[x] = b}
    BY DEF IndexesAgree
  <2>1. filed[b] = {x \in handles : auth[x] = b}
    BY DEF HandleInv, IndexesAgree
  <2>2. filed'[b] = filed[b] \ {x \in doomed : auth[x] = b}
    OBVIOUS
  <2> QED BY <2>1, <2>2
<1>2. HandleTypes'
  <2>1. filed' \in [Authorities -> SUBSET Handles]
    BY <1>0
  <2>2. children' \in [Handles -> SUBSET Handles]
    BY <1>0
  <2> QED BY <2>1, <2>2 DEF HandleInv, HandleTypes
<1>3. \A q \in Handles : children'[q] = children[q] \ {x \in doomed : parent[x] = q}
  BY <1>0
<1>4. TreeAgrees'
  <2>1. ASSUME NEW x \in handles', parent'[x] # None
        PROVE  /\ parent'[x] \in handles' /\ x \in children'[parent'[x]]
               /\ auth'[x] = auth'[parent'[x]]
    <3>1. parent[x] \in handles /\ x \in children[parent[x]] /\ auth[x] = auth[parent[x]]
      BY <2>1 DEF HandleInv, TreeAgrees
    <3> QED BY <1>0, <1>3, <3>1
  <2>2. ASSUME NEW q \in handles', NEW x \in children'[q]
        PROVE  x \in handles' /\ parent'[x] = q
    <3>1. x \in children[q] /\ ~(x \in doomed /\ parent[x] = q)
      BY <1>0, <1>3
    <3> QED BY <3>1 DEF HandleInv, TreeAgrees
  <2> QED BY <2>1, <2>2 DEF TreeAgrees
<1>5. HandlesAgree'
  BY <1>0, <1>3 DEF HandleInv, HandlesAgree
<1> QED BY <1>1, <1>2, <1>4, <1>5 DEF HandleInv

\* The handles filed under some authorities are live.
LEMMA FiledAreLive ==
    ASSUME HandleInv, NEW A \in SUBSET Authorities
    PROVE  /\ UNION {filed[a] : a \in A} \in SUBSET handles
           /\ \A h \in handles : auth[h] \in A => h \in UNION {filed[a] : a \in A}
BY DEF HandleInv, IndexesAgree

-----------------------------------------------------------------------------
(* What cancelling preserves *)

\* cancelOperations aborts every registered call of the given scopes.
LEMMA CancelFacts ==
    ASSUME OpTypes, NEW scopes \in SUBSET Scopes, cancelOperations(scopes),
           UNCHANGED <<frame, scope, home>>
    PROVE  /\ aborted \subseteq aborted'
           /\ \A s \in scopes : operations[s] \subseteq aborted'
           /\ \A s \in Scopes \ scopes : operations'[s] = operations[s]
           /\ OpTypes'
<1>1. /\ operations \in [Scopes -> SUBSET Ops] /\ aborted \subseteq Ops
      /\ operations' = [s \in Scopes |-> IF s \in scopes THEN {} ELSE operations[s]]
      /\ aborted' = aborted \cup UNION {operations[s] : s \in scopes}
  BY DEF OpTypes, cancelOperations
<1>2. operations' \in [Scopes -> SUBSET Ops]
  BY <1>1
<1>3. aborted' \subseteq Ops
  BY <1>1
<1>4. \A s \in Scopes \ scopes : operations'[s] = operations[s]
  BY <1>1
<1>5. \A s \in scopes : operations[s] \subseteq aborted'
  BY <1>1
<1>6. OpTypes'
  BY <1>2, <1>3 DEF OpTypes
<1> QED BY <1>1, <1>4, <1>5, <1>6

\* A call that survives the closing of some handles and the cancelling of their
\* calls, and of others, answered to none of them.
LEMMA Survivors ==
    ASSUME OpTypes, ScopesAgree, NoOrphanOperation,
           NEW scopes \in SUBSET Scopes, cancelOperations(scopes),
           NEW doomed, doomed \subseteq scopes, handles' = handles \ doomed,
           UNCHANGED <<frame, scope, home>>,
           NEW o \in Unfinished' \ aborted'
    PROVE  /\ o \in Unfinished \ aborted
           /\ scope[o] \in Scopes \ scopes
           /\ home'[o] = session
           /\ o \in operations'[scope'[o]]
           /\ scope'[o] \in Handles => scope'[o] \in handles'
           /\ scope[o] \in Grants => currentGrantFor(scope[o]) \in {current} \cup revokedGrants
<1>1. /\ aborted \subseteq aborted'
      /\ \A s \in scopes : operations[s] \subseteq aborted'
      /\ \A s \in Scopes \ scopes : operations'[s] = operations[s]
  BY CancelFacts
<1>2. o \in Unfinished \ aborted
  BY <1>1 DEF Unfinished
<1>3. o \in Ops /\ frame[o] # "idle"
  BY <1>2 DEF Unfinished
<1>4. scope[o] \in Scopes
  BY <1>3 DEF ScopesAgree
<1>5. /\ home[o] = session /\ o \in operations[scope[o]]
      /\ scope[o] \in Handles => scope[o] \in handles
      /\ scope[o] \in Grants => currentGrantFor(scope[o]) \in {current} \cup revokedGrants
  BY <1>2 DEF NoOrphanOperation
<1>6. scope[o] \notin scopes
  BY <1>1, <1>5
<1> QED
  BY <1>1, <1>2, <1>4, <1>5, <1>6

\* What reap can change: the aliases go only when no call of this table is
\* inside run, and nothing is tombstoned.
LEMMA ReapFacts ==
    ASSUME NEW al \in [Grants -> Grants \cup {None}], reap(al)
    PROVE  /\ open' \in BOOLEAN
           /\ grantAliases' \in [Grants -> Grants \cup {None}]
           /\ \A g \in Grants : grantAliases'[g] \in {al[g], None}
           /\ \A o \in Unfinished' : home'[o] = session' => grantAliases' = al
<1> DEFINE H == HoldsSomething'
<1>1. open' = H /\ grantAliases' = IF H THEN al ELSE NoAliases
  BY DEF reap
<1>2. H \in BOOLEAN
  BY DEF HoldsSomething
<1>3. ASSUME NEW o \in Unfinished', home'[o] = session' PROVE H
  BY <1>3 DEF HoldsSomething
<1> HIDE DEF H
<1>4. NoAliases \in [Grants -> Grants \cup {None}] /\ \A g \in Grants : NoAliases[g] = None
  BY DEF NoAliases
<1> QED BY <1>1, <1>2, <1>3, <1>4

-----------------------------------------------------------------------------
(* The initial state, and what a step that leaves a group of variables alone *)
(* preserves                                                                 *)

LEMMA InitEstablishes ==
    Init => IInv
<1> SUFFICES ASSUME Init PROVE IInv
  OBVIOUS
<1> USE HandleTableAssumption DEF Init
<1>0. /\ NoAliases \in [Grants -> Grants \cup {None}]
      /\ \A g \in Grants : NoAliases[g] = None
      /\ 0 \in 0 .. MaxSessions
  BY DEF NoAliases
<1>1. LedgerInv
  BY <1>0 DEF LedgerInv, LedgerTypes, LedgerAgrees
<1>2. HandleInv
  BY DEF HandleInv, HandleTypes, IndexesAgree, TreeAgrees, HandlesAgree
<1>3. OpTypes
  BY DEF OpTypes
<1>4. PickTypes /\ DropTypes
  BY DEF PickTypes, DropTypes
<1>5. LiveUnderCurrentGrant /\ FolderPickGoverns
  BY DEF LiveUnderCurrentGrant, FolderPickGoverns
<1>6. Unfinished = {}
  BY DEF Unfinished
<1>7. NoOrphanOperation /\ SessionEndIsTotal
  BY <1>6 DEF NoOrphanOperation, SessionEndIsTotal
<1>8. ScopesAgree /\ DropsAgree
  BY DEF ScopesAgree, DropsAgree
<1> QED BY <1>1, <1>2, <1>3, <1>4, <1>5, <1>7, <1>8 DEF IInv

LEMMA HandlesUntouched ==
    ASSUME HandleInv, UNCHANGED handleVars
    PROVE  HandleInv'
BY DEF handleVars, HandleInv, HandleTypes, IndexesAgree, TreeAgrees, HandlesAgree

LEMMA LedgerUntouched ==
    ASSUME LedgerInv, UNCHANGED <<ledgerVars, tableVars>>
    PROVE  LedgerInv'
BY DEF ledgerVars, tableVars, LedgerInv, LedgerTypes, LedgerAgrees

\* Forgetting aliases and the freshness of the table's existence, as reap may,
\* keeps the ledger's agreement.
LEMMA LedgerReaped ==
    ASSUME LedgerInv, reap(grantAliases), UNCHANGED <<ledgerVars, session, dropping, revokedGrants>>
    PROVE  LedgerInv'
<1>1. /\ open' \in BOOLEAN
      /\ grantAliases' \in [Grants -> Grants \cup {None}]
      /\ \A g \in Grants : grantAliases'[g] \in {grantAliases[g], None}
  BY ReapFacts DEF LedgerInv, LedgerTypes
<1> QED BY <1>1 DEF ledgerVars, LedgerInv, LedgerTypes, LedgerAgrees

\* Nothing that uncancelled calls rely on moves.
LEMMA CallsUntouched ==
    ASSUME NoOrphanOperation, handles \subseteq handles',
           UNCHANGED <<ledgerVars, session, revokedGrants, grantAliases, opVars>>
    PROVE  NoOrphanOperation'
BY DEF NoOrphanOperation, Unfinished, currentGrantFor, ledgerVars, opVars

-----------------------------------------------------------------------------
(* The user's decisions *)

LEMMA GrantFirstPreserves ==
    ASSUME IInv, NEW g \in Grants, GrantFirst(g)
    PROVE  IInv'
<1> USE HandleTableAssumption DEF GrantFirst
<1>1. LedgerInv'
  BY DEF IInv, LedgerInv, LedgerTypes, LedgerAgrees
<1>2. HandleInv'
  BY HandlesUntouched DEF IInv
<1>3. OpTypes' /\ PickTypes' /\ DropTypes'
  BY DEF IInv, OpTypes, PickTypes, DropTypes, opVars, pickVars, dropVars
<1>4. LiveUnderCurrentGrant'
  BY DEF IInv, LiveUnderCurrentGrant, handleVars
<1>5. NoOrphanOperation'
  <2>1. revokedGrants' = revokedGrants
    BY DEF IInv, LedgerInv, LedgerAgrees
  <2>2. \A x \in Grants : currentGrantFor(x)' = currentGrantFor(x)
    BY DEF currentGrantFor
  <2>3. \A x \in Grants : currentGrantFor(x) \in Grants
    BY DEF IInv, LedgerInv, LedgerTypes, currentGrantFor
  <2> QED BY <2>1, <2>2, <2>3 DEF IInv, NoOrphanOperation, Unfinished, opVars, handleVars
<1>6. SessionEndIsTotal' /\ DropsAgree'
  BY DEF IInv, SessionEndIsTotal, DropsAgree, Unfinished, opVars, handleVars, dropVars
<1>7. ScopesAgree' /\ FolderPickGoverns'
  BY DEF IInv, ScopesAgree, FolderPickGoverns, opVars, handleVars, pickVars
<1> QED BY <1>1, <1>2, <1>3, <1>4, <1>5, <1>6, <1>7 DEF IInv

\* Handles that the replacement keeps are refiled, all others that stood on the
\* replaced grant are closed.
LEMMA ReplaceMovesHandles ==
    ASSUME IInv, NEW g \in Grants, g # current, current \in Grants, NEW keeps,
           NEW coversAll, replaceGrantIn(current, g, keeps, coversAll), current' = g
    PROVE  /\ HandleInv' /\ LiveUnderCurrentGrant'
           /\ handles' \subseteq handles
           /\ \A h \in handles \ handles' : auth[h] = current
           /\ cancelOperations(IF coversAll THEN handles \ handles'
                               ELSE (handles \ handles') \cup {current})
           /\ used' = used
           /\ \A h \in Handles : auth'[h] # auth[h] => auth[h] = current /\ auth'[h] = g
<1> DEFINE judge(h) == IF parent[h] \in handles THEN parent[h] ELSE h
           kept == {h \in filed[current] : judge(h) \in keeps}
           roots == filed[current] \ kept
           doomed == Tree(roots)
<1> USE HandleTableAssumption
<1>0. /\ handles \subseteq used /\ used \subseteq Handles
      /\ parent \in [Handles -> Handles \cup {None}]
      /\ children \in [Handles -> SUBSET Handles]
      /\ auth \in [Handles -> Authorities \cup {None}]
      /\ filed \in [Authorities -> SUBSET Handles]
      /\ current \in Authorities /\ g \in Authorities
      /\ filed[current] = {x \in handles : auth[x] = current}
      /\ filed[g] = {}
  BY DEF IInv, HandleInv, HandleTypes, IndexesAgree, LiveUnderCurrentGrant, Authorities
<1>1. /\ closeTree(doomed)
      /\ auth' = [h \in Handles |-> IF h \in kept THEN g ELSE auth[h]]
      /\ filed' = [unfile(doomed \cup kept) EXCEPT ![g] = @ \cup kept]
      /\ cancelOperations(IF coversAll THEN doomed ELSE doomed \cup {current})
  BY DEF replaceGrantIn
<1>2. roots \in SUBSET handles
  BY <1>0
<1>3. /\ doomed \in SUBSET handles /\ roots \subseteq doomed
      /\ \A x \in handles : parent[x] \in doomed => x \in doomed
  BY <1>2, TreeIsClosed DEF IInv
<1>4. ASSUME NEW x \in handles, parent[x] # None
      PROVE  /\ parent[x] \in handles /\ auth[x] = auth[parent[x]] /\ x \in children[parent[x]]
             /\ parent[parent[x]] = None
             /\ x \in kept <=> parent[x] \in kept
  <2>1. /\ parent[x] \in handles /\ auth[x] = auth[parent[x]] /\ x \in children[parent[x]]
        /\ parent[parent[x]] = None
    BY <1>4 DEF IInv, HandleInv, TreeAgrees, HandlesAgree
  <2>2. judge(x) = parent[x] /\ judge(parent[x]) = parent[x]
    BY <1>0, <2>1
  <2> QED BY <1>0, <2>1, <2>2
<1>5. kept \cap doomed = {} /\ kept \subseteq handles
  <2>1. ASSUME NEW x \in kept, NEW r \in roots, x \in children[r] PROVE FALSE
    <3>1. parent[x] = r /\ r \in handles /\ x \in handles
      BY <1>0, <2>1 DEF IInv, HandleInv, TreeAgrees
    <3>2. r # None
      BY <1>0, <3>1
    <3> QED BY <1>4, <3>1, <3>2
  <2> QED BY <1>0, <2>1 DEF Tree
<1>6. \A x \in handles : auth[x] = current => x \in kept \/ x \in doomed
  BY <1>0, <1>3
<1> HIDE DEF kept, roots, doomed, judge
<1>7. /\ handles' = handles \ doomed
      /\ \A h \in Handles : auth'[h] = IF h \in kept THEN g ELSE auth[h]
      /\ parent' = parent /\ used' = used
      /\ \A q \in Handles : children'[q] = children[q] \ {h \in doomed : parent[h] = q}
  BY <1>0, <1>1 DEF closeTree
<1>8. \A x \in kept : auth[x] = current
  BY <1>0 DEF kept
<1>9. IndexesAgree'
  <2> SUFFICES ASSUME NEW b \in Authorities
               PROVE  filed'[b] = {x \in handles' : auth'[x] = b}
    BY DEF IndexesAgree
  <2>1. filed[b] = {x \in handles : auth[x] = b}
    BY DEF IInv, HandleInv, IndexesAgree
  <2>2. unfile(doomed \cup kept)[b] = filed[b] \ {h \in doomed \cup kept : auth[h] = b}
    BY DEF unfile
  <2>3. CASE b = g
    <3>1. filed'[g] = kept
      BY <1>0, <1>1, <2>2, <2>3 DEF unfile
    <3>2. \A x \in handles : auth[x] # g
      BY <1>0, <2>1, <2>3
    <3> QED BY <1>0, <1>5, <1>7, <2>3, <3>1, <3>2
  <2>4. CASE b # g
    <3>1. filed'[b] = unfile(doomed \cup kept)[b]
      BY <1>1, <2>4 DEF unfile
    <3> QED BY <1>0, <1>5, <1>7, <1>8, <2>1, <2>2, <2>4, <3>1
  <2> QED BY <2>3, <2>4
<1>10. HandleTypes'
  <2>1. auth' \in [Handles -> Authorities \cup {None}]
    BY <1>0, <1>1
  <2>2. filed' \in [Authorities -> SUBSET Handles]
    <3>1. unfile(doomed \cup kept) \in [Authorities -> SUBSET Handles]
      BY <1>0 DEF unfile
    <3> QED BY <1>0, <1>1, <1>5, <3>1
  <2>3. children' \in [Handles -> SUBSET Handles]
    BY <1>0, <1>1 DEF closeTree
  <2>4. recentlyClosed' \subseteq Handles /\ teardown' \subseteq Handles
    BY <1>0, <1>1, <1>3 DEF closeTree, IInv, HandleInv, HandleTypes
  <2> QED BY <1>0, <1>7, <2>1, <2>2, <2>3, <2>4 DEF HandleTypes
<1>11. TreeAgrees'
  <2>1. ASSUME NEW x \in handles', parent'[x] # None
        PROVE  /\ parent'[x] \in handles' /\ x \in children'[parent'[x]]
               /\ auth'[x] = auth'[parent'[x]]
    <3>1. x \in handles /\ x \notin doomed /\ parent[x] # None /\ parent'[x] = parent[x]
      BY <1>7, <2>1
    <3>2. parent[x] \in handles'
      BY <1>3, <1>4, <1>7, <3>1
    <3> QED BY <1>0, <1>4, <1>7, <3>1, <3>2
  <2>2. ASSUME NEW q \in handles', NEW x \in children'[q]
        PROVE  x \in handles' /\ parent'[x] = q
    <3>1. x \in children[q] /\ ~(x \in doomed /\ parent[x] = q) /\ q \in handles
      BY <1>0, <1>7
    <3> QED BY <1>7, <3>1 DEF IInv, HandleInv, TreeAgrees
  <2> QED BY <2>1, <2>2 DEF TreeAgrees
<1>12. HandlesAgree'
  BY <1>0, <1>7 DEF IInv, HandleInv, HandlesAgree
<1>13. LiveUnderCurrentGrant'
  BY <1>0, <1>6, <1>7 DEF IInv, LiveUnderCurrentGrant
<1>14. \A h \in Handles : auth'[h] # auth[h] => auth[h] = current /\ auth'[h] = g
  BY <1>7, <1>8
<1>15. \A h \in doomed : auth[h] = current
  <2>1. \A r \in roots : auth[r] = current
    BY <1>0 DEF roots
  <2>2. ASSUME NEW h \in handles, NEW r \in roots, h \in children[r]
        PROVE  auth[h] = current
    <3>1. parent[h] = r /\ r # None
      BY <1>0, <1>2, <2>2 DEF IInv, HandleInv, TreeAgrees
    <3> QED BY <1>4, <2>1, <3>1
  <2> QED BY <2>1, <2>2 DEF doomed, Tree
<1>16. doomed = handles \ handles'
  BY <1>3, <1>7
<1>17. cancelOperations(IF coversAll THEN handles \ handles'
                        ELSE (handles \ handles') \cup {current})
  BY <1>1, <1>16 DEF cancelOperations
<1>18. handles' \subseteq handles /\ \A h \in handles \ handles' : auth[h] = current
  BY <1>7, <1>15
<1> QED
  BY <1>7, <1>9, <1>10, <1>11, <1>12, <1>13, <1>14, <1>17, <1>18 DEF HandleInv


LEMMA GrantReplacesPreserves ==
    ASSUME IInv, NEW g \in Grants, NEW keeps, NEW coversAll \in BOOLEAN,
           GrantReplaces(g, keeps, coversAll)
    PROVE  IInv'
<1> USE HandleTableAssumption
<1>0. /\ current \in Grants /\ current \in issued /\ g \notin issued /\ g # current
      /\ current' = g /\ issued' = issued \cup {g}
      /\ UNCHANGED <<session, dropping, frame, scope, home, pickVars, dropVars>>
      /\ replaceGrantIn(current, g, keeps, coversAll)
  BY DEF GrantReplaces, IInv, LedgerInv, LedgerTypes, LedgerAgrees
<1>1. /\ HandleInv' /\ LiveUnderCurrentGrant' /\ used' = used
      /\ \A h \in Handles : auth[h] \in DirPicks \/ auth'[h] \in DirPicks => auth'[h] = auth[h]
  BY <1>0, ReplaceMovesHandles DEF Picks
<1> DEFINE doomed == handles \ handles'
<1>2. /\ handles' \subseteq handles
      /\ cancelOperations(IF coversAll THEN doomed ELSE doomed \cup {current})
  BY <1>0, ReplaceMovesHandles
<1> DEFINE scopes == IF coversAll THEN doomed ELSE doomed \cup {current}
           al == [a \in Grants |->
                     IF ~coversAll THEN grantAliases[a]
                     ELSE IF a = current \/ grantAliases[a] = current THEN g ELSE grantAliases[a]]
<1>3. /\ scopes \in SUBSET Scopes /\ doomed \subseteq scopes /\ cancelOperations(scopes)
      /\ handles' = handles \ doomed
  BY <1>0, <1>2 DEF IInv, HandleInv, HandleTypes, Scopes
<1>4. /\ reap(al)
      /\ revokedGrants' = IF coversAll THEN revokedGrants ELSE revokedGrants \cup {current}
      /\ al \in [Grants -> Grants \cup {None}]
  <2>1. al \in [Grants -> Grants \cup {None}]
    BY DEF IInv, LedgerInv, LedgerTypes
  <2>2. CASE coversAll
    <3>1. al = [a \in Grants |->
                  IF a = current \/ grantAliases[a] = current THEN g ELSE grantAliases[a]]
      BY <2>2
    <3> HIDE DEF al
    <3> QED BY <1>0, <2>1, <2>2, <3>1 DEF replaceGrantIn
  <2>3. CASE ~coversAll
    <3>1. al = grantAliases
      BY <2>3 DEF IInv, LedgerInv, LedgerTypes
    <3> HIDE DEF al
    <3> QED BY <1>0, <2>1, <2>3, <3>1 DEF replaceGrantIn
  <2> QED BY <2>2, <2>3
<1>5. /\ \A a \in Grants : ~coversAll => al[a] = grantAliases[a]
      /\ \A a \in Grants : coversAll /\ (a = current \/ grantAliases[a] = current) => al[a] = g
      /\ \A a \in Grants : coversAll /\ ~(a = current \/ grantAliases[a] = current)
            => al[a] = grantAliases[a]
  OBVIOUS
<1> HIDE DEF scopes, al
<1>6. /\ open' \in BOOLEAN
      /\ grantAliases' \in [Grants -> Grants \cup {None}]
      /\ \A a \in Grants : grantAliases'[a] \in {al[a], None}
      /\ \A o \in Unfinished' : home'[o] = session' => grantAliases' = al
  BY <1>4, ReapFacts
<1>7. LedgerInv'
  <2>1. LedgerTypes'
    BY <1>0, <1>4, <1>6 DEF IInv, LedgerInv, LedgerTypes
  <2>2. \A a \in Grants : al[a] # None => a \in issued
    BY <1>0, <1>5 DEF IInv, LedgerInv, LedgerAgrees
  <2>3. LedgerAgrees'
    BY <1>0, <1>4, <1>6, <2>2 DEF IInv, LedgerInv, LedgerAgrees
  <2> QED BY <2>1, <2>3 DEF LedgerInv
<1>8. OpTypes'
  BY <1>0, <1>3, CancelFacts DEF IInv
<1>9. PickTypes' /\ DropTypes'
  BY <1>0 DEF IInv, PickTypes, DropTypes, pickVars, dropVars
<1>10. NoOrphanOperation'
  <2> SUFFICES ASSUME NEW o \in (Unfinished \ aborted)'
               PROVE  (/\ home[o] = session
                       /\ o \in operations[scope[o]]
                       /\ scope[o] \in Handles => scope[o] \in handles
                       /\ scope[o] \in Grants =>
                             currentGrantFor(scope[o]) \in {current} \cup revokedGrants)'
    BY DEF NoOrphanOperation
  <2>1. /\ o \in Unfinished \ aborted
        /\ scope[o] \in Scopes \ scopes
        /\ home'[o] = session
        /\ o \in operations'[scope'[o]]
        /\ scope'[o] \in Handles => scope'[o] \in handles'
        /\ scope[o] \in Grants => currentGrantFor(scope[o]) \in {current} \cup revokedGrants
    BY <1>0, <1>3, Survivors DEF IInv
  <2>2. scope' = scope /\ session' = session
    BY <1>0
  <2>3. o \in Unfinished' /\ grantAliases' = al
    BY <1>6, <2>1, <2>2
  <2>4. ASSUME scope[o] \in Grants
        PROVE  currentGrantFor(scope[o])' \in {current'} \cup revokedGrants'
    <3>1. currentGrantFor(scope[o])' = IF al[scope[o]] = None THEN scope[o] ELSE al[scope[o]]
      BY <2>2, <2>3 DEF currentGrantFor
    <3>2. currentGrantFor(scope[o]) =
             IF grantAliases[scope[o]] = None THEN scope[o] ELSE grantAliases[scope[o]]
      BY DEF currentGrantFor
    <3>3. CASE coversAll
      <4>1. CASE scope[o] = current \/ grantAliases[scope[o]] = current
        <5>1. al[scope[o]] = g /\ g # None
          BY <1>5, <2>4, <3>3, <4>1
        <5> QED BY <1>0, <3>1, <5>1
      <4>2. CASE ~(scope[o] = current \/ grantAliases[scope[o]] = current)
        <5>1. al[scope[o]] = grantAliases[scope[o]]
          BY <1>5, <2>4, <3>3, <4>2
        <5>2. currentGrantFor(scope[o]) # current
          BY <3>2, <4>2
        <5> QED BY <1>4, <2>1, <2>4, <3>1, <3>2, <3>3, <5>1, <5>2
      <4> QED BY <4>1, <4>2
    <3>4. CASE ~coversAll
      <4>1. al[scope[o]] = grantAliases[scope[o]]
        BY <1>5, <2>4, <3>4
      <4> QED BY <1>4, <2>1, <2>4, <3>1, <3>2, <3>4, <4>1
    <3> QED BY <3>3, <3>4
  <2> QED BY <2>1, <2>2, <2>4
<1>11. SessionEndIsTotal'
  <2>1. Unfinished' = Unfinished /\ aborted \subseteq aborted'
    BY <1>0, <1>3, CancelFacts DEF IInv, Unfinished
  <2> QED BY <1>0, <1>3, <2>1 DEF IInv, SessionEndIsTotal
<1>12. DropsAgree'
  BY <1>0 DEF IInv, DropsAgree, dropVars
<1>13. ScopesAgree'
  BY <1>0, <1>1 DEF IInv, ScopesAgree, HandleInv, HandleTypes, pickVars
<1>14. FolderPickGoverns'
  BY <1>0, <1>1, <1>3 DEF IInv, FolderPickGoverns, HandleInv, HandleTypes, pickVars
<1> QED
  BY <1>1, <1>7, <1>8, <1>9, <1>10, <1>11, <1>12, <1>13, <1>14 DEF IInv

LEMMA RevokePreserves ==
    ASSUME IInv, NEW g \in Grants, Revoke(g)
    PROVE  IInv'
<1> USE HandleTableAssumption
<1> DEFINE withdrawn == {g} \cup aliasesOf(g)
           roots == UNION {filed[a] : a \in withdrawn}
           doomed == Tree(roots)
<1>0. /\ g \in issued
      /\ current' = IF current = g THEN None ELSE current
      /\ UNCHANGED <<issued, session, dropping, frame, scope, home, pickVars, dropVars>>
      /\ revokedGrants' = revokedGrants \cup withdrawn
      /\ grantAliases' = [a \in Grants |-> IF a \in aliasesOf(g) THEN None ELSE grantAliases[a]]
      /\ open' = TRUE
      /\ cancelOperations(withdrawn \cup doomed)
      /\ closeTree(doomed)
      /\ filed' = unfile(doomed)
      /\ UNCHANGED auth
  BY DEF Revoke, revokeCascade
<1>1. /\ withdrawn \in SUBSET Grants /\ withdrawn \subseteq issued /\ g \in withdrawn
      /\ \A a \in Grants : grantAliases[a] = g => a \in withdrawn
      /\ \A a \in withdrawn : a # g => grantAliases[a] = g
      /\ \A a \in Grants : grantAliases'[a] = IF grantAliases[a] = g THEN None ELSE grantAliases[a]
      /\ grantAliases' \in [Grants -> Grants \cup {None}]
  BY <1>0 DEF aliasesOf, IInv, LedgerInv, LedgerAgrees, LedgerTypes
<1>2. roots \in SUBSET handles /\ \A h \in handles : auth[h] \in withdrawn => h \in roots
  <2>1. withdrawn \in SUBSET Authorities
    BY <1>1 DEF Authorities
  <2> HIDE DEF withdrawn
  <2> QED BY <2>1, FiledAreLive DEF IInv
<1>3. /\ doomed \in SUBSET handles /\ roots \subseteq doomed
      /\ \A x \in handles : parent[x] \in doomed => x \in doomed
  <2> HIDE DEF roots
  <2> QED BY <1>2, TreeIsClosed DEF IInv
<1> HIDE DEF doomed, roots, withdrawn
<1>4. HandleInv' /\ handles' = handles \ doomed /\ used' = used
  BY <1>0, <1>3, ClosePreserves DEF IInv, closeTree
<1>5. withdrawn \cup doomed \in SUBSET Scopes
  BY <1>1, <1>3 DEF Scopes, IInv, HandleInv, HandleTypes
<1>6. current \in Grants /\ current # g => current \notin withdrawn /\ current' = current
  BY <1>0, <1>1 DEF IInv, LedgerInv, LedgerAgrees
<1>7. LedgerInv'
  <2>1. LedgerTypes'
    BY <1>0, <1>1 DEF IInv, LedgerInv, LedgerTypes
  <2>2. LedgerAgrees'
    BY <1>0, <1>1, <1>6 DEF IInv, LedgerInv, LedgerAgrees, LedgerTypes
  <2> QED BY <2>1, <2>2 DEF LedgerInv
<1>8. OpTypes'
  BY <1>0, <1>5, CancelFacts DEF IInv
<1>9. PickTypes' /\ DropTypes'
  BY <1>0 DEF IInv, PickTypes, DropTypes, pickVars, dropVars
<1>10. LiveUnderCurrentGrant'
  BY <1>0, <1>1, <1>2, <1>3, <1>4 DEF IInv, LiveUnderCurrentGrant, LedgerInv, LedgerTypes
<1>11. NoOrphanOperation'
  <2> SUFFICES ASSUME NEW o \in (Unfinished \ aborted)'
               PROVE  (/\ home[o] = session
                       /\ o \in operations[scope[o]]
                       /\ scope[o] \in Handles => scope[o] \in handles
                       /\ scope[o] \in Grants =>
                             currentGrantFor(scope[o]) \in {current} \cup revokedGrants)'
    BY DEF NoOrphanOperation
  <2>1. /\ scope[o] \in Scopes \ (withdrawn \cup doomed)
        /\ home'[o] = session
        /\ o \in operations'[scope'[o]]
        /\ scope'[o] \in Handles => scope'[o] \in handles'
        /\ scope[o] \in Grants => currentGrantFor(scope[o]) \in {current} \cup revokedGrants
    BY <1>0, <1>4, <1>5, Survivors DEF IInv
  <2>2. scope' = scope /\ session' = session
    BY <1>0
  <2>3. ASSUME scope[o] \in Grants
        PROVE  currentGrantFor(scope[o])' \in {current'} \cup revokedGrants'
    <3>1. grantAliases'[scope[o]] = grantAliases[scope[o]] /\ grantAliases[scope[o]] # g
      BY <1>1, <2>1, <2>3
    <3>2. currentGrantFor(scope[o])' = currentGrantFor(scope[o])
      BY <2>2, <3>1 DEF currentGrantFor
    <3>3. currentGrantFor(scope[o]) # g
      BY <1>1, <2>1, <2>3, <3>1 DEF currentGrantFor
    <3> QED BY <1>0, <2>1, <2>3, <3>2, <3>3
  <2> QED BY <2>1, <2>2, <2>3
<1>12. SessionEndIsTotal'
  <2>1. Unfinished' = Unfinished /\ aborted \subseteq aborted'
    BY <1>0, <1>5, CancelFacts DEF IInv, Unfinished
  <2> QED BY <1>0, <1>4, <2>1 DEF IInv, SessionEndIsTotal
<1>13. DropsAgree'
  BY <1>0 DEF IInv, DropsAgree, dropVars
<1>14. ScopesAgree' /\ FolderPickGoverns'
  BY <1>0, <1>4 DEF IInv, ScopesAgree, FolderPickGoverns, pickVars
<1> QED
  BY <1>4, <1>7, <1>8, <1>9, <1>10, <1>11, <1>12, <1>13, <1>14 DEF IInv


-----------------------------------------------------------------------------
(* HandleTable.run and the work under it *)

\* What Register does to the calls.
LEMMA RegisterPreserves ==
    ASSUME OpTypes, ScopesAgree, NoOrphanOperation, LedgerInv,
           NEW o \in Ops, NEW s \in Scopes, NEW f, Register(o, s, f),
           s \in Handles => s \in handles,
           s \in Grants => s = current,
           UNCHANGED <<ledgerVars, session, revokedGrants, grantAliases, handles, auth, used,
                       folder>>
    PROVE  OpTypes' /\ ScopesAgree' /\ NoOrphanOperation'
           /\ \A x \in Ops : frame'[x] # frame[x] => x = o
<1> USE HandleTableAssumption
<1>1. /\ operations \in [Scopes -> SUBSET Ops]
      /\ frame \in [Ops -> {"idle", "waiting", "running", "landed", "over"}]
      /\ scope \in [Ops -> Scopes \cup {None}]
      /\ home \in [Ops -> 0 .. MaxSessions]
      /\ session \in 0 .. MaxSessions
  BY DEF OpTypes, LedgerInv, LedgerTypes
<1>2. /\ frame[o] = "idle" /\ frame'[o] = f /\ f \in {"waiting", "running"}
      /\ scope'[o] = s /\ home'[o] = session /\ o \in operations'[s]
      /\ \A x \in Ops \ {o} : frame'[x] = frame[x] /\ scope'[x] = scope[x] /\ home'[x] = home[x]
      /\ \A t \in Scopes : operations[t] \subseteq operations'[t]
      /\ aborted' = aborted
  BY <1>1 DEF Register
<1>3. OpTypes'
  BY <1>1 DEF OpTypes, Register
<1>4. ScopesAgree'
  BY <1>2 DEF ScopesAgree
<1>5. NoOrphanOperation'
  <2> SUFFICES ASSUME NEW x \in (Unfinished \ aborted)'
               PROVE  (/\ home[x] = session
                       /\ x \in operations[scope[x]]
                       /\ scope[x] \in Handles => scope[x] \in handles
                       /\ scope[x] \in Grants =>
                             currentGrantFor(scope[x]) \in {current} \cup revokedGrants)'
    BY DEF NoOrphanOperation
  <2>1. x \in Ops
    BY DEF Unfinished
  <2>2. CASE x = o
    <3>1. s \in Grants => currentGrantFor(scope[x])' = current
      BY <1>2, <2>2 DEF currentGrantFor, LedgerInv, LedgerAgrees
    <3> QED BY <1>2, <2>2, <3>1 DEF ledgerVars
  <2>3. CASE x # o
    <3>1. x \in Unfinished \ aborted /\ scope'[x] = scope[x]
      BY <1>2, <2>1, <2>3 DEF Unfinished
    <3>2. frame[x] # "idle" /\ scope[x] \in Scopes
      BY <3>1 DEF Unfinished, ScopesAgree
    <3>3. currentGrantFor(scope[x])' = currentGrantFor(scope[x])
      BY <3>1 DEF currentGrantFor
    <3> QED BY <1>2, <2>1, <2>3, <3>1, <3>2, <3>3 DEF NoOrphanOperation, ledgerVars
  <2> QED BY <2>2, <2>3
<1> QED BY <1>2, <1>3, <1>4, <1>5

LEMMA RunPreserves ==
    ASSUME IInv, NEW o \in Ops, NEW f,
           RunForGrant(o, f) \/ \E h \in Handles : RunForHandle(o, h, f)
    PROVE  IInv'
<1> USE HandleTableAssumption
<1>1. PICK s \in Scopes :
         /\ Register(o, s, f)
         /\ s \in Handles => s \in handles
         /\ s \in Grants => s = current
  <2>1. CASE RunForGrant(o, f)
    <3>1. current \in Grants
      BY <2>1 DEF RunForGrant, IInv, LedgerInv, LedgerTypes
    <3> QED BY <2>1, <3>1 DEF RunForGrant, Scopes
  <2>2. CASE \E h \in Handles : RunForHandle(o, h, f)
    BY <2>2 DEF RunForHandle, Scopes
  <2> QED BY <2>1, <2>2
<1>2. /\ UNCHANGED <<ledgerVars, session, dropping, revokedGrants, grantAliases,
                     handleVars, pickVars, dropVars>>
      /\ open' \in {open, TRUE}
  BY DEF RunForGrant, RunForHandle, tableVars
<1>3. ~dropping
  <2>1. CASE RunForGrant(o, f)
    BY <2>1 DEF RunForGrant
  <2>2. CASE \E h \in Handles : RunForHandle(o, h, f)
    BY <2>2 DEF RunForHandle, IInv, SessionEndIsTotal
  <2> QED BY <2>1, <2>2
<1>4. OpTypes' /\ ScopesAgree' /\ NoOrphanOperation'
  BY <1>1, <1>2, RegisterPreserves DEF IInv, handleVars, pickVars
<1>5. LedgerInv'
  BY <1>2 DEF IInv, LedgerInv, LedgerTypes, LedgerAgrees, ledgerVars
<1>6. HandleInv'
  BY <1>2, HandlesUntouched DEF IInv
<1>7. PickTypes' /\ DropTypes' /\ FolderPickGoverns' /\ LiveUnderCurrentGrant'
  BY <1>2 DEF IInv, PickTypes, DropTypes, FolderPickGoverns, LiveUnderCurrentGrant,
              pickVars, dropVars, handleVars, ledgerVars
<1>8. SessionEndIsTotal' /\ DropsAgree'
  BY <1>2, <1>3 DEF IInv, SessionEndIsTotal, DropsAgree, dropVars
<1> QED BY <1>4, <1>5, <1>6, <1>7, <1>8 DEF IInv

\* A call that only moves on inside run, or is withdrawn by its own app.
LEMMA SlotFreedOrAbandonedPreserves ==
    ASSUME IInv, NEW o \in Ops, SlotFreed(o) \/ Abandon(o)
    PROVE  IInv'
<1>1. /\ UNCHANGED <<ledgerVars, tableVars, handleVars, operations, scope, home, pickVars, dropVars>>
      /\ aborted \subseteq aborted' /\ aborted' \subseteq Ops
      /\ frame' \in [Ops -> {"idle", "waiting", "running", "landed", "over"}]
      /\ Unfinished' = Unfinished
      /\ \A x \in Ops : frame'[x] # "idle" => frame[x] # "idle"
  <2>1. CASE SlotFreed(o)
    <3>1. /\ frame \in [Ops -> {"idle", "waiting", "running", "landed", "over"}]
          /\ aborted \subseteq Ops
      BY DEF IInv, OpTypes
    <3> QED BY <2>1, <3>1 DEF SlotFreed, Unfinished
  <2>2. CASE Abandon(o)
    BY <2>2 DEF Abandon, Unfinished, IInv, OpTypes
  <2> QED BY <2>1, <2>2
<1>2. LedgerInv' /\ HandleInv'
  BY <1>1, LedgerUntouched, HandlesUntouched DEF IInv
<1>3. OpTypes' /\ PickTypes' /\ DropTypes'
  BY <1>1 DEF IInv, OpTypes, PickTypes, DropTypes, pickVars, dropVars
<1>4. LiveUnderCurrentGrant' /\ FolderPickGoverns' /\ DropsAgree'
  BY <1>1 DEF IInv, LiveUnderCurrentGrant, FolderPickGoverns, DropsAgree,
              ledgerVars, tableVars, handleVars, pickVars, dropVars
<1>5. ScopesAgree' /\ SessionEndIsTotal'
  BY <1>1 DEF IInv, ScopesAgree, SessionEndIsTotal, tableVars, handleVars, pickVars
<1>6. NoOrphanOperation'
  BY <1>1 DEF IInv, NoOrphanOperation, currentGrantFor, ledgerVars, tableVars, handleVars
<1> QED BY <1>2, <1>3, <1>4, <1>5, <1>6 DEF IInv

\* Nothing but one insertion happens, apart from the frame of a call that stays
\* inside run: the parts of the invariant that do not speak of picks hold on.
LEMMA InsertionPreserves ==
    ASSUME IInv, NEW h, NEW a \in Authorities, NEW p \in handles \cup {None},
           insert(h, a, p), assertAcquirable(a),
           a \in Grants => filedUnder(a) = current,
           p # None => parent[p] = None /\ auth[p] = filedUnder(a),
           UNCHANGED <<ledgerVars, session, dropping, revokedGrants, grantAliases,
                       operations, scope, home, aborted, dropVars>>,
           frame' \in [Ops -> {"idle", "waiting", "running", "landed", "over"}],
           Unfinished' = Unfinished, \A x \in Ops : frame'[x] # "idle" => frame[x] # "idle"
    PROVE  /\ LedgerInv' /\ HandleInv' /\ OpTypes' /\ DropTypes'
           /\ LiveUnderCurrentGrant' /\ NoOrphanOperation' /\ SessionEndIsTotal' /\ DropsAgree'
           /\ \A o \in Ops : frame'[o] # "idle" => scope'[o] \in Scopes
<1> USE HandleTableAssumption
<1>1. /\ handles' = handles \cup {h}
      /\ HandleInv' /\ LiveUnderCurrentGrant'
  <2>1. UNCHANGED current
    BY DEF ledgerVars
  <2> QED BY <2>1, InsertPreserves DEF IInv, LedgerInv
<1>2. ~dropping
  BY DEF assertAcquirable
<1>3. LedgerInv'
  BY DEF IInv, LedgerInv, LedgerTypes, LedgerAgrees, ledgerVars, insert
<1>4. OpTypes' /\ DropTypes'
  BY DEF IInv, OpTypes, DropTypes, dropVars
<1>5. NoOrphanOperation'
  BY <1>1 DEF IInv, NoOrphanOperation, currentGrantFor, ledgerVars
<1>6. SessionEndIsTotal' /\ DropsAgree'
  BY <1>2 DEF IInv, SessionEndIsTotal, DropsAgree, dropVars
<1>7. \A o \in Ops : frame'[o] # "idle" => scope'[o] \in Scopes
  BY DEF IInv, ScopesAgree
<1> QED BY <1>1, <1>3, <1>4, <1>5, <1>6, <1>7

LEMMA LandPreserves ==
    ASSUME IInv, NEW o \in Ops, NEW h \in Handles, Land(o, h)
    PROVE  IInv'
<1> USE HandleTableAssumption
<1> DEFINE a == IF scope[o] \in Grants THEN scope[o] ELSE auth[scope[o]]
<1>0. /\ frame[o] = "running" /\ o \notin aborted
      /\ scope[o] \in Grants \/ \E p \in DirPicks : folder[p] = scope[o]
      /\ assertAcquirable(a) /\ insert(h, a, None)
      /\ frame' = [frame EXCEPT ![o] = "landed"]
      /\ UNCHANGED <<ledgerVars, session, dropping, revokedGrants, grantAliases,
                     operations, scope, home, aborted, pickVars, dropVars>>
  BY DEF Land
<1>1. o \in Unfinished \ aborted /\ scope[o] \in Scopes
  BY <1>0 DEF Unfinished, IInv, ScopesAgree
<1>2. scope[o] \in Grants => a = scope[o] /\ filedUnder(a) = current
  BY <1>0, <1>1 DEF IInv, NoOrphanOperation, assertAcquirable, filedUnder
<1>3. scope[o] \notin Grants =>
         /\ scope[o] \in handles /\ a \in DirPicks /\ filedUnder(a) = a
         /\ picks[a] = "recorded"
  <2> SUFFICES ASSUME scope[o] \notin Grants
               PROVE  /\ scope[o] \in handles /\ a \in DirPicks /\ filedUnder(a) = a
                      /\ picks[a] = "recorded"
    OBVIOUS
  <2>1. scope[o] \in handles
    BY <1>1 DEF IInv, NoOrphanOperation, Scopes
  <2>2. PICK p \in DirPicks : folder[p] = scope[o]
    BY <1>0
  <2>3. a = p
    BY <1>1, <2>2 DEF IInv, ScopesAgree, Scopes
  <2>4. picks[a] = "recorded"
    BY <2>1, <2>2, <2>3 DEF IInv, FolderPickGoverns
  <2> QED BY <2>1, <2>3, <2>4 DEF filedUnder, Picks
<1>4. a \in Authorities /\ (a \in Grants => filedUnder(a) = current)
  BY <1>2, <1>3 DEF Authorities, Picks
<1>5. /\ frame' \in [Ops -> {"idle", "waiting", "running", "landed", "over"}]
      /\ Unfinished' = Unfinished /\ \A x \in Ops : frame'[x] # "idle" => frame[x] # "idle"
  <2>1. frame \in [Ops -> {"idle", "waiting", "running", "landed", "over"}]
    BY DEF IInv, OpTypes
  <2> QED BY <1>0, <2>1 DEF Unfinished
<1>6. /\ h \in Handles \ used /\ handles' = handles \cup {h} /\ used' = used \cup {h}
      /\ auth'[h] = filedUnder(a)
      /\ \A x \in used : auth'[x] = auth[x]
  <2>1. UNCHANGED current
    BY <1>0 DEF ledgerVars
  <2> HIDE DEF a
  <2> QED BY <1>0, <1>4, <2>1, InsertPreserves DEF IInv, LedgerInv
<1>7. /\ LedgerInv' /\ HandleInv' /\ OpTypes' /\ DropTypes'
      /\ LiveUnderCurrentGrant' /\ NoOrphanOperation' /\ SessionEndIsTotal' /\ DropsAgree'
      /\ \A x \in Ops : frame'[x] # "idle" => scope'[x] \in Scopes
  <2> HIDE DEF a
  <2> QED BY <1>0, <1>4, <1>5, InsertionPreserves
<1>8. PickTypes' /\ ScopesAgree'
  BY <1>0, <1>6, <1>7 DEF IInv, PickTypes, ScopesAgree, pickVars
<1>9. FolderPickGoverns'
  <2>1. auth'[h] \in DirPicks => picks[auth'[h]] = "recorded"
    BY <1>2, <1>3, <1>6 DEF Picks, IInv, LedgerInv, LedgerTypes
  <2>2. \A x \in handles : auth'[x] = auth[x]
    BY <1>6 DEF IInv, HandleInv, HandleTypes
  <2> QED BY <1>0, <1>6, <2>1, <2>2 DEF IInv, FolderPickGoverns, pickVars
<1> QED BY <1>7, <1>8, <1>9 DEF IInv

LEMMA ReturnPreserves ==
    ASSUME IInv, NEW o \in Ops, Return(o)
    PROVE  IInv'
<1> USE HandleTableAssumption
<1>0. /\ o \in Unfinished
      /\ frame' = [frame EXCEPT ![o] = "over"]
      /\ operations' = [operations EXCEPT ![scope[o]] = @ \ {o}]
      /\ UNCHANGED <<ledgerVars, session, dropping, revokedGrants, handleVars, scope, home,
                     aborted, pickVars, dropVars>>
      /\ reap(grantAliases) \/ UNCHANGED <<open, grantAliases>>
  BY DEF Return
<1>1. /\ operations \in [Scopes -> SUBSET Ops]
      /\ frame \in [Ops -> {"idle", "waiting", "running", "landed", "over"}]
      /\ grantAliases \in [Grants -> Grants \cup {None}]
  BY DEF IInv, OpTypes, LedgerInv, LedgerTypes
<1>2. /\ Unfinished' = Unfinished \ {o}
      /\ \A x \in Ops : frame'[x] # "idle" => frame[x] # "idle"
  BY <1>0, <1>1 DEF Unfinished
<1>3. \A s \in Scopes : operations'[s] \in SUBSET Ops /\ operations[s] \ {o} \subseteq operations'[s]
  BY <1>0, <1>1
<1>4. OpTypes'
  BY <1>0, <1>1 DEF IInv, OpTypes
<1>5. LedgerInv'
  <2>1. CASE reap(grantAliases)
    BY <1>0, <2>1, LedgerReaped DEF IInv
  <2>2. CASE UNCHANGED <<open, grantAliases>>
    BY <1>0, <2>2, LedgerUntouched DEF IInv, tableVars
  <2> QED BY <1>0, <2>1, <2>2
<1>6. HandleInv'
  BY <1>0, HandlesUntouched DEF IInv
<1>7. /\ PickTypes' /\ DropTypes' /\ LiveUnderCurrentGrant' /\ FolderPickGoverns' /\ DropsAgree'
      /\ ScopesAgree'
  BY <1>0, <1>2 DEF IInv, PickTypes, DropTypes, LiveUnderCurrentGrant, FolderPickGoverns, DropsAgree,
              ScopesAgree, ledgerVars, handleVars, pickVars, dropVars
<1>8. SessionEndIsTotal'
  BY <1>0, <1>2 DEF IInv, SessionEndIsTotal, handleVars
<1>9. NoOrphanOperation'
  <2> SUFFICES ASSUME NEW x \in (Unfinished \ aborted)'
               PROVE  (/\ home[x] = session
                       /\ x \in operations[scope[x]]
                       /\ scope[x] \in Handles => scope[x] \in handles
                       /\ scope[x] \in Grants =>
                             currentGrantFor(scope[x]) \in {current} \cup revokedGrants)'
    BY DEF NoOrphanOperation
  <2>1. x \in Unfinished \ aborted /\ x # o /\ scope'[x] = scope[x] /\ x \in Unfinished'
    BY <1>0, <1>2
  <2>2. scope[x] \in Scopes /\ x \in Ops
    BY <2>1 DEF IInv, ScopesAgree, Unfinished
  <2>3. /\ home[x] = session /\ x \in operations[scope[x]]
        /\ scope[x] \in Handles => scope[x] \in handles
        /\ scope[x] \in Grants => currentGrantFor(scope[x]) \in {current} \cup revokedGrants
    BY <2>1 DEF IInv, NoOrphanOperation
  <2>4. grantAliases' = grantAliases
    <3>1. home'[x] = session'
      BY <1>0, <2>3
    <3> QED BY <1>0, <1>1, <2>1, <3>1, ReapFacts
  <2>5. currentGrantFor(scope[x])' = currentGrantFor(scope[x])
    BY <2>1, <2>4 DEF currentGrantFor
  <2> QED BY <1>0, <1>3, <2>1, <2>2, <2>3, <2>5 DEF ledgerVars, handleVars
<1> QED BY <1>4, <1>5, <1>6, <1>7, <1>8, <1>9 DEF IInv


-----------------------------------------------------------------------------
(* Handles coming from handles, and ending on their own *)

LEMMA AcceptPreserves ==
    ASSUME IInv, NEW p \in Handles, NEW h \in Handles, Accept(p, h)
    PROVE  IInv'
<1> USE HandleTableAssumption
<1>0. /\ p \in handles /\ auth[p] \in Grants /\ parent[p] = None
      /\ assertAcquirable(auth[p]) /\ insert(h, auth[p], p)
      /\ UNCHANGED <<ledgerVars, session, dropping, revokedGrants, grantAliases,
                     opVars, pickVars, dropVars>>
  BY DEF Accept
<1>1. /\ auth[p] = current /\ filedUnder(auth[p]) = current /\ auth[p] \in Authorities
      /\ current \in Grants
  BY <1>0 DEF IInv, LiveUnderCurrentGrant, LedgerInv, LedgerAgrees, filedUnder,
              currentGrantFor, Authorities
<1>2. /\ h \in Handles \ used /\ handles' = handles \cup {h} /\ used' = used \cup {h}
      /\ auth'[h] = filedUnder(auth[p])
      /\ \A x \in used : auth'[x] = auth[x]
  <2>1. UNCHANGED current
    BY <1>0 DEF ledgerVars
  <2> QED BY <1>0, <1>1, <2>1, InsertPreserves DEF IInv, LedgerInv
<1>3. /\ LedgerInv' /\ HandleInv' /\ OpTypes' /\ DropTypes'
      /\ LiveUnderCurrentGrant' /\ NoOrphanOperation' /\ SessionEndIsTotal' /\ DropsAgree'
      /\ \A x \in Ops : frame'[x] # "idle" => scope'[x] \in Scopes
  <2>1. /\ frame' \in [Ops -> {"idle", "waiting", "running", "landed", "over"}]
        /\ Unfinished' = Unfinished /\ \A x \in Ops : frame'[x] # "idle" => frame[x] # "idle"
        /\ UNCHANGED <<operations, scope, home, aborted>>
    BY <1>0 DEF IInv, OpTypes, opVars, Unfinished
  <2> QED BY <1>0, <1>1, <2>1, InsertionPreserves
<1>4. PickTypes' /\ ScopesAgree'
  BY <1>0, <1>2, <1>3 DEF IInv, PickTypes, ScopesAgree, pickVars
<1>5. FolderPickGoverns'
  <2>1. auth'[h] \notin DirPicks
    BY <1>1, <1>2 DEF Picks
  <2>2. \A x \in handles : auth'[x] = auth[x]
    BY <1>2 DEF IInv, HandleInv, HandleTypes
  <2> QED BY <1>0, <1>2, <2>1, <2>2 DEF IInv, FolderPickGoverns, pickVars
<1> QED BY <1>3, <1>4, <1>5 DEF IInv

\* Closing some trees and cancelling the calls on their handles.
LEMMA ClosingPreserves ==
    ASSUME IInv, NEW roots \in SUBSET handles,
           closeTree(Tree(roots)), filed' = unfile(Tree(roots)), cancelOperations(Tree(roots)),
           UNCHANGED <<ledgerVars, session, dropping, revokedGrants, auth, frame, scope, home,
                       folder, opening, dropVars>>,
           reap(grantAliases) \/ UNCHANGED <<open, grantAliases>>
    PROVE  /\ handles' = handles \ Tree(roots) /\ roots \subseteq Tree(roots)
           /\ LedgerInv' /\ HandleInv' /\ OpTypes' /\ DropTypes'
           /\ LiveUnderCurrentGrant' /\ NoOrphanOperation' /\ SessionEndIsTotal' /\ DropsAgree'
           /\ ScopesAgree'
<1> USE HandleTableAssumption
<1> DEFINE doomed == Tree(roots)
<1>1. /\ doomed \in SUBSET handles /\ roots \subseteq doomed
      /\ \A x \in handles : parent[x] \in doomed => x \in doomed
  BY TreeIsClosed DEF IInv
<1>2. /\ closeTree(doomed) /\ filed' = unfile(doomed) /\ cancelOperations(doomed)
      /\ UNCHANGED auth
  OBVIOUS
<1> HIDE DEF doomed
<1>3. HandleInv' /\ handles' = handles \ doomed /\ used' = used
  BY <1>1, <1>2, ClosePreserves DEF IInv, closeTree
<1>4. doomed \in SUBSET Scopes
  BY <1>1 DEF Scopes, IInv, HandleInv, HandleTypes
<1>5. OpTypes' /\ aborted \subseteq aborted'
  BY <1>2, <1>4, CancelFacts DEF IInv
<1>6. LedgerInv'
  <2>1. CASE reap(grantAliases)
    BY <2>1, LedgerReaped DEF IInv
  <2>2. CASE UNCHANGED <<open, grantAliases>>
    BY <2>2, LedgerUntouched DEF IInv, tableVars
  <2> QED BY <2>1, <2>2
<1>7. DropTypes' /\ LiveUnderCurrentGrant' /\ DropsAgree' /\ ScopesAgree'
  BY <1>3 DEF IInv, DropTypes, LiveUnderCurrentGrant, DropsAgree, ScopesAgree, ledgerVars, dropVars
<1>8. SessionEndIsTotal'
  BY <1>3, <1>5 DEF IInv, SessionEndIsTotal, Unfinished
<1>9. NoOrphanOperation'
  <2> SUFFICES ASSUME NEW o \in (Unfinished \ aborted)'
               PROVE  (/\ home[o] = session
                       /\ o \in operations[scope[o]]
                       /\ scope[o] \in Handles => scope[o] \in handles
                       /\ scope[o] \in Grants =>
                             currentGrantFor(scope[o]) \in {current} \cup revokedGrants)'
    BY DEF NoOrphanOperation
  <2>1. /\ scope[o] \in Scopes \ doomed
        /\ home'[o] = session
        /\ o \in operations'[scope'[o]]
        /\ scope'[o] \in Handles => scope'[o] \in handles'
        /\ scope[o] \in Grants => currentGrantFor(scope[o]) \in {current} \cup revokedGrants
    BY <1>2, <1>3, <1>4, Survivors DEF IInv
  <2>2. grantAliases' = grantAliases
    <3>1. home'[o] = session' /\ o \in Unfinished'
      BY <2>1
    <3>2. grantAliases \in [Grants -> Grants \cup {None}]
      BY DEF IInv, LedgerInv, LedgerTypes
    <3> QED BY <3>1, <3>2, ReapFacts
  <2>3. currentGrantFor(scope[o])' = currentGrantFor(scope[o])
    BY <2>2 DEF currentGrantFor
  <2> QED BY <2>1, <2>3 DEF ledgerVars
<1> QED BY <1>1, <1>3, <1>5, <1>6, <1>7, <1>8, <1>9 DEF doomed

LEMMA ClosePreservesIInv ==
    ASSUME IInv, NEW h \in Handles, Close(h)
    PROVE  IInv'
<1>1. /\ {h} \in SUBSET handles
      /\ closeTree(Tree({h})) /\ filed' = unfile(Tree({h})) /\ cancelOperations(Tree({h}))
      /\ UNCHANGED <<ledgerVars, session, dropping, revokedGrants, auth, frame, scope, home,
                     folder, opening, dropVars>>
      /\ UNCHANGED <<open, grantAliases>>
      /\ UNCHANGED pickVars
  BY DEF Close, tableVars, pickVars
<1>2. /\ handles' = handles \ Tree({h})
      /\ LedgerInv' /\ HandleInv' /\ OpTypes' /\ DropTypes'
      /\ LiveUnderCurrentGrant' /\ NoOrphanOperation' /\ SessionEndIsTotal' /\ DropsAgree'
      /\ ScopesAgree'
  BY <1>1, ClosingPreserves
<1>3. PickTypes' /\ FolderPickGoverns'
  BY <1>1, <1>2 DEF IInv, PickTypes, FolderPickGoverns, pickVars
<1> QED BY <1>2, <1>3 DEF IInv

LEMMA TeardownPreserves ==
    ASSUME IInv, NEW h \in Handles, TeardownSettles(h)
    PROVE  IInv'
<1>0. /\ teardown' = teardown \ {h}
      /\ UNCHANGED <<ledgerVars, tableVars, handles, auth, parent, children, filed,
                     recentlyClosed, used, opVars, pickVars, dropVars>>
  BY DEF TeardownSettles
<1>1. LedgerInv'
  BY <1>0, LedgerUntouched DEF IInv
<1>2. HandleInv'
  BY <1>0 DEF IInv, HandleInv, HandleTypes, IndexesAgree, TreeAgrees, HandlesAgree
<1>3. OpTypes' /\ PickTypes' /\ DropTypes'
  BY <1>0 DEF IInv, OpTypes, PickTypes, DropTypes, opVars, pickVars, dropVars
<1>4. LiveUnderCurrentGrant' /\ FolderPickGoverns' /\ DropsAgree' /\ ScopesAgree' /\ SessionEndIsTotal'
  BY <1>0 DEF IInv, LiveUnderCurrentGrant, FolderPickGoverns, DropsAgree, ScopesAgree,
              SessionEndIsTotal, Unfinished, ledgerVars, tableVars, opVars, pickVars, dropVars
<1>5. NoOrphanOperation'
  BY <1>0, CallsUntouched DEF IInv, tableVars
<1> QED BY <1>1, <1>2, <1>3, <1>4, <1>5 DEF IInv

-----------------------------------------------------------------------------
(* The picker *)

\* A pick whose handle does not exist yet is recorded, opened in vain or still
\* being opened: no handle and no call is concerned.
LEMMA PickBookkeepingPreserves ==
    ASSUME IInv, NEW p \in Picks,
           PickFile(p) \/ PickFileFailed(p) \/ PickDirectoryRefused(p)
    PROVE  IInv'
<1> USE HandleTableAssumption
<1>1. /\ UNCHANGED <<ledgerVars, tableVars, handleVars, opVars, dropVars, folder>>
      /\ PickTypes'
      /\ \A q \in DirPicks : picks[q] = "recorded" => picks'[q] = "recorded"
  <2>1. picks \in [Picks -> {"none", "recorded", "revoked"}] /\ opening \subseteq FilePicks
        /\ folder \in [DirPicks -> Handles \cup {None}]
    BY DEF IInv, PickTypes
  <2>2. CASE PickFile(p)
    BY <2>1, <2>2 DEF PickFile, PickTypes, Picks
  <2>3. CASE PickFileFailed(p)
    BY <2>1, <2>3 DEF PickFileFailed, PickTypes
  <2>4. CASE PickDirectoryRefused(p)
    BY <2>1, <2>4 DEF PickDirectoryRefused, PickTypes, Picks
  <2> QED BY <2>2, <2>3, <2>4
<1>2. LedgerInv' /\ HandleInv'
  BY <1>1, LedgerUntouched, HandlesUntouched DEF IInv
<1>3. OpTypes' /\ DropTypes'
  BY <1>1 DEF IInv, OpTypes, DropTypes, opVars, dropVars
<1>4. LiveUnderCurrentGrant' /\ FolderPickGoverns' /\ DropsAgree' /\ ScopesAgree' /\ SessionEndIsTotal'
  BY <1>1 DEF IInv, LiveUnderCurrentGrant, FolderPickGoverns, DropsAgree, ScopesAgree,
              SessionEndIsTotal, Unfinished, ledgerVars, tableVars, handleVars, opVars, dropVars
<1>5. NoOrphanOperation'
  BY <1>1, CallsUntouched DEF IInv, tableVars, handleVars
<1> QED BY <1>1, <1>2, <1>3, <1>4, <1>5 DEF IInv

LEMMA PickInsertsPreserves ==
    ASSUME IInv, NEW p \in Picks, NEW h \in Handles, PickFileOpened(p, h) \/ PickDirectory(p, h)
    PROVE  IInv'
<1> USE HandleTableAssumption
<1>0. /\ assertAcquirable(p) /\ insert(h, p, None)
      /\ UNCHANGED <<ledgerVars, session, dropping, revokedGrants, grantAliases, opVars, dropVars>>
  BY DEF PickFileOpened, PickDirectory
<1>1. p \in Authorities /\ p \notin Grants /\ filedUnder(p) = p
  BY DEF Authorities, filedUnder
<1>2. /\ h \in Handles \ used /\ handles' = handles \cup {h} /\ used' = used \cup {h}
      /\ auth'[h] = p
      /\ \A x \in used : auth'[x] = auth[x]
  <2>1. UNCHANGED current
    BY <1>0 DEF ledgerVars
  <2> QED BY <1>0, <1>1, <2>1, InsertPreserves DEF IInv, LedgerInv
<1>3. /\ LedgerInv' /\ HandleInv' /\ OpTypes' /\ DropTypes'
      /\ LiveUnderCurrentGrant' /\ NoOrphanOperation' /\ SessionEndIsTotal' /\ DropsAgree'
      /\ \A x \in Ops : frame'[x] # "idle" => scope'[x] \in Scopes
  <2>1. /\ frame' \in [Ops -> {"idle", "waiting", "running", "landed", "over"}]
        /\ Unfinished' = Unfinished /\ \A x \in Ops : frame'[x] # "idle" => frame[x] # "idle"
        /\ UNCHANGED <<operations, scope, home, aborted>>
    BY <1>0 DEF IInv, OpTypes, opVars, Unfinished
  <2> QED BY <1>0, <1>1, <2>1, InsertionPreserves
<1>4. /\ picks \in [Picks -> {"none", "recorded", "revoked"}] /\ opening \subseteq FilePicks
      /\ folder \in [DirPicks -> Handles \cup {None}]
      /\ \A x \in handles : auth'[x] = auth[x]
  BY <1>2 DEF IInv, PickTypes, HandleInv, HandleTypes
<1>5. CASE PickFileOpened(p, h)
  <2>1. UNCHANGED <<picks, folder>> /\ opening' = opening \ {p} /\ p \in FilePicks
    BY <1>4, <1>5 DEF PickFileOpened
  <2>2. PickTypes'
    BY <1>4, <2>1 DEF PickTypes
  <2>3. ScopesAgree'
    BY <1>2, <1>3, <2>1 DEF IInv, ScopesAgree
  <2>4. FolderPickGoverns'
    BY <1>2, <1>4, <2>1 DEF IInv, FolderPickGoverns
  <2> QED BY <1>3, <2>2, <2>3, <2>4 DEF IInv
<1>6. CASE PickDirectory(p, h)
  <2>1. /\ p \in DirPicks /\ picks' = [picks EXCEPT ![p] = "recorded"]
        /\ folder' = [folder EXCEPT ![p] = h] /\ opening' = opening
    BY <1>6 DEF PickDirectory
  <2>2. PickTypes'
    BY <1>4, <2>1 DEF PickTypes
  <2>3. /\ folder'[p] = h /\ \A q \in DirPicks \ {p} : folder'[q] = folder[q]
        /\ picks'[p] = "recorded" /\ \A q \in DirPicks \ {p} : picks'[q] = picks[q]
    BY <1>4, <2>1 DEF Picks
  <2>4. ScopesAgree'
    BY <1>2, <1>3, <2>3 DEF IInv, ScopesAgree
  <2>5. FolderPickGoverns'
    BY <1>2, <1>4, <2>3 DEF IInv, FolderPickGoverns
  <2> QED BY <1>3, <2>2, <2>4, <2>5 DEF IInv
<1> QED BY <1>5, <1>6

LEMMA RevokePickPreserves ==
    ASSUME IInv, NEW p \in Picks, RevokePick(p)
    PROVE  IInv'
<1> USE HandleTableAssumption
<1>0. /\ picks' = [picks EXCEPT ![p] = "revoked"]
      /\ closeTree(Tree(filed[p])) /\ filed' = unfile(Tree(filed[p]))
      /\ cancelOperations(Tree(filed[p]))
      /\ UNCHANGED <<ledgerVars, session, dropping, revokedGrants, auth, frame, scope, home,
                     folder, opening, dropVars>>
      /\ reap(grantAliases) \/ UNCHANGED <<open, grantAliases>>
  BY DEF RevokePick
<1>1. filed[p] = {x \in handles : auth[x] = p} /\ filed[p] \in SUBSET handles
  BY DEF IInv, HandleInv, IndexesAgree, Authorities
<1>2. /\ handles' = handles \ Tree(filed[p]) /\ filed[p] \subseteq Tree(filed[p])
      /\ LedgerInv' /\ HandleInv' /\ OpTypes' /\ DropTypes'
      /\ LiveUnderCurrentGrant' /\ NoOrphanOperation' /\ SessionEndIsTotal' /\ DropsAgree'
      /\ ScopesAgree'
  BY <1>0, <1>1, ClosingPreserves
<1>3. picks \in [Picks -> {"none", "recorded", "revoked"}]
  BY DEF IInv, PickTypes
<1>4. PickTypes'
  BY <1>0, <1>3 DEF IInv, PickTypes
<1>5. FolderPickGoverns'
  BY <1>0, <1>1, <1>2, <1>3 DEF IInv, FolderPickGoverns, Picks
<1> QED BY <1>2, <1>4, <1>5 DEF IInv

-----------------------------------------------------------------------------
(* The end of a session *)

LEMMA DropPreserves ==
    ASSUME IInv, NEW d \in Drops, Drop(d)
    PROVE  IInv'
<1> USE HandleTableAssumption
<1>0. /\ session < MaxSessions /\ dropping' = TRUE
      /\ cancelOperations(Grants \cup handles) /\ closeTree(handles) /\ filed' = unfile(handles)
      /\ dropPending' = dropPending \cup {d}
      /\ dropHome' = [dropHome EXCEPT ![d] = session]
      /\ dropWaits' = [dropWaits EXCEPT ![d] = handles]
      /\ UNCHANGED <<ledgerVars, open, session, revokedGrants, grantAliases, auth,
                     frame, scope, home, pickVars>>
  BY DEF Drop
<1>1. /\ handles \in SUBSET handles /\ handles \subseteq Handles
      /\ Grants \cup handles \in SUBSET Scopes /\ handles \subseteq Grants \cup handles
  BY DEF IInv, HandleInv, HandleTypes, Scopes
<1>2. HandleInv' /\ handles' = {} /\ used' = used
  <2>1. HandleInv' /\ handles' = handles \ handles
    BY <1>0, <1>1, ClosePreserves DEF IInv
  <2> QED BY <1>0, <2>1 DEF closeTree
<1>3. LedgerInv'
  BY <1>0 DEF IInv, LedgerInv, LedgerTypes, LedgerAgrees, ledgerVars
<1>4. OpTypes'
  BY <1>0, <1>1, CancelFacts DEF IInv
<1>5. PickTypes' /\ LiveUnderCurrentGrant' /\ FolderPickGoverns' /\ ScopesAgree'
  BY <1>0, <1>2 DEF IInv, PickTypes, LiveUnderCurrentGrant, FolderPickGoverns, ScopesAgree, pickVars
<1>6. DropTypes'
  <2>1. session \in 0 .. MaxSessions
    BY DEF IInv, LedgerInv, LedgerTypes
  <2> QED BY <1>0, <1>1, <2>1 DEF IInv, DropTypes
<1>7. Unfinished' \subseteq aborted'
  <2> SUFFICES ASSUME NEW o \in Unfinished' \ aborted' PROVE FALSE
    OBVIOUS
  <2>1. handles' = handles \ handles
    BY <1>2
  <2>2. /\ scope[o] \in Scopes \ (Grants \cup handles)
        /\ scope'[o] \in Handles => scope'[o] \in handles'
    BY <1>0, <1>1, <2>1, Survivors DEF IInv
  <2> QED BY <1>0, <1>2, <2>2 DEF Scopes
<1>8. NoOrphanOperation' /\ SessionEndIsTotal'
  BY <1>2, <1>7 DEF NoOrphanOperation, SessionEndIsTotal
<1>9. DropsAgree'
  <2>1. session \in Nat /\ dropHome \in [Drops -> 0 .. MaxSessions]
    BY DEF IInv, LedgerInv, LedgerTypes, DropTypes
  <2>2. ASSUME NEW e \in dropPending'
        PROVE  dropHome'[e] = IF e = d THEN session ELSE dropHome[e]
    BY <1>0, <2>1, <2>2 DEF IInv, DropTypes
  <2>3. \A e \in dropPending' \ {d} : dropHome[e] <= session
    BY <1>0 DEF IInv, DropsAgree
  <2> QED BY <1>0, <2>1, <2>2, <2>3 DEF DropsAgree
<1> QED BY <1>2, <1>3, <1>4, <1>5, <1>6, <1>8, <1>9 DEF IInv

LEMMA DropReturnsPreserves ==
    ASSUME IInv, NEW d \in Drops, DropReturns(d)
    PROVE  IInv'
<1> USE HandleTableAssumption
<1>0. /\ d \in dropPending /\ dropPending' = dropPending \ {d}
      /\ IF dropHome[d] = session
         THEN deleteTable
         ELSE UNCHANGED <<tableVars, recentlyClosed, operations>>
      /\ UNCHANGED <<ledgerVars, handles, auth, parent, children, filed, used, teardown,
                     frame, scope, home, aborted, pickVars, dropHome, dropWaits>>
  BY DEF DropReturns
<1>1. PickTypes' /\ DropTypes' /\ LiveUnderCurrentGrant' /\ FolderPickGoverns' /\ ScopesAgree'
  BY <1>0 DEF IInv, PickTypes, DropTypes, LiveUnderCurrentGrant, FolderPickGoverns, ScopesAgree,
              pickVars, ledgerVars
<1>2. CASE dropHome[d] = session
  <2>1. /\ open' = FALSE /\ session' = session + 1 /\ dropping' = FALSE /\ revokedGrants' = {}
        /\ grantAliases' = NoAliases /\ recentlyClosed' = {}
        /\ operations' = [s \in Scopes |-> {}]
    BY <1>0, <1>2 DEF deleteTable
  <2>2. dropping /\ session < MaxSessions /\ handles = {} /\ Unfinished \subseteq aborted
    BY <1>0, <1>2 DEF IInv, DropsAgree, SessionEndIsTotal
  <2>3. session \in 0 .. MaxSessions /\ session' \in 0 .. MaxSessions
    BY <2>1, <2>2 DEF IInv, LedgerInv, LedgerTypes
  <2>4. /\ NoAliases \in [Grants -> Grants \cup {None}]
        /\ \A g \in Grants : NoAliases[g] = None
    BY DEF NoAliases
  <2>5. LedgerInv'
    BY <1>0, <2>1, <2>3, <2>4 DEF IInv, LedgerInv, LedgerTypes, LedgerAgrees, ledgerVars
  <2>6. HandleInv'
    BY <1>0, <2>1 DEF IInv, HandleInv, HandleTypes, IndexesAgree, TreeAgrees, HandlesAgree
  <2>7. OpTypes'
    BY <1>0, <2>1 DEF IInv, OpTypes
  <2>8. NoOrphanOperation' /\ SessionEndIsTotal'
    BY <1>0, <2>1, <2>2 DEF NoOrphanOperation, SessionEndIsTotal, Unfinished
  <2>9. DropsAgree'
    <3>1. \A e \in dropPending' : dropHome'[e] # session'
      <4> SUFFICES ASSUME NEW e \in dropPending', dropHome'[e] = session' PROVE FALSE
        OBVIOUS
      <4>1. e \in Drops /\ dropHome[e] = session + 1
        BY <1>0, <2>1 DEF IInv, DropTypes
      <4>2. dropHome[e] <= session
        BY <1>0 DEF IInv, DropsAgree
      <4> QED BY <2>3, <4>1, <4>2
    <3>2. \A e \in dropPending' : dropHome'[e] <= session'
      <4> SUFFICES ASSUME NEW e \in dropPending' PROVE dropHome'[e] <= session'
        OBVIOUS
      <4>1. dropHome[e] \in 0 .. MaxSessions /\ dropHome[e] <= session
        BY <1>0 DEF IInv, DropTypes, DropsAgree
      <4> QED BY <1>0, <2>1, <2>3, <4>1
    <3> QED BY <3>1, <3>2 DEF DropsAgree
  <2> QED BY <1>1, <2>5, <2>6, <2>7, <2>8, <2>9 DEF IInv
<1>3. CASE dropHome[d] # session
  <2>1. UNCHANGED <<tableVars, recentlyClosed, operations>>
    BY <1>0, <1>3
  <2>2. LedgerInv' /\ HandleInv'
    BY <1>0, <2>1, LedgerUntouched, HandlesUntouched DEF IInv, handleVars
  <2>3. OpTypes' /\ SessionEndIsTotal' /\ DropsAgree'
    BY <1>0, <2>1 DEF IInv, OpTypes, SessionEndIsTotal, DropsAgree, Unfinished, tableVars
  <2>4. NoOrphanOperation'
    BY <1>0, <2>1, CallsUntouched DEF IInv, tableVars, opVars
  <2> QED BY <1>1, <2>2, <2>3, <2>4 DEF IInv
<1> QED BY <1>2, <1>3


-----------------------------------------------------------------------------
(* The theorems *)

LEMMA NextPreserves ==
    ASSUME IInv, [Next]_vars
    PROVE  IInv'
<1>1. CASE Decide
  BY <1>1, GrantFirstPreserves, GrantReplacesPreserves, RevokePreserves DEF Decide
<1>2. CASE Operate
  BY <1>2, RunPreserves, SlotFreedOrAbandonedPreserves, LandPreserves, ReturnPreserves DEF Operate
<1>3. CASE Hold
  BY <1>3, AcceptPreserves, ClosePreservesIInv, TeardownPreserves DEF Hold
<1>4. CASE PickStep
  BY <1>4, PickBookkeepingPreserves, PickInsertsPreserves, RevokePickPreserves DEF PickStep
<1>5. CASE EndSession
  BY <1>5, DropPreserves, DropReturnsPreserves DEF EndSession
<1>6. CASE UNCHANGED vars
  <2>1. UNCHANGED <<ledgerVars, tableVars, handleVars, opVars, pickVars, dropVars>>
    BY <1>6 DEF vars
  <2>2. LedgerInv' /\ HandleInv'
    BY <2>1, LedgerUntouched, HandlesUntouched DEF IInv
  <2>3. OpTypes' /\ PickTypes' /\ DropTypes'
    BY <2>1 DEF IInv, OpTypes, PickTypes, DropTypes, opVars, pickVars, dropVars
  <2>4. LiveUnderCurrentGrant' /\ FolderPickGoverns' /\ DropsAgree' /\ ScopesAgree' /\ SessionEndIsTotal'
    BY <2>1 DEF IInv, LiveUnderCurrentGrant, FolderPickGoverns, DropsAgree, ScopesAgree,
                SessionEndIsTotal, Unfinished, ledgerVars, tableVars, handleVars, opVars,
                pickVars, dropVars
  <2>5. NoOrphanOperation'
    BY <2>1, CallsUntouched DEF IInv, tableVars, handleVars
  <2> QED BY <2>2, <2>3, <2>4, <2>5 DEF IInv
<1> QED BY <1>1, <1>2, <1>3, <1>4, <1>5, <1>6 DEF Next

\* IInv holds in every reachable state of the handle table.
THEOREM Inductive ==
    Spec => []IInv
<1>1. Init => IInv
  BY InitEstablishes
<1>2. IInv /\ [Next]_vars => IInv'
  BY NextPreserves
<1> QED BY <1>1, <1>2, PTL DEF Spec

\* The variables keep their types, and no id the generator did not give out is
\* a key of OriginTable.handles (handles.ts, handle-store.ts).
THEOREM TypeCorrect ==
    Spec => []TypeOK
BY Inductive, TypesTogether, PTL

\* Revocation and replacement reach everything: whatever dial, accept or picker
\* was under way, a live handle that answers to a grant answers to the one the
\* ledger holds now (revoke, replaceGrant, assertAcquirable, insert).
THEOREM RevocationIsComplete ==
    Spec => []LiveUnderCurrentGrant
<1>1. IInv => LiveUnderCurrentGrant
  BY DEF IInv
<1> QED BY <1>1, Inductive, PTL

\* byGrant and byPickedPath are exact, and a live accepted connection hangs under a
\* live server of the same grant, so a cascade misses nothing and takes nothing else,
\* also after a replacement that kept only some handles (insert, refile, closeTree).
THEOREM CascadeStaysExact ==
    Spec => []CascadeIsExact
<1>1. IInv => CascadeIsExact
  BY DEF IInv, HandleInv, CascadeIsExact
<1> QED BY <1>1, Inductive, PTL

\* Every call inside run that was not cancelled is registered where the next
\* cascade looks for it, or will be refused when it acquires (run).
THEOREM NoCallIsOrphaned ==
    Spec => []NoOrphanOperation
<1>1. IInv => NoOrphanOperation
  BY DEF IInv
<1> QED BY <1>1, Inductive, PTL

\* Once a session starts to end, none of its handles is live and none of its
\* calls is uncancelled (dropOrigin).
THEOREM SessionEndsWhole ==
    Spec => []SessionEndIsTotal
<1>1. IInv => SessionEndIsTotal
  BY DEF IInv
<1> QED BY <1>1, Inductive, PTL

\* What was opened inside a picked folder is live only while the folder's pick
\* is in the permissions list (revokeUserSelected).
THEOREM FolderPickIsEnforced ==
    Spec => []FolderPickGoverns
<1>1. IInv => FolderPickGoverns
  BY DEF IInv
<1> QED BY <1>1, Inductive, PTL

-----------------------------------------------------------------------------
(* Refinement: every step of the table is one of the changes Capability      *)
(* allows to the granted and the picked handles of an origin, or touches     *)
(* none of them.                                                             *)

granted == {h \in handles : auth[h] \in Grants}
picked == {h \in handles : auth[h] \in Picks}
ended == used \ handles

-----------------------------------------------------------------------------
(* The three kinds of change to the set of handles *)

\* Every live handle is granted or picked, and none is both.
LEMMA GrantedOrPicked ==
    ASSUME HandleInv
    PROVE  granted \cup picked = handles /\ granted \cap picked = {}
BY HandleTableAssumption DEF HandleInv, HandlesAgree, Authorities, granted, picked

\* Handles that only go away, under an unchanged ledger, are an End.
LEMMA ClosingIsEnd ==
    ASSUME HandleInv, NEW doomed \in SUBSET handles, handles' = handles \ doomed,
           UNCHANGED <<current, auth, used>>
    PROVE  Promise!End
<1>1. granted' = granted \ doomed /\ picked' = picked \ doomed
  BY DEF granted, picked
<1>2. ended' = ended \cup (granted \ granted') \cup (picked \ picked')
  BY <1>1, GrantedOrPicked DEF ended, HandleInv, HandleTypes
<1> QED
  BY <1>1, <1>2 DEF Promise!End, granted, picked, ended

\* One fresh handle, under an unchanged ledger, is an OpenGranted or an OpenPicked.
LEMMA InsertingIsOpen ==
    ASSUME IInv, IInv', NEW h \in Handles \ used, used' = used \cup {h}, handles' = handles \cup {h},
           \A x \in used : auth'[x] = auth[x], UNCHANGED current
    PROVE  Promise!OpenGranted \/ Promise!OpenPicked
<1> USE HandleTableAssumption
<1>1. /\ \A x \in handles : auth'[x] = auth[x] /\ x # h
      /\ handles \subseteq used /\ h \notin granted \cup picked \cup ended
  BY DEF IInv, HandleInv, HandleTypes, granted, picked, ended
<1>2. ended' = ended
  BY <1>1 DEF ended
<1>3. auth'[h] \in Grants \/ auth'[h] \in Picks
  BY DEF IInv, HandleInv, HandlesAgree, Authorities
<1>4. CASE auth'[h] \in Grants
  <2>1. granted' = granted \cup {h} /\ picked' = picked
    BY <1>1, <1>4 DEF granted, picked
  <2>2. current # None
    BY <1>4 DEF IInv, LiveUnderCurrentGrant
  <2>3. h \in Handles \ (granted \cup picked \cup ended)
    BY <1>1
  <2>4. Promise!OpenGranted
    BY <1>2, <2>1, <2>2, <2>3 DEF Promise!OpenGranted, granted, picked, ended
  <2> QED BY <2>4
<1>5. CASE auth'[h] \in Picks
  <2>1. granted' = granted /\ picked' = picked \cup {h}
    BY <1>1, <1>5 DEF granted, picked
  <2>2. h \in Handles \ (granted \cup picked \cup ended)
    BY <1>1
  <2>3. Promise!OpenPicked
    BY <1>2, <2>1, <2>2 DEF Promise!OpenPicked, granted, picked, ended
  <2> QED BY <2>3
<1> QED BY <1>3, <1>4, <1>5

\* A step that touches neither the ledger nor the set of handles stutters.
LEMMA StutterMaps ==
    ASSUME UNCHANGED <<current, handles, auth, used>>
    PROVE  UNCHANGED Promise!vars
BY DEF Promise!vars

-----------------------------------------------------------------------------
(* The steps *)

LEMMA InitMaps ==
    Init => Promise!Init
BY DEF Init, Promise!Init

LEMMA GrantFirstMaps ==
    ASSUME IInv, NEW g \in Grants, GrantFirst(g)
    PROVE  Promise!Decide
<1>1. /\ current' = g /\ g # current /\ UNCHANGED <<handles, auth, used>>
  BY HandleTableAssumption DEF GrantFirst, handleVars
<1> QED BY <1>1 DEF Promise!Decide

LEMMA GrantReplacesMaps ==
    ASSUME IInv, NEW g \in Grants, NEW keeps, NEW coversAll \in BOOLEAN,
           GrantReplaces(g, keeps, coversAll)
    PROVE  Promise!Decide
<1> USE HandleTableAssumption
<1>1. current \in Grants /\ current' = g /\ g # current
      /\ replaceGrantIn(current, g, keeps, coversAll)
  BY DEF GrantReplaces, IInv, LedgerInv, LedgerTypes, LedgerAgrees
<1>2. /\ handles' \subseteq handles
      /\ \A h \in handles \ handles' : auth[h] = current
      /\ used' = used
      /\ \A h \in Handles : auth'[h] # auth[h] => auth[h] = current /\ auth'[h] = g
  BY <1>1, ReplaceMovesHandles
<1>3. handles \subseteq used /\ used \subseteq Handles
  BY DEF IInv, HandleInv, HandleTypes
<1>4. /\ granted' = granted \ (handles \ handles')
      /\ picked' = picked
  BY <1>1, <1>2, <1>3 DEF granted, picked
<1>5. ended' = ended \cup (granted \ granted')
  BY <1>1, <1>2, <1>3, <1>4 DEF ended, granted
<1> QED
  BY <1>1, <1>4, <1>5 DEF Promise!Decide, granted, picked, ended

LEMMA RevokeMaps ==
    ASSUME IInv, IInv', NEW g \in Grants, Revoke(g)
    PROVE  Promise!Withdraw \/ UNCHANGED Promise!vars
<1> USE HandleTableAssumption
<1> DEFINE withdrawn == {g} \cup aliasesOf(g)
           roots == UNION {filed[a] : a \in withdrawn}
           doomed == Tree(roots)
<1>1. /\ current' = IF current = g THEN None ELSE current
      /\ closeTree(doomed) /\ UNCHANGED auth
  BY DEF Revoke, revokeCascade
<1>2. /\ withdrawn \in SUBSET Grants /\ withdrawn \in SUBSET Authorities
      /\ \A a \in withdrawn : a = g \/ grantAliases[a] = g
  BY DEF aliasesOf, Authorities
<1>3. roots \in SUBSET handles /\ \A h \in roots : auth[h] \in withdrawn
  BY <1>2 DEF IInv, HandleInv, IndexesAgree
<1>4. \A h \in roots : auth[h] \in Grants /\ auth[h] = current
  BY <1>2, <1>3 DEF IInv, LiveUnderCurrentGrant
<1>5. doomed \in SUBSET handles
  <2> HIDE DEF roots
  <2> QED BY <1>3, TreeIsClosed DEF IInv
<1>6. \A h \in doomed : auth[h] \in Grants
  <2>1. ASSUME NEW h \in handles, NEW r \in roots, h \in children[r]
        PROVE  auth[h] = auth[r]
    <3>1. parent[h] = r /\ r \in Handles /\ r # None
      BY <1>3, <2>1 DEF IInv, HandleInv, HandleTypes, TreeAgrees
    <3> QED BY <2>1, <3>1 DEF IInv, HandleInv, TreeAgrees
  <2> HIDE DEF roots
  <2> QED BY <1>4, <2>1 DEF Tree
<1>7. handles' = handles \ doomed /\ used' = used
  BY <1>1 DEF closeTree
<1>8. handles \subseteq used
  BY DEF IInv, HandleInv, HandleTypes
<1>9. CASE current = g
  <2>1. current # None /\ current' = None
    BY <1>1, <1>9
  <2>2. granted' = {}
    BY <2>1 DEF IInv, LiveUnderCurrentGrant, granted
  <2>3. picked' = picked
    BY <1>1, <1>6, <1>7 DEF picked
  <2> HIDE DEF doomed
  <2>4. ended' = ended \cup granted
    <3>1. granted \subseteq doomed
      BY <1>1, <1>7, <2>2 DEF granted
    <3>2. doomed \subseteq granted
      BY <1>5, <1>6 DEF granted
    <3> QED BY <1>5, <1>7, <1>8, <3>1, <3>2 DEF ended
  <2> QED
    BY <2>1, <2>2, <2>3, <2>4 DEF Promise!Withdraw, granted, picked, ended
<1>10. CASE current # g
  <2>1. roots = {}
    <3> SUFFICES ASSUME NEW h \in roots PROVE FALSE
      OBVIOUS
    <3>1. current \in withdrawn /\ current \in Grants
      BY <1>3, <1>4
    <3>2. grantAliases[current] = g
      BY <1>2, <1>10, <3>1
    <3> QED BY <3>1, <3>2 DEF IInv, LedgerInv, LedgerAgrees
  <2>2. doomed = {}
    BY <2>1 DEF Tree
  <2> HIDE DEF doomed
  <2> QED BY <1>1, <1>7, <1>10, <2>2, StutterMaps
<1> QED BY <1>9, <1>10

LEMMA OperateMaps ==
    ASSUME IInv, IInv', Operate
    PROVE  Promise!OpenGranted \/ Promise!OpenPicked \/ UNCHANGED Promise!vars
<1>1. PICK o \in Ops :
         \/ \E f \in {"waiting", "running"} : RunForGrant(o, f)
         \/ \E h \in Handles, f \in {"waiting", "running"} : RunForHandle(o, h, f)
         \/ SlotFreed(o)
         \/ Abandon(o)
         \/ \E h \in Handles : Land(o, h)
         \/ Return(o)
  BY DEF Operate
<1>2. CASE \E h \in Handles : Land(o, h)
  <2>1. PICK h \in Handles : Land(o, h)
    BY <1>2
  <2>2. /\ h \in Handles \ used /\ handles' = handles \cup {h} /\ used' = used \cup {h}
        /\ current' = current
        /\ auth' = [auth EXCEPT ![h] = auth'[h]]
    BY <2>1 DEF Land, insert, ledgerVars, IInv, HandleInv, HandleTypes
  <2>3. \A x \in used : auth'[x] = auth[x]
    BY <2>2 DEF IInv, HandleInv, HandleTypes
  <2> QED BY <2>2, <2>3, InsertingIsOpen
<1>3. CASE ~\E h \in Handles : Land(o, h)
  <2>1. UNCHANGED <<current, handles, auth, used>>
    BY <1>1, <1>3 DEF RunForGrant, RunForHandle, SlotFreed, Abandon, Return, ledgerVars, handleVars
  <2> QED BY <2>1, StutterMaps
<1> QED BY <1>2, <1>3

LEMMA HoldMaps ==
    ASSUME IInv, IInv', Hold
    PROVE  Promise!Next \/ UNCHANGED Promise!vars
<1>1. PICK h \in Handles : (\E p \in Handles : Accept(p, h)) \/ Close(h) \/ TeardownSettles(h)
  BY DEF Hold
<1>2. CASE \E p \in Handles : Accept(p, h)
  <2>1. /\ h \in Handles \ used /\ handles' = handles \cup {h} /\ used' = used \cup {h}
        /\ current' = current
        /\ auth' = [auth EXCEPT ![h] = auth'[h]]
    BY <1>2 DEF Accept, insert, ledgerVars, IInv, HandleInv, HandleTypes
  <2>2. \A x \in used : auth'[x] = auth[x]
    BY <2>1 DEF IInv, HandleInv, HandleTypes
  <2> QED BY <2>1, <2>2, InsertingIsOpen DEF Promise!Next
<1>3. CASE Close(h)
  <2>1. {h} \in SUBSET handles
    BY <1>3 DEF Close
  <2>2. Tree({h}) \in SUBSET handles
    BY <2>1, TreeIsClosed DEF IInv
  <2>3. handles' = handles \ Tree({h}) /\ UNCHANGED <<current, auth, used>>
    BY <1>3 DEF Close, closeTree, ledgerVars
  <2> QED BY <2>2, <2>3, ClosingIsEnd DEF IInv, Promise!Next
<1>4. CASE TeardownSettles(h)
  <2>1. UNCHANGED <<current, handles, auth, used>>
    BY <1>4 DEF TeardownSettles, ledgerVars
  <2> QED BY <2>1, StutterMaps
<1> QED BY <1>1, <1>2, <1>3, <1>4

LEMMA PickStepMaps ==
    ASSUME IInv, IInv', PickStep
    PROVE  Promise!Next \/ UNCHANGED Promise!vars
<1>1. PICK p \in Picks :
         \/ PickFile(p)
         \/ \E h \in Handles : PickFileOpened(p, h)
         \/ PickFileFailed(p)
         \/ \E h \in Handles : PickDirectory(p, h)
         \/ PickDirectoryRefused(p)
         \/ RevokePick(p)
  BY DEF PickStep
<1>2. CASE PickFile(p) \/ PickFileFailed(p) \/ PickDirectoryRefused(p)
  <2>1. UNCHANGED <<current, handles, auth, used>>
    BY <1>2 DEF PickFile, PickFileFailed, PickDirectoryRefused, ledgerVars, handleVars
  <2> QED BY <2>1, StutterMaps
<1>3. CASE \E h \in Handles : PickFileOpened(p, h) \/ PickDirectory(p, h)
  <2>1. PICK h \in Handles : PickFileOpened(p, h) \/ PickDirectory(p, h)
    BY <1>3
  <2>2. /\ h \in Handles \ used /\ handles' = handles \cup {h} /\ used' = used \cup {h}
        /\ current' = current
        /\ auth' = [auth EXCEPT ![h] = auth'[h]]
    BY <2>1 DEF PickFileOpened, PickDirectory, insert, ledgerVars, IInv, HandleInv, HandleTypes
  <2>3. \A x \in used : auth'[x] = auth[x]
    BY <2>2 DEF IInv, HandleInv, HandleTypes
  <2> QED BY <2>2, <2>3, InsertingIsOpen DEF Promise!Next
<1>4. CASE RevokePick(p)
  <2>1. filed[p] \in SUBSET handles
    BY DEF IInv, HandleInv, IndexesAgree, Authorities
  <2>2. Tree(filed[p]) \in SUBSET handles
    BY <2>1, TreeIsClosed DEF IInv
  <2>3. handles' = handles \ Tree(filed[p]) /\ UNCHANGED <<current, auth, used>>
    BY <1>4 DEF RevokePick, closeTree, ledgerVars
  <2> QED BY <2>2, <2>3, ClosingIsEnd DEF IInv, Promise!Next
<1> QED BY <1>1, <1>2, <1>3, <1>4

LEMMA EndSessionMaps ==
    ASSUME IInv, EndSession
    PROVE  Promise!Next \/ UNCHANGED Promise!vars
<1>1. PICK d \in Drops : Drop(d) \/ DropReturns(d)
  BY DEF EndSession
<1>2. CASE Drop(d)
  <2>1. handles' = handles \ handles /\ UNCHANGED <<current, auth, used>>
    BY <1>2 DEF Drop, closeTree, ledgerVars
  <2>2. handles \in SUBSET handles
    OBVIOUS
  <2> QED BY <2>1, <2>2, ClosingIsEnd DEF IInv, Promise!Next
<1>3. CASE DropReturns(d)
  <2>1. UNCHANGED <<current, handles, auth, used>>
    BY <1>3 DEF DropReturns, ledgerVars
  <2> QED BY <2>1, StutterMaps
<1> QED BY <1>1, <1>2, <1>3

LEMMA StepMaps ==
    ASSUME IInv, IInv', [Next]_vars
    PROVE  [Promise!Next]_(Promise!vars)
<1>1. CASE Decide
  BY <1>1, GrantFirstMaps, GrantReplacesMaps, RevokeMaps DEF Decide, Promise!Next
<1>2. CASE Operate
  BY <1>2, OperateMaps DEF Promise!Next
<1>3. CASE Hold
  BY <1>3, HoldMaps
<1>4. CASE PickStep
  BY <1>4, PickStepMaps
<1>5. CASE EndSession
  BY <1>5, EndSessionMaps
<1>6. CASE UNCHANGED vars
  <2>1. UNCHANGED <<current, handles, auth, used>>
    BY <1>6 DEF vars, ledgerVars, handleVars
  <2> QED BY <2>1, StutterMaps
<1> QED BY <1>1, <1>2, <1>3, <1>4, <1>5, <1>6 DEF Next

\* The handle table, with every dial, accept, picker, replacement, revocation
\* and session end interleaved, shows its users nothing Capability forbids: a
\* granted handle exists only while the ledger's grant stands, withdrawing that
\* grant ends all of them in the same step, and no id is ever live twice.
THEOREM TableImplementsPromise ==
    Spec => ImplementsPromise
<1>1. Init => Promise!Init
  BY InitMaps
<1>2. IInv /\ IInv' /\ [Next]_vars => [Promise!Next]_(Promise!vars)
  BY StepMaps
<1> QED
  BY <1>1, <1>2, Inductive, PTL DEF Spec, ImplementsPromise, Promise!Spec

=============================================================================
