# A verification development for the Orivon capability broker

Orivon is a browser that runs peer-to-peer applications. A page does not touch the network or the
disk: it asks the **broker** (`src/broker/`), which holds what the user granted, lends out
**handles** to sockets and files, and must take all of it back the moment the user withdraws a
grant. This directory holds TLA+ models of that broker, the TLC runs that check small instances of
them, and TLAPS proofs for every size. Paths below are relative to the repository.

The program is TypeScript on one event loop. Nothing runs in parallel, and yet almost every
operation is cut by an `await`; the interesting behaviours are the interleavings of what lies
between two awaits with cancellations, timers, other calls, failed writes and restarts.

## Inventory

| Component | State it keeps | Operations | What is hard | What makes it correct |
| --- | --- | --- | --- | --- |
| **In-flight budget** `handles/in-flight.ts`, `HandleTable.run` | slot counter, FIFO of waiters, their `admitted` flags, timers | call, queue, hand over, expire, cancel, finish | cancellation, timer and hand-over settle in one turn, the continuation runs later | no slot lost or idle, FIFO, every queued call answered, a cancelled call gives its slot back |
| **Handle table** `handles/{handles,handle-store,grant-replacement,origin-registry,tombstones}.ts` | per origin: handles, parent/children, indexes by grant and by pick, registered operations, tombstones, aliases, `dropping` | acquire, derive, close, fail, abort, run, replace, revoke, withdraw a pick, end the session | a dial or open that started before a revoke lands after it; replacements chain; teardown is awaited | nothing live outlives its authority; the cascades' indexes are exact; a session ends whole |
| **Grant ledger** `grants/{grant-ledger,grant-persistence,update-safety,node-ledger-storage}.ts` | per origin: manifest, grants and their ids, version floor, hydrated flag; three to four files on disk | register, hydrate, grant, revoke, strike, raise the floor, forget | two hydrations, failed reads and writes, restarts, files of an older shape, half-done forgets | a handle reaches only what is granted; a grant whose revocation saw the disk stays revoked; the version floor never lets an old version back in |
| **Façade** `index.ts`, `forget-origin.ts` | pinned manifests | calls the two above in the right order | order of ledger write and cascade | as above |
| **Picked paths** `grants/picked-path-ledger.ts`, `capabilities/user-selected.ts` | paths the user chose, persisted beside the grants | pick, open inside a picked folder, withdraw | the file is opened between the pick and the handle | withdrawing a pick closes what it opened |
| **File system and quota** `capabilities/fs.ts`, `grants/resource-limits.ts` | bytes charged per origin | measure, reserve, write, truncate, rename, delete, refund | charge and write are several awaits apart; concurrent writers of one path | short of an overlap with a call that takes bytes away and of half-way failures: the count never falls below what is on disk, the disk stays within the quota, and nothing drifts |
| **Socket relay** `transport/relay/{port-pump,port-sink,socket}.ts` with `preload/` on the page's side | per handle: credit, unacknowledged bytes, ending flags, a message port | push, credit, write, ack, half-close, abort, teardown | two processes and a port between them; close and abort cross data and credit | bytes in order, none lost before a clean end, bounded buffering, both pumps end |
| **Server and accept pump** `capabilities/net-listen.ts`, `transport/relay/{server,accept-pump}.ts`, `adapters/node-adapters.ts`, `preload/ports/server.ts` | a queue of peers, the demand, the accepted connections on the port | accept on demand, queue, refuse, close, fail | a read, a peer and the end of the server cross; the allowance refuses in between | no connection left to itself, order kept, one accept for a read, no read forgotten |
| **Datagram relay** `transport/relay/datagram*.ts` | credit in datagrams, held datagrams | push, send, close | as above, with drops allowed | bounded buffering, no datagram after the close |
| **Control channel** `transport/{ipc,pending-dials}.ts`, `transport/dispatch/`, `relay/deliver-port.ts` | pending dials by request | dispatch, abandon, deliver the port | a frame navigates while its dial is under way | a port reaches the document that asked or is destroyed |
| **Rate limits** `transport/{control-limiter,token-bucket}.ts` | tokens, time of last refill | take, pace | fractions, clocks | never more than burst plus rate x time |
| **Network capabilities** `capabilities/{net,net-listen,net-udp,net-connect-secure,listener-registry}.ts` | listeners by port | connect, listen, bind, accept | dial abandoned or timed out; a listener shared or reused | one owner for every socket that opened |
| **Adapters** `adapters/` | node sockets, descriptors | staggered dial, atomic write, TLS | late winners, crash between write and rename | one winner, the rest destroyed; a file is old or new |
| **Route** `route/` | SOCKS5 session | handshake | replies split over reads | no byte of the stream lost or misread |
| **Policy** `policy/` | none | match patterns, compare manifests, decide requests | widening, normalisation | what is granted was declared |
| **Other capabilities** (web, embed, id, secrets, trust) | little | mostly one guarded call | a deadline around a page evaluation | deadline and result exclude each other |
| **Loader** `src/loader/` | installed bundles, pins, update offers | fetch, verify, pin, offer, update | interrupted updates | only verified content is served |
| **Main, preload, shims, renderer, protocols, nostr, trust, telemetry** | windows, tabs, settings, UI, gateways | wiring | Electron's own order of events | outside this development |

How they interact. A page's call arrives on the control channel, is attributed to an origin, and is
dispatched to a capability. The capability reads the **ledger** for the current grant, asks
**policy** whether the target is covered, and calls `HandleTable.run`, which takes a slot of the
**in-flight budget** and runs the work (a dial, an open) with an abort signal. When the work ends
the capability calls `acquire`, which registers a handle under the grant. From then on the
**relay** moves bytes. The user's side enters through the **façade**: `grant` and `revoke` change
the ledger and then call `replaceGrant` or `revoke` on the table, which closes handles and aborts
what is still in flight; `registerApp` hydrates the ledger from disk and revokes what that
superseded; closing a tab calls `dropOrigin`; forgetting an origin strikes each grant, drops the
session and deletes the files.

## The modules

```
Capability            abstract: what the table promises about one capability
   ^ implements
HandleTable           the table, the cascades, calls in flight, picks, session end
InFlight              the slots and the queue of HandleTable.run
GrantLedger           the ledger, its files, restarts, and the grants' handles
FsQuota               the bytes of one origin's files: count, disk, calls in flight
Dial                  net.connect and its cancel, from the document to the reply and its port
Connection            abstract: what an app and its peer may take a socket for
   ^ implements
Relay                 one open socket, from its peer over the message port to the app
Server                a listening socket, from its peers to the app's reads
MCInFlight, MCHandleTable, MCGrantLedger, MCFsQuota, MCDial, MCRelay, MCServer
                      instances for TLC
InFlightProofs, HandleTableProofs, GrantLedgerProofs, FsQuotaProofs,
DialProofs, RelayProofs, RelayRefinement, ServerProofs
                      theorems for every size
```

The life of a socket runs through four of them: `Dial` until the port reaches the document, `Relay`
from there to the end, with `HandleTable` holding its handle throughout and `InFlight` the slot its
dial occupied. A connection accepted by `Server` becomes a handle derived from the server's in `HandleTable`, and
what it carries is `Relay` again. Each knows the others by what the code lets it see: `Dial`, `Relay` and `Server`
keep the handle's record as a state with the reason it ended.

**A step** is one synchronous stretch of code: what a callback does up to its next `await`. A
settled promise does not run its continuation; the continuation is a step of its own that may come
later. Everything the code does in one stretch (the unlink pass of `closeTree`, a ledger change and
its file write, a cascade) is one action, because no other code can run in between.

### InFlight

`Ops` are calls of `HandleTable.run` on one table. `phase` says where a call is suspended, `wake`
how the race it awaits has been settled: the code's `Promise.race` keeps the first settlement, and
so does `wake`. `CallRefused`, `CallStarts`, `CallQueues` are the three ways into `run`;
`ResumeAdmitted` and `ResumeRejected` are the two continuations of `waitForSlot`, `Expire` is its
timer (a macrotask, so never while a continuation of the same call is due), `Finish` is `run`'s
`finally`. `releaseSlot` hands the slot to the oldest waiter without freeing it. `ticket` and
`clock` are history.

### HandleTable

One origin, one capability. `current` and `issued` stand for the ledger; `handles`, `auth`,
`parent`, `children`, `filed`, `revokedGrants`, `grantAliases`, `recentlyClosed`, `operations` are
the fields of `OriginTable` and of its records; `frame`, `scope`, `home`, `aborted` are the calls
suspended in `run`; `picks`, `folder`, `opening` the picker's; `dropPending`, `dropHome`,
`dropWaits` the calls of `dropOrigin` that await teardowns. `session` names the table: it advances
when `dropOrigin` deletes one. `open` is whether the registry holds a table; `reap` deletes one
that holds nothing.

`GrantReplaces` covers the whole of `Broker.grant` over a standing grant. Which handles the new
grant keeps (`keeps`) and whether it covers the whole of the old one (`coversAll`) are both free:
the code computes them by two different functions over what the handle reached and over the pattern
sets, and nothing in the table depends on their agreeing. `Land` is the end of a call's work: it
looks at its signal and acquires in one turn. `PickFileOpened` acquires without looking, as
`pickFiles` does. Slots are in `InFlight`; here a call may wait or start at once.

### GrantLedger

One origin, several capabilities, memory and disk. `grants`/`ids`, `manifest`, `hydrated`, `floor`
are the `OriginRecord`; `diskShape`, `diskGrants`, `diskFloor` the files, in either of the two
shapes `readGrants` accepts; `live` the handles by capability, grant id and target. Every write
takes a flag `ok`: it lands whole or throws and changes nothing, as `adapters/atomic-write.ts` is
built to ensure. Every read of the grants file or of the floor may fail too (`reads`, `floorReads`):
`readGrantsFile` turns any failure into "no file" (`node-ledger-storage.ts:121-129`), so a hydration then
restores nothing and a strike (`revokePersisted`) writes nothing and still resolves; `seesDisk` says when a strike sees
what the disk holds. A floor that cannot be read becomes one that lets nothing in (`Corrupt`).
`Restart` loses everything but the disk, between any two steps. `Init` is any content of the disk. A pattern is the set of targets it matches, so that covering is inclusion;
`Covers` is the negation of `widensAuthority`, `Allowed` the verdict of `decideGrantRequest`.
`ForgetBegins`, `ForgetRevokes`, `ForgetDrops`, `ForgetEnds` are the turns of
`forget-origin.ts`, with anything else in between. `first`, `restored`, `registered`, `assured`, `decided`
are history: `registered` is the highest version registered this session, written or not, `assured` the
highest whose raise was written, `decided` how a capability was last revoked. `NoReplay` states the floor
against the first two through `isAtOrAboveFloor`, the comparison by which `decideUpdate` lets a version in;
`RevokedStaysRevoked` speaks of the revocations that saw the disk ("revoked"), and names those that did not
("struck") as its exception.

### FsQuota

One origin's files by size, the ledger's count `used`, `measuredDone` as `done`, the pending
measurement as `walk`. `pc` says where an asynchronous call is suspended: waiting for the
measurement, for the truncation lock, for a size, for its turn to reserve, for the operation, or for
the turn that refunds. `Begin`, `Look`, `Reserve`, `Land`, `Settle` and `GiveBack` are shared by
`writeFile`, `rm`, `rename`, `FileHandle.write` and `FileHandle.truncate`, which differ in the size
they read (`Judged`), what they charge (`Growth`) and what they leave (`Done`). The synchronous twins
do all of it in one step, measurement included, between any two steps of the others. Failed
measurements, unreadable sizes, refused and failed operations, writes that leave part of a file,
and handles that close at any stage are steps of their own.

`blur` is history: what may have set the count off the disk so far. The code does not lock a path,
so two calls that read the size of one file before either lands may charge too much, and, if one of
them takes bytes away, too little; a failed measurement leaves everything uncounted. The properties
say what holds short of that: with nothing of the kind (`blur = Exact`), the count is exact; with overlaps of
growing calls only (`blur <= OverCounted`), it covers the disk and the quota holds. After an overlap with a
call that takes bytes away neither holds, which is the fourth disagreement below. Two truncations of one handle are not
excused: the lock has to keep them apart. `Total`, the sum of the sizes, is the cardinality of the
set of bytes (one pair of file and position each), which lets the proofs do without an induction over
files.

### Dial

One origin, and one frame that may load another document or leave. `page`, `made`, `id`, `hooked`
are the document's side of `controlCall`: which document stands in the frame, which documents made
a call, the id a document gave it (each counts from one), and whether it still listens. `wire` is the channel,
in order. `pending` is `pending-dials.ts`: the abort controllers by document and id, so that `Forgotten`
and the cancel that looks one up meet calls of a document that is gone. `signal`, `dispatch`,
`answer`, `late` are a call in the broker: its abort signal, what `dispatchNet` has become of it, the
reply and whether its budget passed. `work`, `race`, `attempt`, `handle` are `net.connect`'s work, the
staggered dial, its socket attempts and the record in the table. `port`, `portTo` are `deliver-port.ts`; a port is
"closing" when the page's end has closed and the broker has not been told (`PortCloses`). `Registered` is the relay's entry
in the transport registry, which goes with the port: `net.close` looks there, and does nothing when it is gone.
`Halted` is what every end of a dial does: the race closes and every attempt under way is destroyed.
A step is a turn of the broker or of the page.

Left out: `connectSecure` (TLS after the dial), the routes (SOCKS5, onion), the interleaving of address
families (the order of addresses is fixed), the slots (in `InFlight`) and the indexes (in
`HandleTable`).

### Relay

One TCP socket. `socket` is Node's socket with the two web streams of `adapters/socket-streams.ts` and
the peer: bytes sent, handed over, received, and how each direction ended. `pump` and `sink` are
`port-pump.ts` and `port-sink.ts`, `relay` the registry entry and the two ended flags of `socket.ts`,
`handle` the record of the table with the reason it ended. `toPage` and `toBroker` are the messages on
the port, `ends` which of its ends are closed. `page` is `preload/ports/socket.ts` with the streams of
`main-world-socket.ts`; `calls` are `close()` calls. Bytes are counted and never named: the relay
copies chunks and does not reorder them, so what could go wrong is their number and when an end
overtakes them.

A step is one turn of a process: a message handled, a chunk read, a timer. `Stop` is what the relay
does when it stops for any reason (the pump's and the sink's last words, the port, the registry
entry), in the microtasks of the turn that settled `closed`; `FailSocket` is `failSocket`; `Drained`
is what follows every write and write-end (`closeWriterOnceDrained`, then `onEnded`); `WriterAborted` is `writer.abort()` on a handle that has ended already, which
errors the readable unless it waits for a write. What Node and the
peer do is external and stated from how the adapter uses them: a clean FIN ends our side too
(`allowHalfOpen` is off), `destroy()` reports a clean end on the readable, `reader.cancel()` destroys
the whole socket.

### Server

One TCP server of one page. `listener` is the listening socket of `adapters/node-adapters.ts`: its queue, whether
`accept()` waits, how it ended and whether the port is still bound. `conn` is what became of each peer, numbered in the
order they connect. `handle` is the table's record, `pump` the demand of `relay/accept-pump.ts`, `toPage` and `credits`
the messages on the port, `ends` which of its ends are closed, `page` the stream of connections that
`preload/ports/server.ts` feeds and `buildServer` hands to the app, `call` the app's `close()`.

A step is one turn. `Connects` has the three outcomes of Node's `'connection'` (reset, handed to the read that waits,
queued), `Pulled` those of `net-listen.ts`'s `pull()`, which drops every queued peer when the allowance has no room.
`TakesCredit` is a read of the page at the pump: it raises the demand while the loop runs and starts the loop
otherwise. `CloseTree` is what the end of the server does in one turn, whoever asks (`Revoked`, `SessionEnds`,
`PortCloses`, `NetClose`, a listener that fails under a read): the records of the server and of its sockets, the pump,
the end on the port, the listener's destroy. `AppReads(k)` are k reads in one turn: a stream of `highWaterMark` 0 pulls
once, and once more when that pull has settled.

Left out: the bind and its ranges, the delivery of the server's port (as in `Dial`), what an accepted socket
carries (`Relay`), sockets of the origin beside the server's.

### Capability

The promise of `handles/README.md` in four variables: the standing grant, the live handles that
stand on it, the picked ones, and those that ended. Withdrawing ends every granted handle in the
same step; an ended handle never comes back; only a standing grant opens one. `HandleTable`
implements it under the mapping `authority <- current`, `granted`, `picked` <- the live handles by
kind of authority, `ended <- used \ handles`.

### Connection

A byte stream each way, in what the two ends can tell: what the peer sent and the page got, whether
the peer ended, the state of the app's readable; what the app wrote, what the socket took, what the
app was told of and the peer has read, whether our FIN went out; that the app closed, and whether
something happened that may cost bytes (`excused`). Nothing arrives that was not sent, a readable that
ends without an error and without a `close()` of the app has brought everything, no write is reported
as accepted before the socket has it, and a FIN follows the last byte unless an excuse was given. A
second `close()`, a reset, an abort, a withdrawal, a failure, the end of the session, the drain deadline and
a document that leaves are excuses; a first `close()` is none. `Relay` implements it: port,
credits, acknowledgements, the pump and the sink disappear, `reading` is the page's readable, `finished`
our FIN as long as no reset has overtaken it.

## Runs

| Run | Instance | Question | Answer |
| --- | --- | --- | --- |
| `in_flight` | 4 calls, 1 slot, 2 places in the queue | are slots and waiters kept exactly, is every queued call answered, every cancelled one returned? | yes |
| `handle` | two instances in one run: 3 grants, 2 handles, 2 calls; and 2 grants, 3 handles, 1 call, a picked file and folder | do revoke, replacement and session end reach everything, do indexes and tree stay exact, does a folder's pick govern, does the table implement `Capability`? | yes |
| `grant_ledger` | 2 capabilities, 3 pattern lists, 2 manifests, 2 ids a session, 1 handle at a time, reads and writes that fail | do handles, floor and revocations survive any order, failure and restart? | yes, a strike that did not see the disk excepted |
| `fs_quota` | 2 files, 2 calls, sizes and quota of one unit, all operations | does the count cover the disk, does the disk stay in the quota, is nothing lost or charged twice? | yes, until a call that takes bytes away overlaps another or one fails half way |
| `dial` | 1 call over 2 addresses with withdrawals and late timers, or 2 calls over 1 address with reloads; 1 socket allowed, 2 documents | has every socket an owner, does a cancel win and find its own call, does a page know its sockets, is every call answered? | yes |
| `relay` | windows of 2, chunks to 2, writes to 3 in pieces of 2, a socket that holds 1, one `close()` | is credit conserved, is what was accepted in the socket, does a close lose nothing and return, does the relay implement `Connection`? | yes |
| `server` | 4 peers, a queue of 2, room for 2 accepted sockets, demand up to 2, 3 reads | is every connection somebody's, does the app meet them in order, does a read accept one, is it answered? | yes |
| `handle_pick_race`, `handle_two_drops`, `grant_strike`, `fs_overlap`, `relay_session_end` | as above, smaller | statements of the repository's comments the code does not keep | violated |

**Bounds.** One slot and two queue places are the least with a hand-over while another waiter stays
queued; four calls are one more than slots plus queue, so refusal happens too. Three grants make an alias of an alias possible (g1 to g2 to g3),
which is where the replacement code has its own loop. Two or three handles give a server with a
connection beside another handle. `MaxSessions = 1` ends one session and starts a second one, which
is what tells a table from its successor. `SocketLimit = 2` lets the refusal happen. The two instances of `handle` share a run:
`EitherInstance` cuts a behaviour where it leaves both. Two manifests
with a declaration that widens and one that disappears give both verdicts of
`decideGrantRequest`; two ids a session give a hydrated and a re-granted one. `SmallInit` starts `grant_ledger`
with nothing of the second capability on disk and a floor that is new or unreadable: grants and floors of earlier sessions are
written by the run itself, before a `Restart`. `SmallNext` keeps the pinned bundle the earlier of the two;
either may be served, a rollback included. In `FsQuota`, two files
give a rename that replaces one, two calls an overlap (with a synchronous call as a third), and a
unit of one tells a file that is charged from one that is not; the initial files may already exceed
the quota. The run is cut where an overlap or a failure makes the count worthless
(`StillClaimed`), because no property says anything after it. In `Dial`, two addresses give a race with a loser, two
calls of two documents under one id give a cancel the chance to meet the wrong one, and one socket
allowed lets the limit refuse. In `Relay`, a window of two with chunks of two lets the credit fall
below zero, writes of three bytes are split and acknowledged piece by piece, and a socket that holds
one makes a write wait for its drain; three instances (`ReadInstance`, `WriteInstance`,
`DuplexInstance`) share the run. In `Server`, four peers fill a queue of two beside two accepted
sockets, an allowance of two lets a read go on to the next peer, and three reads overlap or reach the demand's
ceiling of two. Every constraint that joins instances cuts on something that only grows (calls
made, bytes sent, an end from outside), so no state of an instance is reached through a state that is
cut. A liveness property is then checked on the behaviours that stay inside, which is all of them for
an app and a user that do no more. One `close()` call is made in `relay`; the proofs speak of any number.
The proofs remove these bounds for the properties named there.

**Deadlock** is not checked: the system may rest (no app calls), and the finite sets of ids run
out.

**Fairness** is assumed in four runs. `FairSpec` of `InFlight` is weak fairness of each due
continuation and of each wait timer: that is the event loop. `FairSpec` of `Dial` is weak fairness of
turns and messages, of the resolver, and of the dial's deadline and the port's timer; of `Relay`, of
turns, messages and timers, the drain deadline (`CLOSE_DRAIN_TIMEOUT_MS`) and the write's silence
timer included; of `Server`, of the messages each way and of the close of a port. Nothing is assumed of apps, of users or of peers: that an app goes on reading, or a peer, is
a premise of the two properties that need it (`EndReachesReader`, `WriteIsAnswered`), inside the
formula.

**Symmetry** is used in `handle` (grants, handles, calls, drops) and `fs_quota` (calls); no property with
fairness is checked in either.

## Proofs

All theorems hold for every value of the constants that meets the named assumptions
(`InFlightAssumption`, `HandleTableAssumption`, `GrantLedgerAssumption`, `FsQuotaAssumption`,
`DialAssumption`, `RelayAssumption`, `ServerAssumption`): finite sets where
cardinalities occur, ids of different kinds disjoint, bounds natural numbers.

- **InFlightProofs**: `TypeCorrect`, `NoSlotLost`, `QueueStaysExact`,
  `FirstComeFirstServed`. `SlotAccounting` alone is not inductive: a hand-over keeps the counter
  only if the waiter was queued, waiting and not yet admitted, which is `QueueIsExact`, and an
  admitted waiter whose race was settled by a cancellation must still be found by
  `ResumeRejected`. They are proved together with `Bookkeeping` (a race won by `admitted` belongs
  to an admitted call, a call not yet made has left no trace, no ticket is from the future), and
  with the lemmas that removing one element of a queue without repetitions keeps its order, and
  that adding or removing one call changes the cardinality of the slot owners by one.
- **HandleTableProofs**: `TypeCorrect`, `RevocationIsComplete`, `CascadeStaysExact`,
  `NoCallIsOrphaned`, `SessionEndsWhole`, `FolderPickIsEnforced`. The inductive invariant is
  `LedgerInv` (types; the grant that stands is neither a tombstone nor an alias; tombstones and
  aliases name issued grants only, so a fresh id has neither), `HandleInv` (the indexes, the tree,
  and that a live handle has an authority), `ScopesAgree` (a call in flight has a scope, a folder's
  row carries its pick for good), `DropsAgree` (a pending `dropOrigin` captured a past table, or the
  current one, which is then dropping), the types of calls, picks and drops, and the stated
  properties. `RevocationIsComplete` needs `NoOrphanOperation`: a call that will still acquire was
  made in the current session, so the aliases and tombstones of its grant are still there, and its
  grant resolves to the current one or to a tombstone. Most actions close a set of trees; one lemma,
  `ClosingPreserves`, carries the invariant over the unlink pass for all of them.
  Its last part is the refinement, `TableImplementsPromise`: `Spec => Promise!Spec`, one step per
  action of `Next`, each mapped to an action of `Capability` or to a stutter.
- **GrantLedgerProofs**: `TypeCorrect`, `HandlesStayWithinGrants`, `RestoredGrantsAreDeclared`,
  `FloorHolds`, `RevocationIsFinal`. Three more conjuncts make them inductive: `FloorKept` (the floor in memory is
  unreadable, or no lower than `registered` and `assured`, which is what a failed write must not undo; the one on disk
  no lower than `assured`), `Registered` (a
  manifest that is registered is remembered in `first`, and hydration is over) and `DropsEmpty`
  (while a forget drops the session there is no live handle, so its end leaves none without a
  grant).

- **FsQuotaProofs**: `TypeCorrect`, `CountAlwaysCoversDisk`, `QuotaAlwaysHoldsOnDisk`,
  `CountAlwaysExact`, each as far as `blur` lets its property speak. That the count covers the disk is not inductive, for a call between its check
  and its write has charged bytes that are not there yet, and one that has landed has not refunded
  what it freed. `IInv` therefore says what is charged for whom: there is an amount `kept` for each
  file, no less than the file holds and than any call under way has read of it, and the count is no less
  than all of `kept` plus what the calls still owe (`Owes`: the charge of one that has not landed, the
  refund of one that has). A job that lands moves its charge from `Owes` to `kept` (`Lands`). That needs
  `Apartness` (calls that meet on a file do not take bytes away, or `blur` says so), which needs `LockHeld`
  (truncations of one handle take turns), and `Balanced` is the same with equality while nothing blurs
  the count. `Unmeasured` says that nobody is past the measurement before it has succeeded. Sums are cardinalities of sets of
  bytes, and a file that changes exchanges one column of the set (`WeightUpdate`): no induction.
- **DialProofs**: `TypeCorrect`, `NoSocketIsStray`, `CancelStaysExact`,
  `HandleIsAlwaysKnown`. The strengthening is in five parts. `DocumentsAgree` and `WireInOrder`: ids are
  injective within a document, and the channel keeps order, so what the broker received of a document is never
  newer than what is still on its way; hence a stale cancel can only meet calls of documents that are gone.
  `WorkAgrees`: an open race has a running dial, a live handle means the work is over, an attempt
  belongs to its race. `RepliesAgree`: a pending dial is unanswered, and a call answered before its port was
  delivered is late. `LiveHasPort`: a live handle whose dispatch is done has a port, so it is in the registry or its port has closed.
- **RelayProofs**: `Conservation`, `NoRefusal`, `Accepted`, `CleanEnd` and `NothingIsLost`, for windows, chunks,
  buffers and writes of every size. `IInv` has six parts. `Shape` gives the records' types with numbers that are only known to
  be natural. `WindowInv` is `CreditConserved` with what it leans on: what the page counts as queued is what its queue holds.
  `PartsAgree` ties the broker's end of the port to the registry entry, the pump, the sink and the handle's record.
  `CleanInv` follows every byte of the peer (read by the page, on the port, or in the readable) and says that nothing follows
  a clean end on the port, which is what `CleanEndMeansAll` (the formula of `CleanEnd`; no run asks it, as the refinement of
  `Connection` says more) lacks. `WriteInv` bounds what the sink, the port and the page hold
  of one piece by that piece, which is within the window, so no write is refused. It needs `OnePieceInv`: a page has one piece
  under way and the broker answers it once, whatever heartbeats (acknowledgements of nothing) come before. The
  lemmas on the queues say what one message posted or taken changes of each sum; what the messages of a kind carry is a
  cardinality, so a sum changes by a disjoint union and no induction is needed. Steps fall into families with a lemma each:
  the relay stops (`StopKeeps`), a message of the page is worked off (`DrainedKeeps`), only the socket changes
  (`SocketStepKeeps`), the page reads (`ReadingKeeps`), writes (`WritesOnKeeps`) or leaves (`PageLeavesKeeps`).
  `NothingIsLost` has `LossInv` beside `IInv`: a handle that left, or a writing side that ended, has told the socket to
  end; an abort on the port is the app's; an answered `close()` means that the relay is over or has been read to the end.
  The last of these (`AnswersWait`) fails for a second `close()`, which is answered at once, so `ClosedTwice` is among the
  excuses of `CloseLosesNothing`.
- **RelayRefinement**: `TypeCorrect` and `RelayImplementsStream` of `Relay`. That a counter stays within its range is not inductive by itself: it holds
  because a byte is counted once, which is `RangeInv`. `BytesOnce` says for each direction that what is on its way and what has
  arrived is no more than what was sent; `Sized` says that every chunk, piece and credit has a size the other end expects,
  so the window that is open and the window that was given sum to `ReadWindow`.
  `RelayImplementsStream` is `Spec => Stream!Spec`. The counts of `BytesOnce` bound what arrives by what was sent and what the
  peer reads by what was taken; `CleanInv` makes a clean end the end of everything; `LossInv` puts the FIN behind the last
  byte. What it needs besides is `OrderInv`: once a clean end was posted nothing more is read, and a page whose stream
  has ended has no chunk on its way, closed or not. Of the page's steps the proof first states what they show
  (`Shows`, `Hides`, `Fails`, `Stops`), of the broker's what they leave of the socket (`Winds`), and then maps each family
  to a step of `Connection` or to none.
- **ServerProofs**: `TypeCorrect`, `NoConnectionIsStray`, `AlwaysInOrder`, `OneReadAcceptsOne`. `IInv` adds three
  conjuncts. `PartsAgree`: the pump, the broker's end of the port and the record end together, and a listener that ended
  keeps neither a queue nor a waiter. `QueueInOrder`: everybody met, on the way or queued has connected, and the
  queue is younger than all who left it. `PageAgrees`: a read waits only on an empty, open stream, and without overlap there is
  at most one. Four kinds of step carry the invariant, each by one lemma: the end of the server
  (`CloseTreePreserves`), a connection handed over (`HandOverPreserves`), steps that post nothing
  (`QuietPreserves`), steps of the page (`PagePreserves`); the arrival of a message has its own. A port that has
  carried no end holds connections only, so counting those on their way is taking its length.

Only model-checked: the liveness properties (`CallsReturn`, `CallIsAnswered`, `ReadIsAnswered`, and
`SocketIsLetGo`, `EndReachesReader` and `WriteIsAnswered` of `Relay`), which are out of the prover's reach. Every safety
property of a run that passes is a theorem, both refinements included. The five disagreements are counterexamples and need no proof.

## Where the code and its documentation disagree

1. `handle_pick_race`. `handles/handles.ts:372-375` says no late acquisition can race the revoke of
   a pick. `pickFiles` records its pick, awaits the open, and acquires without looking again: a
   pick withdrawn in between leaves a live file handle that no list shows.
2. `handle_two_drops`. `handles/handles.ts:421-424` says a table is not handed out again until the
   descriptors of the previous session are gone. A second `dropOrigin` that overlaps the first has
   nothing to wait for and deletes the table.
3. `grant_strike`. `grants/grant-ledger.ts:374` says `revokePersisted` drops the grant in memory
   too, so that memory and disk cannot disagree. A grants file of the old bare shape is honoured by
   `readGrants` and invisible to `readPersistedApp`: the grant is dropped in memory, stays on disk,
   and the next hydration restores it. A file of the present shape that cannot be read at that moment does the
   same: every read failure becomes "no file" (`node-ledger-storage.ts:121-129`), and the strike reports
   success.
4. `fs_overlap`. `capabilities/fs.ts:303-306` says concurrent writes to one path can only
   over-count. A write that shrinks the file refunds as soon as it has landed; another that read the
   size before and lands after puts the bytes back without charging them. The count is then below
   the disk until the next session measures again, and the origin may write past its quota, which
   `contracts/manifest.ts:315` calls "ENFORCED, not advisory".
5. `relay_session_end`. `handles/handle-contracts.ts:57` and `docs/architecture/handle-contracts.md:587`
   say that 'sessionEnded' sends a FIN with the buffered writes flushed, and `relay/socket.ts:207` that it
   is left to settle through `closed` without truncating. `closeTree` rejects `closed` before it calls
   `destroy` (`handle-store.ts:369`); the relay's handler of that rejection (`socket.ts:223`) stops the
   pump in the same turn, and the pump's `reader.cancel()` destroys the socket with the bytes that
   `socket.end()` was to flush.

Other behaviours met while modelling, for which there is no run. In the table and the ledger: `handles/README.md:56`
promises that an acquisition in flight follows a new grant only when that covers the old one, and is otherwise cancelled;
`grant-replacement.ts:69` cancels the calls registered under the replaced id itself, so a call under g1, aliased to g2, is
not cancelled when g3 narrows g2, runs to its end and is refused there (nothing is acquired wrongly,
`RevocationIsComplete` is proved). A failed
floor write is not retried in its session, because memory already holds the raised floor
(`update-safety.ts:117`); a forget whose second file cannot be deleted leaves the first deleted
and memory intact (`grant-ledger.ts:282-288`); `pinnedManifests` survives a forget; a picker
answered after its session ended registers in a fresh table; the 577th tombstone evicts the oldest
(`tombstones.ts:38`, documented); a write of picked paths over a grants file of the old shape drops
its grants (`node-ledger-storage.ts:289-302`, modelled as `PersistPicks`); a grant given before
hydration rewrites the file from memory alone; `fs` does not look at its signal between measuring
and writing (`fs.ts:314`, documented); a whole-file write that fails half way may have cut the file or
left a part of it, and `fs.ts:322` refunds its charge as one of which nothing landed; opening a file
with a flag that cuts it gives nothing back, so the count stays too high for the session.

In the relay: a readable the app cancels never credits what was queued already; after the peer's clean FIN
a revocation with no write outstanding leaves the page's `closed` pending for good; a port that closes
(reload, navigation, unclaimed) destroys the socket but does not release the handle's record, which
counts against the app's allowance until the session ends; credit that comes after the end makes the pump
report it again, harmlessly; data ahead of the app may pass the window by less than a chunk; a write that
fails after the peer's end stops the sink without releasing the handle; of two `close()` calls the second is
answered at once, and its `dispose` closes the port and truncates what the first was flushing (the excuse
`ClosedTwice`); a write after the peer's FIN errors the readable too, and
closing the writable after Node's own end reports `write-failed`; on a revocation or an abort the unlink
listener's `reader.cancel()` destroys the socket before `resetAndDestroy`, so the peer sees a plain close and not
an RST; a write that waits for `drain` when the peer's FIN arrives is never answered; `writable.abort()`
waits for a stalled write. In the server: a listener that fails without a pending read only forgets its
queue (`node-adapters.ts:409` sets `destroyed` and does not close the socket, and `destroy()` then returns at once), so
the port stays bound and its peers are reset after the handle is gone, though `handle-contracts.ts:68` says that
'failed' releases the descriptor; with two reads pending, the stream pulls again whenever one is served, so the broker accepts
a connection ahead of a read, contrary to `contracts/handles.ts:174` (`OneReadOneAccept` therefore speaks of reads
that do not overlap); `connections.cancel()` tells nobody, and a connection accepted for a read made before it is lost to the
page and counts against the allowance until the server closes. In the dial: a call whose budget ran out but connects later is delivered to nobody
(the port closes after its wait, the socket is destroyed, the record stays until the session ends);
a reply that crosses a cancel gives the app a socket it asked to abort, by design; a stale cancel of a
gone document may reach the dial of a document older still; a port nobody claimed in time closes and takes the relay's registry
entry along, so a `net.close` that arrives after it finds nothing (`dispatch/net.ts:229-230`): the socket is
destroyed, but the record stays live until the session ends (`HandleIsKnown` names this case).

## What is not modelled

In `Relay`, `Dial` and `Server`: the bind of a server and the registry of listeners, datagrams, `connectSecure`, routes, rate limits, the
codes a platform reports, pages that break the port's protocol, `close()` calls that time out, and more than
one socket (sockets share only the table and the slots, which have modules of their own). In
`FsQuota`: user-selected files, `FileHandle.writable`, handles opened to append, a second handle
on one file, short writes, partial failures of synchronous writes and of recursive removals, and
removing or renaming a file that is open (documented in `capabilities/README.md`). Elsewhere: the
rollback acknowledgement and remembered declines (no grant depends on them); the eviction of
tombstones; origins that are never persisted; origin keys, paths, addresses, patterns and manifests
as strings; resource kinds other than their authority (a socket stands on a grant, a file on a
pick); several capabilities in one table (the cascades of different grants touch disjoint indexes,
so one capability is modelled in `HandleTable`, and several in `GrantLedger`). The components the
inventory lists and `PROJECT.json` marks `not_modelled` are the plan, or are outside it because
they hold no protocol (UI, wiring, encodings).

## Plan

The budget, the table, the ledger, the quota, the dial, the relay of one TCP socket and the TCP server are modelled,
checked and proved. What is left, in order of what matters most to a user of the broker:

1. **Two sockets** of one server composed with their handles, each a `Connection`.
2. **Datagram relay**, sharing the relay's operators, with drops.
3. **Token bucket** (`TokenBucket`): a pure algorithm against a reference over bounded histories.
4. **SOCKS5**: a reply split over reads, early bytes of the stream.
5. **Atomic write** (`AtomicWrite`): temporary, flush, rename, crash; it discharges the assumption
   `GrantLedger` makes of writes.
6. **Loader**: update offers and pins.

Each new module gets one safety run that carries its liveness properties too, and the instances stay as
small as the interesting cases allow.
