------------------------------- MODULE Relay -------------------------------
(***************************************************************************)
(* One TCP socket of one page, from the peer to the app: the read pump and *)
(* the write sink of src/broker/transport/relay, the page's end of the     *)
(* port in src/preload, the message port between them, and the handle's    *)
(* teardown.  Bytes are counted, never named.                              *)
(*                                                                         *)
(* A step is one turn of a process: a message handled, a chunk read, a     *)
(* timer.  The microtasks a turn leaves behind run in the same step.       *)
(*                                                                         *)
(* Left out: messages of a page that breaks the protocol (a write after    *)
(* its write-end, more writes than MAX_PENDING_WRITES, malformed ones);    *)
(* platform codes; close() calls that time out; a rejection of the         *)
(* writer's close other than that of a socket that ended already.  A port  *)
(* delivers in order what was posted before it closed (assumed by the code *)
(* as well, docs/open-questions.md A81).                                   *)
(***************************************************************************)
EXTENDS Integers, Sequences, FiniteSets

CONSTANTS
    ReadWindow,      \* LIMITS.readWindowBytes
    WriteWindow,     \* LIMITS.writeWindowBytes
    Coalesce,        \* CREDIT_COALESCE_BYTES
    SocketBuffer,    \* what a socket holds before it asks its writer to wait
    MaxChunk,        \* the largest chunk a socket hands over at once
    PeerBytes,       \* bound of the model: what the peer sends
    AppBytes,        \* bound of the model: what the app writes
    AppWrites,       \* bound of the model: in how many writes
    Closes,          \* close() calls of the app
    Outside          \* what may end the socket from outside the page's script

ASSUME RelayAssumption ==
    /\ \A n \in {ReadWindow, WriteWindow, Coalesce, SocketBuffer, MaxChunk} : n \in Nat \ {0}
    /\ {PeerBytes, AppBytes, AppWrites} \subseteq Nat
    /\ IsFiniteSet(Closes)
    /\ Outside \subseteq {"revoked", "sessionEnded", "navigated"}

VARIABLES
    socket,          \* the OS socket, the adapter's two streams and the peer
    pump,            \* port-pump.ts
    sink,            \* port-sink.ts
    relay,           \* socket.ts: the registry entry and the two ended flags
    handle,          \* the HandleTable's record of the socket
    toPage,          \* messages on the port, oldest first
    toBroker,
    ends,            \* which ends of the port are closed
    page,            \* preload/ports/socket.ts and preload/surface/main-world-socket.ts
    calls            \* the close() calls

vars == <<socket, pump, sink, relay, handle, toPage, toBroker, ends, page, calls>>

Least(a, b) == IF a <= b THEN a ELSE b

Codes == {"reset", "revoked", "closed", "limit", "internal", "timeout"}

Data(n) == [kind |-> "data", n |-> n]
End(code) == [kind |-> "end", code |-> code]
Ack(n) == [kind |-> "ack", n |-> n]
Failed(code) == [kind |-> "failed", code |-> code]
Credit(n) == [kind |-> "credit", n |-> n]
Write(n) == [kind |-> "write", n |-> n]
WriteEnd == [kind |-> "writeEnd"]
WriteAbort == [kind |-> "writeAbort"]

ToPage == {Data(n) : n \in 1 .. MaxChunk} \cup {End(c) : c \in Codes \cup {"clean"}}
          \cup {Ack(n) : n \in 0 .. AppBytes} \cup {Failed(c) : c \in Codes}
ToBroker == {Credit(n) : n \in 1 .. PeerBytes} \cup {Write(n) : n \in 0 .. WriteWindow}
            \cup {WriteEnd, WriteAbort}

NewPage ==
    [here |-> TRUE, queue |-> <<>>, queued |-> 0, uncredited |-> 0, sinceLastCredit |-> 0,
     got |-> 0, readable |-> "open", readTerminal |-> FALSE,
     writing |-> FALSE, left |-> 0, piece |-> 0, acked |-> 0, accepted |-> 0, asked |-> 0, writes |-> 0,
     writable |-> "open", aborted |-> FALSE, writeTerminal |-> FALSE, closed |-> "pending"]

Init ==
    /\ socket = [sent |-> 0, theirs |-> "open", reset |-> FALSE, incoming |-> <<>>, readable |-> "open",
                 taken |-> 0, outgoing |-> 0, received |-> 0, ours |-> "open", alive |-> TRUE]
    /\ pump = [credit |-> ReadWindow, stopped |-> FALSE, endSent |-> FALSE]
    /\ sink = [writes |-> <<>>, unacked |-> 0, stopped |-> FALSE,
               ending |-> FALSE, ended |-> FALSE]
    /\ relay = [registered |-> TRUE, readEnded |-> FALSE, writeEnded |-> FALSE]
    /\ handle = [state |-> "live", reason |-> "none", deadline |-> FALSE]
    /\ toPage = <<>> /\ toBroker = <<>> /\ ends = {}
    /\ page = NewPage
    /\ calls = [c \in Closes |-> "none"]

-----------------------------------------------------------------------------
(* The peer, and Node's socket: what they do is external.  `alive' is an    *)
(* open descriptor, `incoming' what the readable stream holds, `outgoing'   *)
(* what was handed to the socket and has not reached the peer.              *)

\* socket.writable: not destroyed, and no end() yet, the app's or Node's own.
Writable(s) == s.alive /\ s.ours = "open"

\* What was handed to the socket and will never reach the peer.
Lost == socket.taken - socket.received - socket.outgoing

Ended(s) == [s EXCEPT !.ours = IF Writable(s) THEN "ending" ELSE @]

\* destroy() closes the descriptor: the peer sees an end, queued bytes are gone,
\* and a readable that had not ended reports a clean one.
Destroyed(s) ==
    IF ~s.alive THEN s
    ELSE [s EXCEPT !.alive = FALSE, !.outgoing = 0, !.ours = IF @ = "fin" THEN @ ELSE "cut",
                   !.readable = IF @ = "open" THEN "closed" ELSE @]

\* resetAndDestroy() does the same with an RST, on a descriptor that is still open.
ResetAndDestroyed(s) == IF s.alive THEN [Destroyed(s) EXCEPT !.ours = "rst"] ELSE s

\* reader.cancel() destroys the whole socket, unless there is nothing left to read.
Cancelled(s) ==
    IF s.readable \in {"errored", "cancelled"} \/ (s.readable = "closed" /\ s.incoming = <<>>)
    THEN s
    ELSE [Destroyed(s) EXCEPT !.readable = "cancelled", !.incoming = <<>>]

PeerSends(n) ==
    /\ socket.alive /\ socket.theirs = "open" /\ socket.sent + n <= PeerBytes
    /\ socket' = [socket EXCEPT !.sent = @ + n, !.incoming = Append(@, n)]
    /\ UNCHANGED <<pump, sink, relay, handle, toPage, toBroker, ends, page, calls>>

\* The peer's FIN.  allowHalfOpen is off, so Node ends our side as well (A69).
PeerEnds ==
    /\ socket.alive /\ socket.theirs = "open"
    /\ socket' = [Ended(socket) EXCEPT !.theirs = "fin",
                    !.readable = IF @ = "open" THEN "closed" ELSE @,
                    !.alive = socket.ours # "fin"]
    /\ UNCHANGED <<pump, sink, relay, handle, toPage, toBroker, ends, page, calls>>

\* The peer's RST errors both streams; what was not read is dropped.
PeerResets ==
    /\ socket.alive
    /\ socket' = [socket EXCEPT !.reset = TRUE, !.alive = FALSE, !.outgoing = 0,
                    !.ours = "rst",
                    !.readable = IF @ = "open" THEN "errored" ELSE @,
                    !.incoming = IF socket.readable = "open" THEN <<>> ELSE @]
    /\ UNCHANGED <<pump, sink, relay, handle, toPage, toBroker, ends, page, calls>>

PeerReads ==
    /\ socket.outgoing > 0
    /\ socket' = [socket EXCEPT !.outgoing = @ - 1, !.received = @ + 1]
    /\ UNCHANGED <<pump, sink, relay, handle, toPage, toBroker, ends, page, calls>>

\* Our FIN follows the last byte.  A socket ended both ways destroys itself.
FinSent ==
    /\ socket.alive /\ socket.ours = "ending" /\ socket.outgoing = 0
    /\ socket' = [socket EXCEPT !.ours = "fin", !.alive = socket.theirs = "open"]
    /\ UNCHANGED <<pump, sink, relay, handle, toPage, toBroker, ends, page, calls>>

-----------------------------------------------------------------------------
(* The broker's end of the port. *)

PostedToPage(messages) == IF ends = {} THEN toPage \o messages ELSE toPage

\* pump.stop, sink.stop and cleanup: what either has still to tell the page goes
\* out before the port closes.  p and k are the pump and the sink at that moment.
Stop(p, k, posted, code) ==
    LET ended == IF p.stopped \/ p.endSent THEN <<>> ELSE <<End(code)>>
        failed == IF code = "clean" \/ k.stopped \/ k.writes = <<>> THEN <<>> ELSE <<Failed(code)>>
    IN  /\ pump' = [p EXCEPT !.stopped = TRUE, !.endSent = @ \/ ~p.stopped]
        /\ sink' = [k EXCEPT !.stopped = TRUE]
        /\ toPage' = PostedToPage(posted \o ended \o failed)
        /\ relay' = [relay EXCEPT !.registered = FALSE]
        /\ ends' = ends \cup {"broker"}
        /\ toBroker' = <<>>

\* What pump.stop does to the socket.
ReaderCancelled(s) == IF pump.stopped THEN s ELSE Cancelled(s)

\* HandleTable.release: the record leaves the table, the socket is told to end.
Leaving(h) == IF h.state = "live" THEN [h EXCEPT !.state = "leaving", !.reason = "closed"] ELSE h

Gone(reason) == [handle EXCEPT !.state = "gone", !.reason = reason]

\* failSocket: a handle that left the table already makes fail() throw, which is caught.
FailSocket(p, k, posted, code, rest) ==
    IF handle.state = "live"
    THEN /\ handle' = Gone("failed")
         /\ Stop(p, k, posted, code)
         /\ socket' = Destroyed(ReaderCancelled(socket))
    ELSE /\ pump' = p /\ sink' = k
         /\ toPage' = PostedToPage(posted)
         /\ toBroker' = rest
         /\ UNCHANGED <<socket, handle, relay, ends>>

PumpReads ==
    /\ ~pump.stopped /\ pump.credit > 0 /\ socket.incoming # <<>>
    /\ socket' = [socket EXCEPT !.incoming = Tail(@)]
    /\ pump' = [pump EXCEPT !.credit = @ - Head(socket.incoming)]
    /\ toPage' = PostedToPage(<<Data(Head(socket.incoming))>>)
    /\ UNCHANGED <<sink, relay, handle, toBroker, ends, page, calls>>

\* A mutant: the end overtakes what is still to be read.
PumpEndsEarly ==
    /\ ~pump.stopped /\ ~pump.endSent /\ pump.credit > 0
    /\ socket.readable = "closed"
    /\ pump' = [pump EXCEPT !.endSent = TRUE]
    /\ toPage' = PostedToPage(<<End("clean")>>)
    /\ relay' = [relay EXCEPT !.readEnded = TRUE]
    /\ handle' = IF relay.writeEnded THEN Leaving(handle) ELSE handle
    /\ UNCHANGED <<socket, sink, toBroker, ends, page, calls>>

\* A mutant: the read side ends and does not look whether the other has.
PumpEndsAlone ==
    /\ ~pump.stopped /\ ~pump.endSent /\ pump.credit > 0
    /\ socket.incoming = <<>> /\ socket.readable = "closed"
    /\ pump' = [pump EXCEPT !.endSent = TRUE]
    /\ toPage' = PostedToPage(<<End("clean")>>)
    /\ relay' = [relay EXCEPT !.readEnded = TRUE]
    /\ UNCHANGED <<socket, sink, handle, toBroker, ends, page, calls>>

\* The end waits for credit as data does.  Credit that comes after it makes the
\* pump see it again, which changes nothing.
PumpEnds ==
    /\ ~pump.stopped /\ ~pump.endSent /\ pump.credit > 0
    /\ socket.incoming = <<>> /\ socket.readable = "closed"
    /\ pump' = [pump EXCEPT !.endSent = TRUE]
    /\ toPage' = PostedToPage(<<End("clean")>>)
    /\ relay' = [relay EXCEPT !.readEnded = TRUE]
    /\ handle' = IF relay.writeEnded THEN Leaving(handle) ELSE handle
    /\ UNCHANGED <<socket, sink, toBroker, ends, page, calls>>

PumpFails ==
    /\ ~pump.stopped /\ pump.credit > 0 /\ socket.readable = "errored"
    /\ FailSocket([pump EXCEPT !.stopped = TRUE, !.endSent = TRUE], sink,
                  IF pump.endSent THEN <<>> ELSE <<End("reset")>>, "reset", toBroker)
    /\ UNCHANGED <<page, calls>>

Arrives(kind) == toBroker # <<>> /\ Head(toBroker).kind = kind

ReceiveCredit ==
    /\ Arrives("credit")
    /\ pump' = IF pump.stopped THEN pump
               ELSE [pump EXCEPT !.credit = Least(@ + Head(toBroker).n, ReadWindow)]
    /\ toBroker' = Tail(toBroker)
    /\ UNCHANGED <<socket, sink, relay, handle, toPage, ends, page, calls>>

\* A writer closed on a socket that has ended and flushed already is told
\* ERR_STREAM_ALREADY_FINISHED, one on a socket that was reset its error.  When
\* that same close also releases the handle, the port may close before the
\* refusal is posted.
Refusals(s) ==
    IF s.ours \in {"open", "ending"} THEN {<<>>}
    ELSE {<<Failed(IF s.reset THEN "reset" ELSE "internal")>>}
         \cup (IF relay.readEnded THEN {<<>>} ELSE {})

\* What a write or a write-end leaves: closeWriterOnceDrained, then onEnded.
Drained(k, s, posted, rest) ==
    /\ IF k.ending /\ k.writes = <<>> /\ ~k.ended /\ ~k.stopped
       THEN /\ sink' = [k EXCEPT !.ended = TRUE]
            /\ socket' = Ended(s)
            /\ relay' = [relay EXCEPT !.writeEnded = TRUE]
            /\ handle' = IF relay.readEnded THEN Leaving(handle) ELSE handle
            /\ \E refusal \in Refusals(s) : toPage' = PostedToPage(posted \o refusal)
       ELSE /\ sink' = k /\ socket' = s
            /\ toPage' = PostedToPage(posted)
            /\ UNCHANGED <<relay, handle>>
    /\ toBroker' = rest
    /\ UNCHANGED <<pump, ends>>

\* Mutants: a write is not counted on its way in, or on its way out.
QueuedUncounted(k, n) == [k EXCEPT !.writes = Append(@, n)]
SettledUncounted(k, writes, n) == [k EXCEPT !.writes = writes]

Queued(k, n) == [k EXCEPT !.writes = Append(@, n), !.unacked = @ + n]
Settled(k, writes, n) == [k EXCEPT !.writes = writes, !.unacked = @ - n]

Handed(s, n) == [s EXCEPT !.taken = @ + n, !.outgoing = @ + n]

\* handleWrite.  A chunk the socket has room for is accepted at once, one beyond
\* that when the socket has drained.
ReceiveWrite ==
    /\ Arrives("write")
    /\ LET n == Head(toBroker).n
           rest == Tail(toBroker)
           queued == Queued(sink, n)
       IN  IF sink.stopped THEN Drained(sink, socket, <<>>, rest)
           ELSE IF queued.unacked > WriteWindow
           THEN FailSocket(pump, [sink EXCEPT !.stopped = TRUE], <<Failed("limit")>>, "limit", rest)
           ELSE IF socket.reset \/ sink.writes # <<>>
           THEN Drained(queued, socket, <<>>, rest)
           ELSE IF ~Writable(socket)
           THEN Drained([sink EXCEPT !.stopped = TRUE], socket, <<Failed("closed")>>, rest)
           ELSE IF socket.outgoing + n <= SocketBuffer
           THEN Drained(sink, Handed(socket, n), <<Ack(n)>>, rest)
           ELSE Drained(queued, Handed(socket, n), <<>>, rest)
    /\ UNCHANGED <<page, calls>>

\* A mutant: acknowledgements are coalesced as credits are, with no timer.
DrainsInBulk ==
    /\ ~sink.stopped /\ sink.unacked >= Coalesce
    /\ Writable(socket) /\ socket.outgoing = 0

\* The socket's 'drain', which Node emits only while the writable has not ended.
Drains == ~sink.stopped /\ sink.writes # <<>> /\ Writable(socket) /\ socket.outgoing = 0

WriteSettles ==
    /\ Drains
    /\ LET others == Tail(sink.writes)
           next == IF others = <<>> THEN 0 ELSE Head(others)
           all == next <= SocketBuffer
           settled == Head(sink.writes) + (IF all THEN next ELSE 0)
           k == Settled(sink, IF all THEN <<>> ELSE others, settled)
       IN  Drained(k, Handed(socket, next), IF all THEN <<Ack(settled)>> ELSE <<>>, toBroker)
    /\ UNCHANGED <<page, calls>>

\* A write on a socket that was reset is rejected.
WriteRejected ==
    /\ ~sink.stopped /\ sink.writes # <<>> /\ socket.reset
    /\ FailSocket(pump, [sink EXCEPT !.stopped = TRUE], <<Failed("reset")>>, "reset", toBroker)
    /\ UNCHANGED <<page, calls>>

\* A mutant: the heartbeat acknowledges the write it keeps alive.
HeartbeatAccepts ==
    /\ ~sink.stopped /\ sink.writes # <<>>
    /\ \A i \in 1 .. Len(toPage) : toPage[i].kind # "ack"
    /\ toPage' = PostedToPage(<<Ack(Head(sink.writes))>>)
    /\ UNCHANGED <<socket, pump, sink, relay, handle, toBroker, ends, page, calls>>

\* The heartbeat of a write that is not accepted.  Bound of the model: the next
\* one waits until the page took the last.
Heartbeat ==
    /\ ~sink.stopped /\ sink.writes # <<>>
    /\ \A i \in 1 .. Len(toPage) : toPage[i].kind # "ack"
    /\ toPage' = PostedToPage(<<Ack(0)>>)
    /\ UNCHANGED <<socket, pump, sink, relay, handle, toBroker, ends, page, calls>>

ReceiveEnd ==
    /\ Arrives("writeEnd")
    /\ Drained(IF sink.stopped THEN sink ELSE [sink EXCEPT !.ending = TRUE],
               socket, <<>>, Tail(toBroker))
    /\ UNCHANGED <<page, calls>>

\* writer.abort() waits for a write or a close in flight, and a close settles it; with
\* neither it destroys the socket with an error, and what was not read is dropped.
WriterAborted(s) ==
    IF ~s.alive \/ sink.writes # <<>> \/ sink.ended THEN s
    ELSE [Destroyed(s) EXCEPT !.readable = IF s.readable = "open" THEN "errored" ELSE @,
                              !.incoming = IF s.readable = "open" THEN <<>> ELSE @]

\* handleAbort.  The unlink listener cancels the reader before the table's
\* destroy('aborted') and writer.abort() reach the socket.
ReceiveAbort ==
    /\ Arrives("writeAbort")
    /\ LET failed == [sink EXCEPT !.stopped = TRUE]
       IN  IF sink.stopped THEN Drained(sink, socket, <<>>, Tail(toBroker))
           ELSE IF handle.state = "live"
           THEN /\ handle' = Gone("aborted")
                /\ Stop(pump, failed, <<Failed("reset")>>, "reset")
                /\ socket' = ResetAndDestroyed(ReaderCancelled(socket))
           ELSE Drained(failed, WriterAborted(socket), <<Failed("reset")>>, Tail(toBroker))
    /\ UNCHANGED <<page, calls>>

\* port.onClose: the page closed its end, or navigated.
PortCloses ==
    /\ "page" \in ends /\ "broker" \notin ends /\ toBroker = <<>>
    /\ Stop(pump, sink, <<>>, "clean")
    /\ socket' = ReaderCancelled(socket)
    /\ UNCHANGED <<handle, page, calls>>

-----------------------------------------------------------------------------
(* The handle: what ends it from outside the page, and its teardown.        *)

Revoke ==
    /\ "revoked" \in Outside /\ handle.state = "live"
    /\ handle' = Gone("revoked")
    /\ Stop(pump, sink, <<>>, "revoked")
    /\ socket' = ResetAndDestroyed(ReaderCancelled(socket))
    /\ UNCHANGED <<page, calls>>

\* dropOrigin.  closeTree rejects `closed' before it calls destroy('sessionEnded'):
\* the relay, which waits for `closed', stops in the microtasks of the same turn.
SessionEnds ==
    /\ "sessionEnded" \in Outside /\ handle.state = "live"
    /\ handle' = [handle EXCEPT !.state = "leaving", !.reason = "sessionEnded"]
    /\ Stop(pump, sink, <<>>, "revoked")
    /\ socket' = ReaderCancelled(Ended(socket))
    /\ UNCHANGED <<page, calls>>

\* A mutant, which the comment at socket.ts:201 tells of: the relay stops as soon as
\* the handle leaves the table, whatever the reason.
NetCloseStops(c) ==
    /\ calls[c] = "asked"
    /\ IF relay.registered /\ handle.state = "live"
       THEN /\ handle' = Leaving(handle)
            /\ Stop(pump, sink, <<>>, "clean")
            /\ socket' = Ended(ReaderCancelled(socket))
            /\ calls' = [calls EXCEPT ![c] = "waiting"]
            /\ UNCHANGED page
       ELSE /\ calls' = [calls EXCEPT ![c] = "answered"]
            /\ UNCHANGED <<socket, handle, pump, sink, relay, toPage, toBroker, ends, page>>

\* net.close: release() through the registry entry.  A handle that is not in the
\* tables any more is a close that has nothing left to wait for.
NetClose(c) ==
    /\ calls[c] = "asked"
    /\ IF relay.registered /\ handle.state = "live"
       THEN /\ handle' = Leaving(handle)
            /\ socket' = Ended(socket)
            /\ calls' = [calls EXCEPT ![c] = "waiting"]
       ELSE /\ calls' = [calls EXCEPT ![c] = "answered"]
            /\ UNCHANGED <<socket, handle>>
    /\ UNCHANGED <<pump, sink, relay, toPage, toBroker, ends, page>>

\* destroySocket gives a peer that stopped reading CLOSE_DRAIN_TIMEOUT_MS.
DrainDeadline ==
    /\ handle.state = "leaving" /\ socket.alive /\ socket.ours = "ending"
    /\ socket' = Destroyed(socket)
    /\ handle' = [handle EXCEPT !.deadline = TRUE]
    /\ UNCHANGED <<pump, sink, relay, toPage, toBroker, ends, page, calls>>

\* The socket has flushed and ended, or is gone: `closed' resolves, the relay
\* stops, and the close() that waits is answered.
TeardownSettles ==
    /\ handle.state = "leaving" /\ socket.ours # "ending"
    /\ handle' = [handle EXCEPT !.state = "gone"]
    /\ Stop(pump, sink, <<>>, "clean")
    /\ socket' = ReaderCancelled(socket)
    /\ calls' = [c \in Closes |-> IF calls[c] = "waiting" THEN "answered" ELSE calls[c]]
    /\ UNCHANGED page

-----------------------------------------------------------------------------
(* The page. *)

PostedToBroker(message) == IF ends = {} THEN Append(toBroker, message) ELSE toBroker

Unfinished == {"open", "ending"}

\* controller.error on both streams; a write that was pending fails.
Readless(p, state) ==
    IF p.readable \in Unfinished THEN [p EXCEPT !.readable = state, !.queue = <<>>, !.queued = 0] ELSE p
Writeless(p) == [p EXCEPT !.writable = IF @ \in {"open", "closing"} THEN "errored" ELSE @]
Rejected(p) == [p EXCEPT !.closed = IF @ = "pending" THEN "rejected" ELSE @]
Unwritten(p) == [p EXCEPT !.writing = FALSE, !.left = 0, !.piece = 0, !.acked = 0]
Resolved(p) ==
    IF p.readTerminal /\ p.writeTerminal /\ p.closed = "pending" THEN [p EXCEPT !.closed = "resolved"] ELSE p

\* A mutant: a queue that is not empty hides the end.
ReadClosedIfEmpty(p) ==
    [p EXCEPT !.readable = IF @ = "open" /\ p.queue = <<>> THEN "closed" ELSE @]

\* controller.close(): what is queued can still be read.
ReadClosed(p) ==
    [p EXCEPT !.readable = IF @ # "open" THEN @ ELSE IF p.queue = <<>> THEN "closed" ELSE "ending"]

\* onFatal: a failed write takes the readable with it.
Fatal(p) == Rejected(Writeless(Readless(Unwritten(p), "errored")))

\* reportConsumed.  What stays below the threshold waits for a timer.
Reports(p, n) ==
    LET owed == p.sinceLastCredit + n
    IN  IF owed >= Coalesce
        THEN /\ page' = [p EXCEPT !.sinceLastCredit = 0]
             /\ toBroker' = PostedToBroker(Credit(owed))
        ELSE /\ page' = [p EXCEPT !.sinceLastCredit = owed]
             /\ UNCHANGED toBroker

\* A mutant: what was reported is not taken off what is to be reported.
PulledAndReportsAgain(p) ==
    IF p.readable = "open" /\ p.queued < ReadWindow
    THEN Reports(p, p.uncredited - p.queued)
    ELSE page' = p /\ UNCHANGED toBroker

\* pull(), which the stream calls while it wants more than it holds.  What was
\* consumed is what was enqueued less what is still queued.
PulledAndReports(p) ==
    IF p.readable = "open" /\ p.queued < ReadWindow
    THEN Reports([p EXCEPT !.uncredited = p.queued], p.uncredited - p.queued)
    ELSE page' = p /\ UNCHANGED toBroker

FlushCredit ==
    /\ page.here /\ page.sinceLastCredit > 0
    /\ page' = [page EXCEPT !.sinceLastCredit = 0]
    /\ toBroker' = PostedToBroker(Credit(page.sinceLastCredit))
    /\ UNCHANGED <<socket, pump, sink, relay, handle, toPage, ends, calls>>

PageTakes(kind) == page.here /\ toPage # <<>> /\ Head(toPage).kind = kind /\ toPage' = Tail(toPage)

\* A chunk for a stream that errored throws at enqueue, after it was counted.
PageData ==
    /\ PageTakes("data")
    /\ LET n == Head(toPage).n
           p == [page EXCEPT !.got = @ + n]
       IN  IF page.readable = "cancelled" THEN Reports(p, n)
           ELSE IF page.readable = "open"
           THEN PulledAndReports([p EXCEPT !.queue = Append(@, n), !.queued = @ + n, !.uncredited = @ + n])
           ELSE page' = [p EXCEPT !.uncredited = @ + n] /\ UNCHANGED toBroker
    /\ UNCHANGED <<socket, pump, sink, relay, handle, ends, calls>>

PageEnd ==
    /\ PageTakes("end")
    /\ page' = IF Head(toPage).code = "clean"
               THEN Resolved(ReadClosed([page EXCEPT !.readTerminal = TRUE]))
               ELSE IF page.readable = "cancelled" THEN Rejected(page)
               ELSE Rejected(Writeless(Readless(page, "errored")))
    /\ UNCHANGED <<socket, pump, sink, relay, handle, toBroker, ends, calls>>

\* A piece that is fully accepted makes way for the next one of the same write.
PageAck ==
    /\ PageTakes("ack")
    /\ LET acked == page.acked + Head(toPage).n
           left == page.left - page.piece
           piece == Least(left, WriteWindow)
           accepted == page.accepted + page.piece
       IN  IF ~page.writing THEN UNCHANGED <<page, toBroker>>
           ELSE IF acked < page.piece THEN page' = [page EXCEPT !.acked = acked] /\ UNCHANGED toBroker
           ELSE IF left = 0
           THEN page' = [Unwritten(page) EXCEPT !.accepted = accepted] /\ UNCHANGED toBroker
           ELSE /\ page' = [page EXCEPT !.left = left, !.piece = piece, !.acked = 0, !.accepted = accepted]
                /\ toBroker' = PostedToBroker(Write(piece))
    /\ UNCHANGED <<socket, pump, sink, relay, handle, ends, calls>>

PageFailed ==
    /\ PageTakes("failed")
    /\ page' = Fatal(page)
    /\ UNCHANGED <<socket, pump, sink, relay, handle, toBroker, ends, calls>>

\* Nothing was heard of a pending write for WRITE_SILENCE_TIMEOUT_MS, three times
\* the heartbeat: the broker does not hold it, and nothing is on its way.
Silence ==
    /\ page.here /\ page.writing
    /\ sink.stopped \/ sink.writes = <<>>
    /\ \A i \in 1 .. Len(toBroker) : toBroker[i].kind # "write"
    /\ \A i \in 1 .. Len(toPage) : toPage[i].kind \notin {"ack", "failed"}
    /\ page' = Fatal(page)
    /\ UNCHANGED <<socket, pump, sink, relay, handle, toPage, toBroker, ends, calls>>

AppReads ==
    /\ page.here /\ page.queue # <<>>
    /\ LET rest == Tail(page.queue)
           p == [page EXCEPT !.queue = rest, !.queued = @ - Head(page.queue)]
       IN  PulledAndReports([p EXCEPT !.readable = IF @ = "ending" /\ rest = <<>> THEN "closed" ELSE @])
    /\ UNCHANGED <<socket, pump, sink, relay, handle, toPage, ends, calls>>

AppCancels ==
    /\ page.here /\ page.readable \in Unfinished
    /\ page' = Readless(page, "cancelled")
    /\ UNCHANGED <<socket, pump, sink, relay, handle, toPage, toBroker, ends, calls>>

AppWritesBytes(n) ==
    /\ page.here /\ page.writable = "open" /\ ~page.writing
    /\ page.asked + n <= AppBytes /\ page.writes < AppWrites
    /\ LET piece == Least(n, WriteWindow)
       IN  /\ page' = [page EXCEPT !.writing = TRUE, !.left = n, !.piece = piece, !.acked = 0,
                                   !.asked = @ + n, !.writes = @ + 1]
           /\ toBroker' = PostedToBroker(Write(piece))
    /\ UNCHANGED <<socket, pump, sink, relay, handle, toPage, ends, calls>>

AppEnds ==
    /\ page.here /\ page.writable = "open"
    /\ page' = [page EXCEPT !.writable = "closing"]
    /\ UNCHANGED <<socket, pump, sink, relay, handle, toPage, toBroker, ends, calls>>

\* endWrite, once the write before it has settled.
EndWrite ==
    /\ page.here /\ page.writable = "closing" /\ ~page.writing
    /\ page' = Resolved([page EXCEPT !.writable = "closed", !.writeTerminal = TRUE])
    /\ toBroker' = PostedToBroker(WriteEnd)
    /\ UNCHANGED <<socket, pump, sink, relay, handle, toPage, ends, calls>>

AppAborts ==
    /\ page.here /\ page.writable \in {"open", "closing"}
    /\ page' = [page EXCEPT !.writable = "erroring", !.aborted = TRUE]
    /\ UNCHANGED <<socket, pump, sink, relay, handle, toPage, toBroker, ends, calls>>

\* abortWrite: a WritableStream aborts its sink only once the write in flight settled.
AbortWrite ==
    /\ page.here /\ page.writable = "erroring" /\ ~page.writing
    /\ page' = Rejected([page EXCEPT !.writable = "errored"])
    /\ toBroker' = PostedToBroker(WriteAbort)
    /\ UNCHANGED <<socket, pump, sink, relay, handle, toPage, ends, calls>>

AppCloses(c) ==
    /\ page.here /\ calls[c] = "none"
    /\ calls' = [calls EXCEPT ![c] = "asked"]
    /\ UNCHANGED <<socket, pump, sink, relay, handle, toPage, toBroker, ends, page>>

\* net.close was answered: dispose() closes the port, then both streams are closed.
Dispose(c) ==
    /\ page.here /\ calls[c] = "answered"
    /\ calls' = [calls EXCEPT ![c] = "done"]
    /\ page' = LET p == [Unwritten(page) EXCEPT !.readTerminal = TRUE, !.writeTerminal = TRUE]
               IN  Writeless(ReadClosed(Resolved(p)))
    /\ ends' = ends \cup {"page"}
    /\ toPage' = <<>>
    /\ UNCHANGED <<socket, pump, sink, relay, handle, toBroker>>

\* The document goes away with all it held, and its end of the port with it.
Navigates ==
    /\ "navigated" \in Outside /\ page.here
    /\ page' = [NewPage EXCEPT !.here = FALSE]
    /\ ends' = ends \cup {"page"}
    /\ toPage' = <<>>
    /\ UNCHANGED <<socket, pump, sink, relay, handle, toBroker, calls>>

-----------------------------------------------------------------------------
Peer == (\E n \in 1 .. MaxChunk : PeerSends(n)) \/ PeerEnds \/ PeerResets \/ PeerReads

Pump == PumpReads \/ PumpEnds \/ PumpFails
Sink == WriteSettles \/ WriteRejected
BrokerReceives == ReceiveCredit \/ ReceiveWrite \/ ReceiveEnd \/ ReceiveAbort
Teardown == FinSent \/ DrainDeadline \/ TeardownSettles \/ PortCloses
PageReceives == PageData \/ PageEnd \/ PageAck \/ PageFailed

App ==
    \/ AppReads \/ AppCancels \/ AppEnds \/ AppAborts \/ Navigates
    \/ \E n \in 0 .. AppBytes : AppWritesBytes(n)
    \/ \E c \in Closes : AppCloses(c)

Next ==
    \/ Peer \/ Pump \/ Sink \/ BrokerReceives \/ Teardown \/ PageReceives \/ App
    \/ Heartbeat \/ Revoke \/ SessionEnds \/ FlushCredit \/ Silence \/ EndWrite \/ AbortWrite
    \/ \E c \in Closes : NetClose(c) \/ Dispose(c)

Spec == Init /\ [][Next]_vars

\* Turns, messages and timers come.  Nothing is assumed of the peer, of the app
\* and of the user.
Fairness ==
    /\ WF_vars(Pump) /\ WF_vars(Sink) /\ WF_vars(BrokerReceives) /\ WF_vars(PageReceives)
    /\ WF_vars(FinSent) /\ WF_vars(DrainDeadline) /\ WF_vars(TeardownSettles) /\ WF_vars(PortCloses)
    /\ WF_vars(FlushCredit) /\ WF_vars(Silence) /\ WF_vars(EndWrite) /\ WF_vars(AbortWrite)
    /\ \A c \in Closes : WF_vars(NetClose(c)) /\ WF_vars(Dispose(c))

FairSpec == Spec /\ Fairness

-----------------------------------------------------------------------------
\* Types, and the two ranges that are not evident: credit falls below zero by less
\* than a chunk, and a second write waits at the sink only on a socket that was reset,
\* behind an empty one that a heartbeat had answered.
TypeOK ==
    /\ socket \in [sent : 0 .. PeerBytes, theirs : {"open", "fin"}, reset : BOOLEAN,
                   incoming : Seq(1 .. MaxChunk),
                   readable : {"open", "closed", "errored", "cancelled"},
                   taken : 0 .. AppBytes, outgoing : 0 .. AppBytes, received : 0 .. AppBytes,
                   ours : {"open", "ending", "fin", "cut", "rst"}, alive : BOOLEAN]
    /\ pump \in [credit : (1 - MaxChunk) .. ReadWindow, stopped : BOOLEAN, endSent : BOOLEAN]
    /\ sink \in [writes : Seq(0 .. WriteWindow), unacked : 0 .. WriteWindow,
                 stopped : BOOLEAN, ending : BOOLEAN, ended : BOOLEAN]
    /\ ~socket.reset => Len(sink.writes) <= 1
    /\ relay \in [registered : BOOLEAN, readEnded : BOOLEAN, writeEnded : BOOLEAN]
    /\ handle \in [state : {"live", "leaving", "gone"}, deadline : BOOLEAN,
                   reason : {"none", "closed", "revoked", "sessionEnded", "aborted", "failed"}]
    /\ toPage \in Seq(ToPage) /\ toBroker \in Seq(ToBroker)
    /\ ends \subseteq {"broker", "page"}
    /\ page \in [here : BOOLEAN, queue : Seq(1 .. MaxChunk), queued : 0 .. PeerBytes,
                 uncredited : 0 .. PeerBytes, sinceLastCredit : 0 .. PeerBytes, got : 0 .. PeerBytes,
                 readable : {"open", "ending", "closed", "errored", "cancelled"},
                 readTerminal : BOOLEAN, writing : BOOLEAN, left : 0 .. AppBytes,
                 piece : 0 .. WriteWindow, acked : 0 .. AppBytes, accepted : 0 .. AppBytes,
                 asked : 0 .. AppBytes, writes : 0 .. AppWrites,
                 writable : {"open", "closing", "closed", "erroring", "errored"},
                 aborted : BOOLEAN, writeTerminal : BOOLEAN, closed : {"pending", "resolved", "rejected"}]
    /\ calls \in [Closes -> {"none", "asked", "waiting", "answered", "done"}]

\* The numbers of a sequence, added up as the size of the set of their units.
Sum(s) == Cardinality(UNION {{i} \X (1 .. s[i]) : i \in DOMAIN s})

\* What the messages of one kind carry together.
Carried(messages, kind) ==
    Sum([i \in DOMAIN messages |-> IF messages[i].kind = kind THEN messages[i].n ELSE 0])

\* While the pump runs and the port is open, every byte of the read window is in
\* exactly one place: credit the pump holds, data or credit on the way, data the
\* page holds, credit it has not sent.  Lost credit stalls the socket for good,
\* credit counted twice opens the window.  (port-pump.ts:127-138, and pull() and
\* reportConsumed in the preload.)
CreditConserved ==
    ~pump.stopped /\ ends = {} =>
        pump.credit + Carried(toPage, "data") + page.uncredited + page.sinceLastCredit
            + Carried(toBroker, "credit") = ReadWindow

\* A page that plays by the rules is never refused for its window, however its
\* writes are split and its acknowledgements cross.  (port-sink.ts:handleWrite.)
NoFalseLimit == \A i \in 1 .. Len(toPage) : toPage[i] # Failed("limit")

\* What the app is told was accepted was handed to the socket, never counted
\* twice.  (flush in port-sink.ts, the write-ack case in preload/ports/socket.ts.)
AcceptedIsInSocket ==
    page.accepted + page.acked + Carried(toPage, "ack") <= socket.taken

\* An end without an error that the app did not ask for means the peer's FIN, and
\* everything before it.  (sendEnd, onClose in adapters/socket-streams.ts.)
CleanEndMeansAll ==
    page.readable \in {"ending", "closed"} /\ (\A c \in Closes : calls[c] = "none") =>
        socket.theirs = "fin" /\ page.got = socket.sent

\* A second close() while the first one flushes is answered at once, and closes the port.
ClosedTwice == \E c, d \in Closes : c # d /\ calls[c] # "none" /\ calls[d] # "none"

\* What an app and its peer can tell of the state: the two ends, the app's readable,
\* that close() was called, and that something happened which may cost bytes.
PeerDone == socket.theirs = "fin"
Finished == socket.ours = "fin"
Closing == \E c \in Closes : calls[c] # "none"

Reading ==
    IF ~page.here THEN "gone"
    ELSE IF page.readable \in {"errored", "cancelled"} THEN "broken" ELSE page.readable

Excused ==
    \/ socket.reset \/ handle.deadline
    \/ handle.reason \in {"revoked", "sessionEnded", "aborted", "failed"}
    \/ ~page.here \/ page.aborted \/ ClosedTwice

\* Bytes the socket accepted are lost only to something that may lose them: a
\* reset, a withdrawal, an abort, a document that is gone, the drain deadline, the
\* end of a session.  A close loses nothing, if it is the only one.  (The branch at
\* socket.ts:212-215.)
CloseLosesNothing == Lost > 0 => Excused

\* With credits, acknowledgements, the half-close, the teardown and whatever ends the
\* socket interleaved, the app has a connection: a byte stream each way.
Stream == INSTANCE Connection WITH
    sent <- socket.sent, peerDone <- PeerDone, got <- page.got, reading <- Reading,
    asked <- page.asked, taken <- socket.taken, accepted <- page.accepted,
    received <- socket.received, finished <- Finished, closing <- Closing, excused <- Excused

ImplementsStream == Stream!Spec

\* handle-contracts.ts: on 'closed' and 'sessionEnded', "FIN, buffered writes FLUSHED".
FlushingReasonsFlush ==
    handle.reason \in {"closed", "sessionEnded"} /\ ~socket.reset /\ ~handle.deadline
            /\ ~page.aborted => Lost = 0

\* close() returns, even when the peer never reads again.  (A84: destroySocket's
\* deadline.)
CloseReturns == \A c \in Closes : calls[c] = "asked" ~> (calls[c] = "done" \/ ~page.here)

\* A socket that ended both ways gives its slot back.  (releaseOnceBothEnded.)
EndedSocketIsReleased ==
    (relay.readEnded /\ relay.writeEnded) ~> (handle.state = "gone" /\ ~relay.registered)

\* Nothing keeps a socket that is over: neither a peer that stalls its close, nor one
\* direction that ended before the other (destroySocket, releaseOnceBothEnded).
SocketIsLetGo == CloseReturns /\ EndedSocketIsReleased

\* The peer's FIN reaches an app that keeps reading.
EndReachesReader ==
    WF_vars(AppReads) => ((socket.theirs = "fin") ~> (page.readable \notin Unfinished \/ ~page.here))

\* A write to a peer that keeps reading is answered, unless the peer's FIN ended
\* the socket while the write waited for its drain.
WriteIsAnswered ==
    WF_vars(PeerReads) =>
        (page.writing ~> (\/ ~page.writing \/ ~page.here
                          \/ socket.theirs = "fin" /\ sink.writes # <<>>))

=============================================================================
