------------------------------- MODULE Server -------------------------------
(***************************************************************************)
(* One TCP server of one page, from the peers that connect to the app's    *)
(* reads: the listening socket of adapters/node-adapters.ts, the stream of *)
(* accepted connections of capabilities/net-listen.ts, the accept pump and *)
(* the server's relay (src/broker/transport/relay), the port, and the      *)
(* page's stream of connections (src/preload).  Connections are numbered   *)
(* in the order they are made.                                             *)
(*                                                                         *)
(* A step is one turn of a process.  In the broker a turn takes a          *)
(* connection from the listener through the handle table to the port, or a *)
(* closed handle through its unlink listener to the listener's destroy:    *)
(* every await in between is answered within the turn.                     *)
(*                                                                         *)
(* Left out: the bind itself and the delivery of the server's port (a page *)
(* that leaves meanwhile is Dial's), what an accepted socket carries       *)
(* (Relay), sockets the origin holds beside the server's.                  *)
(***************************************************************************)
EXTENDS Integers, Sequences, FiniteSets

CONSTANTS
    QueueLimit,      \* LISTEN_ACCEPT_QUEUE_LIMIT
    SocketLimit,     \* the origin's socket allowance, the server included
    MaxDemand,       \* LIMITS.concurrentSockets, as the accept pump's ceiling
    Peers,           \* bound of the model: connections that are made
    Reads            \* bound of the model: reads of the app

ASSUME ServerAssumption ==
    /\ {QueueLimit, SocketLimit, MaxDemand} \subseteq Nat \ {0}
    /\ {Peers, Reads} \subseteq Nat

VARIABLES
    listener,        \* listenTcp's server, its queue and its waiter
    conn,            \* each peer's connection
    handle,          \* the HandleTable's record of the server
    pump,            \* accept-pump.ts
    toPage,          \* messages on the server's port, oldest first
    credits,         \* demand on its way, one read a message
    ends,            \* which ends of the port are closed
    page,            \* preload/ports/server.ts and buildServer
    call             \* the app's close()

vars == <<listener, conn, handle, pump, toPage, credits, ends, page, call>>

Conns == 1 .. Peers
Live == {c \in Conns : conn[c] = "live"}

\* splice(i, 1).
Without(s, i) == [j \in 1 .. Len(s) - 1 |-> IF j < i THEN s[j] ELSE s[j + 1]]

Least(a, b) == IF a <= b THEN a ELSE b

Accepted(c) == [kind |-> "accepted", conn |-> c]
End(code) == [kind |-> "end", code |-> code]

Init ==
    /\ listener = [queue |-> <<>>, waiting |-> FALSE, reason |-> "none", bound |-> TRUE]
    /\ conn = [c \in Conns |-> "none"]
    /\ handle = "live"
    /\ pump = [demand |-> 0, stopped |-> FALSE]
    /\ toPage = <<>> /\ credits = 0 /\ ends = {}
    /\ page = [here |-> TRUE, stream |-> "open", reads |-> 0, asked |-> 0, overlapped |-> FALSE,
               queue |-> <<>>, got |-> <<>>]
    /\ call = "none"

-----------------------------------------------------------------------------
(* The end of the server, in one turn: the handle and the sockets derived  *)
(* from it leave the table, the relay's unlink listener stops the pump,    *)
(* posts the end and closes the port, and the listener is destroyed.       *)

Posted(message) == IF "page" \in ends THEN toPage ELSE Append(toPage, message)

\* destroy() of the listener: nothing more for one that failed before.
Destroyed(reason) ==
    IF listener.reason = "none"
    THEN [queue |-> <<>>, waiting |-> FALSE, reason |-> reason, bound |-> FALSE]
    ELSE [listener EXCEPT !.waiting = FALSE]

\* A mutant: the sockets it accepted are not the server's to close.
QueueOver(c) == IF conn[c] = "queued" THEN "closed" ELSE conn[c]

\* Accepted connections end with their server, queued ones with its listener.
Over(c) == IF conn[c] = "none" THEN "none" ELSE "closed"

\* closeTree of the server, with the listener it leaves and the code of the end.
CloseTree(left, code) ==
    /\ handle' = "gone"
    /\ pump' = [pump EXCEPT !.stopped = TRUE]
    /\ toPage' = Posted(End(code))
    /\ ends' = ends \cup {"broker"} /\ credits' = 0
    /\ conn' = [c \in Conns |-> Over(c)]
    /\ listener' = left

\* The grant is withdrawn, or the session ends.
Revoked ==
    /\ handle = "live"
    /\ CloseTree(Destroyed("revoked"), "revoked")
    /\ UNCHANGED <<page, call>>

SessionEnds ==
    /\ handle = "live"
    /\ CloseTree(Destroyed("sessionEnded"), "revoked")
    /\ UNCHANGED <<page, call>>

\* The page closed its end: the broker hears of it after what was posted before.
PortCloses ==
    /\ "page" \in ends /\ handle = "live" /\ credits = 0
    /\ CloseTree(Destroyed("closed"), "clean")
    /\ UNCHANGED <<page, call>>

\* net.close finds the server by its id, or nothing.
NetClose ==
    /\ call = "asked"
    /\ call' = "closing"
    /\ IF handle = "live"
       THEN CloseTree(Destroyed("closed"), "clean")
       ELSE UNCHANGED <<listener, conn, handle, pump, toPage, credits, ends>>
    /\ UNCHANGED page

-----------------------------------------------------------------------------
(* Peers and the listening socket. *)

\* acquireDerived: the origin's sockets are counted, this server among them.
Room == Cardinality(Live) + 1 < SocketLimit

Made(c) == conn[c] = "none" /\ \A d \in 1 .. c - 1 : conn[d] # "none"

\* A mutant: the connection does not use up the demand it was accepted for.
HandedFree(c) ==
    /\ conn' = [conn EXCEPT ![c] = "live"]
    /\ toPage' = Posted(Accepted(c))
    /\ UNCHANGED <<pump, listener>>

\* A connection for the read that is pending.  The pump reads on while it has demand.
Handed(c) ==
    /\ conn' = [conn EXCEPT ![c] = "live"]
    /\ toPage' = Posted(Accepted(c))
    /\ pump' = [pump EXCEPT !.demand = @ - 1]
    /\ listener' = [listener EXCEPT !.waiting = pump.demand > 1]

\* 'connection': reset when the listener is gone or its queue is full; for a read
\* that waits, refused by the allowance or handed over; queued otherwise.
Refused ==
    \/ listener.reason # "none"
    \/ listener.waiting /\ ~Room
    \/ ~listener.waiting /\ Len(listener.queue) >= QueueLimit

Connects(c) ==
    /\ listener.bound /\ Made(c)
    /\ \/ /\ Refused
          /\ conn' = [conn EXCEPT ![c] = "closed"]
          /\ UNCHANGED <<listener, pump, toPage>>
       \/ /\ ~Refused /\ listener.waiting
          /\ Handed(c)
       \/ /\ ~Refused /\ ~listener.waiting
          /\ conn' = [conn EXCEPT ![c] = "queued"]
          /\ listener' = [listener EXCEPT !.queue = Append(@, c)]
          /\ UNCHANGED <<pump, toPage>>
    /\ UNCHANGED <<handle, credits, ends, page, call>>

\* A queued peer goes away, and leaves the queue.
QueuedEnds(c) ==
    /\ conn[c] = "queued"
    /\ conn' = [conn EXCEPT ![c] = "closed"]
    /\ \E i \in DOMAIN listener.queue :
          /\ listener.queue[i] = c
          /\ listener' = [listener EXCEPT !.queue = Without(@, i)]
    /\ UNCHANGED <<handle, pump, toPage, credits, ends, page, call>>

\* An accepted socket ends by itself or by the app, and leaves the table.
SocketEnds(c) ==
    /\ conn[c] = "live"
    /\ conn' = [conn EXCEPT ![c] = "closed"]
    /\ UNCHANGED <<listener, handle, pump, toPage, credits, ends, page, call>>

\* The listening socket reports an error.  A read that waits is told, and the pump
\* fails the server; without one only the queue goes.
ListenerFails ==
    /\ listener.bound /\ listener.reason = "none"
    /\ LET failed == [listener EXCEPT !.queue = <<>>, !.waiting = FALSE, !.reason = "failed"]
       IN  \/ /\ listener.waiting
              /\ CloseTree(failed, "internal")
           \/ /\ ~listener.waiting
              /\ listener' = failed
              /\ conn' = [c \in Conns |-> IF conn[c] = "queued" THEN "closed" ELSE conn[c]]
              /\ UNCHANGED <<handle, pump, toPage, credits, ends>>
    /\ UNCHANGED <<page, call>>

-----------------------------------------------------------------------------
(* The accept pump: a credit is one read of the page. *)

\* A mutant: the connection that came last is served first.
Newest == Len(listener.queue)

\* accept() shifts the oldest connection off the queue.
Oldest == 1

\* A mutant: the pump asks the listener again only when a peer comes.
PullsLate ==
    /\ listener' = [listener EXCEPT !.waiting = TRUE]
    /\ pump' = [pump EXCEPT !.demand = 1]
    /\ UNCHANGED <<conn, toPage>>

\* pull(): the first queued connection the allowance admits; without room each of
\* them is dropped, and the read waits for the next peer.
Pulled ==
    \/ /\ Room /\ listener.queue # <<>>
       /\ conn' = [conn EXCEPT ![listener.queue[Oldest]] = "live"]
       /\ toPage' = Posted(Accepted(listener.queue[Oldest]))
       /\ listener' = [listener EXCEPT !.queue = Without(@, Oldest)]
       /\ UNCHANGED pump
    \/ /\ ~Room \/ listener.queue = <<>>
       /\ conn' = [c \in Conns |-> IF conn[c] = "queued" THEN "closed" ELSE conn[c]]
       /\ listener' = [listener EXCEPT !.queue = <<>>, !.waiting = TRUE]
       /\ pump' = [pump EXCEPT !.demand = 1]
       /\ UNCHANGED toPage

\* A mutant: the page's word is taken for the demand.
Unclamped(demand) == demand

\* The ceiling of maxOutstandingDemand.
Clamped(demand) == Least(demand, MaxDemand)

\* A credit while a read is pending adds to the demand; the one that finds none
\* pending starts the loop, whose demand was used up.  A listener that failed
\* meanwhile answers the read with its error.
TakesCredit ==
    /\ credits > 0 /\ "broker" \notin ends
    /\ \/ /\ listener.waiting
          /\ credits' = credits - 1
          /\ pump' = [pump EXCEPT !.demand = Clamped(@ + 1)]
          /\ UNCHANGED <<listener, conn, handle, toPage, ends>>
       \/ /\ ~listener.waiting /\ listener.reason = "none"
          /\ credits' = credits - 1
          /\ Pulled
          /\ UNCHANGED <<handle, ends>>
       \/ /\ ~listener.waiting /\ listener.reason = "failed"
          /\ CloseTree(listener, "internal")
    /\ UNCHANGED <<page, call>>

-----------------------------------------------------------------------------
(* The page: one read of the app is one pull of its stream when it is the  *)
(* only one that waits.  (buildServer: highWaterMark 0.)                   *)

Report(n) == credits' = IF ends = {} THEN credits + n ELSE credits

\* k reads in one turn.  Those the queue does not serve pull once at once and once
\* more when that pull has settled, however many they are.
AppReads(k) ==
    /\ page.here /\ page.stream \in {"open", "closing"} /\ page.asked + k <= Reads
    /\ LET served == Least(k, Len(page.queue))
           left == SubSeq(page.queue, served + 1, Len(page.queue))
           waiting == IF page.stream = "open" THEN k - served ELSE 0
       IN  /\ page' = [page EXCEPT !.asked = @ + k, !.queue = left,
                          !.got = @ \o SubSeq(page.queue, 1, served),
                          !.reads = @ + waiting,
                          !.overlapped = @ \/ page.reads + waiting > 1,
                          !.stream = IF @ = "closing" /\ left = <<>> THEN "closed" ELSE @]
           /\ Report(Least(waiting, 2))
    /\ UNCHANGED <<listener, conn, handle, pump, toPage, ends, call>>

\* controller.enqueue serves a read, and pulls for the next one that waits.  A stream
\* that is closed refuses it, and the page has lost the connection.
Arrives(c) ==
    /\ page' = IF page.stream # "open" THEN page
               ELSE IF page.reads = 0 THEN [page EXCEPT !.queue = Append(@, c)]
               ELSE [page EXCEPT !.reads = @ - 1, !.got = Append(@, c)]
    /\ Report(IF page.stream = "open" /\ page.reads > 1 THEN 1 ELSE 0)

\* controller.close and controller.error.
Closed == [page EXCEPT !.reads = 0, !.stream = IF page.queue = <<>> THEN "closed" ELSE "closing"]
Errored == [page EXCEPT !.reads = 0, !.stream = "errored", !.queue = <<>>]

PageReceives ==
    /\ toPage # <<>> /\ "page" \notin ends
    /\ toPage' = Tail(toPage)
    /\ LET m == Head(toPage)
       IN  \/ /\ m.kind = "accepted"
              /\ Arrives(m.conn)
           \/ /\ m.kind = "end"
              /\ page' = IF page.stream # "open" THEN page
                         ELSE IF m.code = "clean" THEN Closed ELSE Errored
              /\ UNCHANGED credits
    /\ UNCHANGED <<listener, conn, handle, pump, ends, call>>

\* connections.cancel(), of which the stream tells nobody.
AppCancels ==
    /\ page.here /\ page.stream \in {"open", "closing"}
    /\ page' = [page EXCEPT !.stream = "cancelled", !.reads = 0, !.queue = <<>>]
    /\ UNCHANGED <<listener, conn, handle, pump, toPage, credits, ends, call>>

AppCloses ==
    /\ page.here /\ call = "none"
    /\ call' = "asked"
    /\ UNCHANGED <<listener, conn, handle, pump, toPage, credits, ends, page>>

\* close() comes back: the page's end is disposed of, with what it had not read.
CloseReturns ==
    /\ page.here /\ call = "closing"
    /\ call' = "done"
    /\ ends' = ends \cup {"page"} /\ toPage' = <<>>
    /\ page' = IF page.stream = "open" THEN Closed ELSE page
    /\ UNCHANGED <<listener, conn, handle, pump, credits>>

\* The page's timeout for it: nothing is disposed of.
CloseTimesOut ==
    /\ page.here /\ call \in {"asked", "closing"}
    /\ call' = "failed"
    /\ UNCHANGED <<listener, conn, handle, pump, toPage, credits, ends, page>>

\* The frame goes elsewhere or is closed.
PageLeaves ==
    /\ page.here
    /\ page' = [page EXCEPT !.here = FALSE, !.reads = 0, !.stream = "closed", !.queue = <<>>]
    /\ ends' = ends \cup {"page"} /\ toPage' = <<>>
    /\ UNCHANGED <<listener, conn, handle, pump, credits, call>>

-----------------------------------------------------------------------------
Next ==
    \/ \E c \in Conns : Connects(c) \/ QueuedEnds(c) \/ SocketEnds(c)
    \/ ListenerFails
    \/ Revoked \/ SessionEnds \/ PortCloses \/ NetClose
    \/ TakesCredit \/ PageReceives
    \/ \E k \in 1 .. Reads : AppReads(k)
    \/ AppCancels \/ AppCloses \/ CloseReturns \/ CloseTimesOut \/ PageLeaves

Spec == Init /\ [][Next]_vars

\* Messages are delivered and the close of a port is noticed.  Nothing is assumed of
\* the peers, of the app and of the user.
Fairness == WF_vars(TakesCredit) /\ WF_vars(PageReceives) /\ WF_vars(PortCloses)

FairSpec == Spec /\ Fairness

-----------------------------------------------------------------------------
InTransit == {i \in DOMAIN toPage : toPage[i].kind = "accepted"}
Met == page.got \o page.queue

\* Types, and what the pump is between two turns: it reads exactly while it has demand.
TypeOK ==
    /\ listener \in [queue : Seq(Conns), waiting : BOOLEAN, bound : BOOLEAN,
                     reason : {"none", "closed", "sessionEnded", "revoked", "failed"}]
    /\ conn \in [Conns -> {"none", "queued", "live", "closed"}]
    /\ handle \in {"live", "gone"}
    /\ pump \in [demand : 0 .. MaxDemand, stopped : BOOLEAN]
    /\ toPage \in Seq({Accepted(c) : c \in Conns}
                      \cup {End(code) : code \in {"clean", "revoked", "internal"}})
    /\ credits \in Nat /\ ends \subseteq {"broker", "page"}
    /\ page \in [here : BOOLEAN, reads : 0 .. Reads, asked : 0 .. Reads, overlapped : BOOLEAN,
                 stream : {"open", "closing", "closed", "errored", "cancelled"},
                 queue : Seq(Conns), got : Seq(Conns)]
    /\ call \in {"none", "asked", "closing", "done", "failed"}
    /\ ~pump.stopped => (listener.waiting <=> pump.demand > 0)

\* No connection is left to itself: one that is queued has a listener that will hand
\* it over or reset it; one that was accepted ends with its server at the latest, and
\* a page that still reads has it or will have it.  (cleanup in relay/server.ts,
\* destroy in node-adapters.ts, the loop of pull() in net-listen.ts.)
NoStrayConnection ==
    \A c \in Conns :
        /\ conn[c] = "queued" =>
              listener.reason = "none" /\ \E i \in DOMAIN listener.queue : listener.queue[i] = c
        /\ conn[c] = "live" =>
              /\ handle = "live"
              /\ page.here /\ page.stream # "cancelled" =>
                    \/ \E i \in DOMAIN Met : Met[i] = c
                    \/ \E i \in InTransit : toPage[i].conn = c

\* The app meets its connections in the order they were made, each once, and the end
\* after all of them.  (accept() and its queue, the order of the port.)
InOrderThenEnd ==
    /\ \A i, j \in DOMAIN Met : i < j => Met[i] < Met[j]
    /\ \A i \in DOMAIN Met, j \in InTransit : Met[i] < toPage[j].conn
    /\ \A i, j \in InTransit : i < j => toPage[i].conn < toPage[j].conn
    /\ \A i \in DOMAIN toPage : toPage[i].kind = "end" => i = Len(toPage)
    /\ toPage # <<>> => page.stream \in {"open", "cancelled"}

\* handles.ts, TcpServer: each read accepts exactly one connection, and the broker
\* never accepts one ahead of a read, for an app whose reads do not overlap: a read
\* that waits is one credit, one unit of demand or one connection on its way.
OneReadOneAccept ==
    ends = {} /\ page.stream = "open" /\ ~page.overlapped =>
        /\ page.queue = <<>>
        /\ page.reads = credits + pump.demand + Cardinality(InTransit)

\* A read does not wait beside a peer that was made to wait, and no read waits for a
\* listener that is gone.  (handleDemand and the catch of pumpLoop.)
ReadIsAnswered ==
    /\ \A c \in Conns :
          (conn[c] = "queued" /\ page.reads > 0) ~> (conn[c] # "queued" \/ page.reads = 0)
    /\ (listener.reason # "none") ~> (page.reads = 0)

=============================================================================
