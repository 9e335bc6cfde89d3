-------------------------- MODULE RelayRefinement --------------------------
(***************************************************************************)
(* What the invariants of RelayProofs are still short of: that no counter  *)
(* of the relay leaves its range, because every byte is counted once; that *)
(* nothing follows a clean end, however often the app closes; and that     *)
(* the relay implements Connection.                                        *)
(***************************************************************************)
EXTENDS RelayProofs

-----------------------------------------------------------------------------
(* Types.  Every number has its bound because every byte is counted once.             *)

\* Each way, a byte is in one place or nowhere: what the page got is what the peer sent,
\* less what is still on its way, and what the socket took is what the app asked it to.
BytesOnce ==
    /\ page.got + DataOut + Unread <= socket.sent /\ socket.sent <= PeerBytes
    /\ page.uncredited + page.sinceLastCredit <= page.got
    /\ socket.received + socket.outgoing <= socket.taken
    /\ socket.taken + WritesIn <= AppBytes
    /\ page.here => socket.taken + WritesIn + (page.left - page.piece) <= page.asked
    /\ page.left <= page.asked /\ page.asked <= AppBytes /\ page.writes <= AppWrites

\* Every chunk, piece and credit has a size the other end expects.
Sized ==
    /\ toPage \in Seq(ToPage) /\ toBroker \in Seq(ToBroker)
    /\ socket.incoming \in Seq(1 .. MaxChunk) /\ page.queue \in Seq(1 .. MaxChunk)
    /\ sink.unacked <= WriteWindow
    /\ 1 - MaxChunk <= pump.credit /\ pump.credit <= ReadWindow

RangeInv == BytesOnce /\ Sized

\* Messages to the page other than chunks.
Plain == {End(c) : c \in Codes \cup {"clean"}} \cup {Ack(n) : n \in 0 .. AppBytes} \cup {Failed(c) : c \in Codes}

LEMMA ToPageFacts ==
    /\ ToPage \subseteq PageMessages /\ Plain \subseteq ToPage
    /\ \A m \in Plain : m.kind # "data"
    /\ \A m \in ToPage : m.kind = "data" => m.n \in 1 .. MaxChunk
    /\ \A n \in 1 .. MaxChunk : Data(n) \in ToPage
    /\ \A n \in 0 .. AppBytes : Ack(n) \in Plain
    /\ \A c \in Codes \cup {"clean"} : End(c) \in Plain
    /\ \A c \in Codes : Failed(c) \in Plain
<1>1. 1 .. MaxChunk \subseteq Nat /\ 0 .. AppBytes \subseteq Nat
  OBVIOUS
<1> DEFINE chunks == 1 .. MaxChunk
           amounts == 0 .. AppBytes
<1>2. ToPage = {Data(n) : n \in chunks} \cup {End(c) : c \in Codes \cup {"clean"}}
               \cup {Ack(n) : n \in amounts} \cup {Failed(c) : c \in Codes}
  BY DEF ToPage
<1>3. Plain = {End(c) : c \in Codes \cup {"clean"}} \cup {Ack(n) : n \in amounts} \cup {Failed(c) : c \in Codes}
  BY DEF Plain
<1>4. \A n \in chunks : Data(n).kind = "data" /\ Data(n).n = n
  BY DEF Data
<1>5. /\ \A n : Ack(n).kind = "ack"
      /\ \A c : End(c).kind = "end"
      /\ \A c : Failed(c).kind = "failed"
  BY DEF Ack, End, Failed
<1>6. chunks \subseteq Nat /\ amounts \subseteq Nat
  BY <1>1
<1> HIDE DEF chunks, amounts
<1>7. ToPage \subseteq PageMessages
  BY <1>2, <1>6 DEF PageMessages
<1>8. Plain \subseteq ToPage /\ (\A m \in Plain : m.kind # "data")
  BY <1>2, <1>3, <1>5
<1>9. \A m \in ToPage : m.kind = "data" => m.n \in chunks
  BY <1>2, <1>4, <1>5
<1> QED
  BY <1>2, <1>3, <1>7, <1>8, <1>9 DEF chunks, amounts

LEMMA ToBrokerFacts ==
    /\ ToBroker \subseteq BrokerMessages
    /\ \A m \in ToBroker : /\ m.kind = "credit" => m.n \in 1 .. PeerBytes
                           /\ m.kind = "write" => m.n \in 0 .. WriteWindow
    /\ \A n \in 1 .. PeerBytes : Credit(n) \in ToBroker
    /\ \A n \in 0 .. WriteWindow : Write(n) \in ToBroker
    /\ WriteEnd \in ToBroker /\ WriteAbort \in ToBroker
<1> DEFINE credits == 1 .. PeerBytes
           pieces == 0 .. WriteWindow
<1>1. credits \subseteq Nat /\ pieces \subseteq Nat
  OBVIOUS
<1>2. ToBroker = {Credit(n) : n \in credits} \cup {Write(n) : n \in pieces} \cup {WriteEnd, WriteAbort}
  BY DEF ToBroker
<1>3. /\ \A n : Credit(n).kind = "credit" /\ Credit(n).n = n
      /\ \A n : Write(n).kind = "write" /\ Write(n).n = n
      /\ WriteEnd.kind = "writeEnd" /\ WriteAbort.kind = "writeAbort"
  BY DEF Credit, Write, WriteEnd, WriteAbort
<1> HIDE DEF credits, pieces
<1>4. ToBroker \subseteq BrokerMessages
  BY <1>1, <1>2 DEF BrokerMessages
<1>5. \A m \in ToBroker : (m.kind = "credit" => m.n \in credits) /\ (m.kind = "write" => m.n \in pieces)
  BY <1>2, <1>3
<1> QED
  BY <1>2, <1>4, <1>5 DEF credits, pieces

\* Messages that carry no chunk leave what is on its way as it is.
LEMMA PostsPlain ==
    ASSUME Shape, toPage \in Seq(ToPage), NEW t \in Seq(Plain), toPage' = PostedToPage(t)
    PROVE  toPage' \in Seq(ToPage) /\ DataOut' = DataOut
<1>1. CASE ends = {}
  <2>1. toPage' = toPage \o t
    BY <1>1 DEF PostedToPage
  <2>2. t \in Seq(ToPage) /\ t \in Seq(PageMessages)
    BY ToPageFacts
  <2>3. \A i \in DOMAIN t : t[i].kind # "data"
    BY ToPageFacts
  <2>4. Carried(t, "data") = 0
    BY <2>2, <2>3, CarriedNone, PageMessageFacts
  <2>5. DataOut' = DataOut + Carried(t, "data") /\ DataOut \in Nat
    BY <2>1, <2>2, Posts, CarriedType
  <2> QED BY <2>1, <2>2, <2>4, <2>5
<1>2. CASE ends # {}
  BY <1>2 DEF PostedToPage, DataOut
<1> QED
  BY <1>1, <1>2

LEMMA PostsChunk ==
    ASSUME Shape, toPage \in Seq(ToPage), NEW n \in 1 .. MaxChunk, toPage' = PostedToPage(<<Data(n)>>)
    PROVE  toPage' \in Seq(ToPage) /\ DataOut' \in {DataOut, DataOut + n}
<1>1. CASE ends = {}
  <2>1. toPage' = toPage \o <<Data(n)>> /\ n \in Nat
    BY <1>1 DEF PostedToPage
  <2>2. <<Data(n)>> \in Seq(ToPage)
    BY ToPageFacts
  <2>3. DataOut' = DataOut + n
    BY <2>1, PostsData
  <2>4. \A s, u \in Seq(ToPage) : s \o u \in Seq(ToPage)
    BY ConcatProperties
  <2> QED BY <2>1, <2>2, <2>3, <2>4
<1>2. CASE ends # {}
  BY <1>2 DEF PostedToPage, DataOut
<1> QED
  BY <1>1, <1>2

\* The invariants, as facts about numbers.
LEMMA RangeFacts ==
    ASSUME IInv, RangeInv
    PROVE  /\ Shape /\ BytesOnce /\ Sized
           /\ socket \in Sockets /\ pump \in Pumps /\ sink \in Sinks /\ page \in Pages
           /\ MaxChunk \in Nat \ {0} /\ ReadWindow \in Nat /\ WriteWindow \in Nat /\ Coalesce \in Nat \ {0}
           /\ PeerBytes \in Nat /\ AppBytes \in Nat /\ AppWrites \in Nat
           /\ DataOut \in Nat /\ AcksOut \in Nat /\ WritesIn \in Nat /\ Unread \in Nat /\ CreditIn \in Nat
           /\ pump.credit \in Int /\ sink.unacked \in Nat /\ sink.writes \in Seq(Nat)
<1>1. Shape /\ BytesOnce /\ Sized /\ socket \in Sockets /\ pump \in Pumps /\ sink \in Sinks /\ page \in Pages
  BY DEF IInv, RangeInv, Shape
<1>2. /\ MaxChunk \in Nat \ {0} /\ ReadWindow \in Nat /\ WriteWindow \in Nat /\ Coalesce \in Nat \ {0}
      /\ PeerBytes \in Nat /\ AppBytes \in Nat /\ AppWrites \in Nat
  BY RelayAssumption
<1>3. DataOut \in Nat /\ AcksOut \in Nat /\ WritesIn \in Nat /\ Unread \in Nat /\ CreditIn \in Nat
  BY <1>1, CarriedType
<1>4. pump.credit \in Int /\ sink.unacked \in Nat /\ sink.writes \in Seq(Nat)
  BY <1>1, WritingFacts DEF Pumps
<1> QED
  BY <1>1, <1>2, <1>3, <1>4

LEMMA PageNumbers ==
    ASSUME NEW p \in Pages
    PROVE  /\ p.got \in Nat /\ p.queued \in Nat /\ p.uncredited \in Nat /\ p.sinceLastCredit \in Nat
           /\ p.left \in Nat /\ p.piece \in Nat /\ p.acked \in Nat /\ p.accepted \in Nat
           /\ p.asked \in Nat /\ p.writes \in Nat
  BY DEF Pages

LEMMA SocketNumbers ==
    ASSUME NEW s \in Sockets
    PROVE  s.sent \in Nat /\ s.received \in Nat /\ s.outgoing \in Nat /\ s.taken \in Nat
  BY DEF Sockets

\* What the socket takes over changes nothing else of it.
LEMMA HandedKeeps ==
    ASSUME NEW s \in Sockets, NEW n \in Nat
    PROVE  /\ Handed(s, n) \in Sockets
           /\ Handed(s, n).taken = s.taken + n /\ Handed(s, n).outgoing = s.outgoing + n
           /\ Handed(s, n).sent = s.sent /\ Handed(s, n).theirs = s.theirs /\ Handed(s, n).received = s.received
           /\ Handed(s, n).reset = s.reset /\ Handed(s, n).ours = s.ours
           /\ Handed(s, n).readable = s.readable /\ Handed(s, n).incoming = s.incoming
<1>1. s.taken + n \in Nat /\ s.outgoing + n \in Nat
  <2>1. \A a, b \in Nat : a + b \in Nat
    OBVIOUS
  <2> QED BY <2>1, SocketNumbers
<1> QED
  BY <1>1 DEF Handed, Sockets

\* What has arrived is within what was sent, as both grow.
LEMMA FurtherOn ==
    \A g, d, u, s \in Nat : g + d + u <= s =>
      \A e, v, t \in Nat : e + v + s <= d + u + t => g + e + v <= t
  OBVIOUS

\* A step of the broker, of the peer or of the user.
LEMMA BrokerRange ==
    ASSUME IInv, RangeInv, page' = page, toPage' \in Seq(ToPage), toBroker' \in Seq(ToBroker),
           socket' \in Sockets, socket'.incoming \in Seq(1 .. MaxChunk),
           sink'.unacked <= WriteWindow, 1 - MaxChunk <= pump'.credit, pump'.credit <= ReadWindow,
           DataOut' \in Nat, Unread' \in Nat, WritesIn' \in Nat, socket'.sent <= PeerBytes,
           DataOut' + Unread' + socket.sent <= DataOut + Unread + socket'.sent,
           socket'.received + socket'.outgoing <= socket'.taken,
           socket'.taken + WritesIn' <= socket.taken + WritesIn
    PROVE  RangeInv'
<1>1. Sized'
  BY RangeFacts DEF Sized
<1>2. /\ socket'.sent \in Nat /\ socket'.received \in Nat /\ socket'.outgoing \in Nat /\ socket'.taken \in Nat
      /\ socket.sent \in Nat /\ socket.taken \in Nat
      /\ DataOut \in Nat /\ Unread \in Nat /\ WritesIn \in Nat /\ AppBytes \in Nat
      /\ page.got \in Nat /\ page.left \in Nat /\ page.piece \in Nat /\ page.asked \in Nat
  BY RangeFacts, PageNumbers, SocketNumbers
<1>3. page'.got + DataOut' + Unread' <= socket'.sent
  <2>1. page.got + DataOut + Unread <= socket.sent
    BY RangeFacts DEF BytesOnce
  <2>2. \A d, u, s \in Nat : d + u + socket.sent <= DataOut + Unread + s => page.got + d + u <= s
    BY <1>2, <2>1, FurtherOn
  <2>3. page.got + DataOut' + Unread' <= socket'.sent
    BY <1>2, <2>2
  <2> QED BY <2>3
<1>4. socket'.taken + WritesIn' <= AppBytes
  <2>1. socket.taken + WritesIn <= AppBytes
    BY RangeFacts DEF BytesOnce
  <2>2. \A a, b, c, d, e \in Nat : a + b <= c + d /\ c + d <= e => a + b <= e
    OBVIOUS
  <2> QED BY <1>2, <2>1, <2>2
<1>5. page'.here => socket'.taken + WritesIn' + (page'.left - page'.piece) <= page'.asked
  <2>1. page.here => socket.taken + WritesIn + (page.left - page.piece) <= page.asked
    BY RangeFacts DEF BytesOnce
  <2>2. \A a, b, c, d, l, p, q \in Nat : a + b <= c + d /\ c + d + (l - p) <= q => a + b + (l - p) <= q
    OBVIOUS
  <2>3. socket.taken + WritesIn + (page.left - page.piece) <= page.asked
        => socket'.taken + WritesIn' + (page.left - page.piece) <= page.asked
    BY <1>2, <2>2
  <2> QED BY <2>1, <2>3
<1>6. BytesOnce'
  BY <1>3, <1>4, <1>5, RangeFacts DEF BytesOnce
<1> QED
  BY <1>1, <1>6 DEF RangeInv

\* A step of the page.
LEMMA PageRange ==
    ASSUME IInv, RangeInv, socket' = socket, pump' = pump, sink' = sink, page' \in Pages,
           toPage' \in Seq(ToPage), toBroker' \in Seq(ToBroker), page'.queue \in Seq(1 .. MaxChunk),
           DataOut' \in Nat, WritesIn' \in Nat,
           page'.got + DataOut' <= page.got + DataOut,
           page'.uncredited + page'.sinceLastCredit <= page'.got,
           socket.taken + WritesIn' <= AppBytes,
           page'.here => socket.taken + WritesIn' + (page'.left - page'.piece) <= page'.asked,
           page'.left <= page'.asked, page'.asked <= AppBytes, page'.writes <= AppWrites
    PROVE  RangeInv'
<1>1. Sized'
  BY RangeFacts DEF Sized
<1>2. Unread' = Unread
  BY DEF Unread
<1>3. /\ page'.got \in Nat /\ page.got \in Nat /\ DataOut \in Nat /\ Unread \in Nat /\ socket.sent \in Nat
  BY RangeFacts, PageNumbers, SocketNumbers
<1>4. page'.got + DataOut' + Unread' <= socket'.sent
  <2>1. page.got + DataOut + Unread <= socket.sent
    BY RangeFacts DEF BytesOnce
  <2>2. \A g, d, u, s, h, e \in Nat : g + d + u <= s /\ h + e <= g + d => h + e + u <= s
    OBVIOUS
  <2> QED BY <1>2, <1>3, <2>1, <2>2
<1>5. BytesOnce'
  BY <1>4, RangeFacts DEF BytesOnce
<1> QED
  BY <1>1, <1>5 DEF RangeInv

\* A socket t that holds what s held, or less: its streams ended, were cancelled or
\* destroyed.
Lighter(s, t) ==
    /\ t \in Sockets /\ t.sent = s.sent /\ t.taken = s.taken /\ t.received = s.received
    /\ t.outgoing \in {0, s.outgoing} /\ t.incoming \in {<<>>, s.incoming}

LEMMA LighterAgain ==
    ASSUME NEW s, NEW t, NEW u, Lighter(s, t), Lighter(t, u)
    PROVE  Lighter(s, u)
  BY DEF Lighter

LEMMA Endings ==
    ASSUME NEW s \in Sockets
    PROVE  /\ Lighter(s, s) /\ Lighter(s, Ended(s)) /\ Lighter(s, Destroyed(s))
           /\ Lighter(s, ResetAndDestroyed(s)) /\ Lighter(s, ReaderCancelled(s))
           /\ Lighter(s, WriterAborted(s))
<1>1. Lighter(s, s)
  BY DEF Lighter
<1>2. Lighter(s, Ended(s))
  <2>1. Ended(s) \in Sockets
    BY ShutByEnd DEF Shut, SameReading
  <2> QED BY <2>1 DEF Lighter, Ended, Sockets
<1>3. Lighter(s, Destroyed(s))
  <2>1. Destroyed(s) \in Sockets
    BY ShutByDestroy DEF Shut, SameReading
  <2> QED BY <2>1 DEF Lighter, Destroyed, Sockets
<1>4. Lighter(s, ResetAndDestroyed(s))
  <2> DEFINE d == Destroyed(s)
  <2>1. ResetAndDestroyed(s) \in Sockets
    BY ShutByDestroy DEF Shut, SameReading
  <2>2. ResetAndDestroyed(s) \in {s, [d EXCEPT !.ours = "rst"]}
    BY DEF ResetAndDestroyed
  <2> HIDE DEF d
  <2>3. Lighter(d, [d EXCEPT !.ours = "rst"])
    BY <1>3 DEF d, Lighter, Sockets
  <2>4. Lighter(s, [d EXCEPT !.ours = "rst"])
    BY <1>3, <2>3, LighterAgain DEF d
  <2> QED BY <1>1, <2>2, <2>4
<1>5. Lighter(s, ReaderCancelled(s))
  <2> DEFINE d == Destroyed(s)
             c == [d EXCEPT !.readable = "cancelled", !.incoming = <<>>]
  <2>1. ReaderCancelled(s) \in {s, c}
    BY DEF ReaderCancelled, Cancelled
  <2> HIDE DEF d
  <2>2. <<>> \in Seq(Nat)
    OBVIOUS
  <2>3. Lighter(d, c)
    BY <1>3, <2>2 DEF d, Lighter, Sockets
  <2>4. Lighter(s, c)
    BY <1>3, <2>3, LighterAgain DEF d
  <2> QED BY <1>1, <2>1, <2>4
<1>6. Lighter(s, WriterAborted(s))
  <2>1. WriterAborted(s) \in Sockets
    BY ShutByAbort DEF Shut, SameReading
  <2>2. /\ WriterAborted(s).sent = s.sent /\ WriterAborted(s).taken = s.taken
        /\ WriterAborted(s).received = s.received /\ WriterAborted(s).outgoing \in {0, s.outgoing}
    BY ShutByAbort DEF Shut, SameReading
  <2>3. WriterAborted(s).incoming \in {<<>>, s.incoming}
    <3>1. WriterAborted(s) \in {s, [Destroyed(s) EXCEPT
                !.readable = IF s.readable = "open" THEN "errored" ELSE Destroyed(s).readable,
                !.incoming = IF s.readable = "open" THEN <<>> ELSE Destroyed(s).incoming]}
      BY DEF WriterAborted
    <3>2. Destroyed(s) \in Sockets /\ Destroyed(s).incoming = s.incoming
      BY <1>3 DEF Lighter, Destroyed, Sockets
    <3> QED BY <3>1, <3>2 DEF Sockets
  <2> QED BY <2>1, <2>2, <2>3 DEF Lighter
<1> QED
  BY <1>1, <1>2, <1>3, <1>4, <1>5, <1>6

\* A step in which the socket takes bytes, or loses some, and no chunk moves.
LEMMA SocketRange ==
    ASSUME IInv, RangeInv, page' = page, toPage' \in Seq(ToPage), DataOut' = DataOut,
           toBroker' \in Seq(ToBroker), WritesIn' \in Nat, pump'.credit = pump.credit, sink'.unacked <= WriteWindow,
           NEW s \in Sockets, s.incoming \in {<<>>, socket.incoming}, s.sent = socket.sent,
           s.received + s.outgoing <= s.taken, s.taken + WritesIn' <= socket.taken + WritesIn,
           Lighter(s, socket')
    PROVE  RangeInv'
<1>1. socket' \in Sockets /\ socket'.sent = socket.sent /\ socket'.taken = s.taken
  BY DEF Lighter
<1>2. socket'.incoming \in {<<>>, socket.incoming}
  BY DEF Lighter
<1>3. socket'.incoming \in Seq(1 .. MaxChunk)
  <2>1. <<>> \in Seq(1 .. MaxChunk)
    OBVIOUS
  <2>2. socket.incoming \in Seq(1 .. MaxChunk)
    BY RangeFacts DEF Sized
  <2> QED BY <1>2, <2>1, <2>2
<1>4. Unread' \in {0, Unread}
  BY <1>2, SumSmall DEF Unread
<1>5. DataOut \in Nat /\ Unread \in Nat /\ socket.sent \in Nat
  BY RangeFacts, SocketNumbers
<1>6. DataOut' \in Nat /\ Unread' \in Nat
  BY <1>4, <1>5
<1>7. DataOut' + Unread' + socket.sent <= DataOut + Unread + socket'.sent
  <2>1. \A d, u, t \in Nat : d + 0 + t <= d + u + t /\ d + u + t <= d + u + t
    OBVIOUS
  <2> QED BY <1>1, <1>4, <1>5, <2>1
<1>8. socket'.received + socket'.outgoing <= socket'.taken
  <2>1. socket'.received = s.received /\ socket'.outgoing \in {0, s.outgoing}
    BY DEF Lighter
  <2>2. \A a, b, c \in Nat : a + b <= c => a + 0 <= c
    OBVIOUS
  <2>3. s.received \in Nat /\ s.outgoing \in Nat /\ s.taken \in Nat
    BY SocketNumbers
  <2> QED BY <1>1, <2>1, <2>2, <2>3
<1>9. socket'.sent <= PeerBytes /\ 1 - MaxChunk <= pump'.credit /\ pump'.credit <= ReadWindow
  BY <1>1, RangeFacts DEF BytesOnce, Sized
<1>10. socket'.taken + WritesIn' <= socket.taken + WritesIn
  BY <1>1
<1> QED
  BY <1>1, <1>3, <1>6, <1>7, <1>8, <1>9, <1>10, BrokerRange

\* The queue of the broker as it was, less its oldest message, or empty.
LEMMA QueueShrinks ==
    ASSUME IInv, RangeInv, toBroker' \in {toBroker, <<>>} \/ (toBroker # <<>> /\ toBroker' = Tail(toBroker))
    PROVE  /\ toBroker' \in Seq(ToBroker) /\ WritesIn' \in Nat
           /\ socket.taken + WritesIn' <= socket.taken + WritesIn
           /\ socket.received + socket.outgoing <= socket.taken
<1>1. toBroker \in Seq(ToBroker) /\ Shape /\ WritesIn \in Nat /\ socket.taken \in Nat
      /\ socket.received + socket.outgoing <= socket.taken
  BY RangeFacts, SocketNumbers DEF Sized, BytesOnce
<1>2. CASE toBroker' = toBroker
  BY <1>1, <1>2 DEF WritesIn
<1>3. CASE toBroker' = <<>>
  <2>1. WritesIn' = 0 /\ toBroker' \in Seq(ToBroker)
    BY <1>3, BrokerQueueEmpty
  <2> QED BY <1>1, <2>1
<1>4. CASE toBroker # <<>> /\ toBroker' = Tail(toBroker)
  <2>1. toBroker' \in Seq(ToBroker)
    BY <1>1, <1>4
  <2>2. WritesIn = Amount(Head(toBroker), "write") + WritesIn' /\ Amount(Head(toBroker), "write") \in Nat
        /\ WritesIn' \in Nat
    BY <1>1, <1>4, Receives
  <2>3. \A a, b, c, d \in Nat : b = c + d => a + d <= a + b
    OBVIOUS
  <2> QED BY <1>1, <2>1, <2>2, <2>3
<1> QED
  BY <1>2, <1>3, <1>4

\* The relay stops: what it still posts carries no chunk.
LEMMA StopRange ==
    ASSUME IInv, RangeInv, page' = page, NEW p, NEW k, NEW posted \in Seq(Plain), NEW code \in Codes \cup {"clean"},
           p.credit = pump.credit, p \in Pumps, k \in Sinks, k.unacked = sink.unacked,
           Stop(p, k, posted, code), Lighter(socket, socket')
    PROVE  RangeInv'
<1> DEFINE ended == IF p.stopped \/ p.endSent THEN <<>> ELSE <<End(code)>>
           failed == IF code = "clean" \/ k.stopped \/ k.writes = <<>> THEN <<>> ELSE <<Failed(code)>>
<1>1. /\ pump' = [p EXCEPT !.stopped = TRUE, !.endSent = @ \/ ~p.stopped]
      /\ sink' = [k EXCEPT !.stopped = TRUE]
      /\ toPage' = PostedToPage(posted \o ended \o failed)
      /\ toBroker' = <<>>
  BY DEF Stop
<1>2. ended \in Seq(Plain) /\ failed \in Seq(Plain)
  <2>1. End(code) \in Plain /\ (code # "clean" => Failed(code) \in Plain)
    BY ToPageFacts
  <2> QED BY <2>1
<1> HIDE DEF ended, failed
<1>3. posted \o ended \o failed \in Seq(Plain)
  BY <1>2
<1>4. toPage' \in Seq(ToPage) /\ DataOut' = DataOut
  BY <1>1, <1>3, PostsPlain, RangeFacts DEF Sized
<1>5. pump'.credit = pump.credit /\ sink'.unacked <= WriteWindow
  <2>1. pump'.credit = p.credit /\ sink'.unacked = k.unacked
    BY <1>1 DEF Pumps, Sinks
  <2> QED BY <2>1, RangeFacts DEF Sized
<1>6. /\ toBroker' \in Seq(ToBroker) /\ WritesIn' \in Nat
      /\ socket.taken + WritesIn' <= socket.taken + WritesIn
      /\ socket.received + socket.outgoing <= socket.taken
  BY <1>1, QueueShrinks
<1> QED
  BY <1>4, <1>5, <1>6, RangeFacts, SocketRange

LEMMA FailRange ==
    ASSUME IInv, RangeInv, page' = page, NEW p \in Pumps, NEW k \in Sinks, NEW posted \in Seq(Plain),
           NEW code \in Codes, NEW rest, p.credit = pump.credit, k.unacked = sink.unacked,
           rest = toBroker \/ (toBroker # <<>> /\ rest = Tail(toBroker)),
           FailSocket(p, k, posted, code, rest)
    PROVE  RangeInv'
<1>1. CASE handle.state = "live"
  <2>1. Stop(p, k, posted, code) /\ socket' = Destroyed(ReaderCancelled(socket))
    BY <1>1 DEF FailSocket
  <2>2. Lighter(socket, ReaderCancelled(socket)) /\ ReaderCancelled(socket) \in Sockets
    BY RangeFacts, Endings DEF Lighter
  <2>3. Lighter(socket, socket')
    BY <2>1, <2>2, Endings, LighterAgain
  <2> QED BY <2>1, <2>3, StopRange
<1>2. CASE handle.state # "live"
  <2>1. pump' = p /\ sink' = k /\ toPage' = PostedToPage(posted) /\ toBroker' = rest /\ socket' = socket
    BY <1>2 DEF FailSocket
  <2>2. toPage' \in Seq(ToPage) /\ DataOut' = DataOut
    BY <2>1, PostsPlain, RangeFacts DEF Sized
  <2>3. /\ toBroker' \in Seq(ToBroker) /\ WritesIn' \in Nat
        /\ socket.taken + WritesIn' <= socket.taken + WritesIn
        /\ socket.received + socket.outgoing <= socket.taken
    BY <2>1, QueueShrinks
  <2>4. Lighter(socket, socket') /\ socket \in Sockets
    BY <2>1, RangeFacts, Endings
  <2>5. pump'.credit = pump.credit /\ sink'.unacked <= WriteWindow
    BY <2>1, RangeFacts DEF Sized
  <2> QED BY <2>2, <2>3, <2>4, <2>5, SocketRange
<1> QED
  BY <1>1, <1>2

\* What a write or a write-end leaves.
LEMMA DrainedRange ==
    ASSUME IInv, RangeInv, page' = page, NEW k \in Sinks, k.unacked <= WriteWindow,
           NEW s \in Sockets, NEW posted \in Seq(Plain), NEW rest, Drained(k, s, posted, rest),
           rest \in Seq(ToBroker), WritesIn' \in Nat,
           s.incoming \in {<<>>, socket.incoming}, s.sent = socket.sent,
           s.received + s.outgoing <= s.taken, s.taken + WritesIn' <= socket.taken + WritesIn
    PROVE  RangeInv'
<1>1. pump' = pump /\ toBroker' = rest
  BY DEF Drained
<1>2. CASE k.ending /\ k.writes = <<>> /\ ~k.ended /\ ~k.stopped
  <2>1. /\ sink' = [k EXCEPT !.ended = TRUE] /\ socket' = Ended(s)
        /\ \E refusal \in Refusals(s) : toPage' = PostedToPage(posted \o refusal)
    BY <1>2 DEF Drained
  <2>2. PICK refusal \in Refusals(s) : toPage' = PostedToPage(posted \o refusal)
    BY <2>1
  <2>3. refusal \in Seq(Plain)
    <3>1. "reset" \in Codes /\ "internal" \in Codes
      BY DEF Codes
    <3>2. <<Failed("reset")>> \in Seq(Plain) /\ <<Failed("internal")>> \in Seq(Plain) /\ <<>> \in Seq(Plain)
      BY <3>1, ToPageFacts
    <3>3. refusal \in {<<>>, <<Failed("reset")>>, <<Failed("internal")>>}
      BY DEF Refusals
    <3> QED BY <3>2, <3>3
  <2>4. posted \o refusal \in Seq(Plain)
    BY <2>3
  <2>5. toPage' \in Seq(ToPage) /\ DataOut' = DataOut
    BY <2>2, <2>4, PostsPlain, RangeFacts DEF Sized
  <2>6. sink'.unacked <= WriteWindow
    BY <2>1 DEF Sinks
  <2> QED BY <1>1, <2>1, <2>5, <2>6, Endings, SocketRange
<1>3. CASE ~(k.ending /\ k.writes = <<>> /\ ~k.ended /\ ~k.stopped)
  <2>1. sink' = k /\ socket' = s /\ toPage' = PostedToPage(posted)
    BY <1>3 DEF Drained
  <2>2. toPage' \in Seq(ToPage) /\ DataOut' = DataOut
    BY <2>1, PostsPlain, RangeFacts DEF Sized
  <2> QED BY <1>1, <2>1, <2>2, Endings, SocketRange
<1> QED
  BY <1>2, <1>3

\* What the sink is left with, before it looks whether it has drained.
LEMMA SinkFacts ==
    ASSUME NEW k \in Sinks
    PROVE  /\ [k EXCEPT !.stopped = TRUE] \in Sinks /\ [k EXCEPT !.stopped = TRUE].unacked = k.unacked
           /\ [k EXCEPT !.ending = TRUE] \in Sinks /\ [k EXCEPT !.ending = TRUE].unacked = k.unacked
           /\ \A n \in Nat : Queued(k, n) \in Sinks /\ Queued(k, n).unacked = k.unacked + n
           /\ \A w \in Seq(Nat), n \in Nat : Settled(k, w, n) \in Sinks /\ Settled(k, w, n).unacked = k.unacked - n
<1>1. /\ [k EXCEPT !.stopped = TRUE] \in Sinks /\ [k EXCEPT !.stopped = TRUE].unacked = k.unacked
      /\ [k EXCEPT !.ending = TRUE] \in Sinks /\ [k EXCEPT !.ending = TRUE].unacked = k.unacked
  BY DEF Sinks
<1>2. ASSUME NEW n \in Nat
      PROVE  Queued(k, n) \in Sinks /\ Queued(k, n).unacked = k.unacked + n
  <2>1. Append(k.writes, n) \in Seq(Nat) /\ k.unacked + n \in Int
    BY DEF Sinks
  <2> QED BY <2>1 DEF Queued, Sinks
<1>3. ASSUME NEW w \in Seq(Nat), NEW n \in Nat
      PROVE  Settled(k, w, n) \in Sinks /\ Settled(k, w, n).unacked = k.unacked - n
  <2>1. k.unacked - n \in Int
    BY DEF Sinks
  <2> QED BY <2>1 DEF Settled, Sinks
<1> QED
  BY <1>1, <1>2, <1>3

\* A piece of a write is handed to the socket, queued, or dropped.
LEMMA ReceiveWriteRange ==
    ASSUME IInv, RangeInv, ReceiveWrite
    PROVE  RangeInv'
<1> DEFINE n == Head(toBroker).n
           rest == Tail(toBroker)
           stopped == [sink EXCEPT !.stopped = TRUE]
           queued == Queued(sink, n)
<1>1. toBroker # <<>> /\ Head(toBroker).kind = "write" /\ page' = page
  BY DEF ReceiveWrite, Arrives
<1>2. /\ Shape /\ socket \in Sockets /\ sink \in Sinks /\ pump \in Pumps /\ toBroker \in Seq(ToBroker)
      /\ WritesIn \in Nat /\ AppBytes \in Nat /\ WriteWindow \in Nat /\ sink.unacked <= WriteWindow /\ sink.unacked \in Nat
      /\ socket.taken + WritesIn <= AppBytes
  BY RangeFacts DEF Sized, BytesOnce
<1>3. rest \in Seq(ToBroker) /\ Head(toBroker) \in ToBroker
  BY <1>1, <1>2
<1>4. n \in Nat
  BY <1>1, <1>3, ToBrokerFacts
<1>5. ASSUME toBroker' = rest
      PROVE  WritesIn = n + WritesIn' /\ WritesIn' \in Nat
  <2>1. Amount(Head(toBroker), "write") = n
    BY <1>1 DEF Amount
  <2> QED BY <1>1, <1>2, <1>5, <2>1, Receives
<1>6. n \in 0 .. AppBytes
  <2>1. toBroker \in Seq(BrokerMessages) /\ 1 \in DOMAIN toBroker /\ Head(toBroker) = toBroker[1]
    <3>1. toBroker \in Seq(BrokerMessages)
      BY <1>2 DEF Shape
    <3> QED BY <1>1, <3>1, HeadTailProperties, EmptySeq
  <2>2. n <= WritesIn
    BY <1>1, <2>1, CarriedMember, BrokerMessageFacts DEF WritesIn
  <2>3. socket.taken \in Nat
    BY <1>2, SocketNumbers
  <2> HIDE DEF n
  <2> QED BY <1>2, <1>4, <2>2, <2>3
<1>7. /\ <<>> \in Seq(Plain) /\ <<Failed("closed")>> \in Seq(Plain) /\ <<Failed("limit")>> \in Seq(Plain)
      /\ <<Ack(n)>> \in Seq(Plain)
  <2>1. "closed" \in Codes /\ "limit" \in Codes
    BY DEF Codes
  <2>2. {Failed("closed"), Failed("limit"), Ack(n)} \subseteq Plain
    BY <1>6, <2>1, ToPageFacts
  <2> QED BY <2>2
<1>8. /\ queued \in Sinks /\ queued.unacked = sink.unacked + n
      /\ stopped \in Sinks /\ stopped.unacked = sink.unacked
  BY <1>2, <1>4, SinkFacts
<1>9. /\ socket.received + socket.outgoing <= socket.taken
      /\ toBroker' = rest => socket.taken + WritesIn' <= socket.taken + WritesIn /\ WritesIn' \in Nat
  BY <1>1, RangeFacts, QueueShrinks DEF BytesOnce
<1> DEFINE h == Handed(socket, n)
<1>10. /\ h \in Sockets /\ h.incoming = socket.incoming /\ h.sent = socket.sent
       /\ h.received + h.outgoing <= h.taken
       /\ toBroker' = rest => h.taken + WritesIn' <= socket.taken + WritesIn
  <2>1. /\ h \in Sockets /\ h.taken = socket.taken + n /\ h.outgoing = socket.outgoing + n
        /\ h.received = socket.received /\ h.incoming = socket.incoming /\ h.sent = socket.sent
    <3> HIDE DEF n, rest, stopped, queued
    <3> QED BY <1>2, <1>4, HandedKeeps DEF h
  <2>2. socket.taken \in Nat /\ socket.outgoing \in Nat /\ socket.received \in Nat
    BY <1>2, SocketNumbers
  <2>3. \A a, b, c, d \in Nat : a + b <= c => a + (b + d) <= c + d
    OBVIOUS
  <2>4. \A a, b, c, d \in Nat : b = d + c => (a + d) + c <= a + b
    OBVIOUS
  <2> HIDE DEF n, h, rest
  <2>5. h.received + h.outgoing <= h.taken
    <3>1. n \in Nat
      BY <1>4
    <3> QED BY <1>9, <2>1, <2>2, <2>3, <3>1
  <2>6. toBroker' = rest => h.taken + WritesIn' <= socket.taken + WritesIn
    BY <1>2, <1>4, <1>5, <1>9, <2>1, <2>2, <2>4
  <2> QED BY <2>1, <2>5, <2>6
<1> HIDE DEF n, rest, stopped, queued, h
<1>11. \/ FailSocket(pump, stopped, <<Failed("limit")>>, "limit", rest)
       \/ \E k \in {sink, queued, stopped}, s \in {socket, h}, posted \in {<<>>, <<Failed("closed")>>, <<Ack(n)>>} :
            k.unacked <= WriteWindow /\ Drained(k, s, posted, rest)
  <2>1. \/ sink.stopped /\ Drained(sink, socket, <<>>, rest)
        \/ FailSocket(pump, stopped, <<Failed("limit")>>, "limit", rest)
        \/ ~(queued.unacked > WriteWindow) /\ Drained(queued, socket, <<>>, rest)
        \/ Drained(stopped, socket, <<Failed("closed")>>, rest)
        \/ Drained(sink, h, <<Ack(n)>>, rest)
        \/ ~(queued.unacked > WriteWindow) /\ Drained(queued, h, <<>>, rest)
    BY DEF ReceiveWrite, n, rest, stopped, queued, h
  <2>2. ~(queued.unacked > WriteWindow) => queued.unacked <= WriteWindow
    BY <1>2, <1>4, <1>8
  <2>3. sink.unacked <= WriteWindow /\ stopped.unacked <= WriteWindow
    BY <1>2, <1>8
  <2> QED BY <2>1, <2>2, <2>3
<1>12. CASE FailSocket(pump, stopped, <<Failed("limit")>>, "limit", rest)
  <2>1. "limit" \in Codes
    BY DEF Codes
  <2>2. toBroker # <<>> /\ rest = Tail(toBroker)
    BY <1>1 DEF rest
  <2> QED BY <1>1, <1>2, <1>7, <1>8, <1>12, <2>1, <2>2, FailRange
<1>13. ASSUME NEW k \in {sink, queued, stopped}, NEW s \in {socket, h},
              NEW posted \in {<<>>, <<Failed("closed")>>, <<Ack(n)>>},
              k.unacked <= WriteWindow, Drained(k, s, posted, rest)
       PROVE  RangeInv'
  <2>1. toBroker' = rest
    BY <1>13 DEF Drained
  <2>2. k \in Sinks /\ posted \in Seq(Plain) /\ s \in Sockets
    BY <1>2, <1>7, <1>8, <1>10
  <2>3. /\ s.incoming = socket.incoming /\ s.sent = socket.sent
        /\ s.received + s.outgoing <= s.taken /\ s.taken + WritesIn' <= socket.taken + WritesIn
    BY <1>9, <1>10, <2>1
  <2> QED BY <1>1, <1>3, <1>9, <1>13, <2>1, <2>2, <2>3, DrainedRange
<1> QED
  BY <1>11, <1>12, <1>13

LEMMA WriteSettlesRange ==
    ASSUME IInv, RangeInv, WriteSettles
    PROVE  RangeInv'
<1> DEFINE w == Head(sink.writes)
           s == Handed(socket, 0)
           k == Settled(sink, <<>>, w)
<1>1. ~sink.stopped /\ sink.writes # <<>> /\ Writable(socket) /\ page' = page
  BY DEF WriteSettles, Drains
<1>2. /\ Shape /\ socket \in Sockets /\ sink \in Sinks /\ sink.writes \in Seq(Nat) /\ sink.unacked \in Nat
      /\ sink.unacked <= WriteWindow /\ WriteWindow \in Nat /\ AcksOut \in Nat /\ WritesIn \in Nat /\ AppBytes \in Nat
      /\ socket.taken + WritesIn <= AppBytes /\ socket.received + socket.outgoing <= socket.taken
      /\ toBroker \in Seq(ToBroker)
  BY RangeFacts DEF Sized, BytesOnce
<1>3. ~socket.reset
  BY <1>1 DEF Writable, IInv, WriteInv
<1>4. w \in Nat /\ Tail(sink.writes) = <<>>
  <2>1. Len(sink.writes) = 1
    <3>1. Len(sink.writes) # 0 /\ Len(sink.writes) \in Nat
      BY <1>1, <1>2, EmptySeq
    <3>2. Len(sink.writes) <= 1
      BY <1>3 DEF IInv, OnePieceInv
    <3>3. \A a \in Nat : a # 0 /\ a <= 1 => a = 1
      OBVIOUS
    <3> QED BY <3>1, <3>2, <3>3
  <2>2. w \in Nat /\ Tail(sink.writes) \in Seq(Nat) /\ Len(Tail(sink.writes)) = 0
    BY <1>1, <1>2, <2>1, HeadTailProperties
  <2> QED BY <2>2, EmptySeq
<1>5. Drained(k, s, <<Ack(w)>>, toBroker)
  <2>1. 0 <= SocketBuffer /\ w + 0 = w
    BY <1>4, RelayAssumption
  <2> HIDE DEF w
  <2> QED BY <1>4, <2>1 DEF WriteSettles, w
<1>6. w <= socket.taken
  <2>1. Held = w
    BY <1>1, <1>3 DEF Held
  <2>2. page.accepted + page.acked + AcksOut + Held <= socket.taken
    BY DEF IInv, WriteInv
  <2>3. page.accepted \in Nat /\ page.acked \in Nat /\ socket.taken \in Nat
    BY RangeFacts, PageNumbers, SocketNumbers
  <2>4. \A a, b, c, d, e \in Nat : a + b + c + d <= e => d <= e
    OBVIOUS
  <2> HIDE DEF w
  <2> QED BY <1>2, <1>4, <2>1, <2>2, <2>3, <2>4
<1>7. <<Ack(w)>> \in Seq(Plain)
  <2>1. socket.taken \in Nat
    BY <1>2, SocketNumbers
  <2> HIDE DEF w
  <2>2. w \in 0 .. AppBytes
    BY <1>2, <1>4, <1>6, <2>1
  <2>3. Ack(w) \in Plain
    BY <2>2, ToPageFacts
  <2> QED BY <2>3
<1>8. k \in Sinks /\ k.unacked <= WriteWindow
  <2>1. <<>> \in Seq(Nat)
    OBVIOUS
  <2>2. k \in Sinks /\ k.unacked = sink.unacked - w
    BY <1>2, <1>4, <2>1, SinkFacts
  <2> HIDE DEF w, k
  <2> QED BY <1>2, <1>4, <2>2
<1>9. /\ s \in Sockets /\ s.taken = socket.taken /\ s.outgoing = socket.outgoing
      /\ s.received = socket.received /\ s.incoming = socket.incoming /\ s.sent = socket.sent
  <2>1. socket.taken + 0 = socket.taken /\ socket.outgoing + 0 = socket.outgoing
        /\ socket.taken \in Nat /\ socket.outgoing \in Nat
    BY <1>2, SocketNumbers
  <2> QED BY <1>2, <2>1 DEF Handed, Sockets
<1> HIDE DEF w, s, k
<1>10. toBroker' = toBroker
  BY <1>5 DEF Drained
<1>11. WritesIn' = WritesIn
  BY <1>10 DEF WritesIn
<1>12. s.taken + WritesIn' <= socket.taken + WritesIn
  <2>1. \A a, b \in Nat : a + b <= a + b
    OBVIOUS
  <2>2. socket.taken \in Nat
    BY <1>2, SocketNumbers
  <2> QED BY <1>2, <1>9, <1>11, <2>1, <2>2
<1>13. WritesIn' \in Nat /\ s.received + s.outgoing <= s.taken
  BY <1>2, <1>9, <1>11
<1> QED
  BY <1>1, <1>2, <1>5, <1>7, <1>8, <1>9, <1>12, <1>13, DrainedRange

LEMMA WriteRejectedRange ==
    ASSUME IInv, RangeInv, WriteRejected
    PROVE  RangeInv'
<1>1. page' = page /\ FailSocket(pump, [sink EXCEPT !.stopped = TRUE], <<Failed("reset")>>, "reset", toBroker)
  BY DEF WriteRejected
<1>2. "reset" \in Codes
  BY DEF Codes
<1>3. Failed("reset") \in Plain
  BY <1>2, ToPageFacts
<1>4. <<Failed("reset")>> \in Seq(Plain)
  BY <1>3
<1> QED
  BY <1>1, <1>2, <1>4, RangeFacts, SinkFacts, FailRange

LEMMA PumpFailsRange ==
    ASSUME IInv, RangeInv, PumpFails
    PROVE  RangeInv'
<1> DEFINE p == [pump EXCEPT !.stopped = TRUE, !.endSent = TRUE]
           posted == IF pump.endSent THEN <<>> ELSE <<End("reset")>>
<1>1. page' = page /\ FailSocket(p, sink, posted, "reset", toBroker)
  BY DEF PumpFails
<1>2. "reset" \in Codes
  BY DEF Codes
<1>3. End("reset") \in Plain
  BY <1>2, ToPageFacts
<1>4. posted \in Seq(Plain)
  BY <1>3
<1>5. p \in Pumps /\ p.credit = pump.credit /\ sink \in Sinks
  BY RangeFacts DEF Pumps
<1> HIDE DEF p, posted
<1> QED
  BY <1>1, <1>2, <1>4, <1>5, FailRange

LEMMA ReceiveEndRange ==
    ASSUME IInv, RangeInv, ReceiveEnd
    PROVE  RangeInv'
<1> DEFINE k == IF sink.stopped THEN sink ELSE [sink EXCEPT !.ending = TRUE]
           rest == Tail(toBroker)
<1>1. toBroker # <<>> /\ page' = page /\ Drained(k, socket, <<>>, rest)
  BY DEF ReceiveEnd, Arrives
<1>2. toBroker' = rest
  BY <1>1 DEF Drained
<1>3. k \in Sinks /\ k.unacked <= WriteWindow /\ socket \in Sockets
  BY RangeFacts, SinkFacts DEF Sized
<1>4. /\ rest \in Seq(ToBroker) /\ WritesIn' \in Nat
      /\ socket.taken + WritesIn' <= socket.taken + WritesIn
      /\ socket.received + socket.outgoing <= socket.taken
  BY <1>1, <1>2, QueueShrinks
<1>5. <<>> \in Seq(Plain)
  OBVIOUS
<1> HIDE DEF k, rest
<1> QED
  BY <1>1, <1>3, <1>4, <1>5, DrainedRange

LEMMA ReceiveAbortRange ==
    ASSUME IInv, RangeInv, ReceiveAbort
    PROVE  RangeInv'
<1> DEFINE k == [sink EXCEPT !.stopped = TRUE]
           rest == Tail(toBroker)
           d == WriterAborted(socket)
<1>1. toBroker # <<>> /\ page' = page
  BY DEF ReceiveAbort, Arrives
<1>2. /\ k \in Sinks /\ k.unacked = sink.unacked /\ sink.unacked <= WriteWindow
      /\ pump \in Pumps /\ sink \in Sinks /\ socket \in Sockets
  BY RangeFacts, SinkFacts DEF Sized
<1>3. "reset" \in Codes
  BY DEF Codes
<1>4. <<Failed("reset")>> \in Seq(Plain) /\ <<>> \in Seq(Plain)
  <2>1. Failed("reset") \in Plain
    BY <1>3, ToPageFacts
  <2> QED BY <2>1
<1>5. ASSUME toBroker' = rest
      PROVE  /\ rest \in Seq(ToBroker) /\ WritesIn' \in Nat
             /\ socket.taken + WritesIn' <= socket.taken + WritesIn
             /\ socket.received + socket.outgoing <= socket.taken
  BY <1>1, <1>5, QueueShrinks
<1> HIDE DEF k, rest, d
<1>6. CASE Drained(sink, socket, <<>>, rest)
  <2>1. toBroker' = rest
    BY <1>6 DEF Drained
  <2> QED BY <1>1, <1>2, <1>4, <1>5, <1>6, <2>1, DrainedRange
<1>7. CASE /\ Stop(pump, k, <<Failed("reset")>>, "reset")
           /\ socket' = ResetAndDestroyed(ReaderCancelled(socket))
  <2>1. Lighter(socket, ReaderCancelled(socket)) /\ ReaderCancelled(socket) \in Sockets
    BY <1>2, Endings DEF Lighter
  <2>2. Lighter(socket, socket')
    BY <1>7, <2>1, Endings, LighterAgain
  <2> QED BY <1>1, <1>2, <1>3, <1>4, <1>7, <2>2, StopRange
<1>8. CASE Drained(k, d, <<Failed("reset")>>, rest)
  <2>1. toBroker' = rest
    BY <1>8 DEF Drained
  <2>2. Lighter(socket, d)
    BY <1>2, Endings DEF d
  <2>3. d \in Sockets /\ d.sent = socket.sent /\ d.taken = socket.taken
    BY <2>2 DEF Lighter
  <2>4. d.incoming \in {<<>>, socket.incoming}
    BY <2>2 DEF Lighter
  <2>5. d.received + d.outgoing <= d.taken
    <3>1. d.received = socket.received /\ d.outgoing \in {0, socket.outgoing}
      BY <2>2 DEF Lighter
    <3>2. \A a, b, c \in Nat : a + b <= c => a + 0 <= c
      OBVIOUS
    <3> QED BY <1>2, <1>5, <2>1, <2>3, <3>1, <3>2, SocketNumbers
  <2> QED BY <1>1, <1>2, <1>4, <1>5, <1>8, <2>1, <2>3, <2>4, <2>5, DrainedRange
<1> QED
  BY <1>6, <1>7, <1>8 DEF ReceiveAbort, k, rest, d

\* The relay stops: the port, the handle or the session ended.
LEMMA EndingsRange ==
    ASSUME IInv, RangeInv, PortCloses \/ Revoke \/ SessionEnds \/ TeardownSettles
    PROVE  RangeInv'
<1>1. page' = page /\ \E code \in {"clean", "revoked"} : Stop(pump, sink, <<>>, code)
  BY DEF PortCloses, Revoke, SessionEnds, TeardownSettles
<1>2. pump \in Pumps /\ sink \in Sinks /\ socket \in Sockets
  BY RangeFacts
<1>3. Lighter(socket, socket')
  <2>1. /\ Lighter(socket, ReaderCancelled(socket)) /\ ReaderCancelled(socket) \in Sockets
        /\ Lighter(socket, Ended(socket)) /\ Ended(socket) \in Sockets
    BY <1>2, Endings DEF Lighter
  <2>2. /\ Lighter(socket, ResetAndDestroyed(ReaderCancelled(socket)))
        /\ Lighter(socket, ReaderCancelled(Ended(socket)))
    BY <2>1, Endings, LighterAgain
  <2> QED BY <2>1, <2>2 DEF PortCloses, Revoke, SessionEnds, TeardownSettles
<1>4. <<>> \in Seq(Plain) /\ {"clean", "revoked"} \subseteq Codes \cup {"clean"}
  BY DEF Codes
<1> QED
  BY <1>1, <1>2, <1>3, <1>4, StopRange

\* Steps that move no chunk and keep the sink: the socket is lighter or as it was.
LEMMA StillRange ==
    ASSUME IInv, RangeInv, page' = page, toPage' \in Seq(ToPage), DataOut' = DataOut,
           toBroker' = toBroker, pump' = pump \/ pump'.credit = pump.credit, sink' = sink, Lighter(socket, socket')
    PROVE  RangeInv'
<1>1. /\ toBroker' \in Seq(ToBroker) /\ WritesIn' \in Nat
      /\ socket.taken + WritesIn' <= socket.taken + WritesIn
      /\ socket.received + socket.outgoing <= socket.taken
  BY QueueShrinks
<1>2. pump'.credit = pump.credit /\ sink'.unacked <= WriteWindow /\ socket \in Sockets
  BY RangeFacts DEF Sized
<1> QED
  BY <1>1, <1>2, SocketRange

LEMMA QuietRange ==
    ASSUME IInv, RangeInv,
           \/ PumpEnds \/ Heartbeat \/ DrainDeadline
           \/ \E c \in Closes : NetClose(c) \/ AppCloses(c)
    PROVE  RangeInv'
<1>1. /\ page' = page /\ toBroker' = toBroker /\ sink' = sink
      /\ pump' = pump \/ pump' = [pump EXCEPT !.endSent = TRUE]
      /\ socket' \in {socket, Destroyed(socket), Ended(socket)}
      /\ \/ toPage' = toPage
         \/ \E m \in {End("clean"), Ack(0)} : toPage' = PostedToPage(<<m>>)
  BY DEF PumpEnds, Heartbeat, DrainDeadline, NetClose, AppCloses
<1>2. Lighter(socket, socket')
  BY <1>1, RangeFacts, Endings
<1>3. pump'.credit = pump.credit
  BY <1>1, RangeFacts DEF Pumps
<1>4. toPage' \in Seq(ToPage) /\ DataOut' = DataOut
  <2>1. CASE toPage' = toPage
    BY <2>1, RangeFacts DEF Sized, DataOut
  <2>2. CASE \E m \in {End("clean"), Ack(0)} : toPage' = PostedToPage(<<m>>)
    <3>1. 0 \in 0 .. AppBytes
      BY RelayAssumption
    <3>2. End("clean") \in Plain /\ Ack(0) \in Plain
      BY <3>1, ToPageFacts
    <3>3. PICK m \in {End("clean"), Ack(0)} : toPage' = PostedToPage(<<m>>)
      BY <2>2
    <3>4. <<m>> \in Seq(Plain)
      BY <3>2
    <3> QED BY <3>3, <3>4, PostsPlain, RangeFacts DEF Sized
  <2> QED BY <1>1, <2>1, <2>2
<1> QED
  BY <1>1, <1>2, <1>3, <1>4, StillRange

\* Credit comes back: at least one unit, and never more than the window.
LEMMA ReceiveCreditRange ==
    ASSUME IInv, RangeInv, ReceiveCredit
    PROVE  RangeInv'
<1> DEFINE n == Head(toBroker).n
<1>1. /\ toBroker # <<>> /\ Head(toBroker).kind = "credit" /\ toBroker' = Tail(toBroker)
      /\ pump' = IF pump.stopped THEN pump ELSE [pump EXCEPT !.credit = Least(@ + n, ReadWindow)]
      /\ page' = page /\ socket' = socket /\ sink' = sink /\ toPage' = toPage
  BY DEF ReceiveCredit, Arrives
<1>2. /\ pump \in Pumps /\ pump.credit \in Int /\ 1 - MaxChunk <= pump.credit /\ pump.credit <= ReadWindow
      /\ MaxChunk \in Nat \ {0} /\ ReadWindow \in Nat /\ toBroker \in Seq(ToBroker) /\ toPage \in Seq(ToPage)
      /\ sink.unacked <= WriteWindow /\ socket \in Sockets /\ socket.incoming \in Seq(1 .. MaxChunk)
      /\ socket.sent <= PeerBytes /\ DataOut \in Nat /\ Unread \in Nat
  BY RangeFacts DEF Sized, BytesOnce
<1>3. n \in Nat
  <2>1. Head(toBroker) \in ToBroker
    BY <1>1, <1>2
  <2> QED BY <1>1, <2>1, ToBrokerFacts
<1> HIDE DEF n
<1>4. Least(pump.credit + n, ReadWindow) \in Int
      /\ 1 - MaxChunk <= Least(pump.credit + n, ReadWindow) /\ Least(pump.credit + n, ReadWindow) <= ReadWindow
  <2>1. \A l, c, a \in Int : l <= c /\ c <= a => \A w \in Nat : l <= c + w /\ l <= a
    OBVIOUS
  <2>2. 1 - MaxChunk \in Int /\ ReadWindow \in Int /\ pump.credit + n \in Int
    BY <1>2, <1>3
  <2>3. 1 - MaxChunk <= pump.credit + n /\ 1 - MaxChunk <= ReadWindow
    BY <1>2, <1>3, <2>1, <2>2
  <2>4. Least(pump.credit + n, ReadWindow) \in {pump.credit + n, ReadWindow}
    BY DEF Least
  <2>5. /\ 1 - MaxChunk <= Least(pump.credit + n, ReadWindow)
        /\ Least(pump.credit + n, ReadWindow) <= ReadWindow
    <3>1. \A l, d, a \in Int : l <= d /\ l <= a => l <= Least(d, a) /\ Least(d, a) <= a
      BY DEF Least
    <3> QED BY <2>2, <2>3, <3>1
  <2> QED BY <2>2, <2>4, <2>5
<1>5. 1 - MaxChunk <= pump'.credit /\ pump'.credit <= ReadWindow
  BY <1>1, <1>2, <1>4 DEF Pumps
<1>6. /\ toBroker' \in Seq(ToBroker) /\ WritesIn' \in Nat
      /\ socket.taken + WritesIn' <= socket.taken + WritesIn
      /\ socket.received + socket.outgoing <= socket.taken
  BY <1>1, QueueShrinks
<1>7. DataOut' = DataOut /\ Unread' = Unread
  BY <1>1 DEF DataOut, Unread
<1>8. DataOut' + Unread' + socket.sent <= DataOut + Unread + socket'.sent
  <2>1. \A a, b, c \in Nat : a + b + c <= a + b + c
    OBVIOUS
  <2>2. socket.sent \in Nat
    BY <1>2, SocketNumbers
  <2> QED BY <1>1, <1>2, <1>7, <2>1, <2>2
<1> QED
  BY <1>1, <1>2, <1>5, <1>6, <1>7, <1>8, BrokerRange

\* A chunk is read only on credit, so that credit never falls by a whole chunk below one.
LEMMA PumpReadsRange ==
    ASSUME IInv, RangeInv, PumpReads
    PROVE  RangeInv'
<1> DEFINE n == Head(socket.incoming)
           rest == Tail(socket.incoming)
<1>1. /\ pump.credit > 0 /\ socket.incoming # <<>> /\ socket' = [socket EXCEPT !.incoming = rest]
      /\ pump' = [pump EXCEPT !.credit = @ - n] /\ toPage' = PostedToPage(<<Data(n)>>)
      /\ page' = page /\ sink' = sink /\ toBroker' = toBroker
  BY DEF PumpReads
<1>2. /\ pump \in Pumps /\ pump.credit \in Int /\ 1 - MaxChunk <= pump.credit /\ pump.credit <= ReadWindow
      /\ MaxChunk \in Nat \ {0} /\ ReadWindow \in Nat /\ toBroker \in Seq(ToBroker) /\ toPage \in Seq(ToPage)
      /\ sink.unacked <= WriteWindow /\ socket \in Sockets /\ socket.incoming \in Seq(1 .. MaxChunk)
      /\ socket.sent <= PeerBytes /\ DataOut \in Nat /\ Unread \in Nat /\ socket.sent \in Nat /\ Shape
  BY RangeFacts, SocketNumbers DEF Sized, BytesOnce
<1>3. n \in 1 .. MaxChunk /\ rest \in Seq(1 .. MaxChunk)
  <2>1. \A S : \A q \in Seq(S) : q # <<>> => Head(q) \in S /\ Tail(q) \in Seq(S)
    OBVIOUS
  <2>2. socket.incoming # <<>> /\ socket.incoming \in Seq(1 .. MaxChunk)
    BY <1>1, <1>2
  <2> QED BY <2>1, <2>2
<1>4. socket.incoming \in Seq(Nat)
  BY <1>2 DEF Sockets
<1>5. Unread = n + Sum(rest) /\ n \in Nat /\ rest \in Seq(Nat) /\ Sum(rest) \in Nat
  BY <1>1, <1>4, SumTail DEF Unread
<1> HIDE DEF n, rest
<1>6. /\ socket' \in Sockets /\ socket'.incoming = rest /\ socket'.sent = socket.sent
      /\ socket'.taken = socket.taken /\ socket'.received = socket.received /\ socket'.outgoing = socket.outgoing
  BY <1>1, <1>2, <1>5 DEF Sockets
<1>7. toPage' \in Seq(ToPage) /\ DataOut' \in {DataOut, DataOut + n}
  BY <1>1, <1>2, <1>3, PostsChunk
<1>8. Unread' = Sum(rest)
  BY <1>6 DEF Unread
<1>9. DataOut' \in Nat /\ Unread' \in Nat
  BY <1>2, <1>5, <1>7, <1>8
<1>10. DataOut' + Unread' + socket.sent <= DataOut + Unread + socket'.sent
  <2>1. \A d, u, m, r, s \in Nat : u = m + r => d + r + s <= d + u + s /\ (d + m) + r + s <= d + u + s
    OBVIOUS
  <2> QED BY <1>2, <1>5, <1>6, <1>7, <1>8, <2>1
<1>11. 1 - MaxChunk <= pump'.credit /\ pump'.credit <= ReadWindow
  <2>1. 1 - MaxChunk <= pump.credit - n /\ pump.credit - n <= ReadWindow /\ pump.credit - n \in Int
    <3>1. \A b \in Nat : \A c \in Int : \A x \in 1 .. b :
             c - x \in Int /\ c - x <= c /\ (c > 0 => 1 - b <= c - x)
      OBVIOUS
    <3>2. \A d, c, a \in Int : d <= c /\ c <= a => d <= a
      OBVIOUS
    <3>3. pump.credit - n \in Int /\ pump.credit - n <= pump.credit /\ 1 - MaxChunk <= pump.credit - n
      BY <1>1, <1>2, <1>3, <3>1
    <3>4. ReadWindow \in Int
      BY <1>2
    <3> QED BY <1>2, <3>2, <3>3, <3>4
  <2> QED BY <1>1, <1>2, <2>1 DEF Pumps
<1>12. /\ toBroker' \in Seq(ToBroker) /\ WritesIn' \in Nat
       /\ socket.taken + WritesIn' <= socket.taken + WritesIn
       /\ socket.received + socket.outgoing <= socket.taken
  BY <1>1, QueueShrinks
<1> QED
  BY <1>1, <1>2, <1>3, <1>6, <1>7, <1>9, <1>10, <1>11, <1>12, BrokerRange

\* The peer and the socket.
LEMMA PeerRange ==
    ASSUME IInv, RangeInv, Peer \/ FinSent
    PROVE  RangeInv'
<1>1. /\ page' = page /\ toBroker' = toBroker /\ sink' = sink /\ pump' = pump /\ toPage' = toPage
  BY DEF Peer, PeerSends, PeerEnds, PeerResets, PeerReads, FinSent
<1>2. /\ socket \in Sockets /\ toPage \in Seq(ToPage) /\ toBroker \in Seq(ToBroker)
      /\ sink.unacked <= WriteWindow /\ 1 - MaxChunk <= pump.credit /\ pump.credit <= ReadWindow
      /\ socket.incoming \in Seq(1 .. MaxChunk) /\ socket.sent <= PeerBytes
      /\ DataOut \in Nat /\ Unread \in Nat /\ socket.sent \in Nat /\ MaxChunk \in Nat \ {0} /\ PeerBytes \in Nat
      /\ socket.taken \in Nat /\ socket.outgoing \in Nat /\ socket.received \in Nat
  BY RangeFacts, SocketNumbers DEF Sized, BytesOnce
<1>3. /\ toBroker' \in Seq(ToBroker) /\ WritesIn' \in Nat /\ WritesIn' = WritesIn
      /\ socket.taken + WritesIn' <= socket.taken + WritesIn
      /\ socket.received + socket.outgoing <= socket.taken
  BY <1>1, QueueShrinks DEF WritesIn
<1>4. DataOut' = DataOut
  BY <1>1 DEF DataOut
<1>5. CASE Lighter(socket, socket')
  BY <1>1, <1>2, <1>4, <1>5, StillRange
<1>6. ASSUME NEW n \in 1 .. MaxChunk, PeerSends(n)
      PROVE  RangeInv'
  <2> DEFINE more == Append(socket.incoming, n)
             sent == socket.sent + n
  <2>1. socket' = [socket EXCEPT !.sent = sent, !.incoming = more] /\ sent <= PeerBytes
    BY <1>6 DEF PeerSends
  <2>2. n \in Nat /\ more \in Seq(1 .. MaxChunk) /\ more \in Seq(Nat) /\ sent \in Nat
    <3>1. socket.incoming \in Seq(Nat) /\ n \in Nat
      BY <1>2 DEF Sockets
    <3>2. \A S : \A s \in Seq(S), x \in S : Append(s, x) \in Seq(S)
      OBVIOUS
    <3>3. sent \in Nat
      BY <1>2, <3>1
    <3> QED BY <1>2, <3>1, <3>2, <3>3
  <2>3. Sum(more) = Unread + n
    <3>1. socket.incoming \in Seq(Nat)
      BY <1>2 DEF Sockets
    <3> QED BY <2>2, <3>1, SumAppend DEF Unread
  <2>4. DataOut + Sum(more) + socket.sent <= DataOut + Unread + sent
    <3>1. \A a, b, c, d \in Nat : a + (b + d) + c <= a + b + (c + d)
      OBVIOUS
    <3> QED BY <1>2, <2>2, <2>3, <3>1
  <2>5. Sum(more) \in Nat
    BY <1>2, <2>2, <2>3
  <2> HIDE DEF more, sent
  <2>6. /\ socket' \in Sockets /\ socket'.incoming = more /\ socket'.sent = sent
        /\ socket'.taken = socket.taken /\ socket'.received = socket.received /\ socket'.outgoing = socket.outgoing
    BY <1>2, <2>1, <2>2 DEF Sockets
  <2>7. Unread' = Sum(more)
    BY <2>6 DEF Unread
  <2>8. DataOut' + Unread' + socket.sent <= DataOut + Unread + socket'.sent
    BY <1>4, <2>4, <2>6, <2>7
  <2> QED BY <1>1, <1>2, <1>3, <1>4, <2>1, <2>2, <2>5, <2>6, <2>7, <2>8, BrokerRange
<1>7. CASE PeerReads
  <2>1. socket.outgoing > 0 /\ socket' = [socket EXCEPT !.outgoing = socket.outgoing - 1, !.received = socket.received + 1]
    BY <1>7 DEF PeerReads
  <2>2. socket.outgoing - 1 \in Nat /\ socket.received + 1 \in Nat
        /\ (socket.received + 1) + (socket.outgoing - 1) <= socket.taken
    <3>1. \A a, b, c \in Nat : a > 0 /\ b + a <= c => a - 1 \in Nat /\ b + 1 \in Nat /\ (b + 1) + (a - 1) <= c
      OBVIOUS
    <3> QED BY <1>2, <1>3, <2>1, <3>1
  <2>3. /\ socket' \in Sockets /\ socket'.incoming = socket.incoming /\ socket'.sent = socket.sent
        /\ socket'.taken = socket.taken
        /\ socket'.received = socket.received + 1 /\ socket'.outgoing = socket.outgoing - 1
    BY <1>2, <2>1, <2>2 DEF Sockets
  <2>4. Unread' = Unread
    BY <2>3 DEF Unread
  <2>5. DataOut' + Unread' + socket.sent <= DataOut + Unread + socket'.sent
    <3>1. \A a, b, c \in Nat : a + b + c <= a + b + c
      OBVIOUS
    <3> QED BY <1>2, <1>4, <2>3, <2>4, <3>1
  <2> QED BY <1>1, <1>2, <1>3, <1>4, <2>2, <2>3, <2>4, <2>5, BrokerRange
<1>8. CASE PeerEnds
  <2> DEFINE e == Ended(socket)
             readable == IF e.readable = "open" THEN "closed" ELSE e.readable
             alive == socket.ours # "fin"
  <2>1. socket' = [e EXCEPT !.theirs = "fin", !.readable = readable, !.alive = alive]
    BY <1>8 DEF PeerEnds
  <2>2. Lighter(socket, e) /\ e \in Sockets
    BY <1>2, Endings DEF Lighter
  <2>3. readable \in {"open", "closed", "errored", "cancelled"} /\ alive \in BOOLEAN
    BY <2>2 DEF Sockets
  <2> HIDE DEF e, readable, alive
  <2>4. Lighter(e, socket')
    BY <2>1, <2>2, <2>3 DEF Lighter, Sockets
  <2> QED BY <1>5, <2>2, <2>4, LighterAgain
<1>9. CASE PeerResets
  <2> DEFINE readable == IF socket.readable = "open" THEN "errored" ELSE socket.readable
             incoming == IF socket.readable = "open" THEN <<>> ELSE socket.incoming
  <2>1. socket' = [socket EXCEPT !.reset = TRUE, !.alive = FALSE, !.outgoing = 0, !.ours = "rst",
                                 !.readable = readable, !.incoming = incoming]
    BY <1>9 DEF PeerResets
  <2>2. /\ readable \in {"open", "closed", "errored", "cancelled"}
        /\ incoming \in {<<>>, socket.incoming} /\ incoming \in Seq(Nat)
    BY <1>2 DEF Sockets
  <2> HIDE DEF readable, incoming
  <2>3. Lighter(socket, socket')
    BY <1>2, <2>1, <2>2 DEF Lighter, Sockets
  <2> QED BY <1>5, <2>3
<1>10. CASE FinSent
  <2> DEFINE alive == socket.theirs = "open"
  <2>1. socket' = [socket EXCEPT !.ours = "fin", !.alive = alive]
    BY <1>10 DEF FinSent
  <2>2. alive \in BOOLEAN
    OBVIOUS
  <2> HIDE DEF alive
  <2>3. Lighter(socket, socket')
    BY <1>2, <2>1, <2>2 DEF Lighter, Sockets
  <2> QED BY <1>5, <2>3
<1> QED
  BY <1>6, <1>7, <1>8, <1>9, <1>10 DEF Peer
-----------------------------------------------------------------------------
(* The page's steps keep their bounds.  *)

\* A page q that counts what p counted, and may have dropped what it was to read or to write.
Slacks(p, q) ==
    /\ q \in Pages /\ (q.here <=> p.here) /\ q.got = p.got /\ q.asked = p.asked /\ q.writes = p.writes
    /\ q.queue \in {<<>>, p.queue} /\ q.uncredited = p.uncredited /\ q.sinceLastCredit = p.sinceLastCredit
    /\ <<q.left, q.piece>> \in {<<p.left, p.piece>>, <<0, 0>>}

LEMMA SlackAgain ==
    ASSUME NEW p, NEW q, NEW r, Slacks(p, q), Slacks(q, r)
    PROVE  Slacks(p, r)
  BY DEF Slacks

LEMMA SlackFacts ==
    ASSUME NEW p \in Pages
    PROVE  /\ Slacks(p, p) /\ Slacks(p, Writeless(p)) /\ Slacks(p, Rejected(p)) /\ Slacks(p, Resolved(p))
           /\ Slacks(p, Unwritten(p)) /\ Slacks(p, ReadClosed(p))
           /\ \A state \in {"errored", "cancelled"} : Slacks(p, Readless(p, state))
<1>1. Slacks(p, p)
  BY DEF Slacks
<1>2. Slacks(p, Writeless(p))
  <2>1. Writeless(p) \in Pages
    BY WritelessFacts DEF SameReads
  <2> QED BY <2>1 DEF Slacks, Writeless, Pages
<1>3. Slacks(p, Rejected(p))
  <2>1. Rejected(p) \in Pages
    BY RejectedFacts DEF SameReads
  <2> QED BY <2>1 DEF Slacks, Rejected, Pages
<1>4. Slacks(p, Resolved(p))
  <2>1. Resolved(p) \in Pages
    BY ResolvedFacts DEF SameReads
  <2> QED BY <2>1 DEF Slacks, Resolved, Pages
<1>5. Slacks(p, Unwritten(p))
  <2>1. Unwritten(p) \in Pages
    BY UnwrittenFacts DEF SameReads
  <2> QED BY <2>1 DEF Slacks, Unwritten, Pages
<1>6. Slacks(p, ReadClosed(p))
  <2>1. ReadClosed(p) \in Pages
    BY ReadClosedFacts
  <2> QED BY <2>1 DEF Slacks, ReadClosed, Pages
<1>7. ASSUME NEW state \in {"errored", "cancelled"} PROVE Slacks(p, Readless(p, state))
  <2>1. Readless(p, state) \in Pages
    BY ReadlessFacts DEF ReadsNoFurther
  <2> QED BY <2>1 DEF Slacks, Readless, Pages
<1> QED
  BY <1>1, <1>2, <1>3, <1>4, <1>5, <1>6, <1>7

LEMMA FatalSlacks ==
    ASSUME NEW p \in Pages
    PROVE  Slacks(p, Fatal(p))
<1> DEFINE a == Unwritten(p)
           b == Readless(a, "errored")
           c == Writeless(b)
           d == Rejected(c)
<1>1. a \in Pages /\ Slacks(p, a)
  BY SlackFacts DEF Slacks
<1>2. b \in Pages /\ Slacks(a, b)
  BY <1>1, SlackFacts DEF Slacks
<1>3. c \in Pages /\ Slacks(b, c)
  BY <1>2, SlackFacts DEF Slacks
<1>4. Slacks(c, d)
  BY <1>3, SlackFacts
<1>5. Fatal(p) = d
  BY DEF Fatal
<1> HIDE DEF a, b, c, d
<1> QED
  BY <1>1, <1>2, <1>3, <1>4, <1>5, SlackAgain

\* A message from the broker is taken: a chunk is as large as it said.
LEMMA TakesRange ==
    ASSUME IInv, RangeInv, toPage # <<>>, toPage' = Tail(toPage)
    PROVE  /\ toPage' \in Seq(ToPage) /\ DataOut' \in Nat /\ DataOut' <= DataOut
           /\ Head(toPage).kind = "data" => Head(toPage).n \in 1 .. MaxChunk /\ DataOut = Head(toPage).n + DataOut'
<1>1. toPage \in Seq(ToPage) /\ DataOut \in Nat /\ Shape
  BY RangeFacts DEF Sized
<1>2. Head(toPage) \in ToPage /\ toPage' \in Seq(ToPage)
  BY <1>1
<1>3. Head(toPage).kind = "data" => Head(toPage).n \in 1 .. MaxChunk
  BY <1>2, ToPageFacts
<1>4. /\ Head(toPage) \in PageMessages /\ DataOut' \in Nat
      /\ Head(toPage).kind = "data" => Head(toPage).n \in Nat /\ DataOut = Head(toPage).n + DataOut'
      /\ Head(toPage).kind \in {"ack", "end", "failed"} => DataOut' = DataOut
  BY <1>1, Takes
<1>5. Head(toPage).kind \in {"data", "ack", "end", "failed"}
  BY <1>4 DEF PageMessages, Data, Ack, End, Failed
<1>6. DataOut' <= DataOut
  <2>1. \A a, b, c \in Nat : (a = b + c => c <= a) /\ a <= a
    OBVIOUS
  <2> QED BY <1>1, <1>4, <1>5, <2>1
<1> QED
  BY <1>2, <1>3, <1>4, <1>6

\* A message to the broker.
LEMMA SendsRange ==
    ASSUME Shape, toBroker \in Seq(ToBroker), NEW m \in ToBroker, toBroker' = PostedToBroker(m)
    PROVE  /\ toBroker' \in Seq(ToBroker) /\ WritesIn' \in Nat
           /\ m.kind # "write" => WritesIn' = WritesIn
           /\ m.kind = "write" => m.n \in Nat /\ WritesIn' <= WritesIn + m.n
<1>1. toBroker' \in Seq(ToBroker)
  BY DEF PostedToBroker
<1>2. m \in BrokerMessages /\ WritesIn \in Nat
  BY ToBrokerFacts, CarriedType
<1>3. WritesIn' = WritesIn + (IF ends = {} THEN Amount(m, "write") ELSE 0)
  BY <1>2, Sends
<1>4. CASE m.kind # "write"
  <2>1. Amount(m, "write") = 0
    BY <1>4 DEF Amount
  <2> QED BY <1>1, <1>2, <1>3, <1>4, <2>1
<1>5. CASE m.kind = "write"
  <2>1. m.n \in Nat /\ Amount(m, "write") = m.n
    BY <1>2, <1>5, BrokerMessageFacts DEF Amount
  <2>2. \A a, b \in Nat : a + b \in Nat /\ a + 0 \in Nat /\ a + b <= a + b /\ a + 0 <= a + b
    OBVIOUS
  <2>3. WritesIn' \in {WritesIn + m.n, WritesIn + 0}
    BY <1>3, <2>1
  <2> QED BY <1>1, <1>2, <1>5, <2>1, <2>2, <2>3
<1> QED
  BY <1>4, <1>5

\* The page stops counting, or takes a message that is no chunk.
LEMMA SlackRange ==
    ASSUME IInv, RangeInv, socket' = socket, pump' = pump, sink' = sink, Slacks(page, page'), toPage' \in Seq(ToPage),
           DataOut' \in Nat, DataOut' <= DataOut, toBroker' \in Seq(ToBroker), WritesIn' = WritesIn
    PROVE  RangeInv'
<1>1. /\ BytesOnce /\ Sized /\ page \in Pages /\ DataOut \in Nat /\ WritesIn \in Nat
      /\ page.piece <= page.left
  BY RangeFacts DEF IInv, WriteInv
<1>2. /\ page' \in Pages /\ page'.got = page.got /\ page'.asked = page.asked /\ page'.writes = page.writes
      /\ page'.queue \in {<<>>, page.queue} /\ page'.uncredited = page.uncredited
      /\ page'.sinceLastCredit = page.sinceLastCredit /\ (page'.here <=> page.here)
      /\ \/ page'.left = page.left /\ page'.piece = page.piece
         \/ page'.left = 0 /\ page'.piece = 0
  BY DEF Slacks
<1>3. page'.queue \in Seq(1 .. MaxChunk)
  <2>1. <<>> \in Seq(1 .. MaxChunk)
    OBVIOUS
  <2> QED BY <1>1, <1>2, <2>1 DEF Sized
<1>4. /\ page.got \in Nat /\ page.left \in Nat /\ page.piece \in Nat /\ page.asked \in Nat /\ socket.taken \in Nat
      /\ page.uncredited \in Nat /\ page.sinceLastCredit \in Nat
  BY <1>1, RangeFacts, PageNumbers, SocketNumbers
<1>5. page'.got + DataOut' <= page.got + DataOut
  <2>1. \A g, d, e \in Nat : e <= d => g + e <= g + d
    OBVIOUS
  <2> QED BY <1>1, <1>2, <1>4, <2>1
<1>6. page'.left <= page'.asked
      /\ (page'.here => socket.taken + WritesIn' + (page'.left - page'.piece) <= page'.asked)
  <2>1. \A l, p, a, t, w \in Nat : p <= l /\ l <= a =>
           0 <= a /\ (t + w + (l - p) <= a => t + w + (0 - 0) <= a)
    OBVIOUS
  <2>2. page.left <= page.asked
        /\ (page.here => socket.taken + WritesIn + (page.left - page.piece) <= page.asked)
    BY <1>1 DEF BytesOnce
  <2>3. /\ 0 <= page.asked
        /\ page.here => socket.taken + WritesIn + (0 - 0) <= page.asked
    BY <1>1, <1>4, <2>1, <2>2
  <2> QED BY <1>2, <2>2, <2>3
<1>7. /\ page'.uncredited + page'.sinceLastCredit <= page'.got
      /\ socket.taken + WritesIn' <= AppBytes /\ page'.asked <= AppBytes /\ page'.writes <= AppWrites
  BY <1>1, <1>2 DEF BytesOnce
<1> QED
  BY <1>1, <1>2, <1>3, <1>5, <1>6, <1>7, PageRange

\* The page reads, and has written what it had.
LEMMA SameWritesRange ==
    ASSUME IInv, RangeInv, socket' = socket, pump' = pump, sink' = sink, page' \in Pages, page'.here <=> page.here,
           toPage' \in Seq(ToPage), toBroker' \in Seq(ToBroker), page'.queue \in Seq(1 .. MaxChunk),
           DataOut' \in Nat, WritesIn' = WritesIn,
           page'.got + DataOut' <= page.got + DataOut,
           page'.uncredited + page'.sinceLastCredit <= page'.got,
           page'.left = page.left, page'.piece = page.piece, page'.asked = page.asked, page'.writes = page.writes
    PROVE  RangeInv'
<1>1. WritesIn' \in Nat
  BY RangeFacts
<1>2. /\ socket.taken + WritesIn' <= AppBytes
      /\ page'.here => socket.taken + WritesIn' + (page'.left - page'.piece) <= page'.asked
      /\ page'.left <= page'.asked /\ page'.asked <= AppBytes /\ page'.writes <= AppWrites
  BY RangeFacts DEF BytesOnce
<1> QED
  BY <1>1, <1>2, PageRange

LEMMA PageEndsRange ==
    ASSUME IInv, RangeInv, PageEnd \/ PageFailed \/ Silence \/ AppCancels \/ AppEnds \/ AppAborts
    PROVE  RangeInv'
<1>1. BrokerStill /\ page \in Pages /\ Shape /\ toBroker' = toBroker /\ toBroker \in Seq(ToBroker)
  BY RangeFacts DEF Sized, PageEnd, PageFailed, Silence, AppCancels, AppEnds, AppAborts, BrokerStill
<1>2. Slacks(page, page')
  <2>1. CASE PageEnd
    <3> DEFINE a == [page EXCEPT !.readTerminal = TRUE]
               b == Readless(page, "errored")
    <3>1. a \in Pages /\ Slacks(page, a)
      BY <1>1 DEF Pages, Slacks
    <3>2. ReadClosed(a) \in Pages /\ Slacks(a, ReadClosed(a))
      BY <3>1, SlackFacts DEF Slacks
    <3>3. Slacks(page, Resolved(ReadClosed(a)))
      <4>1. Slacks(ReadClosed(a), Resolved(ReadClosed(a)))
        BY <3>2, SlackFacts
      <4> QED BY <3>1, <3>2, <4>1, SlackAgain
    <3>4. b \in Pages /\ Slacks(page, b)
      BY <1>1, SlackFacts DEF Slacks
    <3>5. Writeless(b) \in Pages /\ Slacks(b, Writeless(b))
      BY <3>4, SlackFacts DEF Slacks
    <3>6. Slacks(page, Rejected(Writeless(b)))
      <4>1. Slacks(Writeless(b), Rejected(Writeless(b)))
        BY <3>5, SlackFacts
      <4> QED BY <3>4, <3>5, <4>1, SlackAgain
    <3>7. page' \in {Resolved(ReadClosed(a)), Rejected(page), Rejected(Writeless(b))}
      BY <2>1 DEF PageEnd
    <3> HIDE DEF a, b
    <3> QED BY <1>1, <3>3, <3>6, <3>7, SlackFacts
  <2>2. CASE PageFailed \/ Silence
    BY <1>1, <2>2, FatalSlacks DEF PageFailed, Silence
  <2>3. CASE AppCancels
    BY <1>1, <2>3, SlackFacts DEF AppCancels
  <2>4. CASE AppEnds \/ AppAborts
    <3>1. \/ page' = [page EXCEPT !.writable = "closing"]
          \/ page' = [page EXCEPT !.writable = "erroring", !.aborted = TRUE]
      BY <2>4 DEF AppEnds, AppAborts
    <3>2. /\ [page EXCEPT !.writable = "closing"] \in Pages
          /\ [page EXCEPT !.writable = "erroring", !.aborted = TRUE] \in Pages
      <4>1. page \in Pages
        BY <1>1
      <4>2. [page EXCEPT !.writable = "closing"] \in Pages
        BY <4>1 DEF Pages
      <4>3. [page EXCEPT !.writable = "erroring", !.aborted = TRUE] \in Pages
        BY <4>1 DEF Pages
      <4> QED BY <4>2, <4>3
    <3>3. page' \in Pages
      BY <3>1, <3>2
    <3>4. /\ page'.here = page.here /\ page'.got = page.got /\ page'.asked = page.asked /\ page'.writes = page.writes
          /\ page'.queue = page.queue /\ page'.uncredited = page.uncredited
          /\ page'.sinceLastCredit = page.sinceLastCredit /\ page'.left = page.left /\ page'.piece = page.piece
      <4>1. page \in Pages
        BY <1>1
      <4>2. CASE page' = [page EXCEPT !.writable = "closing"]
        BY <4>1, <4>2 DEF Pages
      <4>3. CASE page' = [page EXCEPT !.writable = "erroring", !.aborted = TRUE]
        BY <4>1, <4>3 DEF Pages
      <4> QED BY <3>1, <4>2, <4>3
    <3> QED BY <3>3, <3>4 DEF Slacks
  <2> QED BY <2>1, <2>2, <2>3, <2>4
<1>3. toPage' \in Seq(ToPage) /\ DataOut' \in Nat /\ DataOut' <= DataOut
  <2>1. CASE toPage # <<>> /\ toPage' = Tail(toPage)
    BY <2>1, TakesRange
  <2>2. CASE toPage' = toPage
    <3>1. DataOut \in Nat /\ toPage \in Seq(ToPage)
      BY RangeFacts DEF Sized
    <3> QED BY <2>2, <3>1 DEF DataOut
  <2>3. (toPage # <<>> /\ toPage' = Tail(toPage)) \/ toPage' = toPage
    BY DEF PageEnd, PageFailed, Silence, AppCancels, AppEnds, AppAborts, PageTakes
  <2> QED BY <2>1, <2>2, <2>3
<1>4. WritesIn' = WritesIn
  BY <1>1 DEF WritesIn
<1> QED
  BY <1>1, <1>2, <1>3, <1>4, SlackRange DEF BrokerStill

\* The end of what the app writes, or its abort, is no write.
LEMMA LastWordRange ==
    ASSUME IInv, RangeInv, EndWrite \/ AbortWrite
    PROVE  RangeInv'
<1>1. BrokerStill /\ page \in Pages /\ Shape /\ toBroker \in Seq(ToBroker)
      /\ toPage' = toPage /\ toPage \in Seq(ToPage) /\ DataOut \in Nat
  BY RangeFacts DEF Sized, EndWrite, AbortWrite, BrokerStill
<1>2. Slacks(page, page')
  <2>1. CASE EndWrite
    <3> DEFINE a == [page EXCEPT !.writable = "closed", !.writeTerminal = TRUE]
    <3>1. a \in Pages /\ Slacks(page, a)
      <4>1. a \in Pages
        BY <1>1 DEF Pages
      <4> QED BY <1>1, <4>1 DEF Slacks, Pages
    <3>2. page' = Resolved(a)
      BY <2>1 DEF EndWrite
    <3> HIDE DEF a
    <3> QED BY <3>1, <3>2, SlackFacts, SlackAgain
  <2>2. CASE AbortWrite
    <3> DEFINE a == [page EXCEPT !.writable = "errored"]
    <3>1. a \in Pages /\ Slacks(page, a)
      <4>1. a \in Pages
        BY <1>1 DEF Pages
      <4> QED BY <1>1, <4>1 DEF Slacks, Pages
    <3>2. page' = Rejected(a)
      BY <2>2 DEF AbortWrite
    <3> HIDE DEF a
    <3> QED BY <3>1, <3>2, SlackFacts, SlackAgain
  <2> QED BY <2>1, <2>2
<1>3. PICK m \in {WriteEnd, WriteAbort} : toBroker' = PostedToBroker(m)
  BY DEF EndWrite, AbortWrite
<1>4. m \in ToBroker /\ m.kind # "write"
  BY ToBrokerFacts DEF WriteEnd, WriteAbort
<1>5. toBroker' \in Seq(ToBroker) /\ WritesIn' = WritesIn
  BY <1>1, <1>3, <1>4, SendsRange
<1>6. DataOut' \in Nat /\ DataOut' <= DataOut /\ toPage' \in Seq(ToPage)
  <2>1. \A a \in Nat : a <= a
    OBVIOUS
  <2> QED BY <1>1, <2>1 DEF DataOut
<1> QED
  BY <1>1, <1>2, <1>5, <1>6, SlackRange DEF BrokerStill

\* close() returned: what was still on its way to the page is gone.
LEMMA DisposeRange ==
    ASSUME IInv, RangeInv, NEW c \in Closes, Dispose(c)
    PROVE  RangeInv'
<1> DEFINE u == Unwritten(page)
           a == [u EXCEPT !.readTerminal = TRUE, !.writeTerminal = TRUE]
           b == Resolved(a)
           d == ReadClosed(b)
<1>1. /\ page \in Pages /\ socket' = socket /\ pump' = pump /\ sink' = sink /\ toBroker' = toBroker
      /\ toPage' = <<>> /\ page' = Writeless(d) /\ toBroker \in Seq(ToBroker)
  BY RangeFacts DEF Dispose, Sized
<1>2. u \in Pages /\ Slacks(page, u)
  BY <1>1, SlackFacts DEF Slacks
<1> HIDE DEF u
<1>3. a \in Pages /\ Slacks(u, a)
  <2>1. a \in Pages
    BY <1>2 DEF Pages
  <2> QED BY <1>2, <2>1 DEF Slacks, Pages
<1> HIDE DEF a
<1>4. b \in Pages /\ Slacks(a, b)
  BY <1>3, SlackFacts DEF Slacks
<1> HIDE DEF b
<1>5. d \in Pages /\ Slacks(b, d)
  BY <1>4, SlackFacts DEF Slacks
<1> HIDE DEF d
<1>6. Slacks(d, page')
  BY <1>1, <1>5, SlackFacts
<1>7. Slacks(page, page')
  <2>1. Slacks(page, b)
    BY <1>2, <1>3, <1>4, SlackAgain
  <2>2. Slacks(page, d)
    BY <1>5, <2>1, SlackAgain
  <2> QED BY <1>6, <2>2, SlackAgain
<1>8. toPage' \in Seq(ToPage) /\ DataOut' = 0
  <2>1. toPage' \in Seq(ToPage)
    BY <1>1
  <2> QED BY <1>1, <2>1, PageQueueEmpty
<1>9. DataOut' \in Nat /\ DataOut' <= DataOut /\ WritesIn' = WritesIn
  <2>1. DataOut \in Nat
    BY RangeFacts
  <2> QED BY <1>1, <1>8, <2>1 DEF WritesIn
<1> QED
  BY <1>1, <1>7, <1>8, <1>9, SlackRange

\* The document goes away with what it counted.
LEMMA NavigatesRange ==
    ASSUME IInv, RangeInv, Navigates
    PROVE  RangeInv'
<1>1. /\ socket' = socket /\ pump' = pump /\ sink' = sink /\ toBroker' = toBroker
      /\ toPage' = <<>> /\ page' = [NewPage EXCEPT !.here = FALSE] /\ toBroker \in Seq(ToBroker)
      /\ WritesIn \in Nat /\ page \in Pages /\ DataOut \in Nat /\ socket.taken + WritesIn <= AppBytes
  BY RangeFacts DEF Navigates, Sized, BytesOnce
<1>2. <<>> \in Seq(Nat) /\ <<>> \in Seq(1 .. MaxChunk) /\ <<>> \in Seq(ToPage)
  OBVIOUS
<1>3. /\ page' \in Pages /\ ~page'.here /\ page'.queue = <<>> /\ page'.got = 0 /\ page'.uncredited = 0
      /\ page'.sinceLastCredit = 0 /\ page'.left = 0 /\ page'.asked = 0 /\ page'.writes = 0
  BY <1>1, <1>2 DEF NewPage, Pages
<1>4. toPage' \in Seq(ToPage) /\ DataOut' = 0
  BY <1>1, <1>2, PageQueueEmpty
<1>5. WritesIn' = WritesIn
  BY <1>1 DEF WritesIn
<1>6. page.got \in Nat /\ 0 <= AppBytes /\ 0 <= AppWrites
  BY <1>1, PageNumbers, RelayAssumption
<1>7. page'.got + DataOut' <= page.got + DataOut /\ page'.uncredited + page'.sinceLastCredit <= page'.got
      /\ page'.left <= page'.asked /\ page'.asked <= AppBytes /\ page'.writes <= AppWrites
  <2>1. \A a, b \in Nat : 0 + 0 <= a + b /\ 0 + 0 <= 0 /\ 0 <= 0
    OBVIOUS
  <2> QED BY <1>1, <1>3, <1>4, <1>6, <2>1
<1> QED
  BY <1>1, <1>2, <1>3, <1>4, <1>5, <1>7, PageRange

\* What is reported as consumed is a credit of at least one unit, and no write.
LEMMA ReportsRange ==
    ASSUME IInv, RangeInv, NEW p \in Pages, NEW n \in Nat, Reports(p, n), p.sinceLastCredit + n <= PeerBytes
    PROVE  /\ toBroker' \in Seq(ToBroker) /\ WritesIn' = WritesIn
           /\ page' \in Pages /\ (page'.here <=> p.here) /\ page'.queue = p.queue /\ page'.got = p.got
           /\ page'.uncredited = p.uncredited /\ page'.sinceLastCredit <= p.sinceLastCredit + n
           /\ page'.left = p.left /\ page'.piece = p.piece /\ page'.asked = p.asked /\ page'.writes = p.writes
<1> DEFINE owed == p.sinceLastCredit + n
<1>1. p.sinceLastCredit \in Nat /\ owed \in Nat /\ Coalesce \in Nat \ {0} /\ owed <= PeerBytes
  <2>1. p.sinceLastCredit \in Nat
    BY PageNumbers
  <2>2. owed \in Nat
    BY <2>1
  <2> QED BY <2>1, <2>2, RelayAssumption
<1>2. Shape /\ toBroker \in Seq(ToBroker)
  BY RangeFacts DEF Sized
<1>3. CASE owed >= Coalesce
  <2>1. page' = [p EXCEPT !.sinceLastCredit = 0] /\ toBroker' = PostedToBroker(Credit(owed))
    BY <1>3 DEF Reports
  <2>2. owed \in 1 .. PeerBytes /\ 0 <= owed
    BY <1>1, <1>3, RelayAssumption
  <2> HIDE DEF owed
  <2>3. Credit(owed) \in ToBroker /\ Credit(owed).kind # "write"
    BY <2>2, ToBrokerFacts DEF Credit
  <2>4. toBroker' \in Seq(ToBroker) /\ WritesIn' = WritesIn
    BY <1>2, <2>1, <2>3, SendsRange
  <2>5. page' \in Pages /\ page'.sinceLastCredit = 0
    BY <2>1 DEF Pages
  <2> QED BY <2>1, <2>2, <2>4, <2>5 DEF Pages, owed
<1>4. CASE ~(owed >= Coalesce)
  <2>1. page' = [p EXCEPT !.sinceLastCredit = owed] /\ toBroker' = toBroker
    BY <1>4 DEF Reports
  <2>2. owed <= owed
    BY <1>1
  <2> HIDE DEF owed
  <2>3. page' \in Pages /\ page'.sinceLastCredit = owed
    BY <1>1, <2>1 DEF Pages
  <2> QED BY <1>2, <2>1, <2>2, <2>3 DEF Pages, WritesIn, owed
<1> QED
  BY <1>3, <1>4

\* What pull() reports was received.
LEMMA PulledRange ==
    ASSUME IInv, RangeInv, NEW p \in Pages, Holds(p), PulledAndReports(p),
           p.uncredited + p.sinceLastCredit <= p.got, p.got <= PeerBytes
    PROVE  /\ toBroker' \in Seq(ToBroker) /\ WritesIn' = WritesIn
           /\ page' \in Pages /\ (page'.here <=> p.here) /\ page'.queue = p.queue /\ page'.got = p.got
           /\ page'.uncredited + page'.sinceLastCredit <= page'.got
           /\ page'.left = p.left /\ page'.piece = p.piece /\ page'.asked = p.asked /\ page'.writes = p.writes
<1>1. p.queued \in Nat /\ p.uncredited \in Nat /\ p.sinceLastCredit \in Nat /\ p.got \in Nat /\ PeerBytes \in Nat
  BY RangeFacts, PageNumbers
<1>2. CASE p.readable = "open" /\ p.queued < ReadWindow
  <2> DEFINE q == [p EXCEPT !.uncredited = p.queued]
             n == p.uncredited - p.queued
  <2>1. Reports(q, n)
    BY <1>2 DEF PulledAndReports
  <2>2. n \in Nat /\ p.sinceLastCredit + n <= PeerBytes /\ p.queued + (p.sinceLastCredit + n) <= p.got
    BY <1>1 DEF Holds
  <2>3. /\ q \in Pages /\ q.uncredited = p.queued /\ q.sinceLastCredit = p.sinceLastCredit /\ (q.here <=> p.here)
        /\ q.queue = p.queue /\ q.got = p.got
        /\ q.left = p.left /\ q.piece = p.piece /\ q.asked = p.asked /\ q.writes = p.writes
    BY <1>1 DEF Pages
  <2> HIDE DEF q, n
  <2>4. /\ toBroker' \in Seq(ToBroker) /\ WritesIn' = WritesIn
        /\ page' \in Pages /\ (page'.here <=> q.here) /\ page'.queue = q.queue /\ page'.got = q.got
        /\ page'.uncredited = q.uncredited /\ page'.sinceLastCredit <= q.sinceLastCredit + n
        /\ page'.left = q.left /\ page'.piece = q.piece /\ page'.asked = q.asked /\ page'.writes = q.writes
    BY <2>1, <2>2, <2>3, ReportsRange
  <2>5. page'.sinceLastCredit \in Nat
    BY <2>4, PageNumbers
  <2>6. p.queued + page'.sinceLastCredit <= p.got
    <3>1. \A a, b, c, g \in Nat : a + b <= g /\ c <= b => a + c <= g
      OBVIOUS
    <3>2. p.sinceLastCredit + n \in Nat /\ page'.sinceLastCredit <= p.sinceLastCredit + n
      BY <1>1, <2>2, <2>3, <2>4
    <3> QED BY <1>1, <2>2, <2>5, <3>1, <3>2
  <2> QED BY <2>3, <2>4, <2>6
<1>3. CASE ~(p.readable = "open" /\ p.queued < ReadWindow)
  <2>1. page' = p /\ toBroker' = toBroker
    BY <1>3 DEF PulledAndReports
  <2>2. toBroker \in Seq(ToBroker)
    BY RangeFacts DEF Sized
  <2> QED BY <2>1, <2>2 DEF WritesIn
<1> QED
  BY <1>2, <1>3

\* A chunk is received once, as the size it was sent with.
LEMMA PageDataRange ==
    ASSUME IInv, RangeInv, PageData
    PROVE  RangeInv'
<1> DEFINE n == Head(toPage).n
           p == [page EXCEPT !.got = @ + n]
           q == [p EXCEPT !.queue = Append(@, n), !.queued = @ + n, !.uncredited = @ + n]
           u == [p EXCEPT !.uncredited = @ + n]
<1>1. /\ toPage # <<>> /\ Head(toPage).kind = "data" /\ toPage' = Tail(toPage)
      /\ socket' = socket /\ pump' = pump /\ sink' = sink
      /\ \/ Reports(p, n)
         \/ PulledAndReports(q)
         \/ page' = u /\ toBroker' = toBroker
  BY DEF PageData, PageTakes
<1>2. /\ page \in Pages /\ Holds(page) /\ page.queue \in Seq(1 .. MaxChunk) /\ page.queue \in Seq(Nat)
      /\ page.got \in Nat /\ page.queued \in Nat /\ page.uncredited \in Nat /\ page.sinceLastCredit \in Nat
      /\ page.got + DataOut + Unread <= socket.sent /\ socket.sent <= PeerBytes
      /\ page.uncredited + page.sinceLastCredit <= page.got
      /\ DataOut \in Nat /\ Unread \in Nat /\ socket.sent \in Nat /\ PeerBytes \in Nat
      /\ toBroker \in Seq(ToBroker)
  BY RangeFacts, ReadingFacts, SocketNumbers DEF BytesOnce, Sized
<1>3. toPage' \in Seq(ToPage) /\ DataOut' \in Nat /\ n \in 1 .. MaxChunk /\ n \in Nat /\ DataOut = n + DataOut'
  <2>1. toPage' \in Seq(ToPage) /\ DataOut' \in Nat /\ n \in 1 .. MaxChunk /\ DataOut = n + DataOut'
    BY <1>1, TakesRange
  <2> QED BY <2>1
<1> HIDE DEF n
<1>4. /\ page.got + n \in Nat /\ page.queued + n \in Nat /\ page.uncredited + n \in Nat
      /\ page.got + n <= PeerBytes /\ page.uncredited + page.sinceLastCredit <= page.got + n
      /\ (page.uncredited + n) + page.sinceLastCredit <= page.got + n
      /\ page.uncredited + (page.sinceLastCredit + n) <= page.got + n /\ page.sinceLastCredit + n <= PeerBytes
      /\ (page.got + n) + DataOut' <= page.got + DataOut
  <2>1. \A g, d, v, s, b : g \in Nat /\ d \in Nat /\ v \in Nat /\ s \in Nat /\ b \in Nat =>
          (g + (n + d) + v <= s /\ s <= b => g + n <= b /\ (g + n) + d <= g + (n + d))
    BY <1>3
  <2>2. page.got + (n + DataOut') + Unread <= socket.sent
    BY <1>2, <1>3
  <2>3. page.got + n <= PeerBytes /\ (page.got + n) + DataOut' <= page.got + DataOut
    BY <1>2, <1>3, <2>1, <2>2
  <2>4. \A a, c, g, b \in Nat : a + c <= g /\ g + n <= b =>
          /\ a + c <= g + n /\ (a + n) + c <= g + n /\ a + (c + n) <= g + n /\ c + n <= b
    BY <1>3
  <2>5. page.got + n \in Nat /\ page.queued + n \in Nat /\ page.uncredited + n \in Nat
    <3>1. \A a \in Nat : a + n \in Nat
      BY <1>3
    <3> QED BY <1>2, <3>1
  <2> QED BY <1>2, <2>3, <2>4, <2>5
<1>5. /\ p \in Pages /\ p.got = page.got + n /\ p.queue = page.queue /\ p.queued = page.queued
      /\ p.uncredited = page.uncredited /\ p.sinceLastCredit = page.sinceLastCredit /\ (p.here <=> page.here)
      /\ p.left = page.left /\ p.piece = page.piece /\ p.asked = page.asked /\ p.writes = page.writes
  BY <1>2, <1>4 DEF Pages
<1> HIDE DEF p
<1>6. Append(page.queue, n) \in Seq(Nat) /\ Append(page.queue, n) \in Seq(1 .. MaxChunk)
      /\ Sum(Append(page.queue, n)) = page.queued + n
  <2>1. Append(page.queue, n) \in Seq(Nat) /\ Append(page.queue, n) \in Seq(1 .. MaxChunk)
    BY <1>2, <1>3
  <2> QED BY <1>2, <1>3, <2>1, SumAppend DEF Holds
<1>7. /\ q \in Pages /\ q.got = page.got + n /\ q.queue = Append(page.queue, n) /\ q.queued = page.queued + n
      /\ q.uncredited = page.uncredited + n /\ q.sinceLastCredit = page.sinceLastCredit /\ (q.here <=> page.here)
      /\ q.left = page.left /\ q.piece = page.piece /\ q.asked = page.asked /\ q.writes = page.writes
  BY <1>4, <1>5, <1>6 DEF Pages
<1>8. /\ u \in Pages /\ u.got = page.got + n /\ u.queue = page.queue
      /\ u.uncredited = page.uncredited + n /\ u.sinceLastCredit = page.sinceLastCredit /\ (u.here <=> page.here)
      /\ u.left = page.left /\ u.piece = page.piece /\ u.asked = page.asked /\ u.writes = page.writes
  BY <1>4, <1>5 DEF Pages
<1> HIDE DEF q, u
<1>9. /\ toBroker' \in Seq(ToBroker) /\ WritesIn' = WritesIn
      /\ page' \in Pages /\ (page'.here <=> page.here) /\ page'.got = page.got + n
      /\ page'.queue \in {page.queue, Append(page.queue, n)}
      /\ page'.uncredited + page'.sinceLastCredit <= page'.got
      /\ page'.left = page.left /\ page'.piece = page.piece /\ page'.asked = page.asked /\ page'.writes = page.writes
  <2>1. CASE Reports(p, n)
    <3>1. /\ toBroker' \in Seq(ToBroker) /\ WritesIn' = WritesIn
          /\ page' \in Pages /\ (page'.here <=> p.here) /\ page'.queue = p.queue /\ page'.got = p.got
          /\ page'.uncredited = p.uncredited /\ page'.sinceLastCredit <= p.sinceLastCredit + n
          /\ page'.left = p.left /\ page'.piece = p.piece /\ page'.asked = p.asked /\ page'.writes = p.writes
      BY <1>3, <1>4, <1>5, <2>1, ReportsRange
    <3>2. page.uncredited + page'.sinceLastCredit <= page.got + n
      <4>1. \A a, b, c, g \in Nat : a + b <= g /\ c <= b => a + c <= g
        OBVIOUS
      <4>2. page'.sinceLastCredit \in Nat
        BY <3>1, PageNumbers
      <4>3. page.sinceLastCredit + n \in Nat
        <5>1. \A a \in Nat : a + n \in Nat
          BY <1>3
        <5> QED BY <1>2, <5>1
      <4>4. page.uncredited + (page.sinceLastCredit + n) <= page.got + n
            /\ page'.sinceLastCredit <= page.sinceLastCredit + n
        BY <1>4, <1>5, <3>1
      <4> QED BY <1>2, <1>4, <4>1, <4>2, <4>3, <4>4
    <3> QED BY <1>5, <3>1, <3>2
  <2>2. CASE PulledAndReports(q)
    <3>1. Holds(q)
      <4>1. \A a, b \in Nat : a <= b => a + n <= b + n
        BY <1>3
      <4> QED BY <1>2, <1>6, <1>7, <4>1 DEF Holds
    <3>2. q.uncredited + q.sinceLastCredit <= q.got /\ q.got <= PeerBytes
      BY <1>4, <1>7
    <3> QED BY <1>7, <2>2, <3>1, <3>2, PulledRange
  <2>3. CASE page' = u /\ toBroker' = toBroker
    BY <1>2, <1>4, <1>8, <2>3 DEF WritesIn
  <2> QED BY <1>1, <2>1, <2>2, <2>3
<1>10. page'.queue \in Seq(1 .. MaxChunk) /\ page'.got + DataOut' <= page.got + DataOut
  BY <1>2, <1>4, <1>6, <1>9
<1> QED
  BY <1>1, <1>3, <1>9, <1>10, SameWritesRange

\* The app takes the oldest chunk.
LEMMA AppReadsRange ==
    ASSUME IInv, RangeInv, AppReads
    PROVE  RangeInv'
<1> DEFINE rest == Tail(page.queue)
           queued == page.queued - Head(page.queue)
           readable == IF page.readable = "ending" /\ rest = <<>> THEN "closed" ELSE page.readable
           q == [page EXCEPT !.queue = rest, !.queued = queued, !.readable = readable]
<1>1. /\ page \in Pages /\ Holds(page) /\ page.queue \in Seq(1 .. MaxChunk) /\ page.queue \in Seq(Nat)
      /\ page.queue # <<>> /\ page.queued \in Nat /\ page.uncredited \in Nat /\ page.got \in Nat
      /\ page.got + DataOut + Unread <= socket.sent /\ socket.sent <= PeerBytes
      /\ page.uncredited + page.sinceLastCredit <= page.got
      /\ DataOut \in Nat /\ Unread \in Nat /\ socket.sent \in Nat /\ PeerBytes \in Nat
      /\ socket' = socket /\ pump' = pump /\ sink' = sink /\ toPage' = toPage /\ toPage \in Seq(ToPage)
  BY RangeFacts, ReadingFacts, SocketNumbers DEF BytesOnce, Sized, AppReads
<1>2. rest \in Seq(1 .. MaxChunk)
  <2>1. \A S : \A r \in Seq(S) : r # <<>> => Tail(r) \in Seq(S)
    OBVIOUS
  <2>2. page.queue # <<>> /\ page.queue \in Seq(1 .. MaxChunk)
    BY <1>1
  <2> QED BY <2>1, <2>2
<1>3. rest \in Seq(Nat) /\ Head(page.queue) \in Nat /\ Sum(page.queue) = Head(page.queue) + Sum(rest)
      /\ Sum(rest) \in Nat
  BY <1>1, SumTail
<1>4. queued \in Nat /\ queued = Sum(rest) /\ queued <= page.uncredited
  <2>1. page.queued = Sum(page.queue) /\ page.queued <= page.uncredited
    BY <1>1 DEF Holds
  <2> HIDE DEF rest
  <2>2. \A a, b, c, d \in Nat : a = b + c /\ a <= d => a - b \in Nat /\ a - b = c /\ a - b <= d
    OBVIOUS
  <2>3. /\ page.queued \in Nat /\ Head(page.queue) \in Nat /\ Sum(rest) \in Nat /\ page.uncredited \in Nat
        /\ page.queued = Head(page.queue) + Sum(rest) /\ page.queued <= page.uncredited
    BY <1>1, <1>3, <2>1
  <2> QED BY <2>2, <2>3
<1>5. readable \in {"open", "ending", "closed", "errored", "cancelled"}
  BY <1>1 DEF Pages
<1>6. PulledAndReports(q)
  <2>1. PulledAndReports([[page EXCEPT !.queue = rest, !.queued = queued] EXCEPT
                           !.readable = IF @ = "ending" /\ rest = <<>> THEN "closed" ELSE @])
    BY DEF AppReads
  <2>2. [[page EXCEPT !.queue = rest, !.queued = queued] EXCEPT
           !.readable = IF @ = "ending" /\ rest = <<>> THEN "closed" ELSE @] = q
    <3> HIDE DEF rest, queued
    <3> QED BY <1>1 DEF Pages
  <2> QED BY <2>1, <2>2
<1> HIDE DEF rest, queued, readable
<1>7. /\ q \in Pages /\ q.got = page.got /\ q.queue = rest /\ q.queued = queued
      /\ q.uncredited = page.uncredited /\ q.sinceLastCredit = page.sinceLastCredit /\ (q.here <=> page.here)
      /\ q.left = page.left /\ q.piece = page.piece /\ q.asked = page.asked /\ q.writes = page.writes
  BY <1>1, <1>3, <1>4, <1>5 DEF Pages
<1> HIDE DEF q
<1>8. Holds(q)
  BY <1>4, <1>7 DEF Holds
<1>9. page.got <= PeerBytes
  <2>1. \A g, d, v, s, b \in Nat : g + d + v <= s /\ s <= b => g <= b
    OBVIOUS
  <2> QED BY <1>1, <2>1
<1>10. /\ toBroker' \in Seq(ToBroker) /\ WritesIn' = WritesIn
       /\ page' \in Pages /\ (page'.here <=> q.here) /\ page'.queue = q.queue /\ page'.got = q.got
       /\ page'.uncredited + page'.sinceLastCredit <= page'.got
       /\ page'.left = q.left /\ page'.piece = q.piece /\ page'.asked = q.asked /\ page'.writes = q.writes
  BY <1>1, <1>6, <1>7, <1>8, <1>9, PulledRange
<1>11. DataOut' \in Nat /\ page'.got + DataOut' <= page.got + DataOut
  <2>1. DataOut' = DataOut
    BY <1>1 DEF DataOut
  <2>2. \A a, b \in Nat : a + b <= a + b
    OBVIOUS
  <2> QED BY <1>1, <1>7, <1>10, <2>1, <2>2
<1> QED
  BY <1>1, <1>2, <1>7, <1>10, <1>11, SameWritesRange

\* The timer of what was consumed.
LEMMA FlushCreditRange ==
    ASSUME IInv, RangeInv, FlushCredit
    PROVE  RangeInv'
<1> DEFINE n == page.sinceLastCredit
<1>1. /\ n > 0 /\ page' = [page EXCEPT !.sinceLastCredit = 0] /\ toBroker' = PostedToBroker(Credit(n))
      /\ socket' = socket /\ pump' = pump /\ sink' = sink /\ toPage' = toPage
  BY DEF FlushCredit
<1>2. /\ page \in Pages /\ page.queue \in Seq(1 .. MaxChunk) /\ page.uncredited \in Nat /\ page.got \in Nat /\ n \in Nat
      /\ page.got + DataOut + Unread <= socket.sent /\ socket.sent <= PeerBytes /\ page.uncredited + n <= page.got
      /\ DataOut \in Nat /\ Unread \in Nat /\ socket.sent \in Nat /\ PeerBytes \in Nat /\ Shape
      /\ toPage \in Seq(ToPage) /\ toBroker \in Seq(ToBroker)
  BY RangeFacts, ReadingFacts, SocketNumbers DEF BytesOnce, Sized
<1>3. n \in 1 .. PeerBytes /\ page.uncredited + 0 <= page.got
  <2>1. \A g, d, v, s, b, a, m \in Nat : g + d + v <= s /\ s <= b /\ a + m <= g /\ m > 0 => m \in 1 .. b /\ a + 0 <= g
    OBVIOUS
  <2> QED BY <1>1, <1>2, <2>1
<1> HIDE DEF n
<1>4. Credit(n) \in ToBroker /\ Credit(n).kind # "write"
  BY <1>3, ToBrokerFacts DEF Credit
<1>5. toBroker' \in Seq(ToBroker) /\ WritesIn' = WritesIn
  BY <1>1, <1>2, <1>4, SendsRange
<1>6. /\ page' \in Pages /\ (page'.here <=> page.here) /\ page'.queue = page.queue /\ page'.got = page.got
      /\ page'.uncredited = page.uncredited /\ page'.sinceLastCredit = 0
      /\ page'.left = page.left /\ page'.piece = page.piece /\ page'.asked = page.asked /\ page'.writes = page.writes
  BY <1>1, <1>2 DEF Pages
<1>7. DataOut' \in Nat /\ page'.got + DataOut' <= page.got + DataOut
  <2>1. DataOut' = DataOut
    BY <1>1 DEF DataOut
  <2>2. \A a, b \in Nat : a + b <= a + b
    OBVIOUS
  <2> QED BY <1>2, <1>6, <2>1, <2>2
<1> QED
  BY <1>1, <1>2, <1>3, <1>5, <1>6, <1>7, SameWritesRange

LEMMA Affords ==
    \A t, w, l, a, b \in Nat : t + w + l <= a /\ a <= b =>
      \A v, p \in Nat : v <= w + p /\ p <= l => t + v <= b /\ t + v + (l - p) <= a /\ l <= a
  OBVIOUS

\* A write, and what is left of it, is asked for once.
LEMMA PageWritesRange ==
    ASSUME IInv, RangeInv, PageAck \/ \E n \in 0 .. AppBytes : AppWritesBytes(n)
    PROVE  RangeInv'
<1>1. /\ socket' = socket /\ pump' = pump /\ sink' = sink /\ page.here
  BY DEF PageAck, AppWritesBytes, PageTakes
<1>2. /\ page \in Pages /\ page.queue \in Seq(1 .. MaxChunk) /\ Shape
      /\ DataOut \in Nat /\ WritesIn \in Nat /\ WriteWindow \in Nat /\ AppBytes \in Nat /\ socket.taken \in Nat
      /\ toPage \in Seq(ToPage) /\ toBroker \in Seq(ToBroker)
      /\ socket.taken + WritesIn + (page.left - page.piece) <= page.asked
      /\ page.left <= page.asked /\ page.asked <= AppBytes /\ page.piece <= page.left
      /\ page.uncredited + page.sinceLastCredit <= page.got /\ page.writes <= AppWrites
  BY <1>1, RangeFacts, SocketNumbers DEF BytesOnce, Sized, IInv, WriteInv
<1>3. /\ page.got \in Nat /\ page.left \in Nat /\ page.piece \in Nat /\ page.asked \in Nat /\ page.writes \in Nat
      /\ page.accepted \in Nat /\ page.acked \in Nat
  BY <1>2, PageNumbers
<1>4. toPage' \in Seq(ToPage) /\ DataOut' \in Nat /\ DataOut' <= DataOut
  <2>1. CASE toPage # <<>> /\ toPage' = Tail(toPage)
    BY <2>1, TakesRange
  <2>2. CASE toPage' = toPage
    <3>1. \A a \in Nat : a <= a
      OBVIOUS
    <3> QED BY <1>2, <2>2, <3>1 DEF DataOut
  <2>3. (toPage # <<>> /\ toPage' = Tail(toPage)) \/ toPage' = toPage
    BY DEF PageAck, AppWritesBytes, PageTakes
  <2> QED BY <2>1, <2>2, <2>3
<1>5. page.got + DataOut' <= page.got + DataOut
  <2>1. \A g, d, e \in Nat : e <= d => g + e <= g + d
    OBVIOUS
  <2> QED BY <1>2, <1>3, <1>4, <2>1
<1>6. ASSUME NEW left \in Nat, NEW piece, NEW asked \in Nat, NEW writes, piece = Least(left, WriteWindow),
             page' \in Pages, page'.here <=> page.here, page'.queue = page.queue, page'.got = page.got,
             page'.uncredited = page.uncredited, page'.sinceLastCredit = page.sinceLastCredit,
             page'.left = left, page'.piece = piece, page'.asked = asked, page'.writes = writes,
             socket.taken + WritesIn + left <= asked, asked <= AppBytes, writes <= AppWrites,
             toBroker' = PostedToBroker(Write(piece))
      PROVE  RangeInv'
  <2>1. piece \in 0 .. WriteWindow /\ piece \in Nat /\ piece <= left
    BY <1>2, <1>6 DEF Least
  <2>2. Write(piece) \in ToBroker /\ Write(piece).kind = "write" /\ Write(piece).n = piece
    BY <2>1, ToBrokerFacts DEF Write
  <2>3. toBroker' \in Seq(ToBroker) /\ WritesIn' \in Nat /\ WritesIn' <= WritesIn + piece
    BY <1>2, <1>6, <2>2, SendsRange
  <2>4. /\ socket.taken + WritesIn' <= AppBytes /\ socket.taken + WritesIn' + (left - piece) <= asked
        /\ left <= asked
    <3>1. \A v \in Nat : v <= WritesIn + piece =>
             /\ socket.taken + v <= AppBytes /\ socket.taken + v + (left - piece) <= asked
             /\ left <= asked
      <4>1. \A v, p \in Nat : v <= WritesIn + p /\ p <= left =>
              socket.taken + v <= AppBytes /\ socket.taken + v + (left - p) <= asked /\ left <= asked
        <5>1. socket.taken \in Nat /\ WritesIn \in Nat /\ left \in Nat /\ asked \in Nat /\ AppBytes \in Nat
              /\ socket.taken + WritesIn + left <= asked /\ asked <= AppBytes
          BY <1>2, <1>6
        <5> QED BY <5>1, Affords
      <4> QED BY <2>1, <4>1
    <3> QED BY <2>3, <3>1
  <2> QED BY <1>1, <1>2, <1>4, <1>5, <1>6, <2>3, <2>4, PageRange
<1>7. ASSUME NEW n \in 0 .. AppBytes, AppWritesBytes(n)
      PROVE  RangeInv'
  <2> DEFINE piece == Least(n, WriteWindow)
             asked == page.asked + n
             writes == page.writes + 1
  <2>1. /\ ~page.writing /\ asked <= AppBytes /\ page.writes < AppWrites
        /\ page' = [page EXCEPT !.writing = TRUE, !.left = n, !.piece = piece, !.acked = 0,
                                !.asked = asked, !.writes = writes]
        /\ toBroker' = PostedToBroker(Write(piece))
    BY <1>7 DEF AppWritesBytes
  <2>2. n \in Nat /\ piece \in Nat /\ asked \in Nat /\ writes \in Nat /\ writes <= AppWrites
    <3>1. n \in Nat
      OBVIOUS
    <3>2. asked \in Nat /\ piece \in Nat
      <4>1. \A a \in Nat : a + n \in Nat /\ Least(n, a) \in Nat
        BY <3>1 DEF Least
      <4> QED BY <1>2, <1>3, <4>1
    <3>3. writes \in Nat /\ writes <= AppWrites
      BY <1>3, <2>1, RelayAssumption
    <3> QED BY <3>1, <3>2, <3>3
  <2>3. socket.taken + WritesIn + n <= asked
    <3>1. page.left = 0 /\ page.piece = 0
      BY <2>1 DEF IInv, WriteInv
    <3>2. \A t, w, a \in Nat : t + w + (0 - 0) <= a => t + w + n <= a + n
      BY <2>2
    <3> QED BY <1>2, <1>3, <3>1, <3>2
  <2>4. piece = Least(n, WriteWindow)
    OBVIOUS
  <2> HIDE DEF piece, asked, writes
  <2>5. /\ page' \in Pages /\ (page'.here <=> page.here) /\ page'.queue = page.queue /\ page'.got = page.got
        /\ page'.uncredited = page.uncredited /\ page'.sinceLastCredit = page.sinceLastCredit
        /\ page'.left = n /\ page'.piece = piece /\ page'.asked = asked /\ page'.writes = writes
    BY <1>2, <2>1, <2>2 DEF Pages
  <2> QED BY <1>6, <2>1, <2>2, <2>3, <2>4, <2>5
<1>8. CASE PageAck
  <2> DEFINE acked == page.acked + Head(toPage).n
             left == page.left - page.piece
             piece == Least(left, WriteWindow)
             accepted == page.accepted + page.piece
             u == Unwritten(page)
  <2>1. /\ toPage # <<>> /\ Head(toPage).kind = "ack"
        /\ \/ page' = page /\ toBroker' = toBroker
           \/ page' = [page EXCEPT !.acked = acked] /\ toBroker' = toBroker
           \/ page' = [u EXCEPT !.accepted = accepted] /\ toBroker' = toBroker
           \/ /\ page' = [page EXCEPT !.left = left, !.piece = piece, !.acked = 0, !.accepted = accepted]
              /\ toBroker' = PostedToBroker(Write(piece))
    BY <1>8 DEF PageAck, PageTakes
  <2>2. acked \in Nat /\ left \in Nat /\ piece \in Nat /\ accepted \in Nat /\ page.left - page.piece = left
    <3>1. Head(toPage).n \in Nat
      <4>1. Head(toPage) \in PageMessages
        BY <1>2, <2>1 DEF Shape
      <4> QED BY <2>1, <4>1, PageMessageFacts
    <3>2. acked \in Nat /\ accepted \in Nat
      BY <1>3, <3>1
    <3>3. left \in Nat
      <4>1. \A a, b \in Nat : b <= a => a - b \in Nat
        OBVIOUS
      <4>2. page.piece <= page.left /\ page.left \in Nat /\ page.piece \in Nat
        BY <1>2, <1>3
      <4> QED BY <4>1, <4>2
    <3>4. piece \in Nat
      <4> HIDE DEF left
      <4> QED BY <1>2, <3>3 DEF Least
    <3> QED BY <3>2, <3>3, <3>4
  <2>3. socket.taken + WritesIn + left <= page.asked
    BY <1>2
  <2>4. piece = Least(left, WriteWindow) /\ u \in Pages /\ Slacks(page, u)
    BY <1>2, SlackFacts DEF Slacks
  <2> HIDE DEF acked, left, piece, accepted, u
  <2>5. CASE /\ page' = [page EXCEPT !.left = left, !.piece = piece, !.acked = 0, !.accepted = accepted]
             /\ toBroker' = PostedToBroker(Write(piece))
    <3>1. /\ page' \in Pages /\ (page'.here <=> page.here) /\ page'.queue = page.queue /\ page'.got = page.got
          /\ page'.uncredited = page.uncredited /\ page'.sinceLastCredit = page.sinceLastCredit
          /\ page'.left = left /\ page'.piece = piece /\ page'.asked = page.asked /\ page'.writes = page.writes
      BY <1>2, <2>2, <2>5 DEF Pages
    <3> QED BY <1>2, <1>3, <1>6, <2>2, <2>3, <2>4, <2>5, <3>1
  <2>6. [page EXCEPT !.acked = acked] \in Pages /\ [u EXCEPT !.accepted = accepted] \in Pages
    BY <1>2, <2>2, <2>4 DEF Pages
  <2>7. ASSUME Slacks(page, page'), toBroker' = toBroker PROVE RangeInv'
    BY <1>1, <1>2, <1>4, <2>7, SlackRange DEF WritesIn
  <2>8. CASE page' = page /\ toBroker' = toBroker
    BY <1>2, <2>7, <2>8, SlackFacts
  <2>9. CASE page' = [page EXCEPT !.acked = acked] /\ toBroker' = toBroker
    <3>1. Slacks(page, page')
      BY <1>2, <2>6, <2>9 DEF Slacks, Pages
    <3> QED BY <2>7, <2>9, <3>1
  <2>10. CASE page' = [u EXCEPT !.accepted = accepted] /\ toBroker' = toBroker
    <3>1. Slacks(u, page')
      BY <2>4, <2>6, <2>10 DEF Slacks, Pages
    <3> QED BY <2>4, <2>7, <2>10, <3>1, SlackAgain
  <2> QED BY <2>1, <2>5, <2>8, <2>9, <2>10
<1> QED
  BY <1>7, <1>8

LEMMA RangeStep ==
    IInv /\ RangeInv /\ [Next]_vars => RangeInv'
<1> SUFFICES ASSUME IInv, RangeInv, [Next]_vars PROVE RangeInv'
  OBVIOUS
<1>1. CASE Peer \/ Teardown
  BY <1>1, PeerRange, QuietRange, EndingsRange DEF Teardown
<1>2. CASE Pump
  BY <1>2, PumpReadsRange, QuietRange, PumpFailsRange DEF Pump
<1>3. CASE Sink
  BY <1>3, WriteSettlesRange, WriteRejectedRange DEF Sink
<1>4. CASE BrokerReceives
  BY <1>4, ReceiveCreditRange, ReceiveWriteRange, ReceiveEndRange, ReceiveAbortRange DEF BrokerReceives
<1>5. CASE PageReceives
  BY <1>5, PageDataRange, PageEndsRange, PageWritesRange DEF PageReceives
<1>6. CASE App
  BY <1>6, AppReadsRange, PageEndsRange, PageWritesRange, NavigatesRange, QuietRange DEF App
<1>7. CASE Heartbeat \/ Revoke \/ SessionEnds \/ FlushCredit \/ Silence \/ EndWrite \/ AbortWrite
  BY <1>7, QuietRange, EndingsRange, FlushCreditRange, PageEndsRange, LastWordRange
<1>8. CASE \E c \in Closes : NetClose(c) \/ Dispose(c)
  BY <1>8, QuietRange, DisposeRange
<1>9. CASE UNCHANGED vars
  BY <1>9 DEF vars, RangeInv, BytesOnce, Sized, DataOut, WritesIn, Unread
<1> QED
  BY <1>1, <1>2, <1>3, <1>4, <1>5, <1>6, <1>7, <1>8, <1>9 DEF Next

LEMMA RangeInit == Init => RangeInv
<1> SUFFICES ASSUME Init PROVE RangeInv
  OBVIOUS
<1>1. /\ toPage = <<>> /\ toBroker = <<>> /\ page = NewPage /\ pump.credit = ReadWindow
      /\ socket.incoming = <<>> /\ socket.sent = 0 /\ socket.taken = 0 /\ socket.outgoing = 0 /\ socket.received = 0
      /\ sink.unacked = 0
  BY DEF Init
<1>2. /\ page.queue = <<>> /\ page.got = 0 /\ page.uncredited = 0 /\ page.sinceLastCredit = 0
      /\ page.left = 0 /\ page.piece = 0 /\ page.asked = 0 /\ page.writes = 0
  BY <1>1 DEF NewPage
<1>3. DataOut = 0 /\ WritesIn = 0 /\ Unread = 0
  BY <1>1, CarriedSmall, SumSmall, PageMessageFacts, BrokerMessageFacts DEF DataOut, WritesIn, Unread
<1>4. BytesOnce
  BY <1>1, <1>2, <1>3, RelayAssumption DEF BytesOnce
<1>5. Sized
  <2>1. <<>> \in Seq(ToPage) /\ <<>> \in Seq(ToBroker) /\ <<>> \in Seq(1 .. MaxChunk)
    OBVIOUS
  <2>2. 0 <= WriteWindow /\ 1 - MaxChunk <= ReadWindow /\ ReadWindow <= ReadWindow
    BY RelayAssumption
  <2> QED BY <1>1, <1>2, <2>1, <2>2 DEF Sized
<1> QED
  BY <1>4, <1>5 DEF RangeInv

LEMMA BytesAreCountedOnce == Spec => []RangeInv
<1>1. Init => RangeInv
  BY RangeInit
<1>2. IInv /\ RangeInv /\ [Next]_vars => RangeInv'
  BY RangeStep
<1> QED
  BY <1>1, <1>2, InvariantHolds, PTL DEF Spec

\* The bounds of the types follow from the counts.
LEMMA RangeTypes == IInv /\ RangeInv => TypeOK
<1> SUFFICES ASSUME IInv, RangeInv PROVE TypeOK
  OBVIOUS
<1>1. /\ socket \in Sockets /\ pump \in Pumps /\ sink \in Sinks /\ page \in Pages /\ Shape /\ BytesOnce /\ Sized
      /\ DataOut \in Nat /\ Unread \in Nat /\ AcksOut \in Nat /\ WritesIn \in Nat
      /\ PeerBytes \in Nat /\ AppBytes \in Nat /\ AppWrites \in Nat /\ WriteWindow \in Nat
  BY RangeFacts
<1>2. /\ socket.sent \in 0 .. PeerBytes /\ page.got \in 0 .. PeerBytes /\ page.queued \in 0 .. PeerBytes
      /\ page.uncredited \in 0 .. PeerBytes /\ page.sinceLastCredit \in 0 .. PeerBytes
  <2>1. /\ socket.sent \in Nat /\ page.got \in Nat /\ page.queued \in Nat /\ page.uncredited \in Nat
        /\ page.sinceLastCredit \in Nat
    BY <1>1, PageNumbers, SocketNumbers
  <2>2. /\ page.got + DataOut + Unread <= socket.sent /\ socket.sent <= PeerBytes
        /\ page.uncredited + page.sinceLastCredit <= page.got /\ page.queued <= page.uncredited
    BY <1>1 DEF BytesOnce, IInv, WindowInv
  <2>3. \A g, d, u, s, b \in Nat : g + d + u <= s /\ s <= b => s \in 0 .. b /\ g \in 0 .. b
    OBVIOUS
  <2>4. page.got \in 0 .. PeerBytes /\ socket.sent \in 0 .. PeerBytes
    BY <1>1, <2>1, <2>2, <2>3
  <2>5. \A q, a, c, g, b \in Nat : q <= a /\ a + c <= g /\ g <= b => q \in 0 .. b /\ a \in 0 .. b /\ c \in 0 .. b
    OBVIOUS
  <2>6. page.got <= PeerBytes
    BY <2>4
  <2> QED BY <1>1, <2>1, <2>2, <2>4, <2>5, <2>6
<1>3. /\ socket.taken \in 0 .. AppBytes /\ socket.outgoing \in 0 .. AppBytes /\ socket.received \in 0 .. AppBytes
      /\ page.acked \in 0 .. AppBytes /\ page.accepted \in 0 .. AppBytes
  <2>1. /\ socket.taken \in Nat /\ socket.outgoing \in Nat /\ socket.received \in Nat /\ page.acked \in Nat
        /\ page.accepted \in Nat
    BY <1>1, PageNumbers, SocketNumbers
  <2>2. Held \in Nat
    <3>1. sink.writes \in Seq(Nat)
      BY <1>1 DEF Sinks
    <3> QED BY <3>1 DEF Held
  <2>3. /\ socket.received + socket.outgoing <= socket.taken /\ socket.taken + WritesIn <= AppBytes
        /\ page.accepted + page.acked + AcksOut + Held <= socket.taken
    BY <1>1 DEF BytesOnce, IInv, WriteInv
  <2>4. \A t, w, b \in Nat : t + w <= b => t \in 0 .. b /\ t <= b
    OBVIOUS
  <2>5. socket.taken \in 0 .. AppBytes /\ socket.taken <= AppBytes
    BY <1>1, <2>1, <2>3, <2>4
  <2>6. \A r, o, t, b \in Nat : r + o <= t /\ t <= b => r \in 0 .. b /\ o \in 0 .. b
    OBVIOUS
  <2>7. \A a, c, x, h, t, b \in Nat : a + c + x + h <= t /\ t <= b => a \in 0 .. b /\ c \in 0 .. b
    OBVIOUS
  <2>8. socket.received \in 0 .. AppBytes /\ socket.outgoing \in 0 .. AppBytes
    BY <1>1, <2>1, <2>3, <2>5, <2>6
  <2>9. page.acked \in 0 .. AppBytes /\ page.accepted \in 0 .. AppBytes
    BY <1>1, <2>1, <2>2, <2>3, <2>5, <2>7
  <2> QED BY <2>5, <2>8, <2>9
<1>4. /\ page.left \in 0 .. AppBytes /\ page.asked \in 0 .. AppBytes /\ page.piece \in 0 .. WriteWindow
      /\ page.writes \in 0 .. AppWrites
  <2>1. page.left \in Nat /\ page.asked \in Nat /\ page.piece \in Nat /\ page.writes \in Nat
    BY <1>1, PageNumbers
  <2>2. page.left <= page.asked /\ page.asked <= AppBytes /\ page.writes <= AppWrites /\ page.piece <= WriteWindow
    BY <1>1 DEF BytesOnce, IInv, WriteInv
  <2> QED BY <1>1, <2>1, <2>2
<1>5. sink.unacked \in 0 .. WriteWindow /\ sink.writes \in Seq(0 .. WriteWindow)
  <2>1. sink.writes \in Seq(Nat) /\ sink.unacked = Sum(sink.writes) /\ sink.unacked <= WriteWindow
    BY <1>1 DEF Sinks, IInv, WriteInv, Sized
  <2>2. sink.unacked \in Nat
    BY <2>1, UnitsFacts
  <2>3. ASSUME NEW i \in DOMAIN sink.writes PROVE sink.writes[i] \in 0 .. WriteWindow
    <3>1. sink.writes[i] \in Nat /\ sink.writes[i] <= Sum(sink.writes)
      BY <2>1, SumMember
    <3>2. \A a, b, c \in Nat : a <= b /\ b <= c => a \in 0 .. c
      OBVIOUS
    <3> QED BY <1>1, <2>1, <2>2, <3>1, <3>2
  <2> QED BY <1>1, <2>1, <2>2, <2>3
<1>6. /\ pump.credit \in (1 - MaxChunk) .. ReadWindow
      /\ pump \in [credit : (1 - MaxChunk) .. ReadWindow, stopped : BOOLEAN, endSent : BOOLEAN]
  <2>1. pump.credit \in Int /\ 1 - MaxChunk <= pump.credit /\ pump.credit <= ReadWindow
    BY <1>1 DEF Sized, Pumps
  <2>2. pump.credit \in (1 - MaxChunk) .. ReadWindow
    BY <2>1, RelayAssumption
  <2> QED BY <1>1, <2>2 DEF Pumps
<1>7. socket \in [sent : 0 .. PeerBytes, theirs : {"open", "fin"}, reset : BOOLEAN,
                  incoming : Seq(1 .. MaxChunk),
                  readable : {"open", "closed", "errored", "cancelled"},
                  taken : 0 .. AppBytes, outgoing : 0 .. AppBytes, received : 0 .. AppBytes,
                  ours : {"open", "ending", "fin", "cut", "rst"}, alive : BOOLEAN]
  <2>1. socket.incoming \in Seq(1 .. MaxChunk)
    BY <1>1 DEF Sized
  <2> QED BY <1>1, <1>2, <1>3, <2>1 DEF Sockets
<1>8. sink \in [writes : Seq(0 .. WriteWindow), unacked : 0 .. WriteWindow,
                stopped : BOOLEAN, ending : BOOLEAN, ended : BOOLEAN]
  BY <1>1, <1>5 DEF Sinks
<1>9. page \in [here : BOOLEAN, queue : Seq(1 .. MaxChunk), queued : 0 .. PeerBytes,
                uncredited : 0 .. PeerBytes, sinceLastCredit : 0 .. PeerBytes, got : 0 .. PeerBytes,
                readable : {"open", "ending", "closed", "errored", "cancelled"},
                readTerminal : BOOLEAN, writing : BOOLEAN, left : 0 .. AppBytes,
                piece : 0 .. WriteWindow, acked : 0 .. AppBytes, accepted : 0 .. AppBytes,
                asked : 0 .. AppBytes, writes : 0 .. AppWrites,
                writable : {"open", "closing", "closed", "erroring", "errored"},
                aborted : BOOLEAN, writeTerminal : BOOLEAN, closed : {"pending", "resolved", "rejected"}]
  <2>1. page.queue \in Seq(1 .. MaxChunk)
    BY <1>1 DEF Sized
  <2> QED BY <1>1, <1>2, <1>3, <1>4, <2>1 DEF Pages
<1>10. ~socket.reset => Len(sink.writes) <= 1
  BY DEF IInv, OnePieceInv
<1> QED
  BY <1>1, <1>6, <1>7, <1>8, <1>9, <1>10 DEF TypeOK, Sized, Shape, Relays, Handles

\* Every number of the relay has its bound, and every message the size its receiver
\* expects: credit falls below zero by less than a chunk (pump in port-pump.ts), and the
\* sink holds one piece of at most a window unless the socket was reset (handleWrite).
THEOREM TypeCorrect == Spec => []TypeOK
<1>1. IInv /\ RangeInv => TypeOK
  BY RangeTypes
<1> QED
  BY <1>1, InvariantHolds, BytesAreCountedOnce, PTL

-----------------------------------------------------------------------------
(* Order: nothing follows a clean end, whether or not the app closes.                 *)

\* The pump will read nothing more.
ReadOver == pump.stopped \/ (socket.readable = "closed" /\ socket.incoming = <<>>)

OrderInv ==
    /\ NothingAfterEnd
    /\ EndPosted => ReadOver
    /\ page.readable \in {"ending", "closed"} => DataOut = 0 /\ (ReadOver \/ "page" \in ends)

\* Messages to the page that carry no chunk, and those of them that are not a clean end.
Answers == {Ack(n) : n \in Nat} \cup {End(c) : c \in Codes} \cup {Failed(c) : c \in Codes}
Words == Answers \cup {End("clean")}

LEMMA AnswerFacts ==
    /\ Words \subseteq PageMessages
    /\ \A m \in Answers : m # End("clean")
    /\ \A m \in Words : m.kind # "data"
    /\ <<>> \in Seq(Answers) /\ <<>> \in Seq(Words)
    /\ \A n \in Nat : <<Ack(n)>> \in Seq(Answers)
    /\ \A c \in Codes : <<Failed(c)>> \in Seq(Answers)
    /\ \A c \in Codes \cup {"clean"} : <<End(c)>> \in Seq(Words)
    /\ Seq(Answers) \subseteq Seq(Words)
    /\ \A s, t \in Seq(Answers) : s \o t \in Seq(Answers)
    /\ \A s, t \in Seq(Words) : s \o t \in Seq(Words)
<1>1. /\ \A n : Ack(n).kind = "ack"
      /\ \A c : End(c).kind = "end" /\ End(c).code = c
      /\ \A c : Failed(c).kind = "failed"
  BY DEF Ack, End, Failed
<1>2. "clean" \notin Codes
  BY DEF Codes
<1>3. \A m \in Answers : m # End("clean")
  BY <1>1, <1>2 DEF Answers
<1>4. \A m \in Words : m.kind # "data"
  BY <1>1 DEF Words, Answers
<1>5. Words \subseteq PageMessages
  BY DEF Words, Answers, PageMessages
<1>6. \A S : <<>> \in Seq(S) /\ \A x \in S : <<x>> \in Seq(S)
  OBVIOUS
<1>7. \A n \in Nat : <<Ack(n)>> \in Seq(Answers)
  BY <1>6 DEF Answers
<1>8. \A c \in Codes : <<Failed(c)>> \in Seq(Answers)
  BY <1>6 DEF Answers
<1>9. \A c \in Codes \cup {"clean"} : <<End(c)>> \in Seq(Words)
  <2>1. \A c \in Codes \cup {"clean"} : End(c) \in Words
    BY DEF Words, Answers
  <2> QED BY <1>6, <2>1
<1>10. Seq(Answers) \subseteq Seq(Words)
  BY DEF Words
<1>11. \A S : \A s, t \in Seq(S) : s \o t \in Seq(S)
  BY ConcatProperties
<1> QED
  BY <1>3, <1>4, <1>5, <1>6, <1>7, <1>8, <1>9, <1>10, <1>11

\* What the broker posts keeps the order, if an end among it is the pump's last word.
LEMMA PostsInOrder ==
    ASSUME IInv, NEW t \in Seq(Words), toPage' = PostedToPage(t)
    PROVE  /\ DataOut' = DataOut
           /\ NothingAfterEnd => NothingAfterEnd'
           /\ t \in Seq(Answers) => (EndPosted' => EndPosted)
<1>1. Shape
  BY DEF IInv
<1>2. CASE ends = {}
  <2>1. toPage' = toPage \o t
    BY <1>2 DEF PostedToPage
  <2>2. t \in Seq(PageMessages)
    BY AnswerFacts
  <2>3. /\ DOMAIN toPage = 1 .. Len(toPage) /\ Len(toPage) \in Nat
        /\ DOMAIN (toPage') = 1 .. Len(toPage) + Len(t) /\ Len(t) \in Nat
        /\ \A i \in DOMAIN (toPage') :
             \/ i \in DOMAIN toPage /\ toPage'[i] = toPage[i]
             \/ i > Len(toPage) /\ i - Len(toPage) \in 1 .. Len(t) /\ toPage'[i] = t[i - Len(toPage)]
        /\ DataOut' = DataOut + Carried(t, "data")
    BY <1>1, <2>1, <2>2, Posts
  <2>4. \A i \in 1 .. Len(t) : t[i].kind # "data"
    BY AnswerFacts
  <2>5. DataOut' = DataOut
    <3>1. \A i \in DOMAIN t : t[i].kind # "data"
      BY AnswerFacts
    <3>2. Carried(t, "data") = 0 /\ DataOut \in Nat
      BY <1>1, <2>2, <3>1, CarriedNone, CarriedType, PageMessageFacts
    <3> QED BY <2>3, <3>2
  <2>6. ASSUME NothingAfterEnd, NEW i \in DOMAIN (toPage'), NEW j \in DOMAIN (toPage'),
               toPage'[i] = End("clean"), i < j, toPage'[j].kind = "data"
        PROVE  FALSE
    <3>1. j \in DOMAIN toPage /\ toPage'[j] = toPage[j]
      BY <2>3, <2>4, <2>6
    <3>2. i \in DOMAIN toPage /\ toPage'[i] = toPage[i]
      BY <2>3, <2>6, <3>1
    <3> QED BY <2>6, <3>1, <3>2 DEF NothingAfterEnd
  <2>7. NothingAfterEnd => NothingAfterEnd'
    BY <2>6 DEF NothingAfterEnd
  <2>8. ASSUME t \in Seq(Answers), EndPosted' PROVE EndPosted
    <3>1. PICK i \in DOMAIN (toPage') : toPage'[i] = End("clean")
      BY <2>8 DEF EndPosted
    <3>2. \A k \in 1 .. Len(t) : t[k] # End("clean")
      BY <2>8, AnswerFacts
    <3>3. i \in DOMAIN toPage /\ toPage'[i] = toPage[i]
      BY <2>3, <3>1, <3>2
    <3> QED BY <3>1, <3>3 DEF EndPosted
  <2> QED BY <2>5, <2>7, <2>8
<1>3. CASE ends # {}
  <2>1. toPage' = toPage
    BY <1>3 DEF PostedToPage
  <2> QED BY <2>1 DEF NothingAfterEnd, EndPosted, DataOut
<1> QED
  BY <1>2, <1>3

\* A step of the broker, of the peer or of the user.
LEMMA BrokerOrders ==
    ASSUME IInv, OrderInv, page' = page, ends \subseteq ends', ReadOver => ReadOver',
           NEW t \in Seq(Words), toPage' = PostedToPage(t), ReadOver' \/ t \in Seq(Answers)
    PROVE  OrderInv'
<1>1. NothingAfterEnd' /\ DataOut' = DataOut
  BY PostsInOrder DEF OrderInv
<1>2. EndPosted' => ReadOver'
  BY PostsInOrder DEF OrderInv
<1> QED
  BY <1>1, <1>2 DEF OrderInv

LEMMA SilentOrders ==
    ASSUME IInv, OrderInv, page' = page, ends \subseteq ends', ReadOver => ReadOver', toPage' = toPage
    PROVE  OrderInv'
  BY DEF OrderInv, NothingAfterEnd, EndPosted, DataOut

\* A step of the page that does not close its stream.
LEMMA PageOrders ==
    ASSUME IInv, OrderInv, socket' = socket, pump' = pump, ends \subseteq ends',
           toPage' = toPage \/ (toPage # <<>> /\ toPage' = Tail(toPage)),
           page'.readable \in {"ending", "closed"} => page.readable \in {"ending", "closed"}
    PROVE  OrderInv'
<1>1. ReadOver' <=> ReadOver
  BY DEF ReadOver
<1>2. DataOut \in Nat
  BY CarriedType DEF IInv
<1>3. CASE toPage' = toPage
  <2>1. DataOut' = DataOut
    BY <1>3 DEF DataOut
  <2> QED BY <1>1, <1>3, <2>1 DEF OrderInv, NothingAfterEnd, EndPosted
<1>4. CASE toPage # <<>> /\ toPage' = Tail(toPage)
  <2>1. NothingAfterEnd' /\ (EndPosted' => EndPosted)
    BY <1>4, Takes DEF OrderInv, IInv
  <2>2. DataOut = 0 => DataOut' = 0
    <3>1. Head(toPage) \in PageMessages
      BY <1>4, Takes DEF IInv
    <3>2. Head(toPage).kind \in {"data", "ack", "end", "failed"}
      BY <3>1, PageMessageFacts
    <3>3. \A n, d, e \in Nat : d = n + e /\ d = 0 => e = 0
      OBVIOUS
    <3> QED BY <1>2, <1>4, <3>2, <3>3, Takes DEF IInv
  <2> QED BY <1>1, <2>1, <2>2 DEF OrderInv
<1> QED
  BY <1>3, <1>4

\* The relay stops, so the pump has spoken.
LEMMA StopOrders ==
    ASSUME IInv, OrderInv, page' = page, NEW p \in Pumps, NEW k, NEW posted \in Seq(Words),
           NEW code \in Codes \cup {"clean"}, Stop(p, k, posted, code)
    PROVE  OrderInv'
<1> DEFINE ended == IF p.stopped \/ p.endSent THEN <<>> ELSE <<End(code)>>
           failed == IF code = "clean" \/ k.stopped \/ k.writes = <<>> THEN <<>> ELSE <<Failed(code)>>
<1>1. /\ pump' = [p EXCEPT !.stopped = TRUE, !.endSent = @ \/ ~p.stopped]
      /\ toPage' = PostedToPage(posted \o ended \o failed) /\ ends \subseteq ends'
  BY DEF Stop
<1>2. ended \in Seq(Words) /\ failed \in Seq(Words)
  BY AnswerFacts
<1> HIDE DEF ended, failed
<1>3. posted \o ended \o failed \in Seq(Words)
  BY <1>2, AnswerFacts
<1>4. ReadOver'
  BY <1>1 DEF ReadOver, Pumps
<1> QED
  BY <1>1, <1>3, <1>4, BrokerOrders

LEMMA FailOrders ==
    ASSUME IInv, OrderInv, page' = page, NEW p \in Pumps, pump.stopped => p.stopped, NEW k,
           NEW posted \in Seq(Words), p.stopped \/ posted \in Seq(Answers),
           NEW code \in Codes, NEW rest, FailSocket(p, k, posted, code, rest)
    PROVE  OrderInv'
<1>1. CASE handle.state = "live"
  <2>1. Stop(p, k, posted, code)
    BY <1>1 DEF FailSocket
  <2> QED BY <2>1, StopOrders
<1>2. CASE handle.state # "live"
  <2>1. pump' = p /\ toPage' = PostedToPage(posted) /\ socket' = socket /\ ends' = ends
    BY <1>2 DEF FailSocket
  <2>2. (ReadOver => ReadOver') /\ (p.stopped => ReadOver')
    BY <2>1 DEF ReadOver
  <2> QED BY <2>1, <2>2, BrokerOrders
<1> QED
  BY <1>1, <1>2

\* A socket t that is s after one of its sides ended, was cancelled or was destroyed.
Winds(s, t) ==
    /\ t \in Sockets
    /\ t.sent = s.sent /\ t.theirs = s.theirs /\ t.taken = s.taken /\ t.received = s.received
    /\ (t.reset <=> s.reset) /\ (t.ours = "fin" => s.ours = "fin")
    /\ s.readable = "closed" /\ s.incoming = <<>> => t.readable = "closed" /\ t.incoming = <<>>

LEMMA WindsAgain ==
    ASSUME NEW s, NEW t, NEW u, Winds(s, t), Winds(t, u)
    PROVE  Winds(s, u)
  BY DEF Winds

LEMMA WindsDown ==
    ASSUME NEW s \in Sockets
    PROVE  /\ Winds(s, s) /\ Winds(s, Ended(s)) /\ Winds(s, Destroyed(s))
           /\ Winds(s, ResetAndDestroyed(s)) /\ Winds(s, ReaderCancelled(s))
           /\ Winds(s, WriterAborted(s))
           /\ s.ours = "fin" => /\ Ended(s).ours = "fin" /\ Destroyed(s).ours = "fin"
                                /\ ReaderCancelled(s).ours = "fin" /\ WriterAborted(s).ours = "fin"
<1>1. Winds(s, s)
  BY DEF Winds
<1>2. Winds(s, Ended(s)) /\ (s.ours = "fin" => Ended(s).ours = "fin")
  <2>1. Shut(s, Ended(s))
    BY ShutByEnd
  <2>2. Ended(s).ours = "fin" <=> s.ours = "fin"
    BY DEF Ended, Writable, Sockets
  <2> QED BY <2>1, <2>2 DEF Winds, Shut, SameReading
<1>3. Winds(s, Destroyed(s)) /\ (s.ours = "fin" => Destroyed(s).ours = "fin")
  <2>1. Shut(s, Destroyed(s))
    BY ShutByDestroy
  <2>2. Destroyed(s).ours = "fin" <=> s.ours = "fin"
    BY DEF Destroyed, Sockets
  <2> QED BY <2>1, <2>2 DEF Winds, Shut, SameReading
<1> DEFINE d == Destroyed(s)
<1>4. Winds(s, ResetAndDestroyed(s))
  <2>1. Shut(s, ResetAndDestroyed(s)) /\ d \in Sockets
    BY <1>3, ShutByDestroy DEF Winds
  <2>2. ResetAndDestroyed(s) \in {s, [d EXCEPT !.ours = "rst"]}
    BY DEF ResetAndDestroyed
  <2> HIDE DEF d
  <2>3. ResetAndDestroyed(s).ours = "fin" => s.ours = "fin"
    BY <2>1, <2>2 DEF Sockets
  <2> QED BY <2>1, <2>3 DEF Winds, Shut, SameReading
<1>5. Winds(s, ReaderCancelled(s)) /\ (s.ours = "fin" => ReaderCancelled(s).ours = "fin")
  <2>1. Shut(s, ReaderCancelled(s)) /\ d \in Sockets
    BY <1>3, ShutByCancel DEF Winds
  <2>2. ReaderCancelled(s) \in {s, [d EXCEPT !.readable = "cancelled", !.incoming = <<>>]}
    BY DEF ReaderCancelled, Cancelled
  <2>3. d.ours = "fin" <=> s.ours = "fin"
    BY <1>3 DEF Winds
  <2> HIDE DEF d
  <2>4. ReaderCancelled(s).ours = "fin" <=> s.ours = "fin"
    BY <2>1, <2>2, <2>3 DEF Sockets
  <2> QED BY <2>1, <2>4 DEF Winds, Shut, SameReading
<1>6. Winds(s, WriterAborted(s)) /\ (s.ours = "fin" => WriterAborted(s).ours = "fin")
  <2>1. WriterAborted(s).ours = "fin" => s.ours = "fin"
    BY DEF WriterAborted, Destroyed, Sockets
  <2> QED BY <2>1, ShutByAbort DEF Winds, Shut, SameReading
<1> QED
  BY <1>1, <1>2, <1>3, <1>4, <1>5, <1>6

\* What a write or a write-end leaves.
LEMMA DrainedOrders ==
    ASSUME IInv, OrderInv, page' = page, NEW k, NEW s \in Sockets,
           socket.readable = "closed" /\ socket.incoming = <<>> => s.readable = "closed" /\ s.incoming = <<>>,
           NEW posted \in Seq(Answers), NEW rest, Drained(k, s, posted, rest)
    PROVE  OrderInv'
<1>1. pump' = pump /\ ends' = ends /\ socket' \in {s, Ended(s)}
  BY DEF Drained
<1>2. ReadOver => ReadOver'
  BY <1>1, WindsDown DEF Winds, ReadOver
<1>3. \E t \in Seq(Answers) : toPage' = PostedToPage(t)
  <2>1. CASE toPage' = PostedToPage(posted)
    BY <2>1
  <2>2. CASE \E refusal \in Refusals(s) : toPage' = PostedToPage(posted \o refusal)
    <3>1. PICK refusal \in Refusals(s) : toPage' = PostedToPage(posted \o refusal)
      BY <2>2
    <3>2. "reset" \in Codes /\ "internal" \in Codes
      BY DEF Codes
    <3>3. refusal \in {<<>>, <<Failed("reset")>>, <<Failed("internal")>>}
      BY DEF Refusals
    <3>4. posted \o refusal \in Seq(Answers)
      BY <3>2, <3>3, AnswerFacts
    <3> QED BY <3>1, <3>4
  <2> QED BY <2>1, <2>2 DEF Drained
<1>4. PICK t \in Seq(Answers) : toPage' = PostedToPage(t)
  BY <1>3
<1> QED
  BY <1>1, <1>2, <1>4, AnswerFacts, BrokerOrders

\* The relay stops: the port, the handle or the session ended.
LEMMA EndingsOrder ==
    ASSUME IInv, OrderInv, PortCloses \/ Revoke \/ SessionEnds \/ TeardownSettles
    PROVE  OrderInv'
<1>1. page' = page /\ \E code \in {"clean", "revoked"} : Stop(pump, sink, <<>>, code)
  BY DEF PortCloses, Revoke, SessionEnds, TeardownSettles
<1>2. pump \in Pumps /\ {"clean", "revoked"} \subseteq Codes \cup {"clean"}
  BY DEF IInv, Shape, Codes
<1> QED
  BY <1>1, <1>2, AnswerFacts, StopOrders

LEMMA FailuresOrder ==
    ASSUME IInv, OrderInv, PumpFails \/ WriteRejected
    PROVE  OrderInv'
<1>1. "reset" \in Codes /\ pump \in Pumps
  BY DEF IInv, Shape, Codes
<1>2. CASE PumpFails
  <2> DEFINE p == [pump EXCEPT !.stopped = TRUE, !.endSent = TRUE]
             posted == IF pump.endSent THEN <<>> ELSE <<End("reset")>>
  <2>1. page' = page /\ FailSocket(p, sink, posted, "reset", toBroker)
    BY <1>2 DEF PumpFails
  <2>2. p \in Pumps /\ p.stopped
    BY <1>1 DEF Pumps
  <2>3. posted \in Seq(Words)
    BY <1>1, AnswerFacts
  <2> HIDE DEF p, posted
  <2> QED BY <1>1, <2>1, <2>2, <2>3, FailOrders
<1>3. CASE WriteRejected
  <2>1. page' = page /\ FailSocket(pump, [sink EXCEPT !.stopped = TRUE], <<Failed("reset")>>, "reset", toBroker)
    BY <1>3 DEF WriteRejected
  <2>2. <<Failed("reset")>> \in Seq(Answers) /\ <<Failed("reset")>> \in Seq(Words)
    BY <1>1, AnswerFacts
  <2> QED BY <1>1, <2>1, <2>2, FailOrders
<1> QED
  BY <1>2, <1>3

\* What the broker makes of a write: it fails the socket, or drains with the piece handed
\* over, queued or dropped.
LEMMA WriteHeard ==
    ASSUME IInv, ReceiveWrite
    PROVE  LET n == Head(toBroker).n
           IN  /\ n \in Nat /\ page' = page /\ calls' = calls
               /\ \/ FailSocket(pump, [sink EXCEPT !.stopped = TRUE], <<Failed("limit")>>, "limit", Tail(toBroker))
                  \/ \E k : \E posted \in {<<>>, <<Failed("closed")>>, <<Ack(n)>>} :
                       Drained(k, socket, posted, Tail(toBroker))
                  \/ /\ ~socket.reset /\ Writable(socket)
                     /\ \E k : \E posted \in {<<>>, <<Ack(n)>>} : Drained(k, Handed(socket, n), posted, Tail(toBroker))
<1> DEFINE n == Head(toBroker).n
           rest == Tail(toBroker)
           stopped == [sink EXCEPT !.stopped = TRUE]
           queued == Queued(sink, n)
           h == Handed(socket, n)
<1>1. toBroker # <<>> /\ Head(toBroker).kind = "write" /\ page' = page /\ calls' = calls
  BY DEF ReceiveWrite, Arrives
<1>2. n \in Nat
  <2>1. Head(toBroker) \in BrokerMessages
    BY <1>1 DEF IInv, Shape
  <2> QED BY <1>1, <2>1, BrokerMessageFacts
<1> HIDE DEF n, rest, stopped, queued, h
<1>3. \/ Drained(sink, socket, <<>>, rest)
      \/ FailSocket(pump, stopped, <<Failed("limit")>>, "limit", rest)
      \/ Drained(queued, socket, <<>>, rest)
      \/ Drained(stopped, socket, <<Failed("closed")>>, rest)
      \/ ~socket.reset /\ Writable(socket) /\ Drained(sink, h, <<Ack(n)>>, rest)
      \/ ~socket.reset /\ Writable(socket) /\ Drained(queued, h, <<>>, rest)
  BY DEF ReceiveWrite, n, rest, stopped, queued, h
<1> QED
  BY <1>1, <1>2, <1>3 DEF n, rest, stopped, h

\* What a drained socket takes: the piece that waited behind an empty one.
LEMMA WriteSettled ==
    ASSUME IInv, WriteSettles
    PROVE  /\ page' = page /\ calls' = calls /\ ~socket.reset /\ Writable(socket)
           /\ \E n \in Nat, posted \in Seq(Answers) : \E k : Drained(k, Handed(socket, n), posted, toBroker)
<1> DEFINE others == Tail(sink.writes)
           next == IF others = <<>> THEN 0 ELSE Head(others)
           settled == Head(sink.writes) + (IF next <= SocketBuffer THEN next ELSE 0)
           posted == IF next <= SocketBuffer THEN <<Ack(settled)>> ELSE <<>>
<1>1. sink.writes # <<>> /\ Writable(socket) /\ page' = page /\ calls' = calls /\ sink.writes \in Seq(Nat)
  BY DEF WriteSettles, Drains, IInv, Shape, Sinks
<1>2. ~socket.reset
  BY <1>1 DEF Writable, IInv, WriteInv
<1>3. \E k : Drained(k, Handed(socket, next), posted, toBroker)
  BY DEF WriteSettles
<1>4. others \in Seq(Nat) /\ Head(sink.writes) \in Nat
  BY <1>1
<1>5. next \in Nat
  <2> HIDE DEF others
  <2> QED BY <1>4
<1>6. settled \in Nat
  <2>1. \A a, b \in Nat : a + b \in Nat /\ a + 0 \in Nat
    OBVIOUS
  <2> HIDE DEF next
  <2> QED BY <1>4, <1>5, <2>1
<1> HIDE DEF next, settled
<1>7. posted \in Seq(Answers)
  BY <1>6, AnswerFacts
<1> HIDE DEF posted
<1> QED
  BY <1>1, <1>2, <1>3, <1>5, <1>7

\* What the broker makes of an abort.
LEMMA AbortHeard ==
    ASSUME IInv, ReceiveAbort
    PROVE  /\ page' = page /\ calls' = calls
           /\ \/ Drained(sink, socket, <<>>, Tail(toBroker))
              \/ /\ handle.state = "live" /\ handle' = Gone("aborted")
                 /\ Stop(pump, [sink EXCEPT !.stopped = TRUE], <<Failed("reset")>>, "reset")
                 /\ socket' = ResetAndDestroyed(ReaderCancelled(socket))
              \/ Drained([sink EXCEPT !.stopped = TRUE], WriterAborted(socket), <<Failed("reset")>>, Tail(toBroker))
  BY DEF ReceiveAbort

LEMMA WritesOrder ==
    ASSUME IInv, OrderInv, ReceiveWrite \/ WriteSettles \/ ReceiveEnd \/ ReceiveAbort
    PROVE  OrderInv'
<1>1. /\ {"closed", "limit", "reset"} \subseteq Codes /\ pump \in Pumps /\ socket \in Sockets
  BY DEF IInv, Shape, Codes
<1>2. /\ \A c \in {"closed", "limit", "reset"} : <<Failed(c)>> \in Seq(Answers)
      /\ <<>> \in Seq(Answers) /\ \A n \in Nat : <<Ack(n)>> \in Seq(Answers)
  BY <1>1, AnswerFacts
<1>3. ASSUME NEW k, NEW posted \in Seq(Answers), NEW rest, Drained(k, socket, posted, rest), page' = page
      PROVE  OrderInv'
  BY <1>1, <1>3, DrainedOrders
<1>4. ASSUME NEW k, NEW posted \in Seq(Answers), NEW rest, NEW n \in Nat,
             Drained(k, Handed(socket, n), posted, rest), page' = page
      PROVE  OrderInv'
  BY <1>1, <1>4, HandedKeeps, DrainedOrders
<1>5. CASE ReceiveWrite
  <2> DEFINE n == Head(toBroker).n
             rest == Tail(toBroker)
             stopped == [sink EXCEPT !.stopped = TRUE]
  <2>1. /\ n \in Nat /\ page' = page
        /\ \/ FailSocket(pump, stopped, <<Failed("limit")>>, "limit", rest)
           \/ \E k : \E posted \in {<<>>, <<Failed("closed")>>, <<Ack(n)>>} : Drained(k, socket, posted, rest)
           \/ \E k : \E posted \in {<<>>, <<Ack(n)>>} : Drained(k, Handed(socket, n), posted, rest)
    BY <1>5, WriteHeard
  <2> HIDE DEF n, rest, stopped
  <2>2. CASE FailSocket(pump, stopped, <<Failed("limit")>>, "limit", rest)
    <3>1. <<Failed("limit")>> \in Seq(Words)
      BY <1>2, AnswerFacts
    <3> QED BY <1>1, <1>2, <2>1, <2>2, <3>1, FailOrders
  <2>3. CASE \E k : \E posted \in {<<>>, <<Failed("closed")>>, <<Ack(n)>>} : Drained(k, socket, posted, rest)
    BY <1>2, <1>3, <2>1, <2>3
  <2>4. CASE \E k : \E posted \in {<<>>, <<Ack(n)>>} : Drained(k, Handed(socket, n), posted, rest)
    BY <1>2, <1>4, <2>1, <2>4
  <2> QED BY <2>1, <2>2, <2>3, <2>4
<1>6. CASE WriteSettles
  BY <1>4, <1>6, WriteSettled
<1>7. CASE ReceiveEnd
  <2>1. page' = page /\ \E k : Drained(k, socket, <<>>, Tail(toBroker))
    BY <1>7 DEF ReceiveEnd
  <2> QED BY <1>2, <1>3, <2>1
<1>8. CASE ReceiveAbort
  <2> DEFINE stopped == [sink EXCEPT !.stopped = TRUE]
             rest == Tail(toBroker)
  <2>1. /\ page' = page
        /\ \/ Drained(sink, socket, <<>>, rest)
           \/ Stop(pump, stopped, <<Failed("reset")>>, "reset")
           \/ Drained(stopped, WriterAborted(socket), <<Failed("reset")>>, rest)
    BY <1>8, AbortHeard
  <2> HIDE DEF stopped, rest
  <2>2. CASE Drained(sink, socket, <<>>, rest)
    BY <1>2, <1>3, <2>1, <2>2
  <2>3. CASE Stop(pump, stopped, <<Failed("reset")>>, "reset")
    <3>1. <<Failed("reset")>> \in Seq(Words)
      BY <1>2, AnswerFacts
    <3> QED BY <1>1, <2>1, <2>3, <3>1, StopOrders
  <2>4. CASE Drained(stopped, WriterAborted(socket), <<Failed("reset")>>, rest)
    <3>1. Winds(socket, WriterAborted(socket))
      BY <1>1, WindsDown
    <3>2. /\ WriterAborted(socket) \in Sockets
          /\ socket.readable = "closed" /\ socket.incoming = <<>> =>
               WriterAborted(socket).readable = "closed" /\ WriterAborted(socket).incoming = <<>>
      BY <3>1 DEF Winds
    <3> QED BY <1>2, <2>1, <2>4, <3>2, DrainedOrders
  <2> QED BY <2>1, <2>2, <2>3, <2>4
<1> QED
  BY <1>5, <1>6, <1>7, <1>8

\* A chunk is only read while no end was posted.
LEMMA PumpReadsOrder ==
    ASSUME IInv, OrderInv, PumpReads
    PROVE  OrderInv'
<1> DEFINE n == Head(socket.incoming)
<1>1. /\ ~pump.stopped /\ socket.incoming # <<>> /\ page' = page /\ ends' = ends
      /\ toPage' = PostedToPage(<<Data(n)>>)
  BY DEF PumpReads
<1>2. ~ReadOver /\ ~EndPosted
  BY <1>1 DEF ReadOver, OrderInv
<1>3. n \in Nat
  <2>1. socket.incoming \in Seq(Nat)
    BY DEF IInv, Shape, Sockets
  <2> QED BY <1>1, <2>1
<1> HIDE DEF n
<1>4. CASE ends # {}
  <2>1. toPage' = toPage
    BY <1>1, <1>4 DEF PostedToPage
  <2> QED BY <1>1, <1>2, <2>1 DEF OrderInv, NothingAfterEnd, EndPosted, DataOut
<1>5. CASE ends = {}
  <2>1. toPage' = toPage \o <<Data(n)>>
    BY <1>1, <1>5 DEF PostedToPage
  <2>2. ~EndPosted' /\ NothingAfterEnd'
    BY <1>2, <1>3, <2>1, PostsData DEF IInv
  <2>3. page'.readable \notin {"ending", "closed"}
    BY <1>1, <1>2, <1>5 DEF OrderInv
  <2> QED BY <2>2, <2>3 DEF OrderInv
<1> QED
  BY <1>4, <1>5

LEMMA PumpEndsOrder ==
    ASSUME IInv, OrderInv, PumpEnds
    PROVE  OrderInv'
<1>1. /\ socket.incoming = <<>> /\ socket.readable = "closed" /\ socket' = socket
      /\ page' = page /\ ends' = ends /\ toPage' = PostedToPage(<<End("clean")>>)
  BY DEF PumpEnds
<1>2. ReadOver'
  BY <1>1 DEF ReadOver
<1> QED
  BY <1>1, <1>2, AnswerFacts, BrokerOrders

LEMMA HeartbeatOrder ==
    ASSUME IInv, OrderInv, Heartbeat
    PROVE  OrderInv'
<1>1. /\ socket' = socket /\ pump' = pump /\ page' = page /\ ends' = ends
      /\ toPage' = PostedToPage(<<Ack(0)>>)
  BY DEF Heartbeat
<1>2. ReadOver' <=> ReadOver
  BY <1>1 DEF ReadOver
<1>3. <<Ack(0)>> \in Seq(Answers) /\ <<Ack(0)>> \in Seq(Words)
  BY AnswerFacts
<1> QED
  BY <1>1, <1>2, <1>3, BrokerOrders

\* The peer and the system, which the page has not heard of yet.
LEMMA SilentOrder ==
    ASSUME IInv, OrderInv,
           \/ Peer \/ FinSent \/ DrainDeadline \/ ReceiveCredit
           \/ \E c \in Closes : NetClose(c) \/ AppCloses(c)
    PROVE  OrderInv'
<1>1. socket \in Sockets /\ pump \in Pumps
  BY DEF IInv, Shape
<1>2. page' = page /\ toPage' = toPage /\ ends' = ends
  BY DEF Peer, PeerSends, PeerEnds, PeerResets, PeerReads, FinSent, DrainDeadline, ReceiveCredit, NetClose, AppCloses
<1>3. pump.stopped => pump'.stopped
  BY <1>1 DEF Peer, PeerSends, PeerEnds, PeerResets, PeerReads, FinSent, DrainDeadline, ReceiveCredit,
              NetClose, AppCloses, Pumps
<1> DEFINE over(s) == s.readable = "closed" /\ s.incoming = <<>>
<1>4. ASSUME over(socket)
      PROVE  over(socket')
  <2>1. socket.theirs = "fin" \/ ~socket.alive
    BY <1>4 DEF IInv, PartsAgree
  <2>2. ASSUME NEW n, PeerSends(n) PROVE FALSE
    BY <2>1, <2>2 DEF PeerSends
  <2>3. CASE PeerEnds
    BY <2>1, <2>3 DEF PeerEnds
  <2>4. CASE PeerResets
    BY <1>1, <1>4, <2>4 DEF PeerResets, Sockets
  <2>5. CASE PeerReads \/ FinSent
    BY <1>1, <1>4, <2>5 DEF PeerReads, FinSent, Sockets
  <2>6. CASE socket' \in {socket, Destroyed(socket), Ended(socket)}
    BY <1>1, <1>4, <2>6, WindsDown DEF Winds
  <2>7. \/ \E n \in 1 .. MaxChunk : PeerSends(n)
        \/ PeerEnds \/ PeerResets \/ PeerReads \/ FinSent
        \/ socket' \in {socket, Destroyed(socket), Ended(socket)}
    BY DEF Peer, DrainDeadline, ReceiveCredit, NetClose, AppCloses
  <2> QED BY <2>2, <2>3, <2>4, <2>5, <2>6, <2>7
<1>5. ReadOver => ReadOver'
  BY <1>3, <1>4 DEF ReadOver
<1> QED
  BY <1>2, <1>5, SilentOrders
-----------------------------------------------------------------------------
(* What the app can tell of the page's steps.                                         *)

\* What q tells the app that p did not, if anything, is the state of its readable.
Shows(p, q) ==
    /\ q \in Pages /\ (q.here <=> p.here) /\ (q.aborted <=> p.aborted)
    /\ q.got = p.got /\ q.asked = p.asked /\ q.accepted = p.accepted

Hides(p, q) == Shows(p, q) /\ q.readable = p.readable

\* The readable of p fails, or had ended.
Fails(p, q) ==
    Shows(p, q) /\ (q.readable = p.readable \/ (p.readable \in Unfinished /\ q.readable \in {"errored", "cancelled"}))

\* The readable of p ends, or was not open.
Stops(p, q) ==
    Shows(p, q) /\ (q.readable = p.readable \/ (p.readable = "open" /\ q.readable \in {"ending", "closed"}))

LEMMA ShowsAgain ==
    ASSUME NEW p, NEW q, NEW r, Shows(p, q), Shows(q, r)
    PROVE  /\ Shows(p, r)
           /\ Hides(p, q) /\ Hides(q, r) => Hides(p, r)
           /\ Fails(p, q) /\ Hides(q, r) => Fails(p, r)
           /\ Hides(p, q) /\ Fails(q, r) => Fails(p, r)
           /\ Stops(p, q) /\ Hides(q, r) => Stops(p, r)
           /\ Hides(p, q) /\ Stops(q, r) => Stops(p, r)
  BY DEF Shows, Hides, Fails, Stops

LEMMA ShowsFacts ==
    ASSUME NEW p \in Pages
    PROVE  /\ Hides(p, p) /\ Hides(p, Writeless(p)) /\ Hides(p, Rejected(p)) /\ Hides(p, Resolved(p))
           /\ Hides(p, Unwritten(p)) /\ Stops(p, ReadClosed(p))
           /\ \A state \in {"errored", "cancelled"} : Fails(p, Readless(p, state))
<1>1. Hides(p, p)
  BY DEF Hides, Shows
<1>2. Hides(p, Writeless(p))
  <2>1. Writeless(p) \in Pages
    BY WritelessFacts DEF SameReads
  <2> QED BY <2>1 DEF Hides, Shows, Writeless, Pages
<1>3. Hides(p, Rejected(p))
  <2>1. Rejected(p) \in Pages
    BY RejectedFacts DEF SameReads
  <2> QED BY <2>1 DEF Hides, Shows, Rejected, Pages
<1>4. Hides(p, Resolved(p))
  <2>1. Resolved(p) \in Pages
    BY ResolvedFacts DEF SameReads
  <2> QED BY <2>1 DEF Hides, Shows, Resolved, Pages
<1>5. Hides(p, Unwritten(p))
  <2>1. Unwritten(p) \in Pages
    BY UnwrittenFacts DEF SameReads
  <2> QED BY <2>1 DEF Hides, Shows, Unwritten, Pages
<1>6. Stops(p, ReadClosed(p))
  <2>1. ReadClosed(p) \in Pages
    BY ReadClosedFacts
  <2> QED BY <2>1 DEF Stops, Shows, ReadClosed, Pages
<1>7. ASSUME NEW state \in {"errored", "cancelled"} PROVE Fails(p, Readless(p, state))
  <2>1. Readless(p, state) \in Pages
    BY ReadlessFacts DEF ReadsNoFurther
  <2> QED BY <2>1 DEF Fails, Shows, Readless, Pages
<1> QED
  BY <1>1, <1>2, <1>3, <1>4, <1>5, <1>6, <1>7

LEMMA FatalShows ==
    ASSUME NEW p \in Pages
    PROVE  Fails(p, Fatal(p))
<1> DEFINE a == Unwritten(p)
           b == Readless(a, "errored")
           c == Writeless(b)
           d == Rejected(c)
<1>1. a \in Pages /\ Hides(p, a)
  BY ShowsFacts DEF Hides, Shows
<1>2. b \in Pages /\ Fails(a, b)
  BY <1>1, ShowsFacts DEF Fails, Shows
<1>3. c \in Pages /\ Hides(b, c)
  BY <1>2, ShowsFacts DEF Hides, Shows
<1>4. Hides(c, d)
  BY <1>3, ShowsFacts
<1>5. Fatal(p) = d
  BY DEF Fatal
<1> HIDE DEF a, b, c, d
<1>6. Shows(p, a) /\ Shows(a, b) /\ Shows(b, c) /\ Shows(c, d)
  BY <1>1, <1>2, <1>3, <1>4 DEF Hides, Fails
<1>7. Fails(p, b)
  BY <1>1, <1>2, <1>6, ShowsAgain
<1>8. Fails(p, c) /\ Shows(p, c)
  BY <1>3, <1>6, <1>7, ShowsAgain DEF Fails
<1> QED
  BY <1>4, <1>5, <1>6, <1>8, ShowsAgain

LEMMA ReportsShows ==
    ASSUME NEW p \in Pages, NEW n \in Nat, Reports(p, n)
    PROVE  Hides(p, page')
<1>1. p.sinceLastCredit + n \in Nat
  <2>1. \A a, b \in Nat : a + b \in Nat
    OBVIOUS
  <2> QED BY <2>1, PageNumbers
<1>2. page' = [p EXCEPT !.sinceLastCredit = 0] \/ page' = [p EXCEPT !.sinceLastCredit = p.sinceLastCredit + n]
  BY DEF Reports
<1>3. \E x \in Nat : page' = [p EXCEPT !.sinceLastCredit = x]
  BY <1>1, <1>2
<1> QED
  BY <1>3 DEF Hides, Shows, Pages

LEMMA PulledShows ==
    ASSUME NEW p \in Pages, Holds(p), PulledAndReports(p)
    PROVE  Hides(p, page')
<1>1. CASE p.readable = "open" /\ p.queued < ReadWindow
  <2> DEFINE q == [p EXCEPT !.uncredited = p.queued]
  <2>1. Reports(q, p.uncredited - p.queued)
    BY <1>1 DEF PulledAndReports
  <2>2. q \in Pages /\ Hides(p, q)
    BY DEF Pages, Hides, Shows
  <2>3. p.uncredited - p.queued \in Nat
    <3>1. \A a, b \in Nat : b <= a => a - b \in Nat
      OBVIOUS
    <3> QED BY <3>1, PageNumbers DEF Holds
  <2> HIDE DEF q
  <2>4. Hides(q, page')
    BY <2>1, <2>2, <2>3, ReportsShows
  <2> QED BY <2>2, <2>4, ShowsAgain DEF Hides
<1>2. CASE ~(p.readable = "open" /\ p.queued < ReadWindow)
  BY <1>2, ShowsFacts DEF PulledAndReports
<1> QED
  BY <1>1, <1>2

\* A chunk: the page got it, and nothing else can be told.
LEMMA PageDataShows ==
    ASSUME IInv, RangeInv, PageData
    PROVE  /\ BrokerStill /\ page.here /\ page' \in Pages
           /\ toPage # <<>> /\ toPage' = Tail(toPage) /\ DataOut > 0
           /\ page'.here /\ page'.got > page.got /\ (page'.aborted <=> page.aborted)
           /\ page'.asked = page.asked /\ page'.accepted = page.accepted /\ page'.readable = page.readable
<1> DEFINE n == Head(toPage).n
           p == [page EXCEPT !.got = @ + n]
           q == [p EXCEPT !.queue = Append(@, n), !.queued = @ + n, !.uncredited = @ + n]
           u == [p EXCEPT !.uncredited = @ + n]
<1>1. /\ toPage # <<>> /\ Head(toPage).kind = "data" /\ toPage' = Tail(toPage) /\ page.here /\ BrokerStill
      /\ Reports(p, n) \/ PulledAndReports(q) \/ page' = u
  BY DEF PageData, PageTakes, BrokerStill
<1>2. /\ page \in Pages /\ Holds(page) /\ page.queue \in Seq(Nat)
      /\ page.got \in Nat /\ page.queued \in Nat /\ page.uncredited \in Nat
  BY RangeFacts, ReadingFacts, PageNumbers DEF IInv
<1>3. n \in 1 .. MaxChunk /\ n \in Nat /\ DataOut' \in Nat /\ DataOut = n + DataOut'
  <2>1. DataOut' \in Nat /\ n \in 1 .. MaxChunk /\ DataOut = n + DataOut'
    BY <1>1, TakesRange
  <2> QED BY <2>1
<1> HIDE DEF n
<1>4. /\ page.got + n \in Nat /\ page.queued + n \in Nat /\ page.uncredited + n \in Nat
      /\ page.got + n > page.got /\ DataOut > 0
  <2>1. \A a \in Nat : a + n \in Nat /\ a + n > a
    BY <1>3
  <2>2. \A a \in Nat : n + a > 0
    BY <1>3
  <2>3. n + DataOut' > 0
    BY <1>3, <2>2
  <2>4. /\ page.got + n \in Nat /\ page.queued + n \in Nat /\ page.uncredited + n \in Nat
        /\ page.got + n > page.got
    BY <1>2, <2>1
  <2> QED BY <1>3, <2>3, <2>4
<1>5. /\ p \in Pages /\ p.got = page.got + n /\ p.queue = page.queue /\ p.queued = page.queued
      /\ p.uncredited = page.uncredited /\ p.here = page.here /\ p.aborted = page.aborted
      /\ p.asked = page.asked /\ p.accepted = page.accepted /\ p.readable = page.readable
  BY <1>2, <1>4 DEF Pages
<1> HIDE DEF p
<1>6. Append(page.queue, n) \in Seq(Nat) /\ Sum(Append(page.queue, n)) = page.queued + n
  BY <1>2, <1>3, SumAppend DEF Holds
<1>7. q \in Pages /\ Hides(p, q)
  BY <1>4, <1>5, <1>6 DEF Hides, Shows, Pages
<1>8. u \in Pages /\ Hides(p, u)
  BY <1>4, <1>5 DEF Hides, Shows, Pages
<1>9. Holds(q)
  <2>1. q.queued = page.queued + n /\ q.uncredited = page.uncredited + n /\ q.queue = Append(page.queue, n)
    BY <1>5 DEF Pages
  <2>2. \A a, b \in Nat : a <= b => a + n <= b + n
    BY <1>3
  <2> QED BY <1>2, <1>6, <2>1, <2>2 DEF Holds
<1> HIDE DEF q, u
<1>10. Hides(p, page')
  <2>1. CASE Reports(p, n)
    BY <1>3, <1>5, <2>1, ReportsShows
  <2>2. CASE PulledAndReports(q)
    <3>1. Hides(q, page')
      BY <1>7, <1>9, <2>2, PulledShows
    <3> QED BY <1>7, <3>1, ShowsAgain DEF Hides
  <2> QED BY <1>1, <1>8, <2>1, <2>2
<1> QED
  BY <1>1, <1>4, <1>5, <1>10 DEF Hides, Shows

\* What the app reads shows in what it reads last.
LEMMA AppReadsShows ==
    ASSUME IInv, AppReads
    PROVE  /\ BrokerStill /\ page.here /\ toPage' = toPage /\ Shows(page, page')
           /\ page'.readable = page.readable \/ (page.readable = "ending" /\ page'.readable = "closed")
<1> DEFINE rest == Tail(page.queue)
           queued == page.queued - Head(page.queue)
           readable == IF page.readable = "ending" /\ rest = <<>> THEN "closed" ELSE page.readable
           q == [page EXCEPT !.queue = rest, !.queued = queued, !.readable = readable]
<1>1. /\ BrokerStill /\ page.here /\ toPage' = toPage
      /\ page \in Pages /\ page.queue \in Seq(Nat) /\ page.queue # <<>> /\ page.queued = Sum(page.queue)
      /\ page.queued <= page.uncredited /\ page.uncredited \in Nat
  <2>1. BrokerStill /\ page.here /\ toPage' = toPage /\ page.queue # <<>>
    BY DEF AppReads, BrokerStill
  <2>2. page \in Pages
    BY DEF IInv, Shape
  <2>3. page.queue \in Seq(Nat) /\ Holds(page)
    BY ReadingFacts DEF IInv
  <2> QED BY <2>1, <2>2, <2>3, PageNumbers DEF Holds
<1>2. rest \in Seq(Nat) /\ Head(page.queue) \in Nat /\ Sum(page.queue) = Head(page.queue) + Sum(rest)
      /\ Sum(rest) \in Nat
  BY <1>1, SumTail
<1>3. queued = Sum(rest) /\ queued \in Nat /\ queued <= page.uncredited
  <2>1. \A h, r, a \in Nat : h + r <= a => (h + r) - h = r /\ r <= a
    OBVIOUS
  <2>2. Head(page.queue) + Sum(rest) <= page.uncredited /\ queued = (Head(page.queue) + Sum(rest)) - Head(page.queue)
    BY <1>1, <1>2
  <2> HIDE DEF queued, rest
  <2>3. queued = Sum(rest) /\ Sum(rest) <= page.uncredited
    <3>1. Head(page.queue) \in Nat /\ Sum(rest) \in Nat /\ page.uncredited \in Nat
      BY <1>1, <1>2
    <3> QED BY <2>1, <2>2, <3>1
  <2> QED BY <1>2, <2>3
<1>4. /\ readable \in {"open", "ending", "closed", "errored", "cancelled"}
      /\ readable = page.readable \/ (page.readable = "ending" /\ readable = "closed")
  BY <1>1 DEF Pages
<1>5. PulledAndReports(q)
  <2>1. PulledAndReports([[page EXCEPT !.queue = rest, !.queued = queued] EXCEPT
                           !.readable = IF @ = "ending" /\ rest = <<>> THEN "closed" ELSE @])
    BY DEF AppReads
  <2>2. [[page EXCEPT !.queue = rest, !.queued = queued] EXCEPT
           !.readable = IF @ = "ending" /\ rest = <<>> THEN "closed" ELSE @] = q
    <3> HIDE DEF rest, queued
    <3> QED BY <1>1 DEF Pages
  <2> QED BY <2>1, <2>2
<1> HIDE DEF rest, queued, readable
<1>6. /\ q \in Pages /\ Shows(page, q) /\ q.readable = readable
      /\ q.queue = rest /\ q.queued = queued /\ q.uncredited = page.uncredited
  BY <1>1, <1>2, <1>3, <1>4 DEF Shows, Pages
<1> HIDE DEF q
<1>7. Holds(q)
  BY <1>3, <1>6 DEF Holds
<1>8. Hides(q, page')
  BY <1>5, <1>6, <1>7, PulledShows
<1>9. Shows(page, page') /\ page'.readable = readable
  BY <1>6, <1>8, ShowsAgain DEF Hides
<1> QED
  BY <1>1, <1>4, <1>9

\* The end of what is read.
LEMMA PageEndShows ==
    ASSUME IInv, PageEnd
    PROVE  /\ BrokerStill /\ page.here /\ toPage # <<>> /\ toPage' = Tail(toPage)
           /\ Fails(page, page') \/ (Head(toPage) = End("clean") /\ Stops(page, page'))
<1> DEFINE a == [page EXCEPT !.readTerminal = TRUE]
           b == Readless(page, "errored")
<1>1. /\ BrokerStill /\ page.here /\ toPage # <<>> /\ toPage' = Tail(toPage) /\ Head(toPage).kind = "end"
      /\ page' = IF Head(toPage).code = "clean" THEN Resolved(ReadClosed(a))
                 ELSE IF page.readable = "cancelled" THEN Rejected(page) ELSE Rejected(Writeless(b))
  BY DEF PageEnd, PageTakes, BrokerStill
<1>2. page \in Pages /\ Head(toPage) \in PageMessages
  BY <1>1 DEF IInv, Shape
<1>3. a \in Pages /\ Hides(page, a)
  BY <1>2 DEF Hides, Shows, Pages
<1>4. b \in Pages /\ Fails(page, b)
  BY <1>2, ShowsFacts DEF Fails, Shows
<1> HIDE DEF a, b
<1>5. CASE Head(toPage).code = "clean"
  <2>1. Head(toPage) = End("clean")
    <3>1. /\ \A n : Data(n).kind # "end" /\ Ack(n).kind # "end"
          /\ \A c : Failed(c).kind # "end" /\ End(c).code = c
      BY DEF Data, Ack, Failed, End
    <3> QED BY <1>1, <1>2, <1>5, <3>1 DEF PageMessages
  <2>2. ReadClosed(a) \in Pages /\ Stops(a, ReadClosed(a))
    BY <1>3, ShowsFacts DEF Stops, Shows
  <2>3. Stops(page, ReadClosed(a)) /\ Shows(page, ReadClosed(a))
    BY <1>3, <2>2, ShowsAgain DEF Hides, Stops
  <2>4. Hides(ReadClosed(a), Resolved(ReadClosed(a)))
    BY <2>2, ShowsFacts
  <2>5. Stops(page, Resolved(ReadClosed(a)))
    BY <2>3, <2>4, ShowsAgain DEF Hides
  <2> QED BY <1>1, <1>5, <2>1, <2>5
<1>6. CASE Head(toPage).code # "clean"
  <2>1. Fails(page, Rejected(page))
    BY <1>2, ShowsFacts DEF Hides, Fails
  <2>2. Writeless(b) \in Pages /\ Hides(b, Writeless(b))
    BY <1>4, ShowsFacts DEF Hides, Shows
  <2>3. Fails(page, Writeless(b)) /\ Shows(page, Writeless(b))
    BY <1>4, <2>2, ShowsAgain DEF Hides, Fails
  <2>4. Hides(Writeless(b), Rejected(Writeless(b)))
    BY <2>2, ShowsFacts
  <2>5. Fails(page, Rejected(Writeless(b)))
    BY <2>3, <2>4, ShowsAgain DEF Hides
  <2> QED BY <1>1, <1>6, <2>1, <2>5
<1> QED
  BY <1>5, <1>6

LEMMA FailsShows ==
    ASSUME IInv, PageFailed \/ Silence \/ AppCancels
    PROVE  /\ BrokerStill /\ page.here /\ Fails(page, page')
           /\ toPage' = toPage \/ (toPage # <<>> /\ toPage' = Tail(toPage))
<1>1. /\ BrokerStill /\ page.here /\ page' \in {Fatal(page), Readless(page, "cancelled")}
      /\ toPage' = toPage \/ (toPage # <<>> /\ toPage' = Tail(toPage))
  BY DEF PageFailed, Silence, AppCancels, PageTakes, BrokerStill
<1>2. page \in Pages
  BY DEF IInv, Shape
<1> QED
  BY <1>1, <1>2, ShowsFacts, FatalShows

\* Steps of the writer and of timers which the app cannot tell.
LEMMA HiddenShows ==
    ASSUME IInv, AppEnds \/ FlushCredit \/ EndWrite \/ AbortWrite
    PROVE  BrokerStill /\ page.here /\ Hides(page, page') /\ toPage' = toPage
<1>1. BrokerStill /\ page.here /\ toPage' = toPage
  BY DEF AppEnds, FlushCredit, EndWrite, AbortWrite, BrokerStill
<1>2. page \in Pages
  BY DEF IInv, Shape
<1>3. CASE AppEnds \/ FlushCredit
  <2>1. page' = [page EXCEPT !.writable = "closing"] \/ page' = [page EXCEPT !.sinceLastCredit = 0]
    BY <1>3 DEF AppEnds, FlushCredit
  <2>2. CASE page' = [page EXCEPT !.writable = "closing"]
    BY <1>1, <1>2, <2>2 DEF Hides, Shows, Pages
  <2>3. CASE page' = [page EXCEPT !.sinceLastCredit = 0]
    BY <1>1, <1>2, <2>3 DEF Hides, Shows, Pages
  <2> QED BY <1>1, <2>1, <2>2, <2>3
<1>4. CASE EndWrite
  <2> DEFINE q == [page EXCEPT !.writable = "closed", !.writeTerminal = TRUE]
  <2>1. page' = Resolved(q)
    BY <1>4 DEF EndWrite
  <2>2. q \in Pages /\ Hides(page, q)
    BY <1>2 DEF Hides, Shows, Pages
  <2> HIDE DEF q
  <2> QED BY <1>1, <2>1, <2>2, ShowsFacts, ShowsAgain DEF Hides
<1>5. CASE AbortWrite
  <2> DEFINE q == [page EXCEPT !.writable = "errored"]
  <2>1. page' = Rejected(q)
    BY <1>5 DEF AbortWrite
  <2>2. q \in Pages /\ Hides(page, q)
    BY <1>2 DEF Hides, Shows, Pages
  <2> HIDE DEF q
  <2> QED BY <1>1, <2>1, <2>2, ShowsFacts, ShowsAgain DEF Hides
<1> QED
  BY <1>3, <1>4, <1>5

\* What of the page the app can tell, less what it was told was accepted.
LEMMA PageAckShows ==
    ASSUME IInv, PageAck, page' \in Pages
    PROVE  /\ BrokerStill /\ page.here /\ page'.here /\ toPage # <<>> /\ toPage' = Tail(toPage)
           /\ (page'.aborted <=> page.aborted) /\ page'.got = page.got /\ page'.asked = page.asked
           /\ page'.readable = page.readable /\ page'.accepted >= page.accepted
<1>1. /\ BrokerStill /\ page.here /\ toPage # <<>> /\ toPage' = Tail(toPage)
      /\ page \in Pages
  BY DEF PageAck, PageTakes, BrokerStill, IInv, Shape
<1> DEFINE accepted == page.accepted + page.piece
<1>2. \/ page' = page
      \/ \E x : page' = [page EXCEPT !.acked = x]
      \/ page' = [Unwritten(page) EXCEPT !.accepted = accepted]
      \/ \E w, x : page' = [page EXCEPT !.left = w, !.piece = x, !.acked = 0, !.accepted = accepted]
  BY DEF PageAck
<1>3. accepted >= page.accepted /\ page.accepted >= page.accepted
  <2>1. \A a, b \in Nat : a + b >= a /\ a >= a
    OBVIOUS
  <2> QED BY <1>1, <2>1, PageNumbers
<1> HIDE DEF accepted
<1>4. /\ page'.here = page.here /\ page'.aborted = page.aborted /\ page'.got = page.got
      /\ page'.asked = page.asked /\ page'.readable = page.readable
      /\ page'.accepted \in {page.accepted, accepted}
  <2>1. CASE page' = page
    BY <2>1
  <2>2. CASE \E x : page' = [page EXCEPT !.acked = x]
    BY <1>1, <2>2 DEF Pages
  <2>3. CASE page' = [Unwritten(page) EXCEPT !.accepted = accepted]
    <3> DEFINE u == Unwritten(page)
    <3>1. u \in Pages /\ Hides(page, u)
      BY <1>1, ShowsFacts DEF Hides, Shows
    <3>2. page' = [u EXCEPT !.accepted = accepted]
      BY <2>3
    <3>3. /\ u.here = page.here /\ u.aborted = page.aborted /\ u.got = page.got
          /\ u.asked = page.asked /\ u.readable = page.readable
      BY <1>1 DEF Unwritten, Pages
    <3> HIDE DEF u
    <3> QED BY <3>1, <3>2, <3>3 DEF Pages
  <2>4. CASE \E w, x : page' = [page EXCEPT !.left = w, !.piece = x, !.acked = 0, !.accepted = accepted]
    BY <1>1, <2>4 DEF Pages
  <2> QED BY <1>2, <2>1, <2>2, <2>3, <2>4
<1> QED
  BY <1>1, <1>3, <1>4

LEMMA AppWritesShows ==
    ASSUME IInv, NEW n \in Nat, AppWritesBytes(n)
    PROVE  /\ BrokerStill /\ page.here /\ page'.here /\ toPage' = toPage
           /\ (page'.aborted <=> page.aborted) /\ page'.got = page.got /\ page'.asked >= page.asked
           /\ page'.readable = page.readable /\ page'.accepted = page.accepted
<1> DEFINE piece == Least(n, WriteWindow)
<1>1. /\ BrokerStill /\ page.here /\ toPage' = toPage /\ page \in Pages
      /\ page' = [page EXCEPT !.writing = TRUE, !.left = n, !.piece = piece, !.acked = 0,
                              !.asked = @ + n, !.writes = @ + 1]
  BY DEF AppWritesBytes, BrokerStill, IInv, Shape
<1>2. page.asked + n >= page.asked
  <2>1. \A a, b \in Nat : a + b >= a
    OBVIOUS
  <2> QED BY <1>1, <2>1, PageNumbers
<1> HIDE DEF piece
<1>3. /\ page'.here = page.here /\ page'.aborted = page.aborted /\ page'.got = page.got
      /\ page'.readable = page.readable /\ page'.accepted = page.accepted /\ page'.asked = page.asked + n
  BY <1>1 DEF Pages
<1> QED
  BY <1>1, <1>2, <1>3

LEMMA AppAbortsShows ==
    ASSUME IInv, AppAborts
    PROVE  /\ BrokerStill /\ page.here /\ page'.here /\ toPage' = toPage
           /\ page'.aborted /\ page'.got = page.got /\ page'.asked = page.asked
           /\ page'.readable = page.readable /\ page'.accepted = page.accepted
<1>1. /\ BrokerStill /\ page.here /\ toPage' = toPage /\ page \in Pages
      /\ page' = [page EXCEPT !.writable = "erroring", !.aborted = TRUE]
  BY DEF AppAborts, BrokerStill, IInv, Shape
<1>2. /\ page'.here = page.here /\ page'.aborted = TRUE /\ page'.got = page.got
      /\ page'.readable = page.readable /\ page'.accepted = page.accepted /\ page'.asked = page.asked
  BY <1>1 DEF Pages
<1> QED
  BY <1>1, <1>2

LEMMA DisposeShows ==
    ASSUME IInv, NEW c \in Closes, Dispose(c)
    PROVE  /\ page.here /\ Stops(page, page')
           /\ socket' = socket /\ pump' = pump /\ handle' = handle
           /\ calls[c] = "answered" /\ calls' = [calls EXCEPT ![c] = "done"]
           /\ ends' = ends \cup {"page"} /\ toPage' = <<>>
<1> DEFINE u == Unwritten(page)
           a == [u EXCEPT !.readTerminal = TRUE, !.writeTerminal = TRUE]
           r == Resolved(a)
           d == ReadClosed(r)
<1>1. /\ page.here /\ socket' = socket /\ pump' = pump /\ handle' = handle
      /\ calls[c] = "answered" /\ calls' = [calls EXCEPT ![c] = "done"]
      /\ ends' = ends \cup {"page"} /\ toPage' = <<>>
      /\ page' = Writeless(d) /\ page \in Pages
  BY DEF Dispose, IInv, Shape
<1>2. u \in Pages /\ Hides(page, u)
  BY <1>1, ShowsFacts DEF Hides, Shows
<1> HIDE DEF u
<1>3. a \in Pages /\ Hides(u, a)
  BY <1>2 DEF Hides, Shows, Pages
<1> HIDE DEF a
<1>4. r \in Pages /\ Hides(a, r)
  BY <1>3, ShowsFacts DEF Hides, Shows
<1> HIDE DEF r
<1>5. d \in Pages /\ Stops(r, d)
  BY <1>4, ShowsFacts DEF Stops, Shows
<1> HIDE DEF d
<1>6. Hides(d, page')
  BY <1>1, <1>5, ShowsFacts
<1>7. Hides(page, a)
  BY <1>2, <1>3, ShowsAgain DEF Hides
<1>8. Hides(page, r)
  BY <1>4, <1>7, ShowsAgain DEF Hides
<1>9. Stops(page, d)
  BY <1>5, <1>8, ShowsAgain DEF Hides, Stops
<1>10. Stops(page, page')
  BY <1>6, <1>9, ShowsAgain DEF Hides, Stops
<1> QED
  BY <1>1, <1>10

-----------------------------------------------------------------------------
(* Every step keeps the order. *)

LEMMA PageOrder ==
    ASSUME IInv, RangeInv, OrderInv, page' \in Pages,
           \/ PageReceives \/ AppReads \/ AppCancels \/ AppEnds \/ AppAborts
           \/ \E n \in 0 .. AppBytes : AppWritesBytes(n)
           \/ FlushCredit \/ Silence \/ EndWrite \/ AbortWrite
    PROVE  OrderInv'
<1>1. CASE PageData
  <2>1. /\ BrokerStill /\ toPage # <<>> /\ toPage' = Tail(toPage) /\ page'.readable = page.readable
    BY <1>1, PageDataShows
  <2> QED BY <2>1, PageOrders DEF BrokerStill
<1>2. CASE PageEnd
  <2>1. /\ BrokerStill /\ toPage # <<>> /\ toPage' = Tail(toPage)
        /\ Fails(page, page') \/ (Head(toPage) = End("clean") /\ Stops(page, page'))
    BY <1>2, PageEndShows
  <2>2. CASE Fails(page, page')
    BY <2>1, <2>2, PageOrders DEF BrokerStill, Fails
  <2>3. CASE Head(toPage) = End("clean")
    <3>1. Shape /\ NothingAfterEnd /\ (EndPosted => ReadOver)
      BY DEF IInv, OrderInv
    <3>2. EndPosted /\ DataOut' = 0 /\ NothingAfterEnd'
      BY <2>1, <2>3, <3>1, Takes
    <3>3. ReadOver' <=> ReadOver
      BY <2>1 DEF BrokerStill, ReadOver
    <3> QED BY <3>1, <3>2, <3>3 DEF OrderInv
  <2> QED BY <2>1, <2>2, <2>3
<1>3. CASE PageAck
  <2>1. BrokerStill /\ toPage # <<>> /\ toPage' = Tail(toPage) /\ page'.readable = page.readable
    BY <1>3, PageAckShows
  <2> QED BY <2>1, PageOrders DEF BrokerStill
<1>4. CASE PageFailed \/ Silence \/ AppCancels
  <2>1. /\ BrokerStill /\ Fails(page, page')
        /\ toPage' = toPage \/ (toPage # <<>> /\ toPage' = Tail(toPage))
    BY <1>4, FailsShows
  <2> QED BY <2>1, PageOrders DEF BrokerStill, Fails
<1>5. CASE AppReads
  <2>1. /\ BrokerStill /\ toPage' = toPage
        /\ page'.readable = page.readable \/ (page.readable = "ending" /\ page'.readable = "closed")
    BY <1>5, AppReadsShows
  <2> QED BY <2>1, PageOrders DEF BrokerStill
<1>6. CASE AppEnds \/ FlushCredit \/ EndWrite \/ AbortWrite
  <2>1. BrokerStill /\ toPage' = toPage /\ page'.readable = page.readable
    BY <1>6, HiddenShows DEF Hides
  <2> QED BY <2>1, PageOrders DEF BrokerStill
<1>7. CASE AppAborts \/ \E n \in 0 .. AppBytes : AppWritesBytes(n)
  <2>1. BrokerStill /\ toPage' = toPage /\ page'.readable = page.readable
    BY <1>7, AppAbortsShows, AppWritesShows
  <2> QED BY <2>1, PageOrders DEF BrokerStill
<1> QED
  BY <1>1, <1>2, <1>3, <1>4, <1>5, <1>6, <1>7 DEF PageReceives

LEMMA PageGoesOrder ==
    ASSUME IInv, OrderInv, Navigates \/ \E c \in Closes : Dispose(c)
    PROVE  OrderInv'
<1>1. toPage' = <<>> /\ "page" \in ends'
  BY DEF Navigates, Dispose
<1>2. DataOut' = 0 /\ ~EndPosted' /\ NothingAfterEnd'
  BY <1>1, PageQueueEmpty
<1> QED
  BY <1>1, <1>2 DEF OrderInv

LEMMA OrderStep ==
    IInv /\ RangeInv /\ OrderInv /\ [Next]_vars => OrderInv'
<1> SUFFICES ASSUME IInv, RangeInv, OrderInv, [Next]_vars PROVE OrderInv'
  OBVIOUS
<1> page' \in Pages
  BY StepHolds DEF IInv, Shape
<1>1. CASE Peer \/ Teardown
  BY <1>1, SilentOrder, EndingsOrder DEF Teardown
<1>2. CASE Pump \/ Sink \/ BrokerReceives
  BY <1>2, PumpReadsOrder, PumpEndsOrder, FailuresOrder, WritesOrder, SilentOrder DEF Pump, Sink, BrokerReceives
<1>3. CASE PageReceives
  BY <1>3, PageOrder
<1>4. CASE App
  BY <1>4, PageOrder, PageGoesOrder, SilentOrder DEF App
<1>5. CASE Heartbeat \/ Revoke \/ SessionEnds \/ FlushCredit \/ Silence \/ EndWrite \/ AbortWrite
  BY <1>5, HeartbeatOrder, EndingsOrder, PageOrder
<1>6. CASE \E c \in Closes : NetClose(c) \/ Dispose(c)
  BY <1>6, SilentOrder, PageGoesOrder
<1>7. CASE UNCHANGED vars
  <2>1. page' = page /\ ends' = ends /\ toPage' = toPage /\ pump' = pump /\ socket' = socket
    BY <1>7 DEF vars
  <2> QED BY <2>1, SilentOrders DEF ReadOver
<1> QED
  BY <1>1, <1>2, <1>3, <1>4, <1>5, <1>6, <1>7 DEF Next

LEMMA OrderInit == Init => OrderInv
<1> SUFFICES ASSUME Init PROVE OrderInv
  OBVIOUS
<1>1. toPage = <<>> /\ page.readable = "open"
  BY DEF Init, NewPage
<1> QED
  BY <1>1 DEF OrderInv, NothingAfterEnd, EndPosted

\* Nothing follows a clean end, and the page's stream ends behind everything.
LEMMA OrderHolds == Spec => []OrderInv
<1>1. Init => OrderInv
  BY OrderInit
<1>2. IInv /\ RangeInv /\ OrderInv /\ [Next]_vars => OrderInv'
  BY OrderStep
<1> QED
  BY <1>1, <1>2, InvariantHolds, BytesAreCountedOnce, PTL DEF Spec

-----------------------------------------------------------------------------
(* The relay is a connection: every step is one of Connection's, or none.             *)

\* A step of the connection, or none.
Follows == [Stream!Next]_(Stream!vars)

\* What the app and the peer can tell, part by part.
SameIn == socket'.sent = socket.sent /\ PeerDone' = PeerDone /\ page'.got = page.got /\ Reading' = Reading
SameOut ==
    /\ page'.asked = page.asked /\ socket'.taken = socket.taken /\ page'.accepted = page.accepted
    /\ socket'.received = socket.received /\ Finished' = Finished

LEMMA Judgements ==
    /\ {PeerDone, Finished, Closing, Excused} \subseteq BOOLEAN
    /\ {PeerDone', Finished', Closing', Excused'} \subseteq BOOLEAN
  BY DEF PeerDone, Finished, Closing, Excused

LEMMA FollowsStill ==
    ASSUME SameIn, SameOut, Closing' = Closing, Excused' = Excused
    PROVE  Follows
  BY DEF Follows, SameIn, SameOut, Stream!vars

\* Nothing can be told of the step but that it may cost bytes, if it does.
LEMMA FollowsExcuse ==
    ASSUME SameIn, page'.asked = page.asked, socket'.taken = socket.taken, page'.accepted = page.accepted,
           socket'.received = socket.received, Closing' = Closing,
           Finished' => Finished, Finished => Finished' \/ Excused', Excused => Excused'
    PROVE  Follows
<1>1. CASE Excused'
  <2>1. Excused' = TRUE /\ Finished' \in {Finished, FALSE}
    BY <1>1, Judgements
  <2>2. Stream!Excuse
    BY <2>1 DEF Stream!Excuse, Stream!incoming, SameIn
  <2> QED BY <2>2 DEF Follows, Stream!Next
<1>2. CASE ~Excused'
  <2>1. Excused' = Excused /\ Finished' = Finished
    BY <1>2, Judgements
  <2> QED BY <2>1, FollowsStill DEF SameOut
<1> QED
  BY <1>1, <1>2

\* The page as it was, and the calls.
LEMMA ReadingStays ==
    ASSUME page' = page
    PROVE  Reading' = Reading
  BY DEF Reading

LEMMA SameClosing ==
    ASSUME Shape, [Next]_vars,
           calls' = calls \/ (\E c \in Closes : NetClose(c) \/ Dispose(c)) \/ TeardownSettles
    PROVE  Closing' = Closing /\ (ClosedTwice' <=> ClosedTwice)
<1>1. calls \in [Closes -> {"none", "asked", "waiting", "answered", "done"}]
  BY DEF Shape
<1>2. \A d \in Closes : calls'[d] # "none" <=> calls[d] # "none"
  <2>1. CASE calls' = calls
    BY <2>1
  <2>2. CASE TeardownSettles
    <3>1. calls' = [c \in Closes |-> IF calls[c] = "waiting" THEN "answered" ELSE calls[c]]
      BY <2>2 DEF TeardownSettles
    <3> QED BY <1>1, <3>1
  <2>3. CASE \E c \in Closes : NetClose(c) \/ Dispose(c)
    <3>1. PICK c \in Closes : NetClose(c) \/ Dispose(c)
      BY <2>3
    <3>2. calls[c] # "none" /\ \E x \in {"waiting", "answered", "done"} : calls' = [calls EXCEPT ![c] = x]
      BY <3>1 DEF NetClose, Dispose
    <3> QED BY <1>1, <3>2
  <2> QED BY <2>1, <2>2, <2>3
<1>3. Closing' <=> Closing
  BY <1>2 DEF Closing
<1>4. ClosedTwice' <=> ClosedTwice
  BY <1>2 DEF ClosedTwice
<1> QED
  BY <1>3, <1>4, Judgements

\* A step of the broker, of the peer or of the user that moves no byte an end can tell.
LEMMA QuietFollows ==
    ASSUME IInv, [Next]_vars, page' = page, Winds(socket, socket'), StillExcused,
           calls' = calls \/ (\E c \in Closes : NetClose(c) \/ Dispose(c)) \/ TeardownSettles,
           socket.ours = "fin" => socket'.ours = "fin" \/ Excused'
    PROVE  Follows
<1>1. Shape
  BY DEF IInv
<1>2. Closing' = Closing /\ (ClosedTwice' <=> ClosedTwice)
  BY <1>1, SameClosing
<1>3. SameIn
  <2>1. PeerDone' = PeerDone
    BY DEF Winds, PeerDone
  <2> QED BY <2>1, ReadingStays DEF SameIn, Winds
<1>4. (Finished' => Finished) /\ (Finished => Finished' \/ Excused')
  BY DEF Winds, Finished
<1>5. Excused => Excused'
  BY <1>2 DEF Excused, StillExcused
<1> QED
  BY <1>2, <1>3, <1>4, <1>5, FollowsExcuse DEF Winds

\* What may lose bytes, of the handle.
LEMMA StandsByHandle ==
    ASSUME IInv, socket.reset => socket'.reset,
           \/ handle' = handle
           \/ handle.state = "live" /\ \E reason : handle' = Gone(reason)
           \/ handle.state = "live" /\ handle' = [handle EXCEPT !.state = "leaving", !.reason = "sessionEnded"]
           \/ handle' = Leaving(handle)
           \/ handle' = [handle EXCEPT !.deadline = TRUE]
           \/ handle' = [handle EXCEPT !.state = "gone"]
    PROVE  StillExcused
<1>1. handle \in Handles /\ (handle.state = "live" => handle.reason = "none")
  BY DEF IInv, Shape, PartsAgree
<1>2. CASE handle' = handle \/ handle' = Leaving(handle)
  BY <1>1, <1>2 DEF StillExcused, Leaving, Handles
<1>3. CASE handle.state = "live" /\ \E reason : handle' = Gone(reason)
  BY <1>1, <1>3 DEF StillExcused, Gone, Handles
<1>4. CASE handle.state = "live" /\ handle' = [handle EXCEPT !.state = "leaving", !.reason = "sessionEnded"]
  BY <1>1, <1>4 DEF StillExcused, Handles
<1>5. CASE handle' = [handle EXCEPT !.deadline = TRUE] \/ handle' = [handle EXCEPT !.state = "gone"]
  BY <1>1, <1>5 DEF StillExcused, Handles
<1> QED
  BY <1>2, <1>3, <1>4, <1>5

\* The relay stops.
LEMMA EndingsFollow ==
    ASSUME IInv, [Next]_vars, PortCloses \/ Revoke \/ SessionEnds \/ TeardownSettles
    PROVE  Follows
<1>1. page' = page /\ (calls' = calls \/ TeardownSettles)
  <2>1. page' = page
    BY DEF PortCloses, Revoke, SessionEnds, TeardownSettles
  <2>2. calls' = calls \/ TeardownSettles
    BY DEF PortCloses, Revoke, SessionEnds
  <2> QED BY <2>1, <2>2
<1> DEFINE r == ReaderCancelled(socket)
           e == ReaderCancelled(Ended(socket))
<1>2. socket \in Sockets
  BY DEF IInv, Shape
<1>3. Winds(socket, r) /\ r \in Sockets /\ (socket.ours = "fin" => r.ours = "fin")
  BY <1>2, WindsDown DEF Winds
<1>4. Winds(socket, e) /\ (socket.ours = "fin" => e.ours = "fin")
  <2>1. Winds(socket, Ended(socket)) /\ Ended(socket) \in Sockets /\ (socket.ours = "fin" => Ended(socket).ours = "fin")
    BY <1>2, WindsDown DEF Winds
  <2>2. Winds(Ended(socket), e) /\ (Ended(socket).ours = "fin" => e.ours = "fin")
    BY <2>1, WindsDown
  <2> QED BY <2>1, <2>2, WindsAgain
<1>5. Winds(socket, ResetAndDestroyed(r))
  <2>1. Winds(r, ResetAndDestroyed(r))
    BY <1>3, WindsDown
  <2> QED BY <1>3, <2>1, WindsAgain
<1> HIDE DEF r, e
<1>6. CASE Revoke
  <2>1. socket' = ResetAndDestroyed(r) /\ handle.state = "live" /\ handle' = Gone("revoked")
    BY <1>6 DEF Revoke, r
  <2>2. Excused'
    <3>1. handle'.reason = "revoked"
      BY <2>1 DEF IInv, Shape, Handles, Gone
    <3> QED BY <3>1 DEF Excused
  <2>3. StillExcused
    BY <1>5, <2>1, StandsByHandle DEF Winds
  <2> QED BY <1>1, <1>5, <2>1, <2>2, <2>3, QuietFollows
<1>7. CASE PortCloses \/ TeardownSettles
  <2>1. socket' = r /\ handle' \in {handle, [handle EXCEPT !.state = "gone"]}
    BY <1>7 DEF PortCloses, TeardownSettles, r
  <2>2. StillExcused
    BY <1>3, <2>1, StandsByHandle DEF Winds
  <2> QED BY <1>1, <1>3, <2>1, <2>2, QuietFollows
<1>8. CASE SessionEnds
  <2>1. /\ socket' = e /\ handle.state = "live"
        /\ handle' = [handle EXCEPT !.state = "leaving", !.reason = "sessionEnded"]
    BY <1>8 DEF SessionEnds, e
  <2>2. StillExcused
    BY <1>4, <2>1, StandsByHandle DEF Winds
  <2> QED BY <1>1, <1>4, <2>1, <2>2, QuietFollows
<1> QED
  BY <1>6, <1>7, <1>8

\* The socket fails.
LEMMA FailFollows ==
    ASSUME IInv, [Next]_vars, page' = page, calls' = calls,
           NEW p, NEW k, NEW posted, NEW code, NEW rest, FailSocket(p, k, posted, code, rest)
    PROVE  Follows
<1> DEFINE r == ReaderCancelled(socket)
<1>1. socket \in Sockets
  BY DEF IInv, Shape
<1>2. Winds(socket, r) /\ r \in Sockets /\ (socket.ours = "fin" => r.ours = "fin")
  BY <1>1, WindsDown DEF Winds
<1>3. Winds(socket, Destroyed(r)) /\ (socket.ours = "fin" => Destroyed(r).ours = "fin")
  <2>1. Winds(r, Destroyed(r)) /\ (r.ours = "fin" => Destroyed(r).ours = "fin")
    BY <1>2, WindsDown
  <2> QED BY <1>2, <2>1, WindsAgain
<1> HIDE DEF r
<1>4. \/ handle.state = "live" /\ handle' = Gone("failed") /\ socket' = Destroyed(r)
      \/ handle' = handle /\ socket' = socket
  BY DEF FailSocket, r
<1>5. Winds(socket, socket') /\ (socket.ours = "fin" => socket'.ours = "fin")
  BY <1>1, <1>3, <1>4, WindsDown
<1>6. StillExcused
  BY <1>4, <1>5, StandsByHandle DEF Winds
<1> QED
  BY <1>5, <1>6, QuietFollows

\* What a write or a write-end leaves, if the socket took nothing.
LEMMA DrainedFollows ==
    ASSUME IInv, [Next]_vars, page' = page, calls' = calls,
           NEW k, NEW s, NEW posted, NEW rest, Drained(k, s, posted, rest),
           Winds(socket, s), socket.ours = "fin" => s.ours = "fin"
    PROVE  Follows
<1>1. socket' \in {s, Ended(s)} /\ handle' \in {handle, Leaving(handle)} /\ s \in Sockets
  BY DEF Drained, Winds
<1>2. Winds(socket, socket') /\ (socket.ours = "fin" => socket'.ours = "fin")
  BY <1>1, WindsDown, WindsAgain
<1>3. StillExcused
  BY <1>1, <1>2, StandsByHandle DEF Winds
<1> QED
  BY <1>2, <1>3, QuietFollows

\* The socket takes over what it was asked to.
LEMMA TakesFollow ==
    ASSUME IInv, RangeInv', [Next]_vars, page' = page, calls' = calls, Writable(socket),
           NEW k, NEW n \in Nat, NEW posted, NEW rest, Drained(k, Handed(socket, n), posted, rest)
    PROVE  Follows
<1> DEFINE h == Handed(socket, n)
<1>1. socket \in Sockets /\ handle \in Handles /\ Shape /\ (handle.state = "live" => handle.reason = "none")
  BY DEF IInv, Shape, PartsAgree
<1>2. /\ h \in Sockets /\ h.taken = socket.taken + n
      /\ h.sent = socket.sent /\ h.theirs = socket.theirs /\ h.received = socket.received
      /\ h.reset = socket.reset /\ h.ours = "open" /\ socket.ours = "open"
  BY <1>1, HandedKeeps DEF Writable
<1>3. socket' \in {h, Ended(h)} /\ handle' \in {handle, Leaving(handle)}
  BY DEF Drained
<1> HIDE DEF h
<1>4. /\ socket'.taken = socket.taken + n /\ socket'.sent = socket.sent /\ socket'.theirs = socket.theirs
      /\ socket'.received = socket.received /\ (socket'.reset <=> socket.reset) /\ socket'.ours # "fin"
  <2>1. Winds(h, socket')
    BY <1>2, <1>3, WindsDown
  <2> QED BY <1>2, <2>1 DEF Winds
<1>5. SameIn /\ Closing' = Closing /\ (ClosedTwice' <=> ClosedTwice)
  <2>1. PeerDone' = PeerDone
    BY <1>4 DEF PeerDone
  <2> QED BY <1>1, <1>4, <2>1, ReadingStays, SameClosing DEF SameIn
<1>6. Finished = FALSE /\ Finished' = FALSE
  BY <1>2, <1>4 DEF Finished
<1>7. Excused' = Excused
  <2>1. /\ handle'.deadline <=> handle.deadline
        /\ handle'.reason \in {"revoked", "sessionEnded", "aborted", "failed"} <=>
             handle.reason \in {"revoked", "sessionEnded", "aborted", "failed"}
    BY <1>1, <1>3 DEF Leaving, Handles
  <2>2. Excused' <=> Excused
    BY <1>4, <1>5, <2>1 DEF Excused
  <2> QED BY <2>2, Judgements
<1>8. n = 0 \/ socket'.taken > socket.taken
  <2>1. \A a, b \in Nat : b = 0 \/ a + b > a
    OBVIOUS
  <2> QED BY <1>1, <1>4, <2>1, SocketNumbers
<1>9. CASE n = 0
  <2>1. socket'.taken = socket.taken
    BY <1>1, <1>4, <1>9, SocketNumbers
  <2> QED BY <1>4, <1>5, <1>6, <1>7, <2>1, FollowsStill DEF SameOut
<1>10. CASE socket'.taken > socket.taken
  <2>1. Reading # "gone" => socket'.taken <= page.asked
    <3>1. Reading # "gone" => page.here
      BY DEF Reading
    <3>2. page'.here => socket'.taken + WritesIn' + (page'.left - page'.piece) <= page'.asked
      BY DEF RangeInv, BytesOnce
    <3>3. WritesIn' \in Nat
      <4>1. toBroker' \in Seq(BrokerMessages)
        BY StepHolds DEF IInv, Shape
      <4>2. Counted(BrokerMessages, "write")
        BY BrokerMessageFacts
      <4> QED BY <4>1, <4>2, AmountsType DEF WritesIn
    <3>4. page.piece <= page.left
      BY DEF IInv, WriteInv
    <3>5. socket'.taken \in Nat /\ page.left \in Nat /\ page.piece \in Nat /\ page.asked \in Nat
      <4>1. socket' \in Sockets /\ page \in Pages
        BY StepHolds DEF IInv, Shape
      <4> QED BY <4>1, SocketNumbers, PageNumbers
    <3>6. \A t, w, l, p, a \in Nat : p <= l /\ t + w + (l - p) <= a => t <= a
      OBVIOUS
    <3>7. page.here => socket'.taken + WritesIn' + (page.left - page.piece) <= page.asked
      BY <3>2
    <3> QED BY <3>1, <3>3, <3>4, <3>5, <3>6, <3>7
  <2>2. Stream!Take
    BY <1>4, <1>5, <1>6, <1>7, <1>10, <2>1 DEF Stream!Take, Stream!incoming, SameIn
  <2> QED BY <2>2 DEF Follows, Stream!Next
<1> QED
  BY <1>8, <1>9, <1>10

\* What the broker hears.
LEMMA HeardFollows ==
    ASSUME IInv, RangeInv', [Next]_vars,
           ReceiveWrite \/ WriteSettles \/ ReceiveEnd \/ ReceiveAbort \/ PumpFails \/ WriteRejected
    PROVE  Follows
<1>1. socket \in Sockets /\ handle \in Handles
  BY DEF IInv, Shape
<1>2. Winds(socket, socket)
  BY <1>1, WindsDown
<1>3. CASE ReceiveWrite
  <2> DEFINE n == Head(toBroker).n
             rest == Tail(toBroker)
             stopped == [sink EXCEPT !.stopped = TRUE]
  <2>1. /\ n \in Nat /\ page' = page /\ calls' = calls
        /\ \/ FailSocket(pump, stopped, <<Failed("limit")>>, "limit", rest)
           \/ \E k, posted : Drained(k, socket, posted, rest)
           \/ Writable(socket) /\ \E k, posted : Drained(k, Handed(socket, n), posted, rest)
    BY <1>3, WriteHeard
  <2> HIDE DEF n, rest, stopped
  <2> QED BY <1>2, <2>1, FailFollows, DrainedFollows, TakesFollow
<1>4. CASE WriteSettles
  BY <1>4, WriteSettled, TakesFollow
<1>5. CASE ReceiveEnd
  <2>1. page' = page /\ calls' = calls /\ \E k : Drained(k, socket, <<>>, Tail(toBroker))
    BY <1>5 DEF ReceiveEnd
  <2> QED BY <1>2, <2>1, DrainedFollows
<1>6. CASE ReceiveAbort
  <2> DEFINE d == WriterAborted(socket)
             r == ReaderCancelled(socket)
  <2>1. /\ page' = page /\ calls' = calls
        /\ \/ \E k, posted : Drained(k, socket, posted, Tail(toBroker))
           \/ handle.state = "live" /\ handle' = Gone("aborted") /\ socket' = ResetAndDestroyed(r)
           \/ \E k, posted : Drained(k, d, posted, Tail(toBroker))
    BY <1>6, AbortHeard
  <2>2. Winds(socket, d) /\ (socket.ours = "fin" => d.ours = "fin")
    BY <1>1, WindsDown
  <2>3. Winds(socket, ResetAndDestroyed(r))
    <3>1. Winds(socket, r) /\ r \in Sockets
      BY <1>1, WindsDown DEF Winds
    <3> QED BY <3>1, WindsDown, WindsAgain
  <2> HIDE DEF d, r
  <2>4. CASE handle.state = "live" /\ handle' = Gone("aborted") /\ socket' = ResetAndDestroyed(r)
    <3>1. Excused'
      <4>1. handle'.reason = "aborted"
        BY <1>1, <2>4 DEF Gone, Handles
      <4> QED BY <4>1 DEF Excused
    <3>2. StillExcused
      BY <2>3, <2>4, StandsByHandle DEF Winds
    <3> QED BY <2>1, <2>3, <2>4, <3>1, <3>2, QuietFollows
  <2> QED BY <1>2, <2>1, <2>2, <2>4, DrainedFollows
<1>7. CASE PumpFails
  <2>1. page' = page /\ calls' = calls /\ \E p, posted : FailSocket(p, sink, posted, "reset", toBroker)
    BY <1>7 DEF PumpFails
  <2> QED BY <2>1, FailFollows
<1>8. CASE WriteRejected
  <2>1. page' = page /\ calls' = calls /\ \E k, posted : FailSocket(pump, k, posted, "reset", toBroker)
    BY <1>8 DEF WriteRejected
  <2> QED BY <2>1, FailFollows
<1> QED
  BY <1>3, <1>4, <1>5, <1>6, <1>7, <1>8

\* Steps of the broker that an app cannot tell, or only as an excuse.
LEMMA QuietlyFollows ==
    ASSUME IInv, [Next]_vars,
           \/ PumpReads \/ PumpEnds \/ Heartbeat \/ ReceiveCredit \/ DrainDeadline
           \/ \E c \in Closes : NetClose(c)
    PROVE  Follows
<1>1. socket \in Sockets
  BY DEF IInv, Shape
<1>2. page' = page /\ (calls' = calls \/ \E c \in Closes : NetClose(c))
  <2>1. page' = page
    BY DEF PumpReads, PumpEnds, Heartbeat, ReceiveCredit, DrainDeadline, NetClose
  <2>2. calls' = calls \/ \E c \in Closes : NetClose(c)
    BY DEF PumpReads, PumpEnds, Heartbeat, ReceiveCredit, DrainDeadline
  <2> QED BY <2>1, <2>2
<1>3. Winds(socket, socket') /\ (socket.ours = "fin" => socket'.ours = "fin")
  <2>1. CASE PumpReads
    <3>1. socket.incoming # <<>> /\ socket' = [socket EXCEPT !.incoming = Tail(@)]
      BY <2>1 DEF PumpReads
    <3>2. socket.incoming \in Seq(Nat)
      BY <1>1 DEF Sockets
    <3>3. Tail(socket.incoming) \in Seq(Nat)
      BY <3>1, <3>2
    <3> QED BY <1>1, <3>1, <3>3 DEF Winds, Sockets
  <2>2. CASE socket' \in {socket, Destroyed(socket), Ended(socket)}
    BY <1>1, <2>2, WindsDown
  <2>3. PumpReads \/ socket' \in {socket, Destroyed(socket), Ended(socket)}
    BY DEF PumpEnds, Heartbeat, ReceiveCredit, DrainDeadline, NetClose
  <2> QED BY <2>1, <2>2, <2>3
<1>4. StillExcused
  <2>1. handle' \in {handle, Leaving(handle), [handle EXCEPT !.deadline = TRUE]}
    BY DEF PumpReads, PumpEnds, Heartbeat, ReceiveCredit, DrainDeadline, NetClose
  <2> QED BY <1>3, <2>1, StandsByHandle DEF Winds
<1> QED
  BY <1>2, <1>3, <1>4, QuietFollows

\* The excuses stand as they are.
LEMMA ExcusedAsWas ==
    ASSUME socket'.reset <=> socket.reset, handle' = handle, ClosedTwice' <=> ClosedTwice,
           page'.here <=> page.here, page'.aborted <=> page.aborted
    PROVE  Excused' = Excused
<1>1. Excused' <=> Excused
  BY DEF Excused
<1> QED
  BY <1>1, Judgements

\* The peer sends, ends, resets and reads; our FIN goes out behind the last byte.
LEMMA PeerFollows ==
    ASSUME IInv, LossInv, RangeInv, RangeInv', [Next]_vars, Peer \/ FinSent
    PROVE  Follows
<1>1. page' = page /\ calls' = calls /\ handle' = handle
  BY DEF Peer, PeerSends, PeerEnds, PeerResets, PeerReads, FinSent
<1>2. socket \in Sockets /\ Shape
  BY DEF IInv, Shape
<1>3. Closing' = Closing /\ (ClosedTwice' <=> ClosedTwice) /\ Reading' = Reading
  BY <1>1, <1>2, SameClosing, ReadingStays
<1>4. ASSUME NEW n \in 1 .. MaxChunk, PeerSends(n)
      PROVE  Follows
  <2>1. socket.theirs = "open" /\ socket' = [socket EXCEPT !.sent = @ + n, !.incoming = Append(@, n)]
    BY <1>4 DEF PeerSends
  <2>2. /\ socket'.sent = socket.sent + n /\ socket'.theirs = "open" /\ socket'.taken = socket.taken
        /\ socket'.received = socket.received /\ socket'.ours = socket.ours /\ socket'.reset = socket.reset
    BY <1>2, <2>1 DEF Sockets
  <2>3. socket'.sent > socket.sent
    <3>1. \A a \in Nat : \A b \in 1 .. MaxChunk : a + b > a
      OBVIOUS
    <3> QED BY <1>2, <1>4, <2>2, <3>1, SocketNumbers
  <2>4. PeerDone = FALSE /\ PeerDone' = FALSE /\ Finished' = Finished
    BY <2>1, <2>2 DEF PeerDone, Finished
  <2>5. Excused' = Excused
    BY <1>1, <1>3, <2>2, ExcusedAsWas
  <2>6. Stream!PeerSends
    BY <1>1, <1>3, <2>2, <2>3, <2>4, <2>5 DEF Stream!PeerSends, Stream!outgoing
  <2> QED BY <2>6 DEF Follows, Stream!Next
<1>5. CASE PeerEnds
  <2> DEFINE e == Ended(socket)
             readable == IF e.readable = "open" THEN "closed" ELSE e.readable
             alive == socket.ours # "fin"
  <2>1. socket.theirs = "open" /\ socket' = [e EXCEPT !.theirs = "fin", !.readable = readable, !.alive = alive]
    BY <1>5 DEF PeerEnds
  <2>2. /\ e \in Sockets /\ e.sent = socket.sent /\ e.taken = socket.taken /\ e.received = socket.received
        /\ (e.reset <=> socket.reset) /\ (e.ours = "fin" <=> socket.ours = "fin")
    BY <1>2, WindsDown DEF Winds
  <2> HIDE DEF e, readable, alive
  <2>3. /\ socket'.sent = socket.sent /\ socket'.theirs = "fin" /\ socket'.taken = socket.taken
        /\ socket'.received = socket.received /\ (socket'.ours = "fin" <=> socket.ours = "fin")
        /\ (socket'.reset <=> socket.reset)
    BY <2>1, <2>2 DEF Sockets
  <2>4. PeerDone = FALSE /\ PeerDone' = TRUE
    BY <2>1, <2>3 DEF PeerDone
  <2>5. Finished' = Finished
    <3>1. Finished' <=> Finished
      BY <2>3 DEF Finished
    <3> QED BY <3>1, Judgements
  <2>6. Excused' = Excused
    BY <1>1, <1>3, <2>3, ExcusedAsWas
  <2>7. Stream!PeerEnds
    BY <1>1, <1>3, <2>3, <2>4, <2>5, <2>6 DEF Stream!PeerEnds, Stream!outgoing
  <2> QED BY <2>7 DEF Follows, Stream!Next
<1>6. CASE PeerResets
  <2>1. /\ socket'.sent = socket.sent /\ socket'.theirs = socket.theirs /\ socket'.taken = socket.taken
        /\ socket'.received = socket.received /\ socket'.ours = "rst" /\ socket'.reset
    BY <1>2, <1>6 DEF PeerResets, Sockets
  <2>2. PeerDone' = PeerDone /\ ~Finished' /\ Excused'
    BY <2>1 DEF PeerDone, Finished, Excused
  <2>3. SameIn
    BY <1>1, <1>3, <2>1, <2>2 DEF SameIn
  <2> QED BY <1>1, <1>3, <2>1, <2>2, <2>3, FollowsExcuse
<1>7. CASE PeerReads
  <2>1. socket.outgoing > 0 /\ socket' = [socket EXCEPT !.outgoing = @ - 1, !.received = @ + 1]
    BY <1>7 DEF PeerReads
  <2>2. /\ socket'.sent = socket.sent /\ socket'.theirs = socket.theirs /\ socket'.taken = socket.taken
        /\ socket'.received = socket.received + 1 /\ socket'.ours = socket.ours /\ socket'.reset = socket.reset
    BY <1>2, <2>1 DEF Sockets
  <2>3. socket.ours # "fin"
    BY <2>1 DEF LossInv
  <2>4. PeerDone' = PeerDone /\ Finished = FALSE /\ Finished' = FALSE
    BY <2>2, <2>3 DEF PeerDone, Finished
  <2>5. socket'.received > socket.received /\ socket'.received <= socket.taken
    <3>1. socket'.received + socket'.outgoing <= socket'.taken
      BY DEF RangeInv, BytesOnce
    <3>2. socket' \in Sockets /\ socket.received \in Nat
      <4>1. socket' \in Sockets
        BY StepHolds DEF IInv, Shape
      <4> QED BY <1>2, <4>1, SocketNumbers
    <3>3. socket'.outgoing \in Nat /\ socket'.received \in Nat /\ socket'.taken \in Nat
      BY <3>2, SocketNumbers
    <3>4. \A a, b, c \in Nat : a + b <= c => a <= c
      OBVIOUS
    <3>5. \A a \in Nat : a + 1 > a
      OBVIOUS
    <3> QED BY <2>2, <3>1, <3>2, <3>3, <3>4, <3>5
  <2>6. Excused' = Excused
    BY <1>1, <1>3, <2>2, ExcusedAsWas
  <2>7. Stream!PeerReceives
    BY <1>1, <1>3, <2>2, <2>4, <2>5, <2>6 DEF Stream!PeerReceives, Stream!incoming
  <2> QED BY <2>7 DEF Follows, Stream!Next
<1>8. CASE FinSent
  <2> DEFINE alive == socket.theirs = "open"
  <2>1. socket.ours = "ending" /\ socket.outgoing = 0 /\ socket' = [socket EXCEPT !.ours = "fin", !.alive = alive]
    BY <1>8 DEF FinSent
  <2> HIDE DEF alive
  <2>2. /\ socket'.sent = socket.sent /\ socket'.theirs = socket.theirs /\ socket'.taken = socket.taken
        /\ socket'.received = socket.received /\ socket'.ours = "fin" /\ socket'.reset = socket.reset
    BY <1>2, <2>1 DEF Sockets
  <2>3. PeerDone' = PeerDone /\ Finished = FALSE /\ Finished' = TRUE
    BY <2>1, <2>2 DEF PeerDone, Finished
  <2>4. Excused \/ socket.received = socket.taken
    <3>1. Lost > 0 => Excused
      BY DEF LossInv, CloseLosesNothing
    <3>2. socket.received + socket.outgoing <= socket.taken
      BY DEF RangeInv, BytesOnce
    <3>3. \A t, r \in Nat : r + 0 <= t /\ ~(t - r - 0 > 0) => r = t
      OBVIOUS
    <3>4. socket.received \in Nat /\ socket.taken \in Nat
      BY <1>2, SocketNumbers
    <3> QED BY <2>1, <3>1, <3>2, <3>3, <3>4 DEF Lost
  <2>5. Excused' = Excused
    BY <1>1, <1>3, <2>2, ExcusedAsWas
  <2>6. Stream!Finish
    BY <1>1, <1>3, <2>2, <2>3, <2>4, <2>5 DEF Stream!Finish, Stream!incoming
  <2> QED BY <2>6 DEF Follows, Stream!Next
<1> QED
  BY <1>4, <1>5, <1>6, <1>7, <1>8 DEF Peer

\* A step of the page's script: of the broker's side nothing changes that anyone can tell.
LEMMA BrokerIsSame ==
    ASSUME IInv, [Next]_vars, socket' = socket, handle' = handle,
           calls' = calls \/ \E c \in Closes : Dispose(c)
    PROVE  /\ socket'.sent = socket.sent /\ PeerDone' = PeerDone
           /\ socket'.taken = socket.taken /\ socket'.received = socket.received /\ Finished' = Finished
           /\ Closing' = Closing
           /\ (page'.here <=> page.here) /\ (page'.aborted <=> page.aborted) => Excused' = Excused
<1>1. PeerDone' = PeerDone /\ Finished' = Finished
  BY DEF PeerDone, Finished
<1>2. Closing' = Closing /\ (ClosedTwice' <=> ClosedTwice)
  BY SameClosing DEF IInv
<1>3. (page'.here <=> page.here) /\ (page'.aborted <=> page.aborted) => Excused' = Excused
  BY <1>2, ExcusedAsWas
<1> QED
  BY <1>1, <1>2, <1>3

\* The app can tell of a readable that failed.
LEMMA FailsFollows ==
    ASSUME IInv, [Next]_vars, BrokerStill, page.here, Fails(page, page')
    PROVE  Follows
<1>1. /\ socket'.sent = socket.sent /\ PeerDone' = PeerDone
      /\ socket'.taken = socket.taken /\ socket'.received = socket.received /\ Finished' = Finished
      /\ Closing' = Closing /\ Excused' = Excused
  BY BrokerIsSame DEF BrokerStill, Fails, Shows
<1>2. page'.here /\ page'.got = page.got /\ page'.asked = page.asked /\ page'.accepted = page.accepted
  BY DEF Fails, Shows
<1>3. CASE page'.readable = page.readable
  <2>1. Reading' = Reading
    BY <1>2, <1>3 DEF Reading
  <2> QED BY <1>1, <1>2, <2>1, FollowsStill DEF SameIn, SameOut
<1>4. CASE page.readable \in Unfinished /\ page'.readable \in {"errored", "cancelled"}
  <2>1. Reading \in {"open", "ending"} /\ Reading' = "broken"
    BY <1>2, <1>4 DEF Reading, Unfinished
  <2>2. Stream!Breaks
    BY <1>1, <1>2, <2>1 DEF Stream!Breaks, Stream!outgoing
  <2> QED BY <2>2 DEF Follows, Stream!Next
<1> QED
  BY <1>3, <1>4 DEF Fails

\* The app can tell of a readable that ended: it closed the socket, or it got everything.
LEMMA StopsFollows ==
    ASSUME IInv, [Next]_vars, socket' = socket, handle' = handle,
           calls' = calls \/ \E c \in Closes : Dispose(c),
           page.here, Stops(page, page'), Closing \/ "page" \notin ends'
    PROVE  Follows
<1>1. /\ socket'.sent = socket.sent /\ PeerDone' = PeerDone
      /\ socket'.taken = socket.taken /\ socket'.received = socket.received /\ Finished' = Finished
      /\ Closing' = Closing /\ Excused' = Excused
  BY BrokerIsSame DEF Stops, Shows
<1>2. page'.here /\ page'.got = page.got /\ page'.asked = page.asked /\ page'.accepted = page.accepted
  BY DEF Stops, Shows
<1>3. CASE page'.readable = page.readable
  <2>1. Reading' = Reading
    BY <1>2, <1>3 DEF Reading
  <2> QED BY <1>1, <1>2, <2>1, FollowsStill DEF SameIn, SameOut
<1>4. CASE page.readable = "open" /\ page'.readable \in {"ending", "closed"}
  <2>1. Reading = "open" /\ Reading' \in {"ending", "closed"}
    BY <1>2, <1>4 DEF Reading
  <2>2. Closing \/ (PeerDone /\ page.got = socket.sent)
    <3>1. CASE Closing
      BY <3>1
    <3>2. CASE ~Closing
      <4>1. NoCalls'
        BY <1>1, <3>2 DEF NoCalls, Closing
      <4>2. CleanInv' /\ socket' \in Sockets /\ page' \in Pages /\ Shape'
        BY StepHolds DEF IInv, Shape
      <4>3. AllRead' /\ DataOut' = 0
        BY <1>4, <4>1, <4>2 DEF CleanInv
      <4>4. Unread' = 0
        BY <4>3, SumSmall DEF AllRead, Unread
      <4>5. page'.got + DataOut' + Unread' = socket'.sent
        BY <3>2, <4>2, <4>3 DEF CleanInv, AllRead
      <4>6. \A a, b \in Nat : a + 0 + 0 = b => a = b
        OBVIOUS
      <4>7. page'.got + 0 + 0 = socket'.sent
        BY <4>3, <4>4, <4>5
      <4>8. page'.got = socket'.sent
        BY <4>2, <4>6, <4>7, PageNumbers, SocketNumbers
      <4>9. PeerDone'
        BY <4>3 DEF AllRead, PeerDone
      <4> QED BY <1>1, <1>2, <4>8, <4>9
    <3> QED BY <3>1, <3>2
  <2>3. Stream!Ends
    BY <1>1, <1>2, <2>1, <2>2 DEF Stream!Ends, Stream!outgoing
  <2> QED BY <2>3 DEF Follows, Stream!Next
<1> QED
  BY <1>3, <1>4 DEF Stops

\* What the page hears.
LEMMA PageHearsFollows ==
    ASSUME IInv, RangeInv, RangeInv', OrderInv, [Next]_vars, PageData \/ PageEnd \/ PageFailed \/ Silence \/ AppCancels
    PROVE  Follows
<1>1. CASE PageData
  <2>1. /\ BrokerStill /\ page.here /\ page' \in Pages /\ DataOut > 0
        /\ page'.here /\ page'.got > page.got /\ (page'.aborted <=> page.aborted)
        /\ page'.asked = page.asked /\ page'.accepted = page.accepted /\ page'.readable = page.readable
    BY <1>1, PageDataShows
  <2>2. /\ socket'.sent = socket.sent /\ PeerDone' = PeerDone
        /\ socket'.taken = socket.taken /\ socket'.received = socket.received /\ Finished' = Finished
        /\ Closing' = Closing /\ Excused' = Excused
    BY <2>1, BrokerIsSame DEF BrokerStill
  <2>3. Reading' = Reading /\ Reading \in {"open", "broken"}
    <3>1. page.readable \notin {"ending", "closed"}
      <4>1. DataOut # 0
        BY <2>1
      <4> QED BY <4>1 DEF OrderInv
    <3>2. page.readable \in {"open", "errored", "cancelled"}
      BY <3>1 DEF IInv, Shape, Pages
    <3> QED BY <2>1, <3>2 DEF Reading
  <2>4. page'.got <= socket.sent
    <3>1. page'.got + DataOut' + Unread' <= socket'.sent
      BY DEF RangeInv, BytesOnce
    <3>2. DataOut' \in Nat /\ Unread' \in Nat
      <4>1. /\ toPage' \in Seq(PageMessages) /\ socket'.incoming \in Seq(Nat)
        BY StepHolds DEF IInv, Shape, Sockets
      <4> QED BY <4>1, AmountsType, UnitsFacts, PageMessageFacts DEF DataOut, Unread
    <3>3. socket' \in Sockets
      BY StepHolds DEF IInv, Shape
    <3>4. \A g, d, u, s \in Nat : g + d + u <= s => g <= s
      OBVIOUS
    <3>5. page'.got \in Nat /\ socket'.sent \in Nat
      BY <2>1, <3>3, PageNumbers, SocketNumbers
    <3>6. page'.got <= socket'.sent
      BY <3>1, <3>2, <3>4, <3>5
    <3> QED BY <2>2, <3>6
  <2>5. Stream!Arrives
    BY <2>1, <2>2, <2>3, <2>4 DEF Stream!Arrives, Stream!outgoing
  <2> QED BY <2>5 DEF Follows, Stream!Next
<1>2. CASE PageEnd
  <2>1. /\ BrokerStill /\ page.here /\ toPage # <<>>
        /\ Fails(page, page') \/ Stops(page, page')
    BY <1>2, PageEndShows
  <2>2. "page" \notin ends'
    BY <2>1 DEF IInv, PartsAgree, BrokerStill
  <2> QED BY <2>1, <2>2, FailsFollows, StopsFollows DEF BrokerStill
<1>3. CASE PageFailed \/ Silence \/ AppCancels
  BY <1>3, FailsShows, FailsFollows
<1> QED
  BY <1>1, <1>2, <1>3

\* What the app reads, and what of the page it cannot tell.
LEMMA ReadsFollow ==
    ASSUME IInv, [Next]_vars, AppReads \/ AppEnds \/ FlushCredit \/ EndWrite \/ AbortWrite
    PROVE  Follows
<1>1. /\ BrokerStill /\ page.here /\ Shows(page, page')
      /\ page'.readable = page.readable \/ (page.readable = "ending" /\ page'.readable = "closed")
  BY AppReadsShows, HiddenShows DEF Hides
<1>2. /\ socket'.sent = socket.sent /\ PeerDone' = PeerDone
      /\ socket'.taken = socket.taken /\ socket'.received = socket.received /\ Finished' = Finished
      /\ Closing' = Closing /\ Excused' = Excused
  BY <1>1, BrokerIsSame DEF BrokerStill, Shows
<1>3. page'.here /\ page'.got = page.got /\ page'.asked = page.asked /\ page'.accepted = page.accepted
  BY <1>1 DEF Shows
<1>4. CASE page'.readable = page.readable
  <2>1. Reading' = Reading
    BY <1>1, <1>3, <1>4 DEF Reading
  <2> QED BY <1>2, <1>3, <2>1, FollowsStill DEF SameIn, SameOut
<1>5. CASE page.readable = "ending" /\ page'.readable = "closed"
  <2>1. Reading = "ending" /\ Reading' = "closed"
    BY <1>1, <1>3, <1>5 DEF Reading
  <2>2. Stream!ReadOut
    BY <1>2, <1>3, <2>1 DEF Stream!ReadOut, Stream!outgoing
  <2> QED BY <2>2 DEF Follows, Stream!Next
<1> QED
  BY <1>1, <1>4, <1>5

\* What the app writes, is told of and aborts.
LEMMA AppWritesFollow ==
    ASSUME IInv, [Next]_vars, PageAck \/ AppAborts \/ \E n \in 0 .. AppBytes : AppWritesBytes(n)
    PROVE  Follows
<1>1. page' \in Pages /\ page \in Pages /\ WriteInv'
  BY StepHolds DEF IInv, Shape
<1>2. /\ BrokerStill /\ page.here /\ page'.here /\ page'.got = page.got /\ page'.readable = page.readable
  <2>1. CASE \E n \in 0 .. AppBytes : AppWritesBytes(n)
    BY <2>1, AppWritesShows
  <2> QED BY <1>1, <2>1, PageAckShows, AppAbortsShows
<1>3. /\ socket'.sent = socket.sent /\ PeerDone' = PeerDone
      /\ socket'.taken = socket.taken /\ socket'.received = socket.received /\ Finished' = Finished
      /\ Closing' = Closing /\ ((page'.aborted <=> page.aborted) => Excused' = Excused)
  BY <1>2, BrokerIsSame DEF BrokerStill
<1>4. Reading' = Reading /\ Reading # "gone" /\ SameIn
  <2>1. Reading' = Reading
    BY <1>2 DEF Reading
  <2>2. Reading # "gone"
    BY <1>1, <1>2 DEF Reading, Pages
  <2> QED BY <1>2, <1>3, <2>1, <2>2 DEF SameIn
<1>5. CASE PageAck
  <2>1. (page'.aborted <=> page.aborted) /\ page'.asked = page.asked /\ page'.accepted >= page.accepted
    BY <1>1, <1>5, PageAckShows
  <2>2. page'.accepted <= socket.taken
    <3>1. page'.accepted + page'.acked + AcksOut' + Held' <= socket'.taken
      BY <1>1 DEF WriteInv
    <3>2. AcksOut' \in Nat /\ Held' \in Nat
      <4>1. toPage' \in Seq(PageMessages) /\ sink' \in Sinks
        BY StepHolds DEF IInv, Shape
      <4>2. AcksOut' \in Nat
        BY <4>1, AmountsType, PageMessageFacts DEF AcksOut
      <4>3. Held' \in Nat
        <5>1. sink'.writes \in Seq(Nat)
          BY <4>1 DEF Sinks
        <5>2. \A s \in Seq(Nat) : s # <<>> => Head(s) \in Nat
          OBVIOUS
        <5> QED BY <5>1, <5>2 DEF Held
      <4> QED BY <4>2, <4>3
    <3>3. page'.accepted \in Nat /\ page'.acked \in Nat /\ socket'.taken \in Nat
      <4>1. socket' \in Sockets
        BY StepHolds DEF IInv, Shape
      <4> QED BY <1>1, <4>1, PageNumbers, SocketNumbers
    <3>4. \A a, b, c, d, t \in Nat : a + b + c + d <= t => a <= t
      OBVIOUS
    <3>5. page'.accepted <= socket'.taken
      BY <3>1, <3>2, <3>3, <3>4
    <3> QED BY <1>3, <3>5
  <2>3. page'.accepted = page.accepted \/ page'.accepted > page.accepted
    <3>1. \A a, b \in Nat : b >= a => b = a \/ b > a
      OBVIOUS
    <3> QED BY <1>1, <2>1, <3>1, PageNumbers
  <2>4. CASE page'.accepted = page.accepted
    BY <1>3, <1>4, <2>1, <2>4, FollowsStill DEF SameOut
  <2>5. CASE page'.accepted > page.accepted
    <3>1. Stream!Accept
      BY <1>3, <1>4, <2>1, <2>2, <2>5 DEF Stream!Accept, Stream!incoming, SameIn
    <3> QED BY <3>1 DEF Follows, Stream!Next
  <2> QED BY <2>3, <2>4, <2>5
<1>6. CASE \E n \in 0 .. AppBytes : AppWritesBytes(n)
  <2>1. (page'.aborted <=> page.aborted) /\ page'.asked >= page.asked /\ page'.accepted = page.accepted
    BY <1>6, AppWritesShows
  <2>2. page'.asked = page.asked \/ page'.asked > page.asked
    <3>1. \A a, b \in Nat : b >= a => b = a \/ b > a
      OBVIOUS
    <3> QED BY <1>1, <2>1, <3>1, PageNumbers
  <2>3. CASE page'.asked = page.asked
    BY <1>3, <1>4, <2>1, <2>3, FollowsStill DEF SameOut
  <2>4. CASE page'.asked > page.asked
    <3>1. Stream!Write
      BY <1>3, <1>4, <2>1, <2>4 DEF Stream!Write, Stream!incoming, SameIn
    <3> QED BY <3>1 DEF Follows, Stream!Next
  <2> QED BY <2>2, <2>3, <2>4
<1>7. CASE AppAborts
  <2>1. page'.aborted /\ page'.asked = page.asked /\ page'.accepted = page.accepted
    BY <1>7, AppAbortsShows
  <2>2. Excused'
    BY <2>1 DEF Excused
  <2> QED BY <1>3, <1>4, <2>1, <2>2, FollowsExcuse
<1> QED
  BY <1>5, <1>6, <1>7

\* The app calls close(), the page is told that it is, and its document goes away.
LEMMA AppLeavesFollows ==
    ASSUME IInv, [Next]_vars, Navigates \/ \E c \in Closes : AppCloses(c) \/ Dispose(c)
    PROVE  Follows
<1>1. calls \in [Closes -> {"none", "asked", "waiting", "answered", "done"}] /\ page \in Pages
  BY DEF IInv, Shape
<1>2. ASSUME NEW c \in Closes, AppCloses(c)
      PROVE  Follows
  <2>1. /\ page.here /\ calls[c] = "none" /\ calls' = [calls EXCEPT ![c] = "asked"]
        /\ socket' = socket /\ page' = page /\ handle' = handle
    BY <1>2 DEF AppCloses
  <2>2. Reading # "gone" /\ Reading' = Reading /\ PeerDone' = PeerDone /\ Finished' = Finished
    BY <1>1, <2>1 DEF Reading, Pages, PeerDone, Finished
  <2>3. Closing' = TRUE
    BY <1>1, <2>1 DEF Closing
  <2>4. Excused => Excused'
    <3>1. ClosedTwice => ClosedTwice'
      BY <1>1, <2>1 DEF ClosedTwice
    <3> QED BY <2>1, <3>1 DEF Excused
  <2>5. Excused' => Excused \/ Closing
    <3>1. ClosedTwice' => Closing
      BY <1>1, <2>1 DEF ClosedTwice, Closing
    <3> QED BY <2>1, <3>1 DEF Excused
  <2>6. Excused' = Excused \/ (Closing /\ Excused' = TRUE)
    BY <2>4, <2>5, Judgements
  <2>7. Stream!Close
    BY <2>1, <2>2, <2>3, <2>6 DEF Stream!Close, Stream!incoming, Stream!outgoing
  <2> QED BY <2>7 DEF Follows, Stream!Next
<1>3. ASSUME NEW c \in Closes, Dispose(c)
      PROVE  Follows
  <2>1. /\ page.here /\ Stops(page, page') /\ socket' = socket /\ handle' = handle /\ calls[c] = "answered"
    BY <1>3, DisposeShows
  <2>2. Closing
    BY <2>1 DEF Closing
  <2> QED BY <1>3, <2>1, <2>2, StopsFollows
<1>4. CASE Navigates
  <2>1. /\ page.here /\ page' = [NewPage EXCEPT !.here = FALSE]
        /\ socket' = socket /\ handle' = handle /\ calls' = calls
    BY <1>4 DEF Navigates
  <2>2. ~page'.here /\ page'.got = 0 /\ page'.asked = 0 /\ page'.accepted = 0
    BY <2>1 DEF NewPage
  <2>3. Reading # "gone" /\ Reading' = "gone" /\ Excused' = TRUE
    <3>1. Reading # "gone"
      BY <1>1, <2>1 DEF Reading, Pages
    <3>2. Reading' = "gone"
      BY <2>2 DEF Reading
    <3>3. Excused'
      BY <2>2 DEF Excused
    <3> QED BY <3>1, <3>2, <3>3, Judgements
  <2>4. /\ socket'.sent = socket.sent /\ PeerDone' = PeerDone
        /\ socket'.taken = socket.taken /\ socket'.received = socket.received /\ Finished' = Finished
        /\ Closing' = Closing
    BY <2>1, BrokerIsSame
  <2>5. Stream!Leave
    BY <2>2, <2>3, <2>4 DEF Stream!Leave
  <2> QED BY <2>5 DEF Follows, Stream!Next
<1> QED
  BY <1>2, <1>3, <1>4

\* Every step of the relay is a step of the connection, or none.
LEMMA RelayFollows ==
    IInv /\ LossInv /\ RangeInv /\ OrderInv /\ [Next]_vars => Follows
<1> SUFFICES ASSUME IInv, LossInv, RangeInv, OrderInv, [Next]_vars PROVE Follows
  OBVIOUS
<1> RangeInv'
  BY RangeStep
<1>1. CASE Peer \/ Teardown
  BY <1>1, PeerFollows, QuietlyFollows, EndingsFollow DEF Teardown
<1>2. CASE Pump \/ Sink \/ BrokerReceives
  BY <1>2, HeardFollows, QuietlyFollows DEF Pump, Sink, BrokerReceives
<1>3. CASE PageReceives
  BY <1>3, PageHearsFollows, AppWritesFollow DEF PageReceives
<1>4. CASE App
  BY <1>4, ReadsFollow, PageHearsFollows, AppWritesFollow, AppLeavesFollows DEF App
<1>5. CASE Heartbeat \/ Revoke \/ SessionEnds \/ FlushCredit \/ Silence \/ EndWrite \/ AbortWrite
  BY <1>5, QuietlyFollows, EndingsFollow, ReadsFollow, PageHearsFollows
<1>6. CASE \E c \in Closes : NetClose(c) \/ Dispose(c)
  BY <1>6, QuietlyFollows, AppLeavesFollows
<1>7. CASE UNCHANGED vars
  <2>1. socket' = socket /\ page' = page /\ handle' = handle /\ calls' = calls
    BY <1>7 DEF vars
  <2>2. SameIn /\ SameOut /\ Closing' = Closing /\ Excused' = Excused
    BY <2>1, BrokerIsSame, ReadingStays DEF SameIn, SameOut
  <2> QED BY <2>2, FollowsStill
<1> QED
  BY <1>1, <1>2, <1>3, <1>4, <1>5, <1>6, <1>7 DEF Next

LEMMA StreamInit == Init => Stream!Init
<1> SUFFICES ASSUME Init PROVE Stream!Init
  OBVIOUS
<1>1. /\ socket.sent = 0 /\ socket.theirs = "open" /\ ~socket.reset /\ socket.taken = 0 /\ socket.received = 0
      /\ socket.ours = "open" /\ handle.reason = "none" /\ ~handle.deadline
      /\ \A c \in Closes : calls[c] = "none"
  BY DEF Init
<1>2. /\ page.here /\ page.got = 0 /\ page.readable = "open" /\ page.asked = 0 /\ page.accepted = 0 /\ ~page.aborted
  BY DEF Init, NewPage
<1>3. ~PeerDone /\ ~Finished /\ ~Closing /\ ~Excused /\ Reading = "open"
  BY <1>1, <1>2 DEF PeerDone, Finished, Closing, Excused, ClosedTwice, Reading
<1>4. PeerDone = FALSE /\ Finished = FALSE /\ Closing = FALSE /\ Excused = FALSE
  BY <1>3, Judgements
<1> QED
  BY <1>1, <1>2, <1>3, <1>4 DEF Stream!Init

\* The app has a connection.  (handle-contracts.md, socket.ts, port-pump.ts, port-sink.ts.)
THEOREM RelayImplementsStream == Spec => ImplementsStream
<1>1. Init => LossInv
  BY LossInit
<1>2. IInv /\ LossInv /\ [Next]_vars => LossInv'
  BY LossStep
<1>3. Init => Stream!Init
  BY StreamInit
<1>4. IInv /\ LossInv /\ RangeInv /\ OrderInv /\ [Next]_vars => [Stream!Next]_(Stream!vars)
  BY RelayFollows DEF Follows
<1>5. Spec => []LossInv
  BY <1>1, <1>2, InvariantHolds, PTL DEF Spec
<1> QED
  BY <1>3, <1>4, <1>5, InvariantHolds, BytesAreCountedOnce, OrderHolds, PTL DEF Spec, ImplementsStream, Stream!Spec

=============================================================================
