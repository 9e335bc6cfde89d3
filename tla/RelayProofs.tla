---------------------------- MODULE RelayProofs ----------------------------
(***************************************************************************)
(* For windows, buffers, chunks and writes of every size: credit is        *)
(* conserved, a page within its window is not refused, what was accepted   *)
(* is in the socket, a clean end means everything, and a close, if it is   *)
(* the only one, loses nothing.                                            *)
(***************************************************************************)
EXTENDS Relay, FiniteSetTheorems, SequenceTheorems, TLAPS
\* Messages and records, with numbers that are only known to be natural or whole.
PageMessages == {Data(n) : n \in Nat} \cup {End(c) : c \in Codes \cup {"clean"}}
                \cup {Ack(n) : n \in Nat} \cup {Failed(c) : c \in Codes}
BrokerMessages == {Credit(n) : n \in Nat} \cup {Write(n) : n \in Nat} \cup {WriteEnd, WriteAbort}

Sockets == [sent : Nat, theirs : {"open", "fin"}, reset : BOOLEAN, incoming : Seq(Nat),
            readable : {"open", "closed", "errored", "cancelled"},
            taken : Nat, outgoing : Nat, received : Nat,
            ours : {"open", "ending", "fin", "cut", "rst"}, alive : BOOLEAN]
Pumps == [credit : Int, stopped : BOOLEAN, endSent : BOOLEAN]
Sinks == [writes : Seq(Nat), unacked : Int, stopped : BOOLEAN, ending : BOOLEAN, ended : BOOLEAN]
Relays == [registered : BOOLEAN, readEnded : BOOLEAN, writeEnded : BOOLEAN]
Handles == [state : {"live", "leaving", "gone"}, deadline : BOOLEAN,
            reason : {"none", "closed", "revoked", "sessionEnded", "aborted", "failed"}]
Pages == [here : BOOLEAN, queue : Seq(Nat), queued : Nat,
          uncredited : Nat, sinceLastCredit : Nat, got : Nat,
          readable : {"open", "ending", "closed", "errored", "cancelled"},
          readTerminal : BOOLEAN, writing : BOOLEAN, left : Nat,
          piece : Nat, acked : Nat, accepted : Nat,
          asked : Nat, writes : Nat,
          writable : {"open", "closing", "closed", "erroring", "errored"},
          aborted : BOOLEAN, writeTerminal : BOOLEAN, closed : {"pending", "resolved", "rejected"}]

Shape ==
    /\ socket \in Sockets /\ pump \in Pumps /\ sink \in Sinks /\ relay \in Relays
    /\ handle \in Handles /\ page \in Pages
    /\ toPage \in Seq(PageMessages) /\ toBroker \in Seq(BrokerMessages)
    /\ ends \subseteq {"broker", "page"}
    /\ calls \in [Closes -> {"none", "asked", "waiting", "answered", "done"}]

DataOut == Carried(toPage, "data")
AcksOut == Carried(toPage, "ack")
CreditIn == Carried(toBroker, "credit")
WritesIn == Carried(toBroker, "write")
Unread == Sum(socket.incoming)

\* What else the invariant asks of the two queues.
EndPosted == \E i \in DOMAIN toPage : toPage[i] = End("clean")
NothingAfterEnd ==
    \A i, j \in DOMAIN toPage : toPage[i] = End("clean") /\ i < j => toPage[j].kind # "data"
FailurePosted == \E i \in DOMAIN toPage : toPage[i].kind = "failed"
NoAcks == \A i \in DOMAIN toPage : toPage[i].kind # "ack"
EmptyAcks == \A i \in DOMAIN toPage : toPage[i].kind = "ack" => toPage[i].n = 0
AcksInOrder ==
    \A i, j \in DOMAIN toPage :
      i < j /\ toPage[i].kind = "ack" /\ toPage[j].kind = "ack" => toPage[j].n > 0

NoWrites == \A i \in DOMAIN toBroker : toBroker[i].kind # "write"
OneWrite == \A i, j \in DOMAIN toBroker :
              toBroker[i].kind = "write" /\ toBroker[j].kind = "write" => i = j
WriteEndSent == \E i \in DOMAIN toBroker : toBroker[i].kind = "writeEnd"
AbortSent == \E i \in DOMAIN toBroker : toBroker[i].kind = "writeAbort"

\* The read window: what the page counts as queued is what is in its queue, and not
\* more than it has not credited.
WindowInv ==
    /\ page.queued = Sum(page.queue)
    /\ page.queued <= page.uncredited
    /\ ~pump.stopped /\ ends = {} =>
         pump.credit + DataOut + page.uncredited + page.sinceLastCredit + CreditIn = ReadWindow

\* The broker's end of the port closes with the registry entry, at the latest when the
\* record is gone; the page's end when the document is gone or a close() returned.
PartsAgree ==
    /\ relay.registered <=> "broker" \notin ends
    /\ "broker" \in ends => pump.stopped /\ sink.stopped /\ toBroker = <<>>
    /\ handle.state = "gone" => "broker" \in ends
    /\ handle.state = "live" => handle.reason = "none"
    /\ "page" \in ends => toPage = <<>> /\ (~page.here \/ \E c \in Closes : calls[c] = "done")
    /\ ~page.here => page.readable = "open" /\ "page" \in ends
    /\ relay.readEnded => pump.endSent /\ socket.readable = "closed" /\ socket.incoming = <<>>
    /\ handle.state = "leaving" /\ "broker" \notin ends =>
         relay.readEnded \/ \E c \in Closes : calls[c] = "waiting"
    /\ socket.readable # "open" => socket.theirs = "fin" \/ ~socket.alive

NoCalls == \A c \in Closes : calls[c] = "none"
AllRead == socket.readable = "closed" /\ socket.incoming = <<>> /\ socket.theirs = "fin"

\* Every byte the peer sent is in one place, and nothing follows a clean end.
CleanInv ==
    /\ "page" \notin ends /\ socket.readable \in {"open", "closed"} =>
         page.got + DataOut + Unread = socket.sent
    /\ NoCalls =>
         /\ socket.readable = "closed" /\ ~pump.stopped => socket.theirs = "fin"
         /\ EndPosted => AllRead
         /\ NothingAfterEnd
         /\ page.readable \in {"ending", "closed"} => AllRead /\ DataOut = 0

\* A close() is answered when the relay is over or was read to its end; of two, the
\* second is answered at once.
AnswersWait ==
    ClosedTwice \/ \A c \in Closes : calls[c] \in {"answered", "done"} => "broker" \in ends \/ relay.readEnded

LossInv ==
    /\ CloseLosesNothing
    /\ socket.ours = "fin" => socket.outgoing = 0
    /\ socket.ours \in {"cut", "rst"} => ~socket.alive
    /\ socket.ours \in {"open", "ending"} => socket.alive
    /\ handle.state = "leaving" \/ relay.writeEnded => socket.ours # "open"
    /\ page.writable = "erroring" => page.aborted
    /\ AbortSent => page.aborted \/ ~page.here
    /\ AnswersWait

\* The first write the sink holds has been handed to the socket.
Held == IF sink.stopped \/ socket.reset \/ sink.writes = <<>> THEN 0 ELSE Head(sink.writes)

\* What the broker holds of the page's writes is within the piece the page waits for.
WriteInv ==
    /\ page.accepted + page.acked + AcksOut + Held <= socket.taken
    /\ socket.reset => ~socket.alive
    /\ sink.unacked = Sum(sink.writes)
    /\ "page" \notin ends /\ ~sink.stopped => sink.unacked + WritesIn + AcksOut + page.acked <= page.piece
    /\ page.piece <= WriteWindow /\ page.piece <= page.left
    /\ ~page.writing => page.left = 0 /\ page.piece = 0 /\ page.acked = 0
    /\ sink.ended => sink.ending
    /\ FailurePosted => sink.stopped \/ sink.ended
    /\ sink.ending \/ WriteEndSent =>
         ~page.here \/ (page.writable = "closed" /\ ~page.writing)
    /\ NoFalseLimit

\* A page writes one piece at a time, and the broker answers it once, whatever
\* heartbeats come before.
OnePieceInv ==
    /\ AcksInOrder
    /\ ~socket.reset =>
         /\ Len(sink.writes) <= 1
         /\ ~sink.stopped /\ sink.writes = <<>> => socket.outgoing <= SocketBuffer
         /\ ~sink.stopped /\ sink.writes # <<>> =>
              Head(sink.writes) > 0 /\ NoWrites /\ EmptyAcks
         /\ ~sink.stopped => OneWrite /\ (NoWrites \/ NoAcks)
         /\ ~sink.stopped /\ ~page.writing /\ "page" \notin ends =>
              sink.writes = <<>> /\ NoWrites /\ NoAcks

\* The inductive invariant.
IInv == Shape /\ WindowInv /\ PartsAgree /\ CleanInv /\ WriteInv /\ OnePieceInv
-----------------------------------------------------------------------------
(* Sums *)

Units(s) == UNION {{i} \X (1 .. s[i]) : i \in DOMAIN s}

\* The units of a finite sequence are finitely many.
LEMMA UnitsFacts ==
    ASSUME NEW s \in Seq(Nat)
    PROVE  /\ IsFiniteSet(Units(s)) /\ Sum(s) \in Nat /\ Sum(s) = Cardinality(Units(s))
           /\ \A u : u \in Units(s) <=> \E i \in 1 .. Len(s) : \E b \in 1 .. s[i] : u = <<i, b>>
<1>1. DOMAIN s = 1 .. Len(s) /\ Len(s) \in Nat /\ \A i \in DOMAIN s : s[i] \in Nat
  OBVIOUS
<1>2. Sum(s) = Cardinality(Units(s))
  BY DEF Sum, Units
<1>3. ASSUME NEW i \in DOMAIN s PROVE IsFiniteSet({i} \X (1 .. s[i]))
  <2>1. 1 \in Int /\ s[i] \in Int
    BY <1>1
  <2>2. IsFiniteSet(1 .. s[i])
    BY <2>1, FS_Interval
  <2>3. IsFiniteSet({i})
    BY FS_Singleton
  <2> QED BY <2>2, <2>3, FS_Product
<1> DEFINE rows == {{i} \X (1 .. s[i]) : i \in DOMAIN s}
           row == [i \in DOMAIN s |-> {i} \X (1 .. s[i])]
<1>4. IsFiniteSet(rows)
  <2>1. IsFiniteSet(DOMAIN s)
    BY <1>1, FS_Interval
  <2>2. row \in Surjection(DOMAIN s, rows)
    BY DEF Surjection
  <2> QED BY <2>1, <2>2, FS_Surjection
<1>5. IsFiniteSet(Units(s))
  <2>1. \A r \in rows : IsFiniteSet(r)
    BY <1>3
  <2> QED BY <1>4, <2>1, FS_UNION DEF Units
<1>6. Sum(s) \in Nat
  BY <1>2, <1>5, FS_CardinalityType
<1>7. ASSUME NEW u PROVE u \in Units(s) <=> \E i \in 1 .. Len(s) : \E b \in 1 .. s[i] : u = <<i, b>>
  BY <1>1 DEF Units
<1> QED
  BY <1>2, <1>5, <1>6, <1>7

\* Nothing adds up to nothing, and one number to itself.
LEMMA SumSmall ==
    /\ Sum(<<>>) = 0
    /\ \A n \in Nat : Sum(<<n>>) = n
<1>1. Sum(<<>>) = 0
  <2>1. Units(<<>>) = {}
    BY DEF Units
  <2>2. Sum(<<>>) = Cardinality({})
    BY <2>1 DEF Sum, Units
  <2> QED BY <2>2, FS_EmptySet
<1>2. ASSUME NEW n \in Nat PROVE Sum(<<n>>) = n
  <2> DEFINE w == <<n>>
  <2>1. w \in Seq(Nat) /\ Len(w) = 1 /\ w[1] = n
    OBVIOUS
  <2> HIDE DEF w
  <2> DEFINE f == [b \in 1 .. n |-> <<1, b>>]
  <2>2. \A u : u \in Units(w) <=> \E b \in 1 .. n : u = <<1, b>>
    <3>1. \A u : u \in Units(w) <=> \E i \in 1 .. 1 : \E b \in 1 .. w[i] : u = <<i, b>>
      BY <2>1, UnitsFacts
    <3>2. \A i : i \in 1 .. 1 <=> i = 1
      OBVIOUS
    <3> QED BY <2>1, <3>1, <3>2
  <2>3. ExistsBijection(1 .. n, Units(w))
    <3>1. f \in Bijection(1 .. n, Units(w))
      BY <2>2 DEF Bijection, Injection, Surjection, IsInjective
    <3> QED BY <3>1 DEF ExistsBijection
  <2>4. IsFiniteSet(1 .. n) /\ Cardinality(1 .. n) = n
    <3>1. IsFiniteSet(1 .. n) /\ Cardinality(1 .. n) = IF 1 > n THEN 0 ELSE n - 1 + 1
      BY FS_Interval
    <3> QED BY <3>1
  <2>5. Cardinality(Units(w)) = n
    BY <2>3, <2>4, FS_Bijection
  <2>6. Sum(w) = n
    BY <2>1, <2>5, UnitsFacts
  <2> QED BY <2>6 DEF w
<1> QED
  BY <1>1, <1>2

\* The sum of a sequence and its continuation.
LEMMA SumConcat ==
    ASSUME NEW s \in Seq(Nat), NEW t \in Seq(Nat)
    PROVE  s \o t \in Seq(Nat) /\ Sum(s \o t) = Sum(s) + Sum(t)
<1> DEFINE n == Len(s)
           m == Len(t)
           shifted == {<<n + u[1], u[2]>> : u \in Units(t)}
<1>1. /\ s \o t \in Seq(Nat) /\ Len(s \o t) = n + m /\ n \in Nat /\ m \in Nat
      /\ \A i \in 1 .. n + m : (s \o t)[i] = IF i <= n THEN s[i] ELSE t[i - n]
  BY ConcatProperties, LenProperties
<1>2. IsFiniteSet(Units(s)) /\ IsFiniteSet(Units(t))
  BY UnitsFacts
<1> HIDE DEF n, m
<1>3. \A u : u \in Units(s) <=> \E i \in 1 .. n : \E b \in 1 .. s[i] : u = <<i, b>>
  BY UnitsFacts DEF n
<1>4. \A u : u \in Units(t) <=> \E i \in 1 .. m : \E b \in 1 .. t[i] : u = <<i, b>>
  BY UnitsFacts DEF m
<1>5. \A u : u \in Units(s \o t) <=> \E i \in 1 .. n + m : \E b \in 1 .. (s \o t)[i] : u = <<i, b>>
  <2> DEFINE st == s \o t
  <2>1. st \in Seq(Nat) /\ Len(st) = n + m
    BY <1>1
  <2> HIDE DEF st
  <2>2. \A u : u \in Units(st) <=> \E i \in 1 .. n + m : \E b \in 1 .. st[i] : u = <<i, b>>
    BY <2>1, UnitsFacts
  <2> QED BY <2>2 DEF st
<1>6. \A u : u \in shifted <=> \E i \in 1 .. m : \E b \in 1 .. t[i] : u = <<n + i, b>>
  <2>1. ASSUME NEW u \in shifted PROVE \E i \in 1 .. m : \E b \in 1 .. t[i] : u = <<n + i, b>>
    <3>1. PICK v \in Units(t) : u = <<n + v[1], v[2]>>
      OBVIOUS
    <3>2. PICK i \in 1 .. m : \E b \in 1 .. t[i] : v = <<i, b>>
      BY <1>4
    <3> QED BY <3>1, <3>2
  <2>2. ASSUME NEW i \in 1 .. m, NEW b \in 1 .. t[i] PROVE <<n + i, b>> \in shifted
    <3>1. <<i, b>> \in Units(t)
      BY <1>4
    <3> QED BY <3>1
  <2> HIDE DEF shifted
  <2> QED BY <2>1, <2>2
<1> HIDE DEF shifted
<1>7. Units(s \o t) = Units(s) \cup shifted
  <2>1. ASSUME NEW u \in Units(s \o t) PROVE u \in Units(s) \cup shifted
    <3>1. PICK i \in 1 .. n + m : \E b \in 1 .. (s \o t)[i] : u = <<i, b>>
      BY <1>5
    <3>2. CASE i <= n
      BY <1>1, <1>3, <3>1, <3>2
    <3>3. CASE i > n
      <4>1. i - n \in 1 .. m /\ (s \o t)[i] = t[i - n] /\ n + (i - n) = i
        BY <1>1, <3>3
      <4> QED BY <1>6, <3>1, <4>1
    <3> QED BY <1>1, <3>2, <3>3
  <2>2. ASSUME NEW u \in Units(s) PROVE u \in Units(s \o t)
    <3>1. PICK i \in 1 .. n : \E b \in 1 .. s[i] : u = <<i, b>>
      BY <1>3
    <3>2. i \in 1 .. n + m /\ (s \o t)[i] = s[i]
      BY <1>1
    <3> QED BY <1>5, <3>1, <3>2
  <2>3. ASSUME NEW u \in shifted PROVE u \in Units(s \o t)
    <3>1. PICK i \in 1 .. m : \E b \in 1 .. t[i] : u = <<n + i, b>>
      BY <1>6
    <3>2. n + i \in 1 .. n + m /\ ~(n + i <= n) /\ (n + i) - n = i
      BY <1>1
    <3>3. (s \o t)[n + i] = t[i]
      BY <1>1, <3>2
    <3> QED BY <1>5, <3>1, <3>2, <3>3
  <2> QED BY <2>1, <2>2, <2>3
<1>8. Units(s) \cap shifted = {}
  <2> SUFFICES ASSUME NEW u \in Units(s), u \in shifted PROVE FALSE
    OBVIOUS
  <2>1. PICK i \in 1 .. n : \E b \in 1 .. s[i] : u = <<i, b>>
    BY <1>3
  <2>2. PICK j \in 1 .. m : \E c \in 1 .. t[j] : u = <<n + j, c>>
    BY <1>6
  <2>3. i = n + j
    BY <2>1, <2>2
  <2> QED BY <1>1, <2>3
<1>9. IsFiniteSet(shifted) /\ Cardinality(shifted) = Cardinality(Units(t))
  <2> DEFINE f == [u \in Units(t) |-> <<n + u[1], u[2]>>]
  <2>1. \A u \in Units(t) : u[1] \in 1 .. m /\ u = <<u[1], u[2]>>
    BY <1>4
  <2>2. \A u, v \in Units(t) : f[u] = f[v] => u = v
    <3> TAKE u, v \in Units(t)
    <3> HAVE f[u] = f[v]
    <3>1. n + u[1] = n + v[1] /\ u[2] = v[2]
      OBVIOUS
    <3>2. u[1] = v[1]
      BY <1>1, <2>1, <3>1
    <3> QED BY <2>1, <3>1, <3>2
  <2>3. f \in Bijection(Units(t), shifted)
    BY <2>2 DEF Bijection, Injection, Surjection, IsInjective, shifted
  <2>4. ExistsBijection(Units(t), shifted)
    BY <2>3 DEF ExistsBijection
  <2> QED BY <1>2, <2>4, FS_Bijection
<1>10. Cardinality(Units(s \o t)) = Cardinality(Units(s)) + Cardinality(Units(t))
  <2>1. Cardinality(Units(s) \cup shifted) = Cardinality(Units(s)) + Cardinality(shifted) - Cardinality(Units(s) \cap shifted)
    BY <1>2, <1>9, FS_Union
  <2>2. Cardinality(Units(s)) \in Nat /\ Cardinality(shifted) \in Nat
    BY <1>2, <1>9, FS_CardinalityType
  <2>3. Cardinality(Units(s) \cap shifted) = 0
    BY <1>8, FS_EmptySet
  <2> QED BY <1>7, <1>9, <2>1, <2>2, <2>3
<1> QED
  BY <1>1, <1>10, UnitsFacts

\* A number put at the end of a sequence, or taken off its front.
LEMMA SumAppend ==
    ASSUME NEW s \in Seq(Nat), NEW n \in Nat
    PROVE  Sum(Append(s, n)) = Sum(s) + n
<1>1. Append(s, n) = s \o <<n>> /\ <<n>> \in Seq(Nat)
  BY AppendIsConcat
<1> QED
  BY <1>1, SumConcat, SumSmall

LEMMA SumTail ==
    ASSUME NEW s \in Seq(Nat), s # <<>>
    PROVE  Sum(s) = Head(s) + Sum(Tail(s)) /\ Head(s) \in Nat /\ Tail(s) \in Seq(Nat) /\ Sum(Tail(s)) \in Nat
<1>1. s = <<Head(s)>> \o Tail(s) /\ Head(s) \in Nat /\ Tail(s) \in Seq(Nat) /\ <<Head(s)>> \in Seq(Nat)
  BY HeadTailProperties
<1>2. Sum(s) = Sum(<<Head(s)>>) + Sum(Tail(s))
  BY <1>1, SumConcat
<1> QED
  BY <1>1, <1>2, SumSmall, UnitsFacts

\* No unit, no sum; and no number is more than the sum it is in.
LEMMA SumZero ==
    ASSUME NEW s \in Seq(Nat), \A i \in DOMAIN s : s[i] = 0
    PROVE  Sum(s) = 0
<1>1. Units(s) = {}
  BY DEF Units
<1> QED
  BY <1>1, UnitsFacts, FS_EmptySet

LEMMA SumMember ==
    ASSUME NEW s \in Seq(Nat), NEW i \in DOMAIN s
    PROVE  s[i] <= Sum(s)
<1> DEFINE row == {<<i, b>> : b \in 1 .. s[i]}
           f == [b \in 1 .. s[i] |-> <<i, b>>]
<1>1. s[i] \in Nat /\ i \in 1 .. Len(s)
  OBVIOUS
<1>2. row \subseteq Units(s)
  BY <1>1, UnitsFacts
<1>3. Cardinality(row) <= Cardinality(Units(s))
  BY <1>2, UnitsFacts, FS_Subset
<1>4. ExistsBijection(1 .. s[i], row)
  <2>1. f \in Bijection(1 .. s[i], row)
    BY DEF Bijection, Injection, Surjection, IsInjective
  <2> QED BY <2>1 DEF ExistsBijection
<1>5. IsFiniteSet(1 .. s[i]) /\ Cardinality(1 .. s[i]) = s[i]
  <2>1. 1 \in Int /\ s[i] \in Int
    BY <1>1
  <2>2. IsFiniteSet(1 .. s[i]) /\ Cardinality(1 .. s[i]) = IF 1 > s[i] THEN 0 ELSE s[i] - 1 + 1
    BY <2>1, FS_Interval
  <2> QED BY <1>1, <2>2
<1>6. Cardinality(row) = s[i]
  BY <1>4, <1>5, FS_Bijection
<1> QED
  BY <1>3, <1>6, UnitsFacts
-----------------------------------------------------------------------------
(* Messages *)

Amount(m, kind) == IF m.kind = kind THEN m.n ELSE 0
Amounts(messages, kind) == [i \in DOMAIN messages |-> Amount(messages[i], kind)]

\* A set of messages of which those of one kind carry a number.
Counted(M, kind) == \A m \in M : Amount(m, kind) \in Nat

LEMMA AmountsType ==
    ASSUME NEW M, NEW kind, Counted(M, kind), NEW q \in Seq(M)
    PROVE  /\ Amounts(q, kind) \in Seq(Nat) /\ Len(Amounts(q, kind)) = Len(q)
           /\ \A i \in 1 .. Len(q) : Amounts(q, kind)[i] = Amount(q[i], kind) /\ q[i] \in M
           /\ Carried(q, kind) = Sum(Amounts(q, kind)) /\ Carried(q, kind) \in Nat
<1>1. DOMAIN q = 1 .. Len(q) /\ Len(q) \in Nat /\ \A i \in 1 .. Len(q) : q[i] \in M
  OBVIOUS
<1>2. Amounts(q, kind) \in Seq(Nat) /\ Len(Amounts(q, kind)) = Len(q)
  BY <1>1 DEF Amounts, Counted
<1>3. \A i \in 1 .. Len(q) : Amounts(q, kind)[i] = Amount(q[i], kind)
  BY <1>1 DEF Amounts
<1>4. Carried(q, kind) = Sum(Amounts(q, kind))
  BY DEF Carried, Amounts, Amount
<1> QED
  BY <1>1, <1>2, <1>3, <1>4, UnitsFacts

\* What a queue of messages carries, as it grows and shrinks.
LEMMA CarriedConcat ==
    ASSUME NEW M, NEW kind, Counted(M, kind), NEW q \in Seq(M), NEW r \in Seq(M)
    PROVE  Carried(q \o r, kind) = Carried(q, kind) + Carried(r, kind)
<1>1. /\ q \o r \in Seq(M) /\ Len(q \o r) = Len(q) + Len(r) /\ Len(q) \in Nat /\ Len(r) \in Nat
      /\ \A i \in 1 .. Len(q) + Len(r) : (q \o r)[i] = IF i <= Len(q) THEN q[i] ELSE r[i - Len(q)]
  BY ConcatProperties, LenProperties
<1> DEFINE a == Amounts(q, kind)
           b == Amounts(r, kind)
           c == Amounts(q \o r, kind)
<1>2. /\ a \in Seq(Nat) /\ Len(a) = Len(q) /\ \A i \in 1 .. Len(q) : a[i] = Amount(q[i], kind)
      /\ b \in Seq(Nat) /\ Len(b) = Len(r) /\ \A i \in 1 .. Len(r) : b[i] = Amount(r[i], kind)
      /\ Carried(q, kind) = Sum(a) /\ Carried(r, kind) = Sum(b)
  BY AmountsType
<1>3. /\ c \in Seq(Nat) /\ Len(c) = Len(q) + Len(r) /\ Carried(q \o r, kind) = Sum(c)
      /\ \A i \in 1 .. Len(q) + Len(r) : c[i] = Amount((q \o r)[i], kind)
  <2> DEFINE qr == q \o r
  <2>1. qr \in Seq(M) /\ Len(qr) = Len(q) + Len(r)
    BY <1>1
  <2> HIDE DEF qr
  <2>2. /\ Amounts(qr, kind) \in Seq(Nat) /\ Len(Amounts(qr, kind)) = Len(qr)
        /\ \A i \in 1 .. Len(qr) : Amounts(qr, kind)[i] = Amount(qr[i], kind)
        /\ Carried(qr, kind) = Sum(Amounts(qr, kind))
    <3>1. Amounts(qr, kind) \in Seq(Nat) /\ Len(Amounts(qr, kind)) = Len(qr)
      BY <2>1, AmountsType
    <3>2. \A i \in 1 .. Len(qr) : Amounts(qr, kind)[i] = Amount(qr[i], kind)
      BY <2>1, AmountsType
    <3>3. Carried(qr, kind) = Sum(Amounts(qr, kind))
      BY <2>1, AmountsType
    <3> QED BY <3>1, <3>2, <3>3
  <2>3. q \o r = qr /\ c = Amounts(qr, kind)
    BY DEF qr
  <2> HIDE DEF c
  <2>4. /\ c \in Seq(Nat) /\ Len(c) = Len(q) + Len(r) /\ Carried(qr, kind) = Sum(c)
        /\ \A i \in 1 .. Len(q) + Len(r) : c[i] = Amount(qr[i], kind)
    BY <2>1, <2>2, <2>3, Zenon
  <2> QED BY <2>3, <2>4, Zenon
<1> HIDE DEF a, b, c
<1>4. /\ a \o b \in Seq(Nat) /\ Len(a \o b) = Len(q) + Len(r)
      /\ \A i \in 1 .. Len(q) + Len(r) : (a \o b)[i] = IF i <= Len(q) THEN a[i] ELSE b[i - Len(q)]
  <2>1. a \in Seq(Nat) /\ b \in Seq(Nat)
    BY <1>2
  <2>2. /\ a \o b \in Seq(Nat) /\ Len(a \o b) = Len(a) + Len(b)
        /\ \A i \in 1 .. Len(a) + Len(b) : (a \o b)[i] = IF i <= Len(a) THEN a[i] ELSE b[i - Len(a)]
    BY <2>1, ConcatProperties
  <2> QED BY <1>2, <2>2
<1>5. \A i \in 1 .. Len(q) + Len(r) : c[i] = (a \o b)[i]
  <2> TAKE i \in 1 .. Len(q) + Len(r)
  <2>1. CASE i <= Len(q)
    BY <1>1, <1>2, <1>3, <1>4, <2>1
  <2>2. CASE ~(i <= Len(q))
    <3>1. i - Len(q) \in 1 .. Len(r)
      BY <1>1, <2>2
    <3> QED BY <1>1, <1>2, <1>3, <1>4, <2>2, <3>1
  <2> QED BY <2>1, <2>2
<1>6. c = a \o b
  BY <1>3, <1>4, <1>5, SeqEqual
<1> QED
  BY <1>2, <1>3, <1>6, SumConcat

LEMMA CarriedSmall ==
    ASSUME NEW M, NEW kind, Counted(M, kind)
    PROVE  /\ Carried(<<>>, kind) = 0
           /\ \A m \in M : Carried(<<m>>, kind) = Amount(m, kind)
<1>1. Carried(<<>>, kind) = 0
  <2>1. <<>> \in Seq(M) /\ \A i \in DOMAIN Amounts(<<>>, kind) : Amounts(<<>>, kind)[i] = 0
    BY DEF Amounts
  <2> QED BY <2>1, AmountsType, SumZero
<1>2. ASSUME NEW m \in M PROVE Carried(<<m>>, kind) = Amount(m, kind)
  <2> DEFINE q == <<m>>
  <2>1. q \in Seq(M) /\ Len(q) = 1 /\ q[1] = m
    OBVIOUS
  <2> HIDE DEF q
  <2>2. /\ Amounts(q, kind) \in Seq(Nat) /\ Len(Amounts(q, kind)) = 1
        /\ Amounts(q, kind)[1] = Amount(m, kind) /\ Carried(q, kind) = Sum(Amounts(q, kind))
    BY <2>1, AmountsType
  <2>3. Amounts(q, kind) = <<Amount(m, kind)>> /\ Amount(m, kind) \in Nat
    BY <2>2 DEF Counted
  <2>4. Carried(q, kind) = Amount(m, kind)
    BY <2>2, <2>3, SumSmall
  <2> QED BY <2>4 DEF q
<1> QED
  BY <1>1, <1>2

LEMMA CarriedTail ==
    ASSUME NEW M, NEW kind, Counted(M, kind), NEW q \in Seq(M), q # <<>>
    PROVE  /\ Head(q) \in M /\ Head(q) = q[1] /\ Tail(q) \in Seq(M)
           /\ Carried(q, kind) = Amount(Head(q), kind) + Carried(Tail(q), kind)
<1>1. Head(q) \in M /\ Head(q) = q[1] /\ Tail(q) \in Seq(M) /\ q = <<Head(q)>> \o Tail(q) /\ <<Head(q)>> \in Seq(M)
  BY HeadTailProperties
<1>2. Carried(q, kind) = Carried(<<Head(q)>>, kind) + Carried(Tail(q), kind)
  BY <1>1, CarriedConcat
<1> QED
  BY <1>1, <1>2, CarriedSmall

LEMMA CarriedNone ==
    ASSUME NEW M, NEW kind, Counted(M, kind), NEW q \in Seq(M), \A i \in DOMAIN q : q[i].kind # kind
    PROVE  Carried(q, kind) = 0
<1>1. \A i \in DOMAIN Amounts(q, kind) : Amounts(q, kind)[i] = 0
  BY DEF Amounts, Amount
<1> QED
  BY <1>1, AmountsType, SumZero

LEMMA CarriedMember ==
    ASSUME NEW M, NEW kind, Counted(M, kind), NEW q \in Seq(M), NEW i \in DOMAIN q, q[i].kind = kind
    PROVE  q[i].n <= Carried(q, kind)
<1>1. i \in DOMAIN Amounts(q, kind) /\ Amounts(q, kind)[i] = q[i].n
  BY DEF Amounts, Amount
<1> QED
  BY <1>1, AmountsType, SumMember

LEMMA PageMessageFacts ==
    /\ Counted(PageMessages, "data") /\ Counted(PageMessages, "ack")
    /\ \A m \in PageMessages : m.kind \in {"data", "end", "ack", "failed"}
    /\ \A m \in PageMessages : m.kind = "data" => m.n \in Nat /\ m = Data(m.n)
    /\ \A m \in PageMessages : m.kind = "ack" => m.n \in Nat /\ m = Ack(m.n)
    /\ \A m \in PageMessages : m.kind = "end" => m.code \in Codes \cup {"clean"} /\ m = End(m.code)
    /\ \A n \in Nat : /\ Data(n) \in PageMessages /\ Data(n).kind = "data" /\ Data(n).n = n
                      /\ Ack(n) \in PageMessages /\ Ack(n).kind = "ack" /\ Ack(n).n = n
    /\ \A c \in Codes \cup {"clean"} : End(c) \in PageMessages /\ End(c).kind = "end" /\ End(c).code = c
    /\ \A c \in Codes : Failed(c) \in PageMessages /\ Failed(c).kind = "failed" /\ Failed(c).code = c
<1>1. \A n \in Nat : /\ Data(n) \in PageMessages /\ Data(n).kind = "data" /\ Data(n).n = n
                     /\ Ack(n) \in PageMessages /\ Ack(n).kind = "ack" /\ Ack(n).n = n
  BY DEF PageMessages, Data, Ack
<1>2. \A c \in Codes \cup {"clean"} : End(c) \in PageMessages /\ End(c).kind = "end" /\ End(c).code = c
  BY DEF PageMessages, End
<1>3. \A c \in Codes : Failed(c) \in PageMessages /\ Failed(c).kind = "failed" /\ Failed(c).code = c
  BY DEF PageMessages, Failed
<1>4. ASSUME NEW m \in PageMessages
      PROVE  \/ \E n \in Nat : m = Data(n)
             \/ \E n \in Nat : m = Ack(n)
             \/ \E c \in Codes \cup {"clean"} : m = End(c)
             \/ \E c \in Codes : m = Failed(c)
  BY DEF PageMessages
<1>5. ASSUME NEW m \in PageMessages
      PROVE  /\ m.kind \in {"data", "end", "ack", "failed"}
             /\ m.kind = "data" => m.n \in Nat /\ m = Data(m.n)
             /\ m.kind = "ack" => m.n \in Nat /\ m = Ack(m.n)
             /\ m.kind = "end" => m.code \in Codes \cup {"clean"} /\ m = End(m.code)
  BY <1>1, <1>2, <1>3, <1>4
<1>6. Counted(PageMessages, "data") /\ Counted(PageMessages, "ack")
  BY <1>5 DEF Counted, Amount
<1> QED
  BY <1>1, <1>2, <1>3, <1>5, <1>6

LEMMA BrokerMessageFacts ==
    /\ Counted(BrokerMessages, "credit") /\ Counted(BrokerMessages, "write")
    /\ \A m \in BrokerMessages : m.kind \in {"credit", "write"} => m.n \in Nat
    /\ \A n \in Nat : /\ Credit(n) \in BrokerMessages /\ Credit(n).kind = "credit" /\ Credit(n).n = n
                      /\ Write(n) \in BrokerMessages /\ Write(n).kind = "write" /\ Write(n).n = n
    /\ WriteEnd \in BrokerMessages /\ WriteEnd.kind = "writeEnd"
    /\ WriteAbort \in BrokerMessages /\ WriteAbort.kind = "writeAbort"
<1>1. \A n \in Nat : /\ Credit(n) \in BrokerMessages /\ Credit(n).kind = "credit" /\ Credit(n).n = n
                     /\ Write(n) \in BrokerMessages /\ Write(n).kind = "write" /\ Write(n).n = n
  BY DEF BrokerMessages, Credit, Write
<1>2. /\ WriteEnd \in BrokerMessages /\ WriteEnd.kind = "writeEnd"
      /\ WriteAbort \in BrokerMessages /\ WriteAbort.kind = "writeAbort"
  BY DEF BrokerMessages, WriteEnd, WriteAbort
<1>3. ASSUME NEW m \in BrokerMessages
      PROVE  \/ \E n \in Nat : m = Credit(n)
             \/ \E n \in Nat : m = Write(n)
             \/ m = WriteEnd \/ m = WriteAbort
  BY DEF BrokerMessages
<1>4. ASSUME NEW m \in BrokerMessages, m.kind \in {"credit", "write"} PROVE m.n \in Nat
  BY <1>1, <1>2, <1>3, <1>4
<1>5. Counted(BrokerMessages, "credit") /\ Counted(BrokerMessages, "write")
  BY <1>4 DEF Counted, Amount
<1> QED
  BY <1>1, <1>2, <1>4, <1>5

\* What the queues carry is a number.
LEMMA CarriedType ==
    ASSUME Shape
    PROVE  DataOut \in Nat /\ AcksOut \in Nat /\ CreditIn \in Nat /\ WritesIn \in Nat /\ Unread \in Nat
<1>1. toPage \in Seq(PageMessages) /\ toBroker \in Seq(BrokerMessages) /\ socket.incoming \in Seq(Nat)
  BY DEF Shape, Sockets
<1> QED
  BY <1>1, AmountsType, UnitsFacts, PageMessageFacts, BrokerMessageFacts
  DEF DataOut, AcksOut, CreditIn, WritesIn, Unread

\* Messages that tell of an end or of a failure, other than a clean end and a refusal
\* of the window.
Notices == {End(c) : c \in Codes} \cup {Failed(c) : c \in Codes \ {"limit"}}

\* Nothing but notices is put on the page's queue.
QuietPage ==
    /\ toPage' \in Seq(PageMessages)
    /\ ends # {} => toPage' = toPage
    /\ DataOut' = DataOut /\ AcksOut' = AcksOut
    /\ EndPosted' => EndPosted
    /\ NothingAfterEnd => NothingAfterEnd'
    /\ NoAcks => NoAcks'
    /\ EmptyAcks => EmptyAcks'
    /\ AcksInOrder => AcksInOrder'
    /\ NoFalseLimit => NoFalseLimit'

LEMMA PageQueueKept ==
    ASSUME Shape, toPage' = toPage
    PROVE  QuietPage /\ (FailurePosted' <=> FailurePosted) /\ (NoAcks' <=> NoAcks)
<1>1. toPage' \in Seq(PageMessages)
  BY DEF Shape
<1> QED
  BY <1>1 DEF QuietPage, DataOut, AcksOut, EndPosted, NothingAfterEnd, NoAcks, EmptyAcks, AcksInOrder,
         NoFalseLimit, FailurePosted

LEMMA PageQueueEmpty ==
    ASSUME toPage' = <<>>
    PROVE  /\ toPage' \in Seq(PageMessages) /\ DataOut' = 0 /\ AcksOut' = 0
           /\ ~EndPosted' /\ NothingAfterEnd' /\ ~FailurePosted'
           /\ NoAcks' /\ EmptyAcks' /\ AcksInOrder' /\ NoFalseLimit'
<1>1. toPage' \in Seq(PageMessages) /\ DOMAIN (toPage') = {} /\ Len(toPage') = 0
  OBVIOUS
<1>2. DataOut' = 0 /\ AcksOut' = 0
  BY CarriedSmall, PageMessageFacts DEF DataOut, AcksOut
<1> QED
  BY <1>1, <1>2 DEF EndPosted, NothingAfterEnd, NoAcks, EmptyAcks, AcksInOrder, NoFalseLimit, FailurePosted

\* Messages go to the end of the queue.
LEMMA Posts ==
    ASSUME Shape, NEW t \in Seq(PageMessages), toPage' = toPage \o t
    PROVE  /\ toPage' \in Seq(PageMessages)
           /\ DataOut' = DataOut + Carried(t, "data") /\ AcksOut' = AcksOut + Carried(t, "ack")
           /\ DOMAIN toPage = 1 .. Len(toPage) /\ Len(toPage) \in Nat /\ Len(t) \in Nat
           /\ Len(toPage') = Len(toPage) + Len(t) /\ DOMAIN (toPage') = 1 .. Len(toPage) + Len(t)
           /\ \A i \in DOMAIN (toPage') :
                \/ i \in DOMAIN toPage /\ toPage'[i] = toPage[i]
                \/ i > Len(toPage) /\ i - Len(toPage) \in 1 .. Len(t) /\ toPage'[i] = t[i - Len(toPage)]
<1>1. toPage \in Seq(PageMessages)
  BY DEF Shape
<1>2. /\ toPage' \in Seq(PageMessages) /\ Len(toPage') = Len(toPage) + Len(t)
      /\ \A i \in 1 .. Len(toPage) + Len(t) : toPage'[i] = IF i <= Len(toPage) THEN toPage[i] ELSE t[i - Len(toPage)]
  BY <1>1, ConcatProperties
<1>3. DOMAIN toPage = 1 .. Len(toPage) /\ Len(toPage) \in Nat /\ Len(t) \in Nat
      /\ DOMAIN (toPage') = 1 .. Len(toPage) + Len(t)
  BY <1>1, <1>2, LenProperties
<1>4. DataOut' = DataOut + Carried(t, "data") /\ AcksOut' = AcksOut + Carried(t, "ack")
  BY <1>1, CarriedConcat, PageMessageFacts DEF DataOut, AcksOut
<1>5. ASSUME NEW i \in DOMAIN (toPage')
      PROVE  \/ i \in DOMAIN toPage /\ toPage'[i] = toPage[i]
             \/ i > Len(toPage) /\ i - Len(toPage) \in 1 .. Len(t) /\ toPage'[i] = t[i - Len(toPage)]
  <2>1. CASE i <= Len(toPage)
    BY <1>2, <1>3, <2>1
  <2>2. CASE ~(i <= Len(toPage))
    BY <1>2, <1>3, <2>2
  <2> QED BY <2>1, <2>2
<1> QED
  BY <1>2, <1>3, <1>4, <1>5

LEMMA PostsNotices ==
    ASSUME Shape, NEW t \in Seq(PageMessages), ends = {} => t \in Seq(Notices),
           toPage' = PostedToPage(t)
    PROVE  /\ QuietPage
           /\ FailurePosted' => FailurePosted \/ \E i \in DOMAIN t : t[i].kind = "failed"
<1>1. CASE ends # {}
  BY <1>1, PageQueueKept DEF PostedToPage
<1>2. CASE ends = {}
  <2>1. toPage' = toPage \o t /\ t \in Seq(Notices)
    BY <1>2 DEF PostedToPage
  <2>2. /\ toPage' \in Seq(PageMessages)
        /\ DataOut' = DataOut + Carried(t, "data") /\ AcksOut' = AcksOut + Carried(t, "ack")
        /\ Len(toPage') = Len(toPage) + Len(t) /\ DOMAIN (toPage') = 1 .. Len(toPage')
    BY <2>1, Posts
  <2>3. \A m \in Notices : m.kind \in {"end", "failed"} /\ m # End("clean") /\ m # Failed("limit")
    <3>1. \A c \in Codes : End(c).kind = "end" /\ End(c).code = c /\ c # "clean" /\ End("clean").code = "clean"
      BY PageMessageFacts DEF Codes
    <3>2. \A c \in Codes : Failed(c).kind = "failed" /\ Failed(c).code = c
      BY PageMessageFacts
    <3>3. Failed("limit").kind = "failed" /\ Failed("limit").code = "limit" /\ End("clean").kind = "end"
      BY PageMessageFacts DEF Codes
    <3> QED BY <3>1, <3>2, <3>3 DEF Notices
  <2>4. \A i \in DOMAIN (toPage') :
          \/ i \in DOMAIN toPage /\ toPage'[i] = toPage[i]
          \/ /\ i - Len(toPage) \in DOMAIN t /\ toPage'[i] = t[i - Len(toPage)]
             /\ toPage'[i] \in Notices
    BY <2>1, Posts
  <2>5. Carried(t, "data") = 0 /\ Carried(t, "ack") = 0
    <3>1. \A i \in DOMAIN t : t[i].kind # "data" /\ t[i].kind # "ack"
      BY <2>1, <2>3
    <3> QED BY <3>1, CarriedNone, PageMessageFacts
  <2>6. DataOut' = DataOut /\ AcksOut' = AcksOut
    BY <2>2, <2>5, CarriedType
  <2>7. (EndPosted' => EndPosted) /\ (NothingAfterEnd => NothingAfterEnd')
    BY <2>3, <2>4 DEF EndPosted, NothingAfterEnd
  <2>8. (NoAcks => NoAcks') /\ (EmptyAcks => EmptyAcks') /\ (AcksInOrder => AcksInOrder')
    BY <2>3, <2>4 DEF NoAcks, EmptyAcks, AcksInOrder
  <2>9. NoFalseLimit => NoFalseLimit'
    <3>1. DOMAIN toPage = 1 .. Len(toPage)
      BY <2>1, Posts
    <3> QED BY <2>2, <2>3, <2>4, <3>1 DEF NoFalseLimit
  <2>10. FailurePosted' => FailurePosted \/ \E i \in DOMAIN t : t[i].kind = "failed"
    BY <2>4 DEF FailurePosted
  <2> QED BY <1>2, <2>2, <2>6, <2>7, <2>8, <2>9, <2>10 DEF QuietPage
<1> QED
  BY <1>1, <1>2

\* An acknowledgement.
LEMMA PostsAck ==
    ASSUME Shape, NEW n \in Nat, toPage' = PostedToPage(<<Ack(n)>>)
    PROVE  /\ toPage' \in Seq(PageMessages)
           /\ ends # {} => toPage' = toPage
           /\ DataOut' = DataOut /\ AcksOut' = AcksOut + (IF ends = {} THEN n ELSE 0)
           /\ EndPosted' => EndPosted
           /\ NothingAfterEnd => NothingAfterEnd'
           /\ EmptyAcks /\ n = 0 => EmptyAcks'
           /\ AcksInOrder /\ (n > 0 \/ NoAcks) => AcksInOrder'
           /\ NoFalseLimit => NoFalseLimit'
           /\ FailurePosted' => FailurePosted
<1>1. CASE ends # {}
  <2>1. toPage' = toPage
    BY <1>1 DEF PostedToPage
  <2> QED BY <1>1, <2>1, PageQueueKept, CarriedType DEF QuietPage
<1>2. CASE ends = {}
  <2> DEFINE t == <<Ack(n)>>
  <2>1. /\ Ack(n) \in PageMessages /\ Ack(n).kind = "ack" /\ Ack(n).n = n
        /\ Ack(n) # End("clean") /\ Ack(n) # Failed("limit")
    <3>1. Ack(n) \in PageMessages /\ Ack(n).kind = "ack" /\ Ack(n).n = n
      BY PageMessageFacts
    <3>2. End("clean").kind = "end" /\ Failed("limit").kind = "failed"
      BY PageMessageFacts DEF Codes
    <3> QED BY <3>1, <3>2
  <2>2. t \in Seq(PageMessages) /\ Len(t) = 1 /\ t[1] = Ack(n) /\ toPage' = toPage \o t
    BY <1>2, <2>1 DEF PostedToPage
  <2>3. Carried(t, "data") = 0 /\ Carried(t, "ack") = n
    BY <2>1, CarriedSmall, PageMessageFacts DEF Amount
  <2> HIDE DEF t
  <2>4. /\ toPage' \in Seq(PageMessages)
        /\ DataOut' = DataOut + Carried(t, "data") /\ AcksOut' = AcksOut + Carried(t, "ack")
        /\ DOMAIN toPage = 1 .. Len(toPage) /\ Len(toPage) \in Nat
        /\ Len(toPage') = Len(toPage) + 1 /\ DOMAIN (toPage') = 1 .. Len(toPage) + 1
    BY <2>2, Posts
  <2>5. \A i \in DOMAIN (toPage') : \/ i \in DOMAIN toPage /\ toPage'[i] = toPage[i]
                                    \/ i = Len(toPage) + 1 /\ toPage'[i] = Ack(n)
    <3> SUFFICES ASSUME NEW i \in DOMAIN (toPage'), ~(i \in DOMAIN toPage /\ toPage'[i] = toPage[i])
                 PROVE  i = Len(toPage) + 1 /\ toPage'[i] = Ack(n)
      OBVIOUS
    <3>1. i > Len(toPage) /\ i - Len(toPage) \in 1 .. Len(t) /\ toPage'[i] = t[i - Len(toPage)]
      BY <2>2, Posts
    <3>2. i - Len(toPage) = 1
      BY <2>2, <3>1
    <3> QED BY <2>2, <2>4, <3>1, <3>2
  <2>6. DataOut' = DataOut /\ AcksOut' = AcksOut + n
    BY <2>3, <2>4, CarriedType
  <2>7. (EndPosted' => EndPosted) /\ (NothingAfterEnd => NothingAfterEnd') /\ (FailurePosted' => FailurePosted)
    BY <2>1, <2>5 DEF EndPosted, NothingAfterEnd, FailurePosted
  <2>8. EmptyAcks /\ n = 0 => EmptyAcks'
    BY <2>1, <2>5 DEF EmptyAcks
  <2>9. AcksInOrder /\ (n > 0 \/ NoAcks) => AcksInOrder'
    <3> SUFFICES ASSUME AcksInOrder, n > 0 \/ NoAcks, NEW i \in DOMAIN (toPage'), NEW j \in DOMAIN (toPage'),
                        i < j, toPage'[i].kind = "ack", toPage'[j].kind = "ack"
                 PROVE  toPage'[j].n > 0
      BY DEF AcksInOrder
    <3>1. i # Len(toPage) + 1
      BY <2>4
    <3>2. i \in DOMAIN toPage /\ toPage'[i] = toPage[i]
      BY <2>5, <3>1
    <3>3. n > 0
      BY <3>2 DEF NoAcks
    <3>4. CASE j \in DOMAIN toPage /\ toPage'[j] = toPage[j]
      BY <3>2, <3>4 DEF AcksInOrder
    <3>5. CASE toPage'[j] = Ack(n)
      BY <2>1, <3>3, <3>5
    <3> QED BY <2>5, <3>4, <3>5
  <2>10. NoFalseLimit => NoFalseLimit'
    BY <2>1, <2>4, <2>5 DEF NoFalseLimit
  <2> QED BY <1>2, <2>4, <2>6, <2>7, <2>8, <2>9, <2>10
<1> QED
  BY <1>1, <1>2

\* A chunk.
LEMMA PostsData ==
    ASSUME Shape, NEW n \in Nat, toPage' = toPage \o <<Data(n)>>
    PROVE  /\ toPage' \in Seq(PageMessages)
           /\ DataOut' = DataOut + n /\ AcksOut' = AcksOut
           /\ EndPosted' => EndPosted
           /\ ~EndPosted => NothingAfterEnd'
           /\ FailurePosted' => FailurePosted
           /\ NoAcks => NoAcks'
           /\ EmptyAcks => EmptyAcks'
           /\ AcksInOrder => AcksInOrder'
           /\ NoFalseLimit => NoFalseLimit'
<1> DEFINE t == <<Data(n)>>
<1>1. /\ Data(n) \in PageMessages /\ Data(n).kind = "data" /\ Data(n).n = n
      /\ Data(n) # End("clean") /\ Data(n) # Failed("limit")
  <2>1. Data(n) \in PageMessages /\ Data(n).kind = "data" /\ Data(n).n = n
    BY PageMessageFacts
  <2>2. End("clean").kind = "end" /\ Failed("limit").kind = "failed"
    BY PageMessageFacts DEF Codes
  <2> QED BY <2>1, <2>2
<1>2. t \in Seq(PageMessages) /\ Len(t) = 1 /\ t[1] = Data(n) /\ toPage' = toPage \o t
  BY <1>1
<1>3. Carried(t, "data") = n /\ Carried(t, "ack") = 0
  BY <1>1, CarriedSmall, PageMessageFacts DEF Amount
<1> HIDE DEF t
<1>4. /\ toPage' \in Seq(PageMessages)
      /\ DataOut' = DataOut + Carried(t, "data") /\ AcksOut' = AcksOut + Carried(t, "ack")
      /\ DOMAIN toPage = 1 .. Len(toPage) /\ Len(toPage) \in Nat
      /\ Len(toPage') = Len(toPage) + 1 /\ DOMAIN (toPage') = 1 .. Len(toPage) + 1
  BY <1>2, Posts
<1>5. \A i \in DOMAIN (toPage') : \/ i \in DOMAIN toPage /\ toPage'[i] = toPage[i]
                                  \/ toPage'[i] = Data(n)
  <2> SUFFICES ASSUME NEW i \in DOMAIN (toPage'), ~(i \in DOMAIN toPage /\ toPage'[i] = toPage[i])
               PROVE  toPage'[i] = Data(n)
    OBVIOUS
  <2>1. i - Len(toPage) \in 1 .. Len(t) /\ toPage'[i] = t[i - Len(toPage)]
    BY <1>2, Posts
  <2>2. i - Len(toPage) = 1
    BY <1>2, <2>1
  <2> QED BY <1>2, <2>1, <2>2
<1>6. DataOut' = DataOut + n /\ AcksOut' = AcksOut
  BY <1>3, <1>4, CarriedType
<1>7. (EndPosted' => EndPosted) /\ (FailurePosted' => FailurePosted)
  BY <1>1, <1>5 DEF EndPosted, FailurePosted
<1>8. ~EndPosted => NothingAfterEnd'
  BY <1>7 DEF EndPosted, NothingAfterEnd
<1>9. (NoAcks => NoAcks') /\ (EmptyAcks => EmptyAcks') /\ (AcksInOrder => AcksInOrder')
  BY <1>1, <1>5 DEF NoAcks, EmptyAcks, AcksInOrder
<1>10. NoFalseLimit => NoFalseLimit'
  BY <1>1, <1>4, <1>5 DEF NoFalseLimit
<1> QED
  BY <1>4, <1>6, <1>7, <1>8, <1>9, <1>10

\* The end the peer meant.
LEMMA PostsCleanEnd ==
    ASSUME Shape, toPage' = PostedToPage(<<End("clean")>>)
    PROVE  /\ toPage' \in Seq(PageMessages)
           /\ ends # {} => toPage' = toPage
           /\ DataOut' = DataOut /\ AcksOut' = AcksOut
           /\ NothingAfterEnd => NothingAfterEnd'
           /\ FailurePosted' => FailurePosted
           /\ NoAcks => NoAcks'
           /\ EmptyAcks => EmptyAcks'
           /\ AcksInOrder => AcksInOrder'
           /\ NoFalseLimit => NoFalseLimit'
<1>1. CASE ends # {}
  <2>1. toPage' = toPage
    BY <1>1 DEF PostedToPage
  <2> QED BY <2>1, PageQueueKept DEF QuietPage
<1>2. CASE ends = {}
  <2> DEFINE t == <<End("clean")>>
  <2>1. /\ End("clean") \in PageMessages /\ End("clean").kind = "end" /\ End("clean") # Failed("limit")
    <3>1. End("clean") \in PageMessages /\ End("clean").kind = "end"
      BY PageMessageFacts
    <3>2. Failed("limit").kind = "failed"
      BY PageMessageFacts DEF Codes
    <3> QED BY <3>1, <3>2
  <2>2. t \in Seq(PageMessages) /\ Len(t) = 1 /\ t[1] = End("clean") /\ toPage' = toPage \o t
    BY <1>2, <2>1 DEF PostedToPage
  <2>3. Carried(t, "data") = 0 /\ Carried(t, "ack") = 0
    BY <2>1, CarriedSmall, PageMessageFacts DEF Amount
  <2> HIDE DEF t
  <2>4. /\ toPage' \in Seq(PageMessages)
        /\ DataOut' = DataOut + Carried(t, "data") /\ AcksOut' = AcksOut + Carried(t, "ack")
        /\ DOMAIN toPage = 1 .. Len(toPage) /\ Len(toPage) \in Nat
        /\ Len(toPage') = Len(toPage) + 1 /\ DOMAIN (toPage') = 1 .. Len(toPage) + 1
    BY <2>2, Posts
  <2>5. \A i \in DOMAIN (toPage') : \/ i \in DOMAIN toPage /\ toPage'[i] = toPage[i]
                                    \/ i = Len(toPage) + 1 /\ toPage'[i] = End("clean")
    <3> SUFFICES ASSUME NEW i \in DOMAIN (toPage'), ~(i \in DOMAIN toPage /\ toPage'[i] = toPage[i])
                 PROVE  i = Len(toPage) + 1 /\ toPage'[i] = End("clean")
      OBVIOUS
    <3>1. i - Len(toPage) \in 1 .. Len(t) /\ toPage'[i] = t[i - Len(toPage)]
      BY <2>2, Posts
    <3>2. i - Len(toPage) = 1 /\ i \in Nat /\ Len(toPage) \in Nat
      BY <2>2, <2>4, <3>1
    <3>3. i = Len(toPage) + 1
      BY <3>2
    <3>4. toPage'[i] = t[1] /\ t[1] = End("clean")
      BY <2>2, <3>1, <3>2
    <3> QED BY <3>3, <3>4
  <2>6. DataOut' = DataOut /\ AcksOut' = AcksOut
    BY <2>3, <2>4, CarriedType
  <2>7. NothingAfterEnd => NothingAfterEnd'
    <3> SUFFICES ASSUME NothingAfterEnd, NEW i \in DOMAIN (toPage'), NEW j \in DOMAIN (toPage'),
                        toPage'[i] = End("clean"), i < j
                 PROVE  toPage'[j].kind # "data"
      BY DEF NothingAfterEnd
    <3>1. i \in DOMAIN toPage /\ toPage'[i] = toPage[i]
      BY <2>4, <2>5
    <3> QED BY <2>1, <2>5, <3>1 DEF NothingAfterEnd
  <2>8. FailurePosted' => FailurePosted
    BY <2>1, <2>5 DEF FailurePosted
  <2>9. (NoAcks => NoAcks') /\ (EmptyAcks => EmptyAcks') /\ (AcksInOrder => AcksInOrder')
    BY <2>1, <2>5 DEF NoAcks, EmptyAcks, AcksInOrder
  <2>10. NoFalseLimit => NoFalseLimit'
    BY <2>1, <2>4, <2>5 DEF NoFalseLimit
  <2> QED BY <1>2, <2>4, <2>6, <2>7, <2>8, <2>9, <2>10
<1> QED
  BY <1>1, <1>2

\* The page takes the oldest message.
LEMMA Takes ==
    ASSUME Shape, toPage # <<>>, toPage' = Tail(toPage), NEW m, m = Head(toPage)
    PROVE  /\ m \in PageMessages /\ toPage' \in Seq(PageMessages)
           /\ m.kind = "data" => m.n \in Nat /\ DataOut = m.n + DataOut' /\ AcksOut' = AcksOut
           /\ m.kind = "ack" => /\ m.n \in Nat /\ DataOut' = DataOut /\ AcksOut = m.n + AcksOut'
                                /\ ~NoAcks /\ (EmptyAcks => m.n = 0)
                                /\ AcksInOrder => NoAcks' \/ AcksOut' > 0
           /\ m.kind \in {"end", "failed"} => DataOut' = DataOut /\ AcksOut' = AcksOut
           /\ m = End("clean") => EndPosted /\ (NothingAfterEnd => DataOut' = 0)
           /\ m.kind = "failed" => FailurePosted
           /\ EndPosted' => EndPosted
           /\ NothingAfterEnd => NothingAfterEnd'
           /\ FailurePosted' => FailurePosted
           /\ NoAcks => NoAcks'
           /\ EmptyAcks => EmptyAcks'
           /\ AcksInOrder => AcksInOrder'
           /\ NoFalseLimit => NoFalseLimit'
           /\ DataOut' \in Nat /\ AcksOut' \in Nat
<1>1. toPage \in Seq(PageMessages) /\ Counted(PageMessages, "data") /\ Counted(PageMessages, "ack")
  BY PageMessageFacts DEF Shape
<1>2. /\ m \in PageMessages /\ m = toPage[1] /\ toPage' \in Seq(PageMessages)
      /\ DataOut = Amount(m, "data") + DataOut' /\ AcksOut = Amount(m, "ack") + AcksOut'
  BY <1>1, CarriedTail DEF DataOut, AcksOut
<1>3. DataOut' \in Nat /\ AcksOut' \in Nat
  BY <1>1, <1>2, AmountsType DEF DataOut, AcksOut
<1>4. /\ DOMAIN toPage = 1 .. Len(toPage) /\ Len(toPage) \in Nat \ {0} /\ 1 \in DOMAIN toPage
      /\ Len(toPage') = Len(toPage) - 1 /\ DOMAIN (toPage') = 1 .. Len(toPage')
      /\ \A i \in DOMAIN (toPage') : i + 1 \in DOMAIN toPage /\ toPage'[i] = toPage[i + 1]
  <2>1. Len(toPage) \in Nat /\ Len(toPage) # 0 /\ DOMAIN toPage = 1 .. Len(toPage)
    BY <1>1, EmptySeq
  <2>2. Len(toPage') = Len(toPage) - 1 /\ \A i \in 1 .. Len(toPage) - 1 : toPage'[i] = toPage[i + 1]
    BY <1>1, HeadTailProperties
  <2>3. DOMAIN (toPage') = 1 .. Len(toPage')
    BY <1>2
  <2> QED BY <2>1, <2>2, <2>3
<1>5. /\ m.kind = "data" => m.n \in Nat /\ DataOut = m.n + DataOut' /\ AcksOut' = AcksOut
      /\ m.kind = "ack" => m.n \in Nat /\ DataOut' = DataOut /\ AcksOut = m.n + AcksOut'
      /\ m.kind \in {"end", "failed"} => DataOut' = DataOut /\ AcksOut' = AcksOut
  <2>1. (m.kind = "data" => m.n \in Nat) /\ (m.kind = "ack" => m.n \in Nat)
    BY <1>2, PageMessageFacts
  <2>2. CASE m.kind = "data"
    <3>1. Amount(m, "data") = m.n /\ Amount(m, "ack") = 0
      BY <2>2 DEF Amount
    <3> QED BY <1>2, <1>3, <2>1, <2>2, <3>1
  <2>3. CASE m.kind = "ack"
    <3>1. Amount(m, "data") = 0 /\ Amount(m, "ack") = m.n
      BY <2>3 DEF Amount
    <3> QED BY <1>2, <1>3, <2>1, <2>3, <3>1
  <2>4. CASE m.kind \in {"end", "failed"}
    <3>1. Amount(m, "data") = 0 /\ Amount(m, "ack") = 0
      BY <2>4 DEF Amount
    <3> QED BY <1>2, <1>3, <2>4, <3>1
  <2> QED BY <1>2, <2>2, <2>3, <2>4, PageMessageFacts
<1>6. m.kind = "ack" => ~NoAcks /\ (EmptyAcks => m.n = 0)
  BY <1>2, <1>4 DEF NoAcks, EmptyAcks
<1>7. ASSUME m.kind = "ack", AcksInOrder, ~NoAcks' PROVE AcksOut' > 0
  <2>1. PICK i \in DOMAIN (toPage') : toPage'[i].kind = "ack"
    BY <1>7 DEF NoAcks
  <2>2. 1 < i + 1 /\ i + 1 \in DOMAIN toPage /\ toPage'[i] = toPage[i + 1]
    BY <1>4
  <2>3. toPage'[i].n > 0
    BY <1>2, <1>4, <1>7, <2>1, <2>2 DEF AcksInOrder
  <2>4. toPage'[i].n <= AcksOut'
    BY <1>1, <1>2, <2>1, CarriedMember DEF AcksOut
  <2>5. toPage'[i].n \in Nat
    BY <1>2, <2>1, PageMessageFacts
  <2> QED BY <1>3, <2>3, <2>4, <2>5
<1>8. ASSUME m = End("clean") PROVE EndPosted /\ (NothingAfterEnd => DataOut' = 0)
  <2>1. EndPosted
    BY <1>2, <1>4, <1>8 DEF EndPosted
  <2>2. ASSUME NothingAfterEnd PROVE \A i \in DOMAIN (toPage') : toPage'[i].kind # "data"
    <3> TAKE i \in DOMAIN (toPage')
    <3>1. 1 < i + 1 /\ i + 1 \in DOMAIN toPage /\ toPage'[i] = toPage[i + 1]
      BY <1>4
    <3> QED BY <1>2, <1>4, <1>8, <2>2, <3>1 DEF NothingAfterEnd
  <2> QED BY <1>1, <1>2, <2>1, <2>2, CarriedNone DEF DataOut
<1>9. m.kind = "failed" => FailurePosted
  BY <1>2, <1>4 DEF FailurePosted
<1>10. (EndPosted' => EndPosted) /\ (FailurePosted' => FailurePosted)
  BY <1>4 DEF EndPosted, FailurePosted
<1>11. (NoAcks => NoAcks') /\ (EmptyAcks => EmptyAcks')
  BY <1>4 DEF NoAcks, EmptyAcks
<1>12. \A i, j \in DOMAIN (toPage') : i < j => i + 1 < j + 1
  BY <1>4
<1>13. (NothingAfterEnd => NothingAfterEnd') /\ (AcksInOrder => AcksInOrder')
  BY <1>4, <1>12 DEF NothingAfterEnd, AcksInOrder
<1>14. NoFalseLimit => NoFalseLimit'
  BY <1>4 DEF NoFalseLimit
<1> QED
  BY <1>2, <1>3, <1>5, <1>6, <1>7, <1>8, <1>9, <1>10, <1>11, <1>13, <1>14
-----------------------------------------------------------------------------
(* The broker's queue *)

LEMMA BrokerQueueKept ==
    ASSUME Shape, toBroker' = toBroker
    PROVE  /\ toBroker' \in Seq(BrokerMessages) /\ CreditIn' = CreditIn /\ WritesIn' = WritesIn
           /\ NoWrites' <=> NoWrites
           /\ OneWrite' <=> OneWrite
           /\ WriteEndSent' <=> WriteEndSent
           /\ AbortSent' <=> AbortSent
  BY DEF Shape, CreditIn, WritesIn, NoWrites, OneWrite, WriteEndSent, AbortSent

LEMMA BrokerQueueEmpty ==
    ASSUME toBroker' = <<>>
    PROVE  /\ toBroker' \in Seq(BrokerMessages) /\ CreditIn' = 0 /\ WritesIn' = 0
           /\ NoWrites' /\ OneWrite' /\ ~WriteEndSent' /\ ~AbortSent'
<1>1. toBroker' \in Seq(BrokerMessages) /\ DOMAIN (toBroker') = {}
  OBVIOUS
<1>2. CreditIn' = 0 /\ WritesIn' = 0
  BY CarriedSmall, BrokerMessageFacts DEF CreditIn, WritesIn
<1> QED
  BY <1>1, <1>2 DEF NoWrites, OneWrite, WriteEndSent, AbortSent

\* The page posts a message.
LEMMA Sends ==
    ASSUME Shape, NEW m \in BrokerMessages, toBroker' = PostedToBroker(m)
    PROVE  /\ toBroker' \in Seq(BrokerMessages)
           /\ ends # {} => toBroker' = toBroker
           /\ CreditIn' = CreditIn + (IF ends = {} THEN Amount(m, "credit") ELSE 0)
           /\ WritesIn' = WritesIn + (IF ends = {} THEN Amount(m, "write") ELSE 0)
           /\ m.kind # "write" => (NoWrites => NoWrites') /\ (OneWrite => OneWrite')
           /\ NoWrites => OneWrite'
           /\ WriteEndSent' => WriteEndSent \/ m.kind = "writeEnd"
           /\ AbortSent' => AbortSent \/ m.kind = "writeAbort"
<1>1. toBroker \in Seq(BrokerMessages) /\ Counted(BrokerMessages, "credit") /\ Counted(BrokerMessages, "write")
  BY BrokerMessageFacts DEF Shape
<1>2. CASE ends # {}
  <2>1. toBroker' = toBroker
    BY <1>2 DEF PostedToBroker
  <2>2. NoWrites => OneWrite
    BY DEF NoWrites, OneWrite
  <2> QED BY <1>2, <2>1, <2>2, BrokerQueueKept, CarriedType
<1>3. CASE ends = {}
  <2>1. toBroker' = Append(toBroker, m)
    BY <1>3 DEF PostedToBroker
  <2>2. /\ toBroker' \in Seq(BrokerMessages) /\ toBroker' = toBroker \o <<m>> /\ <<m>> \in Seq(BrokerMessages)
        /\ Len(toBroker') = Len(toBroker) + 1
        /\ \A i \in DOMAIN (toBroker') : \/ i \in DOMAIN toBroker /\ toBroker'[i] = toBroker[i]
                                         \/ i = Len(toBroker) + 1 /\ toBroker'[i] = m
    <3>1. toBroker' \in Seq(BrokerMessages) /\ toBroker' = toBroker \o <<m>> /\ <<m>> \in Seq(BrokerMessages)
      BY <1>1, <2>1, AppendIsConcat
    <3>2. /\ Len(toBroker') = Len(toBroker) + 1
          /\ \A i \in 1 .. Len(toBroker) : toBroker'[i] = toBroker[i]
          /\ toBroker'[Len(toBroker) + 1] = m
      BY <1>1, <2>1, AppendProperties
    <3>3. DOMAIN toBroker = 1 .. Len(toBroker) /\ DOMAIN (toBroker') = 1 .. Len(toBroker) + 1 /\ Len(toBroker) \in Nat
      BY <1>1, <3>1, <3>2
    <3> QED BY <3>1, <3>2, <3>3
  <2>3. CreditIn' = CreditIn + Amount(m, "credit") /\ WritesIn' = WritesIn + Amount(m, "write")
    <3>1. /\ CreditIn' = CreditIn + Carried(<<m>>, "credit") /\ WritesIn' = WritesIn + Carried(<<m>>, "write")
      BY <1>1, <2>2, CarriedConcat DEF CreditIn, WritesIn
    <3>2. Carried(<<m>>, "credit") = Amount(m, "credit") /\ Carried(<<m>>, "write") = Amount(m, "write")
      BY <1>1, CarriedSmall
    <3> QED BY <3>1, <3>2
  <2>4. m.kind # "write" => (NoWrites => NoWrites') /\ (OneWrite => OneWrite')
    BY <2>2 DEF NoWrites, OneWrite
  <2>5. NoWrites => OneWrite'
    BY <2>2 DEF NoWrites, OneWrite
  <2>6. (WriteEndSent' => WriteEndSent \/ m.kind = "writeEnd") /\ (AbortSent' => AbortSent \/ m.kind = "writeAbort")
    BY <2>2 DEF WriteEndSent, AbortSent
  <2> QED BY <1>3, <2>2, <2>3, <2>4, <2>5, <2>6
<1> QED
  BY <1>2, <1>3

\* The broker takes the oldest message.
LEMMA Receives ==
    ASSUME Shape, toBroker # <<>>, toBroker' = Tail(toBroker), NEW m, m = Head(toBroker)
    PROVE  /\ m \in BrokerMessages /\ toBroker' \in Seq(BrokerMessages)
           /\ CreditIn = Amount(m, "credit") + CreditIn' /\ WritesIn = Amount(m, "write") + WritesIn'
           /\ Amount(m, "credit") \in Nat /\ Amount(m, "write") \in Nat
           /\ CreditIn' \in Nat /\ WritesIn' \in Nat
           /\ NoWrites => NoWrites'
           /\ OneWrite => OneWrite'
           /\ m.kind = "write" => ~NoWrites /\ (OneWrite => NoWrites')
           /\ m.kind = "writeEnd" => WriteEndSent
           /\ m.kind = "writeAbort" => AbortSent
           /\ WriteEndSent' => WriteEndSent
           /\ AbortSent' => AbortSent
<1>1. toBroker \in Seq(BrokerMessages) /\ Counted(BrokerMessages, "credit") /\ Counted(BrokerMessages, "write")
  BY BrokerMessageFacts DEF Shape
<1>2. /\ m \in BrokerMessages /\ m = toBroker[1] /\ toBroker' \in Seq(BrokerMessages)
      /\ CreditIn = Amount(m, "credit") + CreditIn' /\ WritesIn = Amount(m, "write") + WritesIn'
  BY <1>1, CarriedTail DEF CreditIn, WritesIn
<1>3. CreditIn' \in Nat /\ WritesIn' \in Nat /\ Amount(m, "credit") \in Nat /\ Amount(m, "write") \in Nat
  BY <1>1, <1>2, AmountsType DEF CreditIn, WritesIn, Counted
<1>4. /\ 1 \in DOMAIN toBroker
      /\ \A i \in DOMAIN (toBroker') : i + 1 \in DOMAIN toBroker /\ i + 1 # 1 /\ toBroker'[i] = toBroker[i + 1]
      /\ \A i, j \in DOMAIN (toBroker') : i + 1 = j + 1 => i = j
  <2>1. Len(toBroker) \in Nat /\ Len(toBroker) # 0 /\ DOMAIN toBroker = 1 .. Len(toBroker)
    BY <1>1, EmptySeq
  <2>2. Len(toBroker') = Len(toBroker) - 1 /\ \A i \in 1 .. Len(toBroker) - 1 : toBroker'[i] = toBroker[i + 1]
    BY <1>1, HeadTailProperties
  <2>3. DOMAIN (toBroker') = 1 .. Len(toBroker')
    BY <1>2
  <2> QED BY <2>1, <2>2, <2>3
<1>5. /\ m.kind = "write" => ~NoWrites
      /\ m.kind = "writeEnd" => WriteEndSent
      /\ m.kind = "writeAbort" => AbortSent
  BY <1>2, <1>4 DEF NoWrites, WriteEndSent, AbortSent
<1>6. /\ NoWrites => NoWrites'
      /\ WriteEndSent' => WriteEndSent
      /\ AbortSent' => AbortSent
  BY <1>4 DEF NoWrites, WriteEndSent, AbortSent
<1>7. /\ OneWrite => OneWrite'
      /\ m.kind = "write" /\ OneWrite => NoWrites'
  BY <1>2, <1>4 DEF OneWrite, NoWrites
<1> QED
  BY <1>2, <1>3, <1>5, <1>6, <1>7
-----------------------------------------------------------------------------
(* The end of the relay *)

\* What Stop leaves, whoever calls it.
StopDone ==
    /\ pump' \in Pumps /\ pump'.stopped /\ (pump.endSent => pump'.endSent)
    /\ sink' \in Sinks /\ sink'.stopped /\ sink'.writes = sink.writes /\ sink'.unacked = sink.unacked
    /\ (sink'.ending <=> sink.ending) /\ (sink'.ended <=> sink.ended)
    /\ relay' \in Relays /\ ~relay'.registered /\ (relay'.readEnded <=> relay.readEnded)
    /\ (relay'.writeEnded <=> relay.writeEnded)
    /\ ends' = ends \cup {"broker"} /\ toBroker' = <<>>
    /\ toPage' \in Seq(PageMessages) /\ (ends # {} => toPage' = toPage)
    /\ DataOut' = DataOut /\ AcksOut' = AcksOut
    /\ NoCalls /\ EndPosted' => EndPosted
    /\ NothingAfterEnd => NothingAfterEnd'
    /\ AcksInOrder => AcksInOrder'
    /\ NoFalseLimit => NoFalseLimit'

\* What ending a socket s, cancelling its reader or destroying it does not change: t is
\* the socket after it.
SameReading(s, t) ==
    /\ t \in Sockets
    /\ t.sent = s.sent /\ t.theirs = s.theirs /\ (t.reset <=> s.reset)
    /\ t.alive => s.alive
    /\ s.readable = "closed" /\ s.incoming = <<>> => t.readable = "closed" /\ t.incoming = <<>>
    /\ t.readable \in {"open", "closed"} => s.readable \in {"open", "closed"} /\ t.incoming = s.incoming
    /\ t.readable # "open" => s.readable # "open" \/ ~t.alive

Shut(s, t) ==
    /\ SameReading(s, t)
    /\ t.taken = s.taken /\ t.received = s.received /\ t.outgoing \in {0, s.outgoing}

\* A close() that was asked for stays asked for, one that is done stays done.
QuietCalls ==
    /\ calls' \in [Closes -> {"none", "asked", "waiting", "answered", "done"}]
    /\ NoCalls' => NoCalls
    /\ (\E c \in Closes : calls[c] = "done") => \E c \in Closes : calls'[c] = "done"

LEMMA CallsKept ==
    ASSUME Shape, calls' = calls
    PROVE  QuietCalls
  BY DEF Shape, QuietCalls, NoCalls

LEMMA SequencesOfNotices ==
    /\ <<>> \in Seq(Notices) /\ Seq(Notices) \subseteq Seq(PageMessages)
    /\ \A s, t \in Seq(Notices) : s \o t \in Seq(Notices)
    /\ \A c \in Codes : <<End(c)>> \in Seq(Notices)
    /\ \A c \in Codes \ {"limit"} : <<Failed(c)>> \in Seq(Notices)
    /\ <<>> \in Seq(PageMessages)
    /\ \A s, t \in Seq(PageMessages) : s \o t \in Seq(PageMessages)
<1>1. Notices \subseteq PageMessages
  BY DEF Notices, PageMessages
<1>2. \A c \in Codes : End(c) \in Notices
  BY DEF Notices
<1>3. \A c \in Codes \ {"limit"} : Failed(c) \in Notices
  BY DEF Notices
<1>4. \A s, t \in Seq(Notices) : s \o t \in Seq(Notices)
  BY ConcatProperties
<1>5. \A s, t \in Seq(PageMessages) : s \o t \in Seq(PageMessages)
  BY ConcatProperties
<1>6. \A m \in Notices : <<m>> \in Seq(Notices)
  OBVIOUS
<1>7. Seq(Notices) \subseteq Seq(PageMessages)
  BY <1>1
<1>8. <<>> \in Seq(Notices) /\ <<>> \in Seq(PageMessages)
  OBVIOUS
<1>9. \A c \in Codes : <<End(c)>> \in Seq(Notices)
  BY <1>2, <1>6
<1>10. \A c \in Codes \ {"limit"} : <<Failed(c)>> \in Seq(Notices)
  BY <1>3, <1>6
<1> QED
  BY <1>4, <1>5, <1>7, <1>8, <1>9, <1>10

LEMMA StopLeaves ==
    ASSUME Shape,
           NEW p \in Pumps, pump.stopped => p.stopped, pump.endSent => p.endSent,
           NEW k \in Sinks, k.writes = sink.writes, k.unacked = sink.unacked,
           k.ending <=> sink.ending, k.ended <=> sink.ended,
           NEW posted \in Seq(PageMessages), ends = {} => posted \in Seq(Notices),
           NEW code \in Codes \cup {"clean"},
           ends = {} => code # "limit",
           ends = {} /\ code = "clean" => p.stopped \/ p.endSent \/ (~NoCalls /\ posted = <<>>),
           Stop(p, k, posted, code)
    PROVE  StopDone
<1> DEFINE ended == IF p.stopped \/ p.endSent THEN <<>> ELSE <<End(code)>>
           failed == IF code = "clean" \/ k.stopped \/ k.writes = <<>> THEN <<>> ELSE <<Failed(code)>>
<1>1. /\ pump' = [p EXCEPT !.stopped = TRUE, !.endSent = p.endSent \/ ~p.stopped]
      /\ sink' = [k EXCEPT !.stopped = TRUE]
      /\ relay' = [relay EXCEPT !.registered = FALSE]
      /\ ends' = ends \cup {"broker"} /\ toBroker' = <<>>
      /\ toPage' = PostedToPage(posted \o ended \o failed)
  BY DEF Stop, Pumps
<1>2. pump' \in Pumps /\ pump'.stopped /\ (pump.endSent => pump'.endSent)
  BY <1>1 DEF Pumps
<1>3. /\ sink' \in Sinks /\ sink'.stopped /\ sink'.writes = sink.writes /\ sink'.unacked = sink.unacked
      /\ (sink'.ending <=> sink.ending) /\ (sink'.ended <=> sink.ended)
  BY <1>1 DEF Sinks
<1>4. /\ relay' \in Relays /\ ~relay'.registered /\ (relay'.readEnded <=> relay.readEnded)
      /\ (relay'.writeEnded <=> relay.writeEnded)
  <2>1. relay \in Relays
    BY DEF Shape
  <2> QED BY <1>1, <2>1 DEF Relays
<1>5. CASE ends = {} /\ code = "clean" /\ ~(p.stopped \/ p.endSent)
  <2>1. posted = <<>> /\ ~NoCalls /\ ended = <<End("clean")>> /\ failed = <<>>
    BY <1>5
  <2> HIDE DEF ended, failed
  <2>2. posted \o ended \o failed = <<End("clean")>>
    BY <2>1
  <2>3. toPage' = PostedToPage(<<End("clean")>>)
    BY <1>1, <2>2
  <2>4. /\ toPage' \in Seq(PageMessages) /\ (ends # {} => toPage' = toPage)
        /\ DataOut' = DataOut /\ AcksOut' = AcksOut
        /\ NothingAfterEnd => NothingAfterEnd'
        /\ AcksInOrder => AcksInOrder'
        /\ NoFalseLimit => NoFalseLimit'
    BY <2>3, PostsCleanEnd
  <2> QED BY <1>1, <1>2, <1>3, <1>4, <2>1, <2>4 DEF StopDone
<1>6. CASE ~(ends = {} /\ code = "clean" /\ ~(p.stopped \/ p.endSent))
  <2>1. ended \in Seq(PageMessages) /\ (ends = {} => ended \in Seq(Notices))
    <3>1. CASE p.stopped \/ p.endSent
      BY <3>1, SequencesOfNotices
    <3>2. CASE ~(p.stopped \/ p.endSent)
      <4>1. <<End(code)>> \in Seq(PageMessages)
        BY PageMessageFacts
      <4>2. ends = {} => code \in Codes
        BY <1>6, <3>2
      <4> QED BY <3>2, <4>1, <4>2, SequencesOfNotices
    <3> QED BY <3>1, <3>2
  <2>2. failed \in Seq(PageMessages) /\ (ends = {} => failed \in Seq(Notices))
    <3>1. CASE code = "clean" \/ k.stopped \/ k.writes = <<>>
      BY <3>1, SequencesOfNotices
    <3>2. CASE ~(code = "clean" \/ k.stopped \/ k.writes = <<>>)
      <4>1. code \in Codes
        BY <3>2
      <4>2. <<Failed(code)>> \in Seq(PageMessages)
        BY <4>1, PageMessageFacts
      <4> QED BY <3>2, <4>1, <4>2, SequencesOfNotices
    <3> QED BY <3>1, <3>2
  <2> HIDE DEF ended, failed
  <2>3. posted \o ended \o failed \in Seq(PageMessages) /\ (ends = {} => posted \o ended \o failed \in Seq(Notices))
    BY <2>1, <2>2, SequencesOfNotices
  <2>4. QuietPage
    BY <1>1, <2>3, PostsNotices
  <2> QED BY <1>1, <1>2, <1>3, <1>4, <2>4 DEF StopDone, QuietPage
<1> QED
  BY <1>5, <1>6

\* When the relay stops, only what has reached the page counts.
LEMMA StopKeeps ==
    ASSUME IInv, StopDone, Shut(socket, socket'), QuietCalls, page' = page,
           handle' \in Handles, handle'.state = "live" => handle'.reason = "none"
    PROVE  IInv'
<1>1. /\ toPage' \in Seq(PageMessages) /\ (ends # {} => toPage' = toPage)
      /\ DataOut' = DataOut /\ AcksOut' = AcksOut
      /\ NoCalls /\ EndPosted' => EndPosted
      /\ NothingAfterEnd => NothingAfterEnd'
      /\ AcksInOrder => AcksInOrder'
      /\ NoFalseLimit => NoFalseLimit'
  BY DEF StopDone
<1>2. /\ toBroker' \in Seq(BrokerMessages) /\ CreditIn' = 0 /\ WritesIn' = 0
      /\ NoWrites' /\ OneWrite' /\ ~WriteEndSent' /\ ~AbortSent'
  BY BrokerQueueEmpty DEF StopDone
<1>3. Shape'
  BY <1>1, <1>2 DEF IInv, Shape, StopDone, Shut, SameReading, QuietCalls
<1>4. WindowInv'
  BY DEF IInv, WindowInv, StopDone
<1>5. PartsAgree'
  <2>1. "page" \in ends' => toPage' = <<>> /\ (~page'.here \/ \E c \in Closes : calls'[c] = "done")
    BY <1>1 DEF IInv, PartsAgree, StopDone, QuietCalls
  <2>2. relay'.readEnded => pump'.endSent /\ socket'.readable = "closed" /\ socket'.incoming = <<>>
    BY DEF IInv, PartsAgree, StopDone, Shut, SameReading
  <2>3. socket'.readable # "open" => socket'.theirs = "fin" \/ ~socket'.alive
    BY DEF IInv, PartsAgree, Shut, SameReading
  <2> QED BY <2>1, <2>2, <2>3 DEF IInv, PartsAgree, StopDone
<1>6. CleanInv'
  <2>1. "page" \notin ends' /\ socket'.readable \in {"open", "closed"} =>
          page'.got + DataOut' + Unread' = socket'.sent
    BY <1>1 DEF IInv, CleanInv, StopDone, Shut, SameReading, Unread
  <2>2. AllRead => AllRead'
    BY DEF AllRead, Shut, SameReading
  <2> QED BY <1>1, <2>1, <2>2 DEF IInv, CleanInv, StopDone, QuietCalls
<1>7. WriteInv'
  <2>1. Held' = 0 /\ Held \in Nat /\ AcksOut \in Nat
    <3>1. Held' = 0
      BY DEF Held, StopDone
    <3>2. sink.writes \in Seq(Nat)
      BY DEF IInv, Shape, Sinks
    <3> QED BY <3>1, <3>2, SumTail, CarriedType DEF Held, IInv
  <2>2. page'.accepted + page'.acked + AcksOut' + Held' <= socket'.taken
    <3>1. page.accepted \in Nat /\ page.acked \in Nat /\ socket.taken \in Nat
      BY DEF IInv, Shape, Pages, Sockets
    <3>2. page.accepted + page.acked + AcksOut + Held <= socket.taken
      BY DEF IInv, WriteInv
    <3>3. socket'.taken = socket.taken
      BY DEF Shut, SameReading
    <3>4. \A a, b, c, d, e \in Nat : a + b + c + d <= e => a + b + c + 0 <= e
      OBVIOUS
    <3> QED BY <1>1, <2>1, <3>1, <3>2, <3>3, <3>4
  <2>3. sink'.unacked = Sum(sink'.writes)
    BY DEF IInv, WriteInv, StopDone
  <2>4. NoFalseLimit'
    BY <1>1 DEF IInv, WriteInv
  <2>5. socket'.reset => ~socket'.alive
    BY DEF IInv, WriteInv, Shut, SameReading
  <2>6. sink'.ending \/ WriteEndSent' => ~page'.here \/ (page'.writable = "closed" /\ ~page'.writing)
    BY <1>2 DEF IInv, WriteInv, StopDone
  <2>7. /\ page'.piece <= WriteWindow /\ page'.piece <= page'.left
        /\ ~page'.writing => page'.left = 0 /\ page'.piece = 0 /\ page'.acked = 0
        /\ sink'.ended => sink'.ending
        /\ sink'.stopped
    BY DEF IInv, WriteInv, StopDone
  <2> QED BY <2>2, <2>3, <2>4, <2>5, <2>6, <2>7 DEF WriteInv
<1>8. OnePieceInv'
  <2>1. ~socket'.reset => Len(sink'.writes) <= 1
    BY DEF IInv, OnePieceInv, StopDone, Shut, SameReading
  <2> QED BY <1>1, <2>1 DEF IInv, OnePieceInv, StopDone
<1> QED
  BY <1>3, <1>4, <1>5, <1>6, <1>7, <1>8 DEF IInv

\* A descriptor that is gone is not written to any more.
Sound(s) ==
    /\ s.ours = "fin" => s.outgoing = 0
    /\ s.ours \in {"cut", "rst"} => ~s.alive
    /\ s.ours \in {"open", "ending"} => s.alive

LEMMA ShutTwice ==
    ASSUME NEW s, NEW t, NEW u, Shut(s, t), Shut(t, u)
    PROVE  Shut(s, u)
  BY DEF Shut, SameReading

LEMMA ShutByDestroy ==
    ASSUME NEW s \in Sockets
    PROVE  /\ Shut(s, Destroyed(s)) /\ Shut(s, ResetAndDestroyed(s))
           /\ Sound(s) => /\ Sound(Destroyed(s)) /\ Sound(ResetAndDestroyed(s))
                          /\ Destroyed(s).ours # "open"
                          /\ s.ours # "ending" => Destroyed(s).ours # "ending"
<1>1. CASE ~s.alive
  <2>1. Destroyed(s) = s /\ ResetAndDestroyed(s) = s
    BY <1>1 DEF Destroyed, ResetAndDestroyed
  <2> QED BY <1>1, <2>1 DEF Shut, SameReading, Sound, Sockets
<1>2. CASE s.alive
  <2>1. Destroyed(s) = [s EXCEPT !.alive = FALSE, !.outgoing = 0, !.ours = IF s.ours = "fin" THEN s.ours ELSE "cut",
                          !.readable = IF s.readable = "open" THEN "closed" ELSE s.readable]
    BY <1>2 DEF Destroyed, Sockets
  <2>2. Shut(s, Destroyed(s)) /\ Sound(Destroyed(s)) /\ Destroyed(s).ours \in {"fin", "cut"}
    <3> DEFINE d == Destroyed(s)
    <3>1. d \in Sockets
      <4> DEFINE ours == IF s.ours = "fin" THEN s.ours ELSE "cut"
                 readable == IF s.readable = "open" THEN "closed" ELSE s.readable
      <4>1. ours \in {"open", "ending", "fin", "cut", "rst"} /\ readable \in {"open", "closed", "errored", "cancelled"}
        BY DEF Sockets
      <4>2. d = [s EXCEPT !.alive = FALSE, !.outgoing = 0, !.ours = ours, !.readable = readable]
        BY <2>1
      <4> HIDE DEF ours, readable, d
      <4> QED BY <4>1, <4>2 DEF Sockets
    <3>2. /\ d.sent = s.sent /\ d.taken = s.taken /\ d.received = s.received /\ d.outgoing = 0
          /\ d.theirs = s.theirs /\ d.reset = s.reset /\ d.incoming = s.incoming
          /\ d.readable = IF s.readable = "open" THEN "closed" ELSE s.readable
          /\ d.ours = IF s.ours = "fin" THEN "fin" ELSE "cut"
      BY <2>1 DEF Sockets
    <3>3. ~d.alive
      BY <2>1 DEF Sockets
    <3> HIDE DEF d
    <3>4. Shut(s, d)
      BY <1>2, <3>1, <3>2, <3>3 DEF Shut, SameReading
    <3>5. Sound(d) /\ d.ours \in {"fin", "cut"}
      BY <3>2, <3>3 DEF Sound
    <3> QED BY <3>4, <3>5 DEF d
  <2>3. ResetAndDestroyed(s) = [Destroyed(s) EXCEPT !.ours = "rst"]
    BY <1>2 DEF ResetAndDestroyed
  <2>4. ~Destroyed(s).alive
    BY <2>1 DEF Sockets
  <2>5. Shut(s, ResetAndDestroyed(s)) /\ Sound(ResetAndDestroyed(s))
    BY <2>2, <2>3, <2>4 DEF Shut, SameReading, Sound, Sockets
  <2> QED BY <2>2, <2>5
<1> QED
  BY <1>1, <1>2 DEF Sockets

LEMMA ShutByAbort ==
    ASSUME NEW s \in Sockets
    PROVE  /\ Shut(s, WriterAborted(s))
           /\ Sound(s) => Sound(WriterAborted(s))
           /\ WriterAborted(s).ours = "open" => s.ours = "open"
           /\ s.ours = "fin" => WriterAborted(s).ours = "fin"
<1>1. CASE ~s.alive \/ sink.writes # <<>> \/ sink.ended
  <2>1. WriterAborted(s) = s
    BY <1>1 DEF WriterAborted
  <2> QED BY <2>1 DEF Shut, SameReading, Sockets
<1>2. CASE ~(~s.alive \/ sink.writes # <<>> \/ sink.ended)
  <2> DEFINE d == Destroyed(s)
             readable == IF s.readable = "open" THEN "errored" ELSE d.readable
             incoming == IF s.readable = "open" THEN <<>> ELSE d.incoming
  <2>1. WriterAborted(s) = [d EXCEPT !.readable = readable, !.incoming = incoming]
    BY <1>2 DEF WriterAborted
  <2>2. Shut(s, d) /\ d \in Sockets /\ (Sound(s) => Sound(d))
    BY ShutByDestroy DEF Shut, SameReading
  <2>3. ~d.alive /\ d.ours = IF s.ours = "fin" THEN "fin" ELSE "cut"
    BY <1>2 DEF Destroyed, Sockets
  <2>4. s.readable # "open" => d.readable = s.readable
    BY DEF Destroyed, Sockets
  <2> HIDE DEF d
  <2>5. /\ readable \in {"open", "closed", "errored", "cancelled"} /\ incoming \in Seq(Nat)
        /\ readable # "open"
    BY <2>2, <2>4 DEF Sockets
  <2> HIDE DEF readable, incoming
  <2> DEFINE w == [d EXCEPT !.readable = readable, !.incoming = incoming]
  <2>6. /\ w \in Sockets /\ w.readable = readable /\ w.incoming = incoming
        /\ w.sent = d.sent /\ w.theirs = d.theirs /\ w.reset = d.reset /\ w.alive = d.alive
        /\ w.taken = d.taken /\ w.received = d.received /\ w.outgoing = d.outgoing /\ w.ours = d.ours
    BY <2>2, <2>5 DEF Sockets
  <2> HIDE DEF w
  <2>7. Shut(s, w)
    <3>1. CASE s.readable = "open"
      BY <2>2, <2>3, <2>5, <2>6, <3>1 DEF Shut, SameReading, readable
    <3>2. CASE s.readable # "open"
      <4>1. w.readable = d.readable /\ w.incoming = d.incoming
        BY <2>6, <3>2 DEF readable, incoming
      <4> QED BY <2>2, <2>6, <4>1 DEF Shut, SameReading
    <3> QED BY <3>1, <3>2
  <2>8. Sound(s) => Sound(w)
    BY <2>2, <2>3, <2>6 DEF Sound
  <2> QED BY <2>1, <2>3, <2>6, <2>7, <2>8 DEF w
<1> QED
  BY <1>1, <1>2

LEMMA ShutByEnd ==
    ASSUME NEW s \in Sockets
    PROVE  /\ Shut(s, Ended(s)) /\ Ended(s).outgoing = s.outgoing
           /\ Sound(s) => Sound(Ended(s)) /\ Ended(s).ours # "open"
  BY DEF Ended, Writable, Shut, SameReading, Sound, Sockets

LEMMA ShutByCancel ==
    ASSUME NEW s \in Sockets
    PROVE  /\ Shut(s, ReaderCancelled(s))
           /\ s.readable = "closed" /\ s.incoming = <<>> => ReaderCancelled(s) = s
           /\ Sound(s) => /\ Sound(ReaderCancelled(s))
                          /\ s.ours # "open" => ReaderCancelled(s).ours # "open"
<1>1. CASE pump.stopped \/ s.readable \in {"errored", "cancelled"} \/ (s.readable = "closed" /\ s.incoming = <<>>)
  <2>1. ReaderCancelled(s) = s
    BY <1>1 DEF ReaderCancelled, Cancelled
  <2> QED BY <2>1 DEF Shut, SameReading, Sockets
<1>2. CASE ~(pump.stopped \/ s.readable \in {"errored", "cancelled"} \/ (s.readable = "closed" /\ s.incoming = <<>>))
  <2> DEFINE d == Destroyed(s)
  <2>1. ReaderCancelled(s) = [d EXCEPT !.readable = "cancelled", !.incoming = <<>>]
    BY <1>2 DEF ReaderCancelled, Cancelled
  <2>2. Shut(s, d) /\ (Sound(s) => Sound(d) /\ d.ours # "open")
    BY ShutByDestroy
  <2>3. ~d.alive
    BY DEF Destroyed, Sockets
  <2> HIDE DEF d
  <2>4. Shut(s, ReaderCancelled(s))
    <3>1. d \in Sockets /\ <<>> \in Seq(Nat)
      BY <2>2 DEF Shut, SameReading
    <3> QED BY <1>2, <2>1, <2>2, <2>3, <3>1 DEF Shut, SameReading, Sockets
  <2>5. d \in Sockets
    BY <2>2 DEF Shut, SameReading
  <2> QED BY <1>2, <2>1, <2>2, <2>4, <2>5 DEF Sound, Sockets
<1> QED
  BY <1>1, <1>2
-----------------------------------------------------------------------------
(* The broker at work *)

\* What handling a message, a drain or a rejection leaves, while the relay runs, of
\* the reading side and of the handle.
Worked ==
    /\ "broker" \notin ends /\ ends' = ends /\ page' = page /\ calls' = calls
    /\ pump' \in Pumps /\ pump'.credit = pump.credit
    /\ (pump.stopped => pump'.stopped) /\ (pump.endSent => pump'.endSent)
    /\ sink' \in Sinks
    /\ relay' \in Relays /\ (relay'.registered <=> relay.registered) /\ (relay'.readEnded <=> relay.readEnded)
    /\ handle' \in Handles
    /\ handle'.state = "live" => handle'.reason = "none"
    /\ handle'.state = "gone" => handle.state = "gone"
    /\ handle'.state = "leaving" => handle.state = "leaving" \/ relay.readEnded
    /\ SameReading(socket, socket')
    /\ socket'.readable = "closed" => socket.readable = "closed" \/ pump'.stopped \/ ~NoCalls
    /\ toPage' \in Seq(PageMessages) /\ (ends # {} => toPage' = toPage)
    /\ DataOut' = DataOut
    /\ EndPosted' => EndPosted
    /\ NothingAfterEnd => NothingAfterEnd'
    /\ toBroker' \in Seq(BrokerMessages) /\ CreditIn' = CreditIn

LEMMA WorkedKeeps ==
    ASSUME IInv, Worked
    PROVE  Shape' /\ WindowInv' /\ PartsAgree' /\ CleanInv'
<1>1. Shape'
  BY DEF IInv, Shape, Worked, SameReading
<1>2. WindowInv'
  BY DEF IInv, WindowInv, Worked
<1>3. PartsAgree'
  <2>1. relay'.registered /\ "broker" \notin ends'
    BY DEF IInv, PartsAgree, Worked
  <2>2. handle'.state # "gone" /\ (handle'.state = "live" => handle'.reason = "none")
    BY DEF IInv, PartsAgree, Worked
  <2>3. "page" \in ends' => toPage' = <<>> /\ (~page'.here \/ \E c \in Closes : calls'[c] = "done")
    BY DEF IInv, PartsAgree, Worked
  <2>4. ~page'.here => page'.readable = "open" /\ "page" \in ends'
    BY DEF IInv, PartsAgree, Worked
  <2>5. relay'.readEnded => pump'.endSent /\ socket'.readable = "closed" /\ socket'.incoming = <<>>
    BY DEF IInv, PartsAgree, Worked, SameReading
  <2>6. handle'.state = "leaving" => relay'.readEnded \/ \E c \in Closes : calls'[c] = "waiting"
    BY DEF IInv, PartsAgree, Worked
  <2>7. socket'.readable # "open" => socket'.theirs = "fin" \/ ~socket'.alive
    BY DEF IInv, PartsAgree, Worked, SameReading
  <2> QED BY <2>1, <2>2, <2>3, <2>4, <2>5, <2>6, <2>7 DEF PartsAgree
<1>4. CleanInv'
  <2>1. "page" \notin ends' /\ socket'.readable \in {"open", "closed"} =>
          page'.got + DataOut' + Unread' = socket'.sent
    BY DEF IInv, CleanInv, Worked, SameReading, Unread
  <2>2. AllRead => AllRead'
    BY DEF AllRead, Worked, SameReading
  <2>3. NoCalls' <=> NoCalls
    BY DEF NoCalls, Worked
  <2>4. NoCalls /\ socket'.readable = "closed" /\ ~pump'.stopped => socket'.theirs = "fin"
    BY DEF IInv, CleanInv, Worked, SameReading
  <2> QED BY <2>1, <2>2, <2>3, <2>4 DEF IInv, CleanInv, Worked
<1> QED
  BY <1>1, <1>2, <1>3, <1>4

LEMMA LeavingFacts ==
    ASSUME NEW h \in Handles, h.state = "live" => h.reason = "none"
    PROVE  /\ Leaving(h) \in Handles /\ Leaving(h).state # "live"
           /\ Leaving(h).state = "gone" => h.state = "gone"
  BY DEF Leaving, Handles

\* What a write or a write-end leaves.
DrainedTo(k, s, posted, rest) ==
    /\ pump' = pump /\ ends' = ends /\ toBroker' = rest
    /\ sink' \in Sinks /\ sink'.writes = k.writes /\ sink'.unacked = k.unacked
    /\ (sink'.stopped <=> k.stopped) /\ (sink'.ending <=> k.ending)
    /\ (k.ended => sink'.ended) /\ (sink'.ended => k.ended \/ k.ending)
    /\ socket' \in {s, Ended(s)}
    /\ relay' \in Relays /\ (relay'.registered <=> relay.registered) /\ (relay'.readEnded <=> relay.readEnded)
    /\ handle' \in Handles
    /\ handle'.state = "live" => handle'.reason = "none"
    /\ handle'.state = "gone" => handle.state = "gone"
    /\ handle'.state = "leaving" => handle.state = "leaving" \/ relay.readEnded
    /\ \E refusal \in Seq(Notices) :
         /\ toPage' = PostedToPage(posted \o refusal)
         /\ refusal # <<>> => sink'.ended
         /\ s.ours \in {"open", "ending"} => refusal = <<>>
    /\ relay' # relay \/ handle' # handle => socket' = Ended(s)

LEMMA DrainedLeaves ==
    ASSUME IInv, NEW k \in Sinks, NEW s \in Sockets, NEW posted \in Seq(PageMessages), NEW rest,
           Drained(k, s, posted, rest)
    PROVE  DrainedTo(k, s, posted, rest)
<1>1. handle \in Handles /\ relay \in Relays /\ (handle.state = "live" => handle.reason = "none")
  BY DEF IInv, Shape, PartsAgree
<1>2. CASE k.ending /\ k.writes = <<>> /\ ~k.ended /\ ~k.stopped
  <2>1. /\ sink' = [k EXCEPT !.ended = TRUE] /\ socket' = Ended(s)
        /\ relay' = [relay EXCEPT !.writeEnded = TRUE]
        /\ handle' = IF relay.readEnded THEN Leaving(handle) ELSE handle
        /\ \E refusal \in Refusals(s) : toPage' = PostedToPage(posted \o refusal)
        /\ toBroker' = rest /\ pump' = pump /\ ends' = ends
    BY <1>2 DEF Drained
  <2>2. /\ sink' \in Sinks /\ sink'.writes = k.writes /\ sink'.unacked = k.unacked
        /\ (sink'.stopped <=> k.stopped) /\ (sink'.ending <=> k.ending) /\ sink'.ended
    BY <2>1 DEF Sinks
  <2>3. relay' \in Relays /\ (relay'.registered <=> relay.registered) /\ (relay'.readEnded <=> relay.readEnded)
    BY <1>1, <2>1 DEF Relays
  <2>4. /\ handle' \in Handles
        /\ handle'.state = "live" => handle'.reason = "none"
        /\ handle'.state = "gone" => handle.state = "gone"
        /\ handle'.state = "leaving" => handle.state = "leaving" \/ relay.readEnded
    BY <1>1, <2>1, LeavingFacts
  <2>5. ASSUME NEW refusal \in Refusals(s)
        PROVE  refusal \in Seq(Notices) /\ (s.ours \in {"open", "ending"} => refusal = <<>>)
    <3>1. CASE s.ours \in {"open", "ending"}
      BY <3>1, SequencesOfNotices DEF Refusals
    <3>2. CASE ~(s.ours \in {"open", "ending"})
      <4>1. "reset" \in Codes \ {"limit"} /\ "internal" \in Codes \ {"limit"}
        BY DEF Codes
      <4>2. <<Failed("reset")>> \in Seq(Notices) /\ <<Failed("internal")>> \in Seq(Notices) /\ <<>> \in Seq(Notices)
        BY <4>1, SequencesOfNotices
      <4>3. refusal = <<Failed("reset")>> \/ refusal = <<Failed("internal")>> \/ refusal = <<>>
        BY <3>2 DEF Refusals
      <4> QED BY <3>2, <4>2, <4>3
    <3> QED BY <3>1, <3>2
  <2> QED BY <1>2, <2>1, <2>2, <2>3, <2>4, <2>5 DEF DrainedTo
<1>3. CASE ~(k.ending /\ k.writes = <<>> /\ ~k.ended /\ ~k.stopped)
  <2>1. /\ sink' = k /\ socket' = s /\ toPage' = PostedToPage(posted)
        /\ toBroker' = rest /\ relay' = relay /\ handle' = handle /\ pump' = pump /\ ends' = ends
    BY <1>3 DEF Drained
  <2>2. posted \o <<>> = posted /\ <<>> \in Seq(Notices)
    BY ConcatEmptySeq, SequencesOfNotices
  <2> QED BY <1>1, <2>1, <2>2 DEF DrainedTo
<1> QED
  BY <1>2, <1>3

\* The queue of the page after a write or a write-end that posts notices only.
LEMMA DrainedQuietly ==
    ASSUME Shape, NEW k, NEW s, NEW posted \in Seq(PageMessages), ends = {} => posted \in Seq(Notices),
           NEW rest, DrainedTo(k, s, posted, rest)
    PROVE  /\ QuietPage
           /\ FailurePosted' => FailurePosted \/ sink'.ended \/ posted # <<>>
<1>1. PICK refusal \in Seq(Notices) :
        toPage' = PostedToPage(posted \o refusal) /\ (refusal # <<>> => sink'.ended)
  BY DEF DrainedTo
<1>2. posted \o refusal \in Seq(PageMessages) /\ (ends = {} => posted \o refusal \in Seq(Notices))
  BY SequencesOfNotices
<1>3. /\ QuietPage
      /\ FailurePosted' => FailurePosted \/ \E i \in DOMAIN (posted \o refusal) : (posted \o refusal)[i].kind = "failed"
  BY <1>1, <1>2, PostsNotices
<1>4. posted = <<>> /\ refusal = <<>> => DOMAIN (posted \o refusal) = {}
  OBVIOUS
<1> QED
  BY <1>1, <1>3, <1>4

\* What the page has been told, and what the sink and the queues hold of its writes.
LEMMA WroteKeeps ==
    ASSUME IInv, page' = page, ends' = ends,
           page.accepted + page.acked + AcksOut' + Held' <= socket'.taken,
           socket'.reset => ~socket'.alive,
           sink'.unacked = Sum(sink'.writes),
           "page" \notin ends /\ ~sink'.stopped => sink'.unacked + WritesIn' + AcksOut' + page.acked <= page.piece,
           sink'.ended => sink'.ending,
           sink'.ending => sink.ending \/ WriteEndSent,
           WriteEndSent' => WriteEndSent,
           sink.stopped => sink'.stopped,
           sink.ended => sink'.ended,
           FailurePosted' => FailurePosted \/ sink'.ended \/ sink'.stopped,
           NoFalseLimit'
    PROVE  WriteInv'
<1>1. /\ page'.piece <= WriteWindow /\ page'.piece <= page'.left
      /\ ~page'.writing => page'.left = 0 /\ page'.piece = 0 /\ page'.acked = 0
  BY DEF IInv, WriteInv
<1>2. FailurePosted' => sink'.stopped \/ sink'.ended
  BY DEF IInv, WriteInv
<1>3. sink'.ending \/ WriteEndSent' => ~page'.here \/ (page'.writable = "closed" /\ ~page'.writing)
  BY DEF IInv, WriteInv
<1> QED
  BY <1>1, <1>2, <1>3 DEF WriteInv

LEMMA DrainedWorks ==
    ASSUME IInv, "broker" \notin ends, NEW k, NEW s, NEW posted, NEW rest, DrainedTo(k, s, posted, rest),
           page' = page, calls' = calls, SameReading(socket, s),
           s.readable = "closed" => socket.readable = "closed" \/ pump.stopped \/ ~NoCalls,
           toBroker' \in Seq(BrokerMessages), CreditIn' = CreditIn,
           toPage' \in Seq(PageMessages), ends # {} => toPage' = toPage, DataOut' = DataOut,
           EndPosted' => EndPosted, NothingAfterEnd => NothingAfterEnd'
    PROVE  Worked /\ socket'.taken = s.taken /\ socket'.outgoing = s.outgoing
           /\ (socket'.reset <=> s.reset) /\ (socket'.alive <=> s.alive)
<1>1. s \in Sockets
  BY DEF SameReading
<1>2. /\ SameReading(socket, socket') /\ socket'.taken = s.taken /\ socket'.outgoing = s.outgoing
      /\ socket'.readable = s.readable /\ (socket'.reset <=> s.reset) /\ (socket'.alive <=> s.alive)
  <2>1. CASE socket' = s
    BY <2>1
  <2>2. CASE socket' = Ended(s)
    <3>1. /\ socket'.sent = s.sent /\ socket'.theirs = s.theirs /\ (socket'.reset <=> s.reset)
          /\ (socket'.alive <=> s.alive) /\ socket'.readable = s.readable /\ socket'.incoming = s.incoming
          /\ socket'.taken = s.taken /\ socket'.outgoing = s.outgoing /\ socket' \in Sockets
      BY <1>1, <2>2 DEF Ended, Sockets
    <3> QED BY <3>1 DEF SameReading
  <2> QED BY <2>1, <2>2 DEF DrainedTo
<1>3. pump \in Pumps
  BY DEF IInv, Shape
<1>4. pump' = pump /\ ends' = ends
  BY DEF DrainedTo
<1>5. /\ sink' \in Sinks
      /\ relay' \in Relays /\ (relay'.registered <=> relay.registered) /\ (relay'.readEnded <=> relay.readEnded)
      /\ handle' \in Handles
      /\ handle'.state = "live" => handle'.reason = "none"
      /\ handle'.state = "gone" => handle.state = "gone"
      /\ handle'.state = "leaving" => handle.state = "leaving" \/ relay.readEnded
  BY DEF DrainedTo
<1> QED
  BY <1>2, <1>3, <1>4, <1>5 DEF Worked

\* What a message other than a credit takes with it.
LEMMA Hears ==
    ASSUME IInv, toBroker # <<>>, NEW m, m = Head(toBroker), m.kind # "credit"
    PROVE  /\ "broker" \notin ends /\ Tail(toBroker) \in Seq(BrokerMessages)
           /\ toBroker' = Tail(toBroker) => CreditIn' = CreditIn
           /\ toBroker' = Tail(toBroker) /\ m.kind # "write" => WritesIn' = WritesIn
<1>1. "broker" \notin ends
  BY DEF IInv, PartsAgree
<1>2. Shape /\ toBroker \in Seq(BrokerMessages)
  BY DEF IInv, Shape
<1>3. Tail(toBroker) \in Seq(BrokerMessages)
  BY <1>2, HeadTailProperties
<1>4. ASSUME toBroker' = Tail(toBroker)
      PROVE  CreditIn' = CreditIn /\ (m.kind # "write" => WritesIn' = WritesIn)
  <2>1. /\ CreditIn = Amount(m, "credit") + CreditIn' /\ WritesIn = Amount(m, "write") + WritesIn'
        /\ CreditIn' \in Nat /\ WritesIn' \in Nat
    BY <1>2, <1>4, Receives
  <2>2. Amount(m, "credit") = 0 /\ (m.kind # "write" => Amount(m, "write") = 0)
    BY DEF Amount
  <2> QED BY <2>1, <2>2
<1> QED
  BY <1>1, <1>3, <1>4

\* The socket when a chunk is handed to it.
LEMMA HandedFacts ==
    ASSUME NEW s \in Sockets, NEW n \in Nat
    PROVE  /\ SameReading(s, Handed(s, n)) /\ Handed(s, n) \in Sockets
           /\ Handed(s, n).taken = s.taken + n /\ Handed(s, n).outgoing = s.outgoing + n
           /\ Handed(s, n).received = s.received /\ Handed(s, n).readable = s.readable
           /\ Handed(s, n).ours = s.ours
           /\ (Handed(s, n).reset <=> s.reset) /\ (Handed(s, n).alive <=> s.alive)
<1> DEFINE h == Handed(s, n)
<1>1. /\ h.sent = s.sent /\ h.theirs = s.theirs /\ h.reset = s.reset
      /\ h.alive = s.alive /\ h.readable = s.readable /\ h.incoming = s.incoming
      /\ h.taken = s.taken + n /\ h.outgoing = s.outgoing + n /\ h.received = s.received /\ h.ours = s.ours
      /\ h \in Sockets
  <2> DEFINE taken == s.taken + n
             outgoing == s.outgoing + n
  <2>1. taken \in Nat /\ outgoing \in Nat
    BY DEF Sockets
  <2>2. h = [s EXCEPT !.taken = taken, !.outgoing = outgoing]
    BY DEF Handed
  <2> HIDE DEF taken, outgoing, h
  <2>3. h \in Sockets
    BY <2>1, <2>2 DEF Sockets
  <2>4. h.taken = taken /\ h.outgoing = outgoing
    BY <2>2 DEF Sockets
  <2>5. /\ h.sent = s.sent /\ h.theirs = s.theirs /\ h.reset = s.reset
        /\ h.alive = s.alive /\ h.readable = s.readable /\ h.incoming = s.incoming
        /\ h.received = s.received /\ h.ours = s.ours
    BY <2>2 DEF Sockets
  <2> QED BY <2>3, <2>4, <2>5 DEF taken, outgoing
<1> HIDE DEF h
<1>2. SameReading(s, h)
  BY <1>1 DEF SameReading
<1> QED
  BY <1>1, <1>2 DEF h

LEMMA SocketItself ==
    ASSUME NEW s \in Sockets
    PROVE  SameReading(s, s) /\ Shut(s, s)
  BY DEF SameReading, Shut

HeldOf(k, s) == IF k.stopped \/ s.reset \/ k.writes = <<>> THEN 0 ELSE Head(k.writes)

\* A step of the sink that tells the page of nothing but a failure.
LEMMA DrainedKeeps ==
    ASSUME IInv, "broker" \notin ends, page' = page, calls' = calls,
           NEW k \in Sinks, NEW s \in Sockets, NEW posted \in Seq(PageMessages), NEW rest,
           Drained(k, s, posted, rest),
           ends = {} => posted \in Seq(Notices),
           posted # <<>> => k.stopped,
           SameReading(socket, s),
           s.readable = "closed" => socket.readable = "closed" \/ pump.stopped \/ ~NoCalls,
           toBroker' \in Seq(BrokerMessages), CreditIn' = CreditIn, WriteEndSent' => WriteEndSent,
           sink.stopped => k.stopped, k.unacked = Sum(k.writes),
           k.ended <=> sink.ended, k.ending => sink.ending \/ WriteEndSent, k.ended => k.ending,
           page.accepted + page.acked + AcksOut + HeldOf(k, s) <= s.taken,
           "page" \notin ends /\ ~k.stopped => k.unacked + WritesIn' + AcksOut + page.acked <= page.piece,
           ~socket.reset => Len(k.writes) <= 1,
           ~socket.reset /\ ~k.stopped =>
             /\ k.writes = <<>> => s.outgoing <= SocketBuffer
             /\ k.writes # <<>> => Head(k.writes) > 0 /\ NoWrites' /\ EmptyAcks
             /\ OneWrite' /\ (NoWrites' \/ NoAcks)
             /\ ~page.writing /\ "page" \notin ends => k.writes = <<>> /\ NoWrites' /\ NoAcks
    PROVE  IInv'
<1>1. DrainedTo(k, s, posted, rest)
  BY DrainedLeaves
<1>2. /\ QuietPage
      /\ FailurePosted' => FailurePosted \/ sink'.ended \/ posted # <<>>
  BY <1>1, DrainedQuietly DEF IInv
<1>3. /\ toPage' \in Seq(PageMessages) /\ (ends # {} => toPage' = toPage)
      /\ DataOut' = DataOut /\ AcksOut' = AcksOut
      /\ EndPosted' => EndPosted
      /\ NothingAfterEnd => NothingAfterEnd'
      /\ NoAcks => NoAcks'
      /\ EmptyAcks => EmptyAcks'
      /\ AcksInOrder => AcksInOrder'
      /\ NoFalseLimit => NoFalseLimit'
  BY <1>2 DEF QuietPage
<1>4. /\ Worked /\ socket'.taken = s.taken /\ socket'.outgoing = s.outgoing
      /\ (socket'.reset <=> s.reset) /\ (socket'.alive <=> s.alive)
  BY <1>1, <1>3, DrainedWorks
<1>5. /\ sink'.writes = k.writes /\ sink'.unacked = k.unacked
      /\ (sink'.stopped <=> k.stopped) /\ (sink'.ending <=> k.ending)
      /\ (k.ended => sink'.ended) /\ (sink'.ended => k.ended \/ k.ending)
      /\ ends' = ends
  BY <1>1 DEF DrainedTo
<1>6. (s.reset <=> socket.reset) /\ (s.reset => ~s.alive)
  BY DEF IInv, WriteInv, SameReading
<1>7. Shape' /\ WindowInv' /\ PartsAgree' /\ CleanInv'
  BY <1>4, WorkedKeeps
<1>8. WriteInv'
  <2>1. Held' = HeldOf(k, s)
    BY <1>4, <1>5 DEF Held, HeldOf
  <2>2. page.accepted + page.acked + AcksOut' + Held' <= socket'.taken
    BY <1>3, <1>4, <2>1
  <2>3. "page" \notin ends /\ ~sink'.stopped => sink'.unacked + WritesIn' + AcksOut' + page.acked <= page.piece
    BY <1>3, <1>5
  <2>4. NoFalseLimit'
    BY <1>3 DEF IInv, WriteInv
  <2>5. FailurePosted' => FailurePosted \/ sink'.ended \/ sink'.stopped
    BY <1>2, <1>5
  <2>6. sink'.unacked = Sum(sink'.writes)
    BY <1>5
  <2>7. (sink'.ended => sink'.ending) /\ (sink'.ending => sink.ending \/ WriteEndSent)
    BY <1>5
  <2>8. (sink.stopped => sink'.stopped) /\ (sink.ended => sink'.ended)
    BY <1>5
  <2>9. socket'.reset => ~socket'.alive
    BY <1>4, <1>6
  <2> QED BY <1>5, <2>2, <2>3, <2>4, <2>5, <2>6, <2>7, <2>8, <2>9, WroteKeeps
<1>9. OnePieceInv'
  <2>1. AcksInOrder'
    BY <1>3 DEF IInv, OnePieceInv
  <2>2. ~socket'.reset => ~socket.reset
    BY <1>4, <1>6
  <2>3. ~socket'.reset => Len(sink'.writes) <= 1
    BY <1>5, <2>2
  <2>4. ASSUME ~socket'.reset, ~sink'.stopped
        PROVE  /\ sink'.writes = <<>> => socket'.outgoing <= SocketBuffer
               /\ sink'.writes # <<>> => Head(sink'.writes) > 0 /\ NoWrites' /\ EmptyAcks'
               /\ OneWrite' /\ (NoWrites' \/ NoAcks')
               /\ ~page'.writing /\ "page" \notin ends' => sink'.writes = <<>> /\ NoWrites' /\ NoAcks'
    <3>1. ~socket.reset /\ ~k.stopped
      BY <1>5, <2>2, <2>4
    <3> QED BY <1>3, <1>4, <1>5, <3>1
  <2> QED BY <2>1, <2>3, <2>4 DEF OnePieceInv
<1> QED
  BY <1>7, <1>8, <1>9 DEF IInv

\* A side of the socket that failed takes the handle and the relay with it, if the handle
\* is still in the table.
LEMMA FailKeeps ==
    ASSUME IInv, "broker" \notin ends, page' = page, calls' = calls,
           NEW p \in Pumps, p.credit = pump.credit, pump.stopped => p.stopped, pump.endSent => p.endSent,
           NEW k \in Sinks, k.writes = sink.writes, k.unacked = sink.unacked,
           k.ending <=> sink.ending, k.ended <=> sink.ended, sink.stopped => k.stopped,
           NEW posted \in Seq(PageMessages), ends = {} => posted \in Seq(Notices),
           (\E i \in DOMAIN posted : posted[i].kind = "failed") => k.stopped,
           NEW code \in Codes, ends = {} => code # "limit",
           NEW rest, FailSocket(p, k, posted, code, rest),
           toBroker' = rest =>
             /\ toBroker' \in Seq(BrokerMessages) /\ CreditIn' = CreditIn
             /\ NoWrites => NoWrites'
             /\ OneWrite => OneWrite'
             /\ WriteEndSent' => WriteEndSent
             /\ ~k.stopped => WritesIn' = WritesIn
    PROVE  IInv'
<1>1. Shape /\ socket \in Sockets /\ handle \in Handles /\ relay \in Relays
  BY DEF IInv, Shape
<1>2. CASE handle.state = "live"
  <2>1. Stop(p, k, posted, code) /\ handle' = Gone("failed") /\ socket' = Destroyed(ReaderCancelled(socket))
    BY <1>2 DEF FailSocket
  <2>2. StopDone
    <3>1. code \in Codes \cup {"clean"} /\ code # "clean"
      BY DEF Codes
    <3> QED BY <1>1, <2>1, <3>1, StopLeaves
  <2>3. Shut(socket, socket')
    <3>1. Shut(socket, ReaderCancelled(socket)) /\ ReaderCancelled(socket) \in Sockets
      BY <1>1, ShutByCancel DEF Shut, SameReading
    <3> QED BY <2>1, <3>1, ShutByDestroy, ShutTwice
  <2>4. handle' \in Handles /\ handle'.state # "live"
    BY <1>1, <2>1 DEF Gone, Handles
  <2> QED BY <1>1, <2>2, <2>3, <2>4, CallsKept, StopKeeps
<1>3. CASE handle.state # "live"
  <2>1. /\ pump' = p /\ sink' = k /\ toBroker' = rest /\ toPage' = PostedToPage(posted)
        /\ socket' = socket /\ handle' = handle /\ relay' = relay /\ ends' = ends
    BY <1>3 DEF FailSocket
  <2>2. QuietPage /\ (FailurePosted' => FailurePosted \/ k.stopped)
    BY <1>1, <2>1, PostsNotices
  <2>3. Worked
    BY <1>1, <2>1, <2>2, SocketItself DEF Worked, QuietPage, IInv, PartsAgree
  <2>4. Held \in Nat /\ (Held' = Held \/ Held' = 0)
    <3>1. sink.writes \in Seq(Nat)
      BY DEF IInv, Shape, Sinks
    <3> QED BY <2>1, <3>1, SumTail DEF Held
  <2>5. WriteInv'
    <3>1. page.accepted + page.acked + AcksOut' + Held' <= socket'.taken
      <4>1. /\ page.accepted \in Nat /\ page.acked \in Nat /\ AcksOut \in Nat /\ socket.taken \in Nat
            /\ page.accepted + page.acked + AcksOut + Held <= socket.taken
        BY <1>1, CarriedType DEF IInv, WriteInv, Shape, Pages, Sockets
      <4>2. \A a, b, c, d, e \in Nat : a + b + c + d <= e => a + b + c + 0 <= e
        OBVIOUS
      <4> QED BY <2>1, <2>2, <2>4, <4>1, <4>2 DEF QuietPage
    <3>2. socket'.reset => ~socket'.alive
      BY <2>1 DEF IInv, WriteInv
    <3>3. NoFalseLimit'
      BY <2>2 DEF QuietPage, IInv, WriteInv
    <3>4. sink'.unacked = Sum(sink'.writes)
      BY <2>1 DEF IInv, WriteInv
    <3>5. "page" \notin ends /\ ~sink'.stopped => sink'.unacked + WritesIn' + AcksOut' + page.acked <= page.piece
      BY <2>1, <2>2 DEF QuietPage, IInv, WriteInv
    <3>6. /\ sink'.ended => sink'.ending
          /\ sink'.ending => sink.ending \/ WriteEndSent
          /\ sink.stopped => sink'.stopped
          /\ sink.ended => sink'.ended
          /\ FailurePosted' => FailurePosted \/ sink'.ended \/ sink'.stopped
      BY <2>1, <2>2 DEF IInv, WriteInv
    <3> QED BY <2>1, <3>1, <3>2, <3>3, <3>4, <3>5, <3>6, WroteKeeps
  <2>6. OnePieceInv'
    <3>1. AcksInOrder'
      BY <2>2 DEF QuietPage, IInv, OnePieceInv
    <3>2. ~socket'.reset => Len(sink'.writes) <= 1
      BY <2>1 DEF IInv, OnePieceInv
    <3>3. ASSUME ~socket'.reset, ~sink'.stopped
          PROVE  /\ sink'.writes = <<>> => socket'.outgoing <= SocketBuffer
                 /\ sink'.writes # <<>> => Head(sink'.writes) > 0 /\ NoWrites' /\ EmptyAcks'
                 /\ OneWrite' /\ (NoWrites' \/ NoAcks')
                 /\ ~page'.writing /\ "page" \notin ends' => sink'.writes = <<>> /\ NoWrites' /\ NoAcks'
      <4>1. ~socket.reset /\ ~sink.stopped /\ sink'.writes = sink.writes /\ socket' = socket
        BY <2>1, <3>3
      <4> QED BY <2>1, <2>2, <4>1 DEF QuietPage, IInv, OnePieceInv
    <3> QED BY <3>1, <3>2, <3>3 DEF OnePieceInv
  <2> QED BY <2>3, <2>5, <2>6, WorkedKeeps DEF IInv
<1> QED
  BY <1>2, <1>3

\* A write within the window, on a relay that runs.
LEMMA ReceiveWriteKeeps ==
    ASSUME IInv, ReceiveWrite
    PROVE  IInv'
<1> DEFINE m == Head(toBroker)
           n == m.n
           rest == Tail(toBroker)
<1>1. toBroker # <<>> /\ m.kind = "write" /\ page' = page /\ calls' = calls
  BY DEF ReceiveWrite, Arrives
<1>2. /\ "broker" \notin ends /\ rest \in Seq(BrokerMessages)
      /\ toBroker' = rest => CreditIn' = CreditIn
  BY <1>1, Hears
<1>3. ASSUME toBroker' = rest
      PROVE  /\ toBroker' \in Seq(BrokerMessages) /\ CreditIn' = CreditIn
             /\ WritesIn = n + WritesIn' /\ WritesIn' \in Nat
             /\ ~NoWrites /\ (OneWrite => NoWrites')
             /\ (OneWrite => OneWrite')
             /\ WriteEndSent' => WriteEndSent
  <2>1. Amount(m, "write") = n
    BY <1>1 DEF Amount
  <2> QED BY <1>1, <1>2, <1>3, <2>1, Receives DEF IInv
<1>4. n \in Nat /\ n <= WritesIn
  <2>1. m \in BrokerMessages
    <3>1. toBroker \in Seq(BrokerMessages)
      BY DEF IInv, Shape
    <3> QED BY <1>1, <3>1, HeadTailProperties
  <2>2. n \in Nat
    BY <1>1, <2>1, BrokerMessageFacts
  <2>3. toBroker \in Seq(BrokerMessages) /\ 1 \in DOMAIN toBroker /\ m = toBroker[1]
    <3>1. toBroker \in Seq(BrokerMessages)
      BY DEF IInv, Shape
    <3> QED BY <1>1, <3>1, HeadTailProperties, EmptySeq
  <2>4. toBroker[1].n <= Carried(toBroker, "write")
    BY <1>1, <2>3, CarriedMember, BrokerMessageFacts
  <2> QED BY <2>2, <2>3, <2>4 DEF WritesIn
<1>5. /\ Shape /\ socket \in Sockets /\ sink \in Sinks /\ pump \in Pumps /\ page \in Pages
      /\ sink.writes \in Seq(Nat) /\ sink.unacked \in Int /\ sink.unacked = Sum(sink.writes) /\ sink.unacked \in Nat
      /\ DataOut \in Nat /\ AcksOut \in Nat /\ WritesIn \in Nat
  <2>1. Shape /\ socket \in Sockets /\ sink \in Sinks /\ pump \in Pumps /\ page \in Pages
    BY DEF IInv, Shape
  <2>2. sink.writes \in Seq(Nat) /\ sink.unacked \in Int
    BY <2>1 DEF Sinks
  <2>3. sink.unacked = Sum(sink.writes) /\ Sum(sink.writes) \in Nat
    BY <2>2, UnitsFacts DEF IInv, WriteInv
  <2> QED BY <2>1, <2>2, <2>3, CarriedType
<1>6. WriteWindow \in Nat /\ SocketBuffer \in Nat
  BY RelayAssumption
<1>7. /\ page.accepted \in Nat /\ page.acked \in Nat /\ page.piece \in Nat /\ socket.taken \in Nat /\ socket.outgoing \in Nat
  BY <1>5 DEF Pages, Sockets
<1>8. Held \in Nat /\ page.accepted + page.acked + AcksOut + Held <= socket.taken
  <2>1. Held \in Nat
    BY <1>5, SumTail DEF Held
  <2> QED BY <2>1 DEF IInv, WriteInv
<1> DEFINE queued == Queued(sink, n)
<1>9. /\ queued \in Sinks /\ queued.writes = Append(sink.writes, n) /\ queued.unacked = sink.unacked + n
      /\ (queued.stopped <=> sink.stopped) /\ (queued.ending <=> sink.ending) /\ (queued.ended <=> sink.ended)
      /\ Sum(queued.writes) = queued.unacked
  <2>1. Append(sink.writes, n) \in Seq(Nat) /\ sink.unacked + n \in Int
    BY <1>4, <1>5
  <2>2. /\ queued \in Sinks /\ queued.writes = Append(sink.writes, n) /\ queued.unacked = sink.unacked + n
        /\ (queued.stopped <=> sink.stopped) /\ (queued.ending <=> sink.ending) /\ (queued.ended <=> sink.ended)
    BY <1>5, <2>1 DEF Queued, Sinks
  <2> QED BY <1>4, <1>5, <2>2, SumAppend
<1>10. /\ <<>> \in Seq(Notices) /\ <<>> \in Seq(PageMessages)
       /\ <<Failed("closed")>> \in Seq(Notices) /\ <<Failed("closed")>> \in Seq(PageMessages)
       /\ <<Failed("limit")>> \in Seq(PageMessages) /\ <<Ack(n)>> \in Seq(PageMessages)
  <2>1. "closed" \in Codes \ {"limit"} /\ "limit" \in Codes
    BY DEF Codes
  <2>2. Failed("limit") \in PageMessages /\ Ack(n) \in PageMessages
    BY <1>4, <2>1, PageMessageFacts
  <2>3. <<Failed("limit")>> \in Seq(PageMessages) /\ <<Ack(n)>> \in Seq(PageMessages)
    BY <2>2
  <2>4. <<Failed("closed")>> \in Seq(Notices)
    BY <2>1, SequencesOfNotices
  <2> QED BY <2>3, <2>4, SequencesOfNotices
<1>11. SameReading(socket, socket) /\ (sink.ended => sink.ending)
  BY <1>5, SocketItself DEF IInv, WriteInv
<1>12. [sink EXCEPT !.stopped = TRUE] \in Sinks
  BY <1>5 DEF Sinks
<1> DEFINE stopped == [sink EXCEPT !.stopped = TRUE]
<1>13. /\ stopped \in Sinks /\ stopped.writes = sink.writes /\ stopped.unacked = sink.unacked /\ stopped.stopped
       /\ (stopped.ending <=> sink.ending) /\ (stopped.ended <=> sink.ended)
  BY <1>5 DEF Sinks
<1>14. HeldOf(stopped, socket) = 0 /\ (sink.stopped => HeldOf(sink, socket) = 0)
  BY <1>13 DEF HeldOf
<1>15. /\ page.accepted + page.acked + AcksOut + 0 <= socket.taken
       /\ page.accepted + page.acked + AcksOut + 0 + n <= socket.taken + n
  <2>1. \A a, b, c, d, e, f \in Nat : a + b + c + d <= e => a + b + c + 0 <= e /\ a + b + c + 0 + f <= e + f
    OBVIOUS
  <2> QED BY <1>4, <1>5, <1>7, <1>8, <2>1
<1>16. "page" \notin ends /\ ~sink.stopped => sink.unacked + WritesIn + AcksOut + page.acked <= page.piece
  BY DEF IInv, WriteInv
<1>17. ~socket.reset =>
         /\ Len(sink.writes) <= 1
         /\ ~sink.stopped => sink.writes = <<>> \/ NoWrites
         /\ ~sink.stopped => OneWrite /\ (NoWrites \/ NoAcks)
         /\ ~sink.stopped /\ ~page.writing /\ "page" \notin ends => NoWrites /\ NoAcks
  BY DEF IInv, OnePieceInv
<1>18. CASE sink.stopped
  <2>1. Drained(sink, socket, <<>>, rest)
    BY <1>18 DEF ReceiveWrite
  <2>2. toBroker' = rest
    BY <2>1 DEF Drained
  <2> HIDE DEF m, n, rest, queued, stopped
  <2> QED
    BY <1>1, <1>2, <1>3, <1>5, <1>10, <1>11, <1>14, <1>15, <1>17, <1>18, <2>1, <2>2, DrainedKeeps
<1>19. CASE ~sink.stopped /\ sink.unacked + n > WriteWindow
  <2>1. FailSocket(pump, stopped, <<Failed("limit")>>, "limit", rest)
    BY <1>9, <1>19 DEF ReceiveWrite
  <2>2. ends # {}
    <3>1. page.piece <= WriteWindow
      BY DEF IInv, WriteInv
    <3>2. \A a, b, c, d, e, f, w \in Nat : a + b + c + d <= e /\ f <= b /\ e <= w => ~(a + f > w)
      OBVIOUS
    <3>3. CASE "page" \notin ends
      BY <1>4, <1>5, <1>6, <1>7, <1>16, <1>19, <3>1, <3>2, <3>3
    <3> QED BY <3>3
  <2> HIDE DEF m, n, rest, queued, stopped
  <2>3. pump.credit = pump.credit /\ "limit" \in Codes
    BY DEF Codes
  <2> QED
    BY <1>1, <1>2, <1>3, <1>5, <1>10, <1>13, <2>1, <2>2, <2>3, FailKeeps
<1>20. CASE ~sink.stopped /\ ~(sink.unacked + n > WriteWindow) /\ (socket.reset \/ sink.writes # <<>>)
  <2>1. Drained(queued, socket, <<>>, rest)
    BY <1>9, <1>20 DEF ReceiveWrite
  <2>2. toBroker' = rest
    BY <2>1 DEF Drained
  <2>3. socket.reset
    BY <1>3, <1>17, <1>20, <2>2
  <2> HIDE DEF m, n, rest, queued, stopped
  <2>4. HeldOf(queued, socket) = 0
    BY <2>3 DEF HeldOf
  <2>5. "page" \notin ends => queued.unacked + WritesIn' + AcksOut + page.acked <= page.piece
    <3>1. WritesIn = n + WritesIn' /\ WritesIn' \in Nat
      BY <1>3, <2>2
    <3>2. \A a, b, c, d, e, f \in Nat : a + (b + c) + d + e <= f => (a + b) + c + d + e <= f
      OBVIOUS
    <3> QED BY <1>4, <1>5, <1>7, <1>9, <1>16, <1>20, <3>1, <3>2
  <2> QED
    BY <1>1, <1>2, <1>3, <1>5, <1>9, <1>10, <1>11, <1>15, <1>20, <2>1, <2>2, <2>3, <2>4, <2>5, DrainedKeeps
<1>21. CASE /\ ~sink.stopped /\ ~(sink.unacked + n > WriteWindow) /\ ~socket.reset /\ sink.writes = <<>>
            /\ ~Writable(socket)
  <2>1. Drained(stopped, socket, <<Failed("closed")>>, rest)
    BY <1>9, <1>21 DEF ReceiveWrite
  <2>2. toBroker' = rest
    BY <2>1 DEF Drained
  <2> HIDE DEF m, n, rest, queued, stopped
  <2> QED
    BY <1>1, <1>2, <1>3, <1>5, <1>10, <1>11, <1>13, <1>14, <1>15, <1>17, <2>1, <2>2, DrainedKeeps
<1>22. CASE /\ ~sink.stopped /\ ~(sink.unacked + n > WriteWindow) /\ ~socket.reset /\ sink.writes = <<>>
            /\ Writable(socket) /\ ~(socket.outgoing + n <= SocketBuffer)
  <2>1. Drained(queued, Handed(socket, n), <<>>, rest)
    BY <1>9, <1>22 DEF ReceiveWrite
  <2>2. toBroker' = rest
    BY <2>1 DEF Drained
  <2> HIDE DEF m, n, rest, queued, stopped
  <2> DEFINE s == Handed(socket, n)
  <2>3. /\ SameReading(socket, s) /\ s \in Sockets
        /\ s.taken = socket.taken + n /\ s.readable = socket.readable /\ (s.reset <=> socket.reset)
    BY <1>4, <1>5, HandedFacts
  <2> HIDE DEF s
  <2>4. Len(queued.writes) = 1 /\ queued.writes # <<>> /\ Head(queued.writes) = n
    <3>1. queued.writes = <<n>>
      BY <1>9, <1>22
    <3> QED BY <3>1
  <2>5. HeldOf(queued, s) = n
    BY <1>9, <1>22, <2>3, <2>4 DEF HeldOf
  <2>6. "page" \notin ends => queued.unacked + WritesIn' + AcksOut + page.acked <= page.piece
    <3>1. WritesIn = n + WritesIn' /\ WritesIn' \in Nat
      BY <1>3, <2>2
    <3>2. \A a, b, c, d, e, f \in Nat : a + (b + c) + d + e <= f => (a + b) + c + d + e <= f
      OBVIOUS
    <3> QED BY <1>4, <1>5, <1>7, <1>9, <1>16, <1>22, <3>1, <3>2
  <2>7. page.accepted + page.acked + AcksOut + HeldOf(queued, s) <= s.taken
    <3>1. \A a, b, c, d, e \in Nat : a + b + c + 0 <= d => a + b + c + e <= d + e
      OBVIOUS
    <3> QED BY <1>4, <1>5, <1>7, <1>15, <2>3, <2>5, <3>1
  <2>8. NoWrites' /\ OneWrite' /\ NoAcks /\ (page.writing \/ "page" \in ends)
    BY <1>3, <1>17, <1>22, <2>2
  <2>9. n > 0
    <3>1. socket.outgoing <= SocketBuffer
      BY <1>22 DEF IInv, OnePieceInv
    <3>2. \A a, b, c \in Nat : a <= c /\ ~(a + b <= c) => b > 0
      OBVIOUS
    <3> QED BY <1>4, <1>6, <1>7, <1>22, <3>1, <3>2
  <2>10. EmptyAcks
    BY <2>8 DEF NoAcks, EmptyAcks
  <2>11. Drained(queued, s, <<>>, rest)
    BY <2>1 DEF s
  <2>12. /\ queued.writes = <<>> => s.outgoing <= SocketBuffer
         /\ queued.writes # <<>> => Head(queued.writes) > 0 /\ NoWrites' /\ EmptyAcks
         /\ OneWrite' /\ (NoWrites' \/ NoAcks)
         /\ ~page.writing /\ "page" \notin ends => queued.writes = <<>> /\ NoWrites' /\ NoAcks
    BY <2>4, <2>8, <2>9, <2>10
  <2>13. Len(queued.writes) <= 1
    BY <2>4
  <2>14. /\ toBroker' \in Seq(BrokerMessages) /\ CreditIn' = CreditIn
         /\ WriteEndSent' => WriteEndSent
    BY <1>3, <2>2
  <2> QED
    BY <1>1, <1>2, <1>9, <1>10, <1>11, <2>3, <2>6, <2>7, <2>11, <2>12, <2>13, <2>14, DrainedKeeps
<1>23. CASE /\ ~sink.stopped /\ ~(sink.unacked + n > WriteWindow) /\ ~socket.reset /\ sink.writes = <<>>
            /\ Writable(socket) /\ socket.outgoing + n <= SocketBuffer
  <2> DEFINE s == Handed(socket, n)
  <2>1. Drained(sink, s, <<Ack(n)>>, rest)
    BY <1>9, <1>23 DEF ReceiveWrite
  <2>2. toBroker' = rest
    BY <2>1 DEF Drained
  <2> HIDE DEF m, n, rest, queued, stopped
  <2>3. /\ SameReading(socket, s) /\ s \in Sockets /\ s.outgoing = socket.outgoing + n
        /\ s.taken = socket.taken + n /\ s.readable = socket.readable /\ (s.reset <=> socket.reset)
        /\ (s.alive <=> socket.alive) /\ s.ours = socket.ours
    BY <1>4, <1>5, HandedFacts
  <2>4. s.ours = "open"
    BY <1>23, <2>3 DEF Writable
  <2> HIDE DEF s
  <2>5. DrainedTo(sink, s, <<Ack(n)>>, rest)
    BY <1>5, <1>10, <2>1, <2>3, DrainedLeaves
  <2>6. toPage' = PostedToPage(<<Ack(n)>>)
    <3>1. PICK refusal \in Seq(Notices) :
            toPage' = PostedToPage(<<Ack(n)>> \o refusal) /\ (s.ours \in {"open", "ending"} => refusal = <<>>)
      BY <2>5 DEF DrainedTo
    <3>2. refusal = <<>>
      BY <2>4, <3>1
    <3>3. <<Ack(n)>> \o <<>> = <<Ack(n)>>
      BY <1>10, ConcatEmptySeq
    <3> QED BY <3>1, <3>2, <3>3
  <2>7. /\ toPage' \in Seq(PageMessages) /\ (ends # {} => toPage' = toPage)
        /\ DataOut' = DataOut /\ AcksOut' = AcksOut + (IF ends = {} THEN n ELSE 0)
        /\ EndPosted' => EndPosted
        /\ NothingAfterEnd => NothingAfterEnd'
        /\ AcksInOrder /\ (n > 0 \/ NoAcks) => AcksInOrder'
        /\ NoFalseLimit => NoFalseLimit'
        /\ FailurePosted' => FailurePosted
    BY <1>4, <1>5, <2>6, PostsAck
  <2>8. toBroker' \in Seq(BrokerMessages) /\ CreditIn' = CreditIn /\ (WriteEndSent' => WriteEndSent)
    BY <1>3, <2>2
  <2>9. Worked /\ socket'.taken = s.taken /\ socket'.outgoing = s.outgoing
        /\ (socket'.reset <=> s.reset) /\ (socket'.alive <=> s.alive)
    BY <1>1, <1>2, <2>3, <2>5, <2>7, <2>8, DrainedWorks
  <2>10. /\ sink'.writes = sink.writes /\ sink'.unacked = sink.unacked
         /\ (sink'.stopped <=> sink.stopped) /\ (sink'.ending <=> sink.ending)
         /\ (sink.ended => sink'.ended) /\ (sink'.ended => sink.ended \/ sink.ending)
         /\ ends' = ends
    BY <2>5 DEF DrainedTo
  <2>11. AcksOut' \in Nat /\ AcksOut' <= AcksOut + n /\ ("page" \notin ends => AcksOut' = AcksOut + n)
    <3>1. ends \subseteq {"broker", "page"}
      BY DEF IInv, Shape
    <3> QED BY <1>2, <1>4, <1>5, <2>7, <3>1
  <2>12. NoWrites' /\ OneWrite' /\ NoAcks /\ ("page" \notin ends => page.writing)
    BY <1>3, <1>17, <1>23, <2>2
  <2>13. WriteInv'
    <3>1. Held' = 0
      BY <1>23, <2>10 DEF Held
    <3>2. page.accepted + page.acked + AcksOut' + Held' <= socket'.taken
      <4>1. \A a, b, c, v, d, e \in Nat : a + b + c + 0 <= e /\ v <= c + d => a + b + v + 0 <= e + d
        OBVIOUS
      <4>2. socket'.taken = socket.taken + n
        BY <2>3, <2>9
      <4>3. /\ page.accepted \in Nat /\ page.acked \in Nat /\ AcksOut \in Nat /\ socket.taken \in Nat
            /\ page.accepted + page.acked + AcksOut + 0 <= socket.taken
        BY <1>5, <1>7, <1>15
      <4>4. page.accepted + page.acked + AcksOut' + 0 <= socket.taken + n
        BY <1>4, <2>11, <4>1, <4>3
      <4> QED BY <3>1, <4>2, <4>4
    <3>3. "page" \notin ends /\ ~sink'.stopped => sink'.unacked + WritesIn' + AcksOut' + page.acked <= page.piece
      <4>1. WritesIn = n + WritesIn' /\ WritesIn' \in Nat
        BY <1>3, <2>2
      <4>2. \A a, b, c, d, e, f \in Nat : a + (b + c) + d + e <= f => a + c + (d + b) + e <= f
        OBVIOUS
      <4> QED BY <1>4, <1>5, <1>7, <1>16, <2>10, <2>11, <4>1, <4>2
    <3>4. socket'.reset => ~socket'.alive
      BY <1>23, <2>3, <2>9
    <3>5. NoFalseLimit'
      BY <2>7 DEF IInv, WriteInv
    <3>6. sink'.unacked = Sum(sink'.writes) /\ (sink'.ended => sink'.ending)
      BY <1>5, <1>11, <2>10
    <3>7. /\ sink'.ending => sink.ending \/ WriteEndSent
          /\ sink.stopped => sink'.stopped
          /\ sink.ended => sink'.ended
          /\ FailurePosted' => FailurePosted \/ sink'.ended \/ sink'.stopped
      BY <2>7, <2>10
    <3> QED BY <1>1, <2>8, <2>10, <3>2, <3>3, <3>4, <3>5, <3>6, <3>7, WroteKeeps
  <2>14. OnePieceInv'
    <3>1. AcksInOrder'
      BY <2>7, <2>12 DEF IInv, OnePieceInv
    <3>2. sink'.writes = <<>> /\ Len(sink'.writes) <= 1
      BY <1>23, <2>10
    <3>3. socket'.outgoing <= SocketBuffer
      BY <1>23, <2>3, <2>9
    <3>4. page' = page /\ ends' = ends
      BY <1>1, <2>10
    <3> QED BY <2>12, <3>1, <3>2, <3>3, <3>4 DEF OnePieceInv
  <2> QED BY <2>9, <2>13, <2>14, WorkedKeeps DEF IInv
<1> QED
  BY <1>18, <1>19, <1>20, <1>21, <1>22, <1>23

\* A drain accepts the one write that waits.
LEMMA WriteSettlesKeeps ==
    ASSUME IInv, WriteSettles
    PROVE  IInv'
<1> DEFINE w == Head(sink.writes)
           s == Handed(socket, 0)
           k == Settled(sink, <<>>, w)
<1>1. /\ ~sink.stopped /\ sink.writes # <<>> /\ Writable(socket) /\ socket.outgoing = 0
      /\ page' = page /\ calls' = calls
  BY DEF WriteSettles, Drains
<1>2. "broker" \notin ends
  BY <1>1 DEF IInv, PartsAgree
<1>3. /\ Shape /\ socket \in Sockets /\ sink \in Sinks /\ sink.writes \in Seq(Nat)
      /\ sink.unacked = Sum(sink.writes)
      /\ AcksOut \in Nat /\ WritesIn \in Nat
      /\ page.accepted \in Nat /\ page.acked \in Nat /\ page.piece \in Nat /\ socket.taken \in Nat
  <2>1. Shape /\ socket \in Sockets /\ sink \in Sinks /\ page \in Pages /\ sink.unacked = Sum(sink.writes)
    BY DEF IInv, Shape, WriteInv
  <2> QED BY <2>1, CarriedType DEF Sinks, Pages, Sockets
<1>4. ~socket.reset /\ socket.alive /\ socket.ours = "open"
  BY <1>1 DEF Writable, IInv, WriteInv
<1>5. Len(sink.writes) <= 1 /\ w > 0 /\ NoWrites /\ EmptyAcks /\ AcksInOrder /\ ("page" \notin ends => page.writing)
  BY <1>1, <1>4 DEF IInv, OnePieceInv
<1>6. w \in Nat /\ Tail(sink.writes) = <<>> /\ sink.unacked = w
  <2>1. Len(sink.writes) = 1
    <3>1. Len(sink.writes) # 0 /\ Len(sink.writes) \in Nat
      BY <1>1, <1>3, EmptySeq
    <3>2. Len(sink.writes) <= 1
      BY <1>5
    <3>3. \A a \in Nat : a # 0 /\ a <= 1 => a = 1
      OBVIOUS
    <3> QED BY <3>1, <3>2, <3>3
  <2>2. w \in Nat /\ Tail(sink.writes) \in Seq(Nat) /\ Len(Tail(sink.writes)) = 0
    BY <1>1, <1>3, <2>1, HeadTailProperties
  <2>3. Tail(sink.writes) = <<>>
    BY <2>2, EmptySeq
  <2>4. Sum(sink.writes) = w + Sum(<<>>)
    BY <1>1, <1>3, <2>3, SumTail
  <2> QED BY <1>3, <2>2, <2>3, <2>4, SumSmall
<1>7. Drained(k, s, <<Ack(w)>>, toBroker)
  <2>1. 0 <= SocketBuffer /\ w + 0 = w
    BY <1>6, RelayAssumption
  <2> HIDE DEF w
  <2> QED BY <1>6, <2>1 DEF WriteSettles, w
<1>8. toBroker' = toBroker
  BY <1>7 DEF Drained
<1>9. /\ k \in Sinks /\ k.writes = <<>> /\ k.unacked = 0 /\ ~k.stopped
      /\ (k.ending <=> sink.ending) /\ (k.ended <=> sink.ended)
  <2>1. sink.unacked - w = 0
    BY <1>6
  <2>2. k = [sink EXCEPT !.writes = <<>>, !.unacked = 0]
    BY <2>1 DEF Settled
  <2> HIDE DEF k
  <2>3. <<>> \in Seq(Nat) /\ 0 \in Int
    OBVIOUS
  <2>4. k \in Sinks /\ k.writes = <<>> /\ k.unacked = 0
    BY <1>3, <2>2, <2>3 DEF Sinks
  <2>5. k.stopped = sink.stopped /\ k.ending = sink.ending /\ k.ended = sink.ended
    BY <1>3, <2>2 DEF Sinks
  <2> QED BY <1>1, <2>4, <2>5
<1>10. /\ SameReading(socket, s) /\ s \in Sockets /\ s.outgoing = 0
       /\ s.taken = socket.taken /\ s.readable = socket.readable /\ (s.reset <=> socket.reset)
       /\ s.ours = "open"
  <2>1. 0 \in Nat /\ socket.outgoing + 0 = 0 /\ socket.taken + 0 = socket.taken
    BY <1>1, <1>3
  <2> QED BY <1>3, <1>4, <2>1, HandedFacts
<1> HIDE DEF w, s, k
<1>11. <<Ack(w)>> \in Seq(PageMessages)
  <2>1. Ack(w) \in PageMessages
    BY <1>6, PageMessageFacts
  <2> QED BY <2>1
<1>12. DrainedTo(k, s, <<Ack(w)>>, toBroker)
  BY <1>7, <1>9, <1>10, <1>11, DrainedLeaves
<1>13. toPage' = PostedToPage(<<Ack(w)>>)
  <2>1. PICK refusal \in Seq(Notices) :
          toPage' = PostedToPage(<<Ack(w)>> \o refusal) /\ (s.ours \in {"open", "ending"} => refusal = <<>>)
    BY <1>12 DEF DrainedTo
  <2>2. refusal = <<>>
    BY <1>10, <2>1
  <2>3. <<Ack(w)>> \o <<>> = <<Ack(w)>>
    BY <1>11, ConcatEmptySeq
  <2> QED BY <2>1, <2>2, <2>3
<1>14. /\ toPage' \in Seq(PageMessages) /\ (ends # {} => toPage' = toPage)
       /\ DataOut' = DataOut /\ AcksOut' = AcksOut + (IF ends = {} THEN w ELSE 0)
       /\ EndPosted' => EndPosted
       /\ NothingAfterEnd => NothingAfterEnd'
       /\ AcksInOrder'
       /\ NoFalseLimit => NoFalseLimit'
       /\ FailurePosted' => FailurePosted
  BY <1>3, <1>5, <1>6, <1>13, PostsAck
<1>15. /\ toBroker' \in Seq(BrokerMessages) /\ CreditIn' = CreditIn /\ WritesIn' = WritesIn
       /\ NoWrites' /\ OneWrite' /\ (WriteEndSent' => WriteEndSent)
  <2>1. NoWrites => OneWrite
    BY DEF NoWrites, OneWrite
  <2> QED BY <1>3, <1>5, <1>8, <2>1, BrokerQueueKept
<1>16. Worked /\ socket'.taken = s.taken /\ socket'.outgoing = s.outgoing /\ (socket'.reset <=> s.reset)
  BY <1>1, <1>2, <1>10, <1>12, <1>14, <1>15, DrainedWorks
<1>17. /\ sink'.writes = <<>> /\ sink'.unacked = 0
       /\ ~sink'.stopped /\ (sink'.ending <=> sink.ending)
       /\ (sink.ended => sink'.ended) /\ (sink'.ended => sink.ended \/ sink.ending)
       /\ ends' = ends
  BY <1>9, <1>12 DEF DrainedTo
<1>18. AcksOut' \in Nat /\ AcksOut' <= AcksOut + w
  BY <1>3, <1>6, <1>14
<1>19. WriteInv'
  <2>1. Held' = 0 /\ Held = w
    BY <1>1, <1>4, <1>17 DEF Held, w
  <2>2. page.accepted + page.acked + AcksOut' + Held' <= socket'.taken
    <3>1. page.accepted + page.acked + AcksOut + w <= socket.taken
      BY <2>1 DEF IInv, WriteInv
    <3>2. \A a, b, c, c2, d, e \in Nat : a + b + c + d <= e /\ c2 <= c + d => a + b + c2 + 0 <= e
      OBVIOUS
    <3> QED BY <1>3, <1>6, <1>10, <1>16, <1>18, <2>1, <3>1, <3>2
  <2>3. "page" \notin ends /\ ~sink'.stopped => sink'.unacked + WritesIn' + AcksOut' + page.acked <= page.piece
    <3>1. "page" \notin ends => w + WritesIn + AcksOut + page.acked <= page.piece
      BY <1>1, <1>6 DEF IInv, WriteInv
    <3>2. \A a, b, c, c2, d, e \in Nat : a + b + c + d <= e /\ c2 <= c + a => 0 + b + c2 + d <= e
      OBVIOUS
    <3> QED BY <1>3, <1>6, <1>15, <1>17, <1>18, <3>1, <3>2
  <2>4. socket'.reset => ~socket'.alive
    BY <1>4, <1>10, <1>16
  <2>5. sink'.unacked = Sum(sink'.writes)
    BY <1>17, SumSmall
  <2>6. sink'.ended => sink'.ending
    BY <1>17 DEF IInv, WriteInv
  <2>7. NoFalseLimit'
    BY <1>14 DEF IInv, WriteInv
  <2>8. /\ sink'.ending => sink.ending \/ WriteEndSent
        /\ sink.stopped => sink'.stopped
        /\ sink.ended => sink'.ended
        /\ FailurePosted' => FailurePosted \/ sink'.ended \/ sink'.stopped
    BY <1>1, <1>14, <1>17
  <2> QED BY <1>1, <1>15, <1>17, <2>2, <2>3, <2>4, <2>5, <2>6, <2>7, <2>8, WroteKeeps
<1>20. OnePieceInv'
  <2>1. socket'.outgoing <= SocketBuffer
    BY <1>10, <1>16, RelayAssumption
  <2>2. Len(sink'.writes) <= 1
    BY <1>17
  <2> QED BY <1>1, <1>5, <1>14, <1>15, <1>17, <2>1, <2>2 DEF OnePieceInv
<1> QED
  BY <1>16, <1>19, <1>20, WorkedKeeps DEF IInv

\* A write that is rejected, or a read, fails the socket.
LEMMA WriteRejectedKeeps ==
    ASSUME IInv, WriteRejected
    PROVE  IInv'
<1> DEFINE k == [sink EXCEPT !.stopped = TRUE]
<1>1. /\ ~sink.stopped /\ page' = page /\ calls' = calls
      /\ FailSocket(pump, k, <<Failed("reset")>>, "reset", toBroker)
  BY DEF WriteRejected
<1>2. "broker" \notin ends
  BY <1>1 DEF IInv, PartsAgree
<1>3. Shape /\ sink \in Sinks /\ pump \in Pumps
  BY DEF IInv, Shape
<1>4. /\ k \in Sinks /\ k.writes = sink.writes /\ k.unacked = sink.unacked /\ k.stopped
      /\ (k.ending <=> sink.ending) /\ (k.ended <=> sink.ended)
  BY <1>3 DEF Sinks
<1>5. "reset" \in Codes \ {"limit"} /\ "reset" # "limit"
  BY DEF Codes
<1>6. <<Failed("reset")>> \in Seq(PageMessages) /\ <<Failed("reset")>> \in Seq(Notices)
  BY <1>5, SequencesOfNotices
<1>7. toBroker' = toBroker =>
        /\ toBroker' \in Seq(BrokerMessages) /\ CreditIn' = CreditIn /\ WritesIn' = WritesIn
        /\ (NoWrites => NoWrites') /\ (OneWrite => OneWrite') /\ (WriteEndSent' => WriteEndSent)
  BY <1>3, BrokerQueueKept
<1> HIDE DEF k
<1> QED
  BY <1>1, <1>2, <1>3, <1>4, <1>5, <1>6, <1>7, FailKeeps

LEMMA PumpFailsKeeps ==
    ASSUME IInv, PumpFails
    PROVE  IInv'
<1> DEFINE p == [pump EXCEPT !.stopped = TRUE, !.endSent = TRUE]
           posted == IF pump.endSent THEN <<>> ELSE <<End("reset")>>
<1>1. /\ ~pump.stopped /\ page' = page /\ calls' = calls
      /\ FailSocket(p, sink, posted, "reset", toBroker)
  BY DEF PumpFails
<1>2. "broker" \notin ends
  BY <1>1 DEF IInv, PartsAgree
<1>3. Shape /\ sink \in Sinks /\ pump \in Pumps
  BY DEF IInv, Shape
<1>4. p \in Pumps /\ p.credit = pump.credit /\ p.stopped /\ p.endSent
  BY <1>3 DEF Pumps
<1>5. "reset" \in Codes /\ "reset" # "limit"
  BY DEF Codes
<1>6. /\ posted \in Seq(Notices) /\ posted \in Seq(PageMessages)
      /\ \A i \in DOMAIN posted : posted[i].kind # "failed"
  <2>1. <<End("reset")>> \in Seq(Notices) /\ <<>> \in Seq(Notices) /\ End("reset").kind = "end"
    BY <1>5, SequencesOfNotices, PageMessageFacts
  <2>2. posted \in Seq(Notices) /\ posted \in Seq(PageMessages)
    BY <2>1, SequencesOfNotices
  <2>3. \A i \in DOMAIN posted : posted[i] = End("reset")
    OBVIOUS
  <2> QED BY <2>1, <2>2, <2>3
<1>7. toBroker' = toBroker =>
        /\ toBroker' \in Seq(BrokerMessages) /\ CreditIn' = CreditIn /\ WritesIn' = WritesIn
        /\ (NoWrites => NoWrites') /\ (OneWrite => OneWrite') /\ (WriteEndSent' => WriteEndSent)
  BY <1>3, BrokerQueueKept
<1> HIDE DEF p, posted
<1> QED
  BY <1>1, <1>2, <1>3, <1>4, <1>5, <1>6, <1>7, FailKeeps

\* A write-end, once what came before it is accepted, closes the writer.
LEMMA ReceiveEndKeeps ==
    ASSUME IInv, ReceiveEnd
    PROVE  IInv'
<1> DEFINE k == IF sink.stopped THEN sink ELSE [sink EXCEPT !.ending = TRUE]
           rest == Tail(toBroker)
           m == Head(toBroker)
<1>1. /\ toBroker # <<>> /\ m.kind = "writeEnd" /\ page' = page /\ calls' = calls
      /\ Drained(k, socket, <<>>, rest)
  BY DEF ReceiveEnd, Arrives
<1>2. toBroker' = rest
  BY <1>1 DEF Drained
<1>3. Shape /\ socket \in Sockets /\ sink \in Sinks /\ sink.unacked = Sum(sink.writes)
  BY DEF IInv, Shape, WriteInv
<1>4. "broker" \notin ends /\ CreditIn' = CreditIn /\ WritesIn' = WritesIn
  BY <1>1, <1>2, Hears
<1>5. /\ toBroker' \in Seq(BrokerMessages) /\ WriteEndSent
      /\ NoWrites => NoWrites'
      /\ OneWrite => OneWrite'
      /\ WriteEndSent' => WriteEndSent
  BY <1>1, <1>2, <1>3, Receives
<1>6. /\ k \in Sinks /\ k.writes = sink.writes /\ k.unacked = sink.unacked
      /\ (k.stopped <=> sink.stopped) /\ (k.ended <=> sink.ended) /\ (sink.ending => k.ending)
  BY <1>3 DEF Sinks
<1>7. k.ended => k.ending
  BY <1>6 DEF IInv, WriteInv
<1> HIDE DEF k, rest, m
<1>8. HeldOf(k, socket) = Held
  BY <1>6 DEF HeldOf, Held
<1>9. /\ page.accepted + page.acked + AcksOut + HeldOf(k, socket) <= socket.taken
      /\ "page" \notin ends /\ ~k.stopped => k.unacked + WritesIn' + AcksOut + page.acked <= page.piece
  BY <1>4, <1>6, <1>8 DEF IInv, WriteInv
<1>10. /\ ~socket.reset => Len(k.writes) <= 1
       /\ ~socket.reset /\ ~k.stopped =>
            /\ k.writes = <<>> => socket.outgoing <= SocketBuffer
            /\ k.writes # <<>> => Head(k.writes) > 0 /\ NoWrites' /\ EmptyAcks
            /\ OneWrite' /\ (NoWrites' \/ NoAcks)
            /\ ~page.writing /\ "page" \notin ends => k.writes = <<>> /\ NoWrites' /\ NoAcks
  BY <1>5, <1>6 DEF IInv, OnePieceInv
<1>11. SameReading(socket, socket)
  BY <1>3, SocketItself
<1> QED
  BY <1>1, <1>3, <1>4, <1>5, <1>6, <1>7, <1>9, <1>10, <1>11, SequencesOfNotices, DrainedKeeps

\* An abort takes the socket with it, unless it was told to end before.
LEMMA ReceiveAbortKeeps ==
    ASSUME IInv, ReceiveAbort
    PROVE  IInv'
<1> DEFINE k == [sink EXCEPT !.stopped = TRUE]
           rest == Tail(toBroker)
           m == Head(toBroker)
<1>1. toBroker # <<>> /\ m.kind = "writeAbort" /\ page' = page /\ calls' = calls
  BY DEF ReceiveAbort, Arrives
<1>2. /\ Shape /\ socket \in Sockets /\ sink \in Sinks /\ pump \in Pumps /\ handle \in Handles
      /\ sink.unacked = Sum(sink.writes)
      /\ (sink.ended => sink.ending)
  BY DEF IInv, Shape, WriteInv
<1>3. /\ k \in Sinks /\ k.writes = sink.writes /\ k.unacked = sink.unacked /\ k.stopped
      /\ (k.ending <=> sink.ending) /\ (k.ended <=> sink.ended)
  BY <1>2 DEF Sinks
<1>4. "broker" \notin ends /\ (toBroker' = rest => CreditIn' = CreditIn /\ WritesIn' = WritesIn)
  BY <1>1, Hears
<1>5. toBroker' = rest => toBroker' \in Seq(BrokerMessages) /\ (WriteEndSent' => WriteEndSent)
  BY <1>1, <1>2, Receives
<1>6. "reset" \in Codes \ {"limit"} /\ "reset" # "limit"
  BY DEF Codes
<1>7. /\ <<Failed("reset")>> \in Seq(PageMessages) /\ <<Failed("reset")>> \in Seq(Notices)
      /\ <<>> \in Seq(PageMessages) /\ <<>> \in Seq(Notices)
  BY <1>6, SequencesOfNotices
<1>8. page.accepted + page.acked + AcksOut + 0 <= socket.taken
  <2>1. /\ page.accepted \in Nat /\ page.acked \in Nat /\ AcksOut \in Nat /\ socket.taken \in Nat
        /\ sink.writes \in Seq(Nat)
    BY <1>2, CarriedType DEF Shape, Pages, Sockets, Sinks
  <2>2. Held \in Nat
    BY <2>1, SumTail DEF Held
  <2>3. page.accepted + page.acked + AcksOut + Held <= socket.taken
    BY DEF IInv, WriteInv
  <2>4. \A a, b, c, d, e \in Nat : a + b + c + d <= e => a + b + c + 0 <= e
    OBVIOUS
  <2> QED BY <2>1, <2>2, <2>3, <2>4
<1>9. ~socket.reset => Len(sink.writes) <= 1
  BY DEF IInv, OnePieceInv
<1>10. CASE sink.stopped
  <2>1. Drained(sink, socket, <<>>, rest)
    BY <1>10 DEF ReceiveAbort
  <2>2. toBroker' = rest
    BY <2>1 DEF Drained
  <2>3. HeldOf(sink, socket) = 0
    BY <1>10 DEF HeldOf
  <2>4. SameReading(socket, socket)
    BY <1>2, SocketItself
  <2> HIDE DEF k, rest, m
  <2> QED BY <1>1, <1>2, <1>4, <1>5, <1>7, <1>8, <1>9, <1>10, <2>1, <2>2, <2>3, <2>4, DrainedKeeps
<1>11. CASE ~sink.stopped /\ handle.state = "live"
  <2>1. /\ Stop(pump, k, <<Failed("reset")>>, "reset") /\ handle' = Gone("aborted")
        /\ socket' = ResetAndDestroyed(ReaderCancelled(socket))
    BY <1>11 DEF ReceiveAbort
  <2> HIDE DEF k, rest, m
  <2>2. StopDone
    <3>1. "reset" \in Codes \cup {"clean"} /\ "reset" # "clean"
      BY <1>6
    <3> QED BY <1>2, <1>3, <1>6, <1>7, <2>1, <3>1, StopLeaves
  <2>3. Shut(socket, socket')
    <3>1. Shut(socket, ReaderCancelled(socket)) /\ ReaderCancelled(socket) \in Sockets
      BY <1>2, ShutByCancel DEF Shut, SameReading
    <3> QED BY <2>1, <3>1, ShutByDestroy, ShutTwice
  <2>4. handle' \in Handles /\ handle'.state # "live"
    BY <1>2, <2>1 DEF Gone, Handles
  <2> QED BY <1>1, <1>2, <2>2, <2>3, <2>4, CallsKept, StopKeeps
<1>12. CASE ~sink.stopped /\ handle.state # "live"
  <2> DEFINE s == WriterAborted(socket)
  <2>1. Drained(k, s, <<Failed("reset")>>, rest)
    BY <1>12 DEF ReceiveAbort
  <2>2. toBroker' = rest
    BY <2>1 DEF Drained
  <2>3. Shut(socket, s)
    BY <1>2, ShutByAbort
  <2> HIDE DEF k, rest, m, s
  <2>4. s \in Sockets /\ SameReading(socket, s) /\ s.taken = socket.taken
    BY <2>3 DEF Shut, SameReading
  <2>5. HeldOf(k, s) = 0
    BY <1>3 DEF HeldOf
  <2>6. socket.readable = "closed" \/ ~NoCalls
    <3>1. handle.state = "leaving"
      BY <1>2, <1>4, <1>12 DEF IInv, PartsAgree, Handles
    <3> QED BY <1>4, <3>1 DEF IInv, PartsAgree, NoCalls
  <2> QED
    BY <1>1, <1>2, <1>3, <1>4, <1>5, <1>7, <1>8, <1>9, <2>1, <2>2, <2>4, <2>5, <2>6, DrainedKeeps
<1> QED
  BY <1>10, <1>11, <1>12

\* Credit never overfills the window, so nothing of it is cut off.
LEMMA ReceiveCreditKeeps ==
    ASSUME IInv, ReceiveCredit
    PROVE  IInv'
<1> DEFINE m == Head(toBroker)
<1>1. /\ toBroker # <<>> /\ m.kind = "credit" /\ toBroker' = Tail(toBroker)
      /\ pump' = IF pump.stopped THEN pump ELSE [pump EXCEPT !.credit = Least(pump.credit + m.n, ReadWindow)]
      /\ socket' = socket /\ sink' = sink /\ relay' = relay /\ handle' = handle
      /\ toPage' = toPage /\ ends' = ends /\ page' = page /\ calls' = calls
  BY DEF ReceiveCredit, Arrives
<1>2. Shape /\ pump \in Pumps /\ page \in Pages
  BY DEF IInv, Shape
<1>3. "broker" \notin ends
  BY <1>1 DEF IInv, PartsAgree
<1>4. /\ m \in BrokerMessages /\ toBroker' \in Seq(BrokerMessages)
      /\ CreditIn = Amount(m, "credit") + CreditIn' /\ WritesIn = Amount(m, "write") + WritesIn'
      /\ CreditIn' \in Nat /\ WritesIn' \in Nat
      /\ NoWrites => NoWrites'
      /\ OneWrite => OneWrite'
      /\ WriteEndSent' => WriteEndSent
  BY <1>1, <1>2, Receives
<1>5. m.n \in Nat /\ CreditIn = m.n + CreditIn' /\ WritesIn' = WritesIn
  <2>1. m.n \in Nat
    BY <1>1, <1>4, BrokerMessageFacts
  <2>2. Amount(m, "credit") = m.n /\ Amount(m, "write") = 0
    BY <1>1 DEF Amount
  <2> QED BY <1>4, <2>1, <2>2
<1> HIDE DEF m
<1>6. QuietPage /\ (FailurePosted' <=> FailurePosted) /\ (NoAcks' <=> NoAcks)
  BY <1>1, <1>2, PageQueueKept
<1>7. /\ DataOut' = DataOut /\ AcksOut' = AcksOut
      /\ EndPosted' => EndPosted
      /\ NothingAfterEnd => NothingAfterEnd'
      /\ EmptyAcks => EmptyAcks'
      /\ AcksInOrder => AcksInOrder'
      /\ NoFalseLimit => NoFalseLimit'
  BY <1>6 DEF QuietPage
<1>8. ReadWindow \in Int
  BY RelayAssumption
<1>9. /\ pump' \in Pumps /\ (pump'.stopped <=> pump.stopped) /\ (pump'.endSent <=> pump.endSent)
      /\ ~pump.stopped => pump'.credit = Least(pump.credit + m.n, ReadWindow)
  <2>1. pump.credit \in Int
    BY <1>2 DEF Pumps
  <2>2. Least(pump.credit + m.n, ReadWindow) \in Int
    BY <1>5, <1>8, <2>1 DEF Least
  <2> QED BY <1>1, <1>2, <2>2 DEF Pumps
<1>10. Shape'
  BY <1>1, <1>4, <1>9 DEF IInv, Shape
<1>11. WindowInv'
  <2>1. ASSUME ~pump.stopped, ends = {}
        PROVE  pump'.credit + DataOut' + page.uncredited + page.sinceLastCredit + CreditIn' = ReadWindow
    <3>1. pump.credit + DataOut + page.uncredited + page.sinceLastCredit + CreditIn = ReadWindow
      BY <2>1 DEF IInv, WindowInv
    <3>2. /\ pump.credit \in Int /\ DataOut \in Nat /\ page.uncredited \in Nat /\ page.sinceLastCredit \in Nat
      BY <1>2, CarriedType DEF Pumps, Pages
    <3>3. m.n \in Nat /\ CreditIn' \in Nat /\ CreditIn = m.n + CreditIn'
      BY <1>4, <1>5
    <3>4. \A a, w \in Int : \A b, c, d, e, f \in Nat :
            a + b + c + d + (e + f) = w => a + e <= w /\ (a + e) + b + c + d + f = w
      OBVIOUS
    <3>5. /\ pump.credit + m.n <= ReadWindow
          /\ (pump.credit + m.n) + DataOut + page.uncredited + page.sinceLastCredit + CreditIn' = ReadWindow
      BY <1>8, <3>1, <3>2, <3>3, <3>4
    <3>6. pump'.credit = pump.credit + m.n
      BY <1>9, <2>1, <3>5 DEF Least
    <3> QED BY <1>7, <3>5, <3>6
  <2> QED BY <1>1, <1>9, <2>1 DEF IInv, WindowInv
<1>12. PartsAgree'
  BY <1>1, <1>3, <1>9 DEF IInv, PartsAgree
<1>13. CleanInv'
  BY <1>1, <1>7, <1>9 DEF IInv, CleanInv, AllRead, Unread, NoCalls
<1>14. WriteInv'
  BY <1>1, <1>4, <1>5, <1>6, <1>7 DEF IInv, WriteInv, Held
<1>15. OnePieceInv'
  BY <1>1, <1>4, <1>6, <1>7 DEF IInv, OnePieceInv
<1> QED
  BY <1>10, <1>11, <1>12, <1>13, <1>14, <1>15 DEF IInv

\* A heartbeat acknowledges nothing.
LEMMA HeartbeatKeeps ==
    ASSUME IInv, Heartbeat
    PROVE  IInv'
<1>1. /\ ~sink.stopped /\ sink.writes # <<>> /\ toPage' = PostedToPage(<<Ack(0)>>)
      /\ \A i \in 1 .. Len(toPage) : toPage[i].kind # "ack"
      /\ socket' = socket /\ pump' = pump /\ sink' = sink /\ relay' = relay /\ handle' = handle
      /\ toBroker' = toBroker /\ ends' = ends /\ page' = page /\ calls' = calls
  BY DEF Heartbeat
<1>2. Shape /\ "broker" \notin ends
  BY <1>1 DEF IInv, PartsAgree
<1>3. NoAcks /\ EmptyAcks
  <2>1. DOMAIN toPage = 1 .. Len(toPage)
    BY <1>2 DEF Shape
  <2> QED BY <1>1, <2>1 DEF NoAcks, EmptyAcks
<1>4. /\ toPage' \in Seq(PageMessages) /\ (ends # {} => toPage' = toPage)
      /\ DataOut' = DataOut /\ AcksOut' = AcksOut + (IF ends = {} THEN 0 ELSE 0)
      /\ EndPosted' => EndPosted
      /\ NothingAfterEnd => NothingAfterEnd'
      /\ EmptyAcks'
      /\ AcksInOrder => AcksInOrder'
      /\ NoFalseLimit => NoFalseLimit'
      /\ FailurePosted' => FailurePosted
  BY <1>1, <1>2, <1>3, PostsAck
<1>5. AcksOut' = AcksOut
  BY <1>2, <1>4, CarriedType
<1>6. /\ toBroker' \in Seq(BrokerMessages) /\ CreditIn' = CreditIn /\ WritesIn' = WritesIn
      /\ (NoWrites' <=> NoWrites) /\ (OneWrite' <=> OneWrite) /\ (WriteEndSent' <=> WriteEndSent)
  BY <1>1, <1>2, BrokerQueueKept
<1>7. Shape'
  BY <1>1, <1>4, <1>6 DEF IInv, Shape
<1>8. WindowInv'
  BY <1>1, <1>4, <1>6 DEF IInv, WindowInv
<1>9. PartsAgree'
  BY <1>1, <1>2, <1>4 DEF IInv, PartsAgree
<1>10. CleanInv'
  BY <1>1, <1>4 DEF IInv, CleanInv, AllRead, Unread, NoCalls
<1>11. WriteInv'
  BY <1>1, <1>4, <1>5, <1>6 DEF IInv, WriteInv, Held
<1>12. OnePieceInv'
  BY <1>1, <1>4, <1>6 DEF IInv, OnePieceInv
<1> QED
  BY <1>7, <1>8, <1>9, <1>10, <1>11, <1>12 DEF IInv

\* What is read is taken off the credit and put on the port.
LEMMA PumpReadsKeeps ==
    ASSUME IInv, PumpReads
    PROVE  IInv'
<1> DEFINE n == Head(socket.incoming)
<1>1. /\ ~pump.stopped /\ pump.credit > 0 /\ socket.incoming # <<>>
      /\ socket' = [socket EXCEPT !.incoming = Tail(socket.incoming)]
      /\ pump' = [pump EXCEPT !.credit = pump.credit - n]
      /\ toPage' = PostedToPage(<<Data(n)>>)
      /\ sink' = sink /\ relay' = relay /\ handle' = handle
      /\ toBroker' = toBroker /\ ends' = ends /\ page' = page /\ calls' = calls
  BY DEF PumpReads
<1>2. /\ Shape /\ socket \in Sockets /\ pump \in Pumps /\ page \in Pages
      /\ socket.incoming \in Seq(Nat) /\ pump.credit \in Int
      /\ page.got \in Nat /\ page.uncredited \in Nat /\ page.sinceLastCredit \in Nat
      /\ DataOut \in Nat /\ CreditIn \in Nat /\ Unread \in Nat
  <2>1. Shape /\ socket \in Sockets /\ pump \in Pumps /\ page \in Pages
    BY DEF IInv, Shape
  <2> QED BY <2>1, CarriedType DEF Sockets, Pumps, Pages
<1>3. "broker" \notin ends
  BY <1>1 DEF IInv, PartsAgree
<1>4. /\ n \in Nat /\ Tail(socket.incoming) \in Seq(Nat) /\ Unread = n + Sum(Tail(socket.incoming))
      /\ Sum(Tail(socket.incoming)) \in Nat
  BY <1>1, <1>2, SumTail DEF Unread
<1> HIDE DEF n
<1>5. /\ socket' \in Sockets /\ socket'.incoming = Tail(socket.incoming)
      /\ socket'.sent = socket.sent /\ socket'.theirs = socket.theirs /\ socket'.readable = socket.readable
      /\ (socket'.reset <=> socket.reset) /\ (socket'.alive <=> socket.alive)
      /\ socket'.taken = socket.taken /\ socket'.outgoing = socket.outgoing
  BY <1>1, <1>2, <1>4 DEF Sockets
<1>6. /\ pump' \in Pumps /\ pump'.credit = pump.credit - n /\ ~pump'.stopped /\ (pump'.endSent <=> pump.endSent)
  <2> DEFINE left == pump.credit - n
  <2>1. left \in Int
    BY <1>2, <1>4
  <2>2. pump' = [pump EXCEPT !.credit = left]
    BY <1>1
  <2> HIDE DEF left
  <2>3. pump' \in Pumps /\ pump'.credit = left
    BY <1>2, <2>1, <2>2 DEF Pumps
  <2>4. (pump'.stopped <=> pump.stopped) /\ (pump'.endSent <=> pump.endSent)
    BY <1>2, <2>2 DEF Pumps
  <2> QED BY <1>1, <2>3, <2>4 DEF left
<1>7. /\ toPage' \in Seq(PageMessages)
      /\ ends # {} => toPage' = toPage
      /\ DataOut' = DataOut + (IF ends = {} THEN n ELSE 0) /\ AcksOut' = AcksOut
      /\ EndPosted' => EndPosted
      /\ NothingAfterEnd /\ ~EndPosted => NothingAfterEnd'
      /\ FailurePosted' => FailurePosted
      /\ NoAcks => NoAcks'
      /\ EmptyAcks => EmptyAcks'
      /\ AcksInOrder => AcksInOrder'
      /\ NoFalseLimit => NoFalseLimit'
  <2>1. CASE ends = {}
    <3>1. toPage' = toPage \o <<Data(n)>>
      BY <1>1, <2>1 DEF PostedToPage
    <3> QED BY <1>2, <1>4, <2>1, <3>1, PostsData
  <2>2. CASE ends # {}
    <3>1. toPage' = toPage
      BY <1>1, <2>2 DEF PostedToPage
    <3> QED BY <1>2, <2>2, <3>1, PageQueueKept DEF QuietPage
  <2> QED BY <2>1, <2>2
<1>8. /\ toBroker' \in Seq(BrokerMessages) /\ CreditIn' = CreditIn /\ WritesIn' = WritesIn
      /\ (NoWrites' <=> NoWrites) /\ (OneWrite' <=> OneWrite) /\ (WriteEndSent' <=> WriteEndSent)
  BY <1>1, <1>2, BrokerQueueKept
<1>9. Shape'
  BY <1>1, <1>5, <1>6, <1>7, <1>8 DEF IInv, Shape
<1>10. WindowInv'
  <2>1. ASSUME ends = {}
        PROVE  pump'.credit + DataOut' + page.uncredited + page.sinceLastCredit + CreditIn' = ReadWindow
    <3>1. pump.credit + DataOut + page.uncredited + page.sinceLastCredit + CreditIn = ReadWindow
      BY <1>1, <2>1 DEF IInv, WindowInv
    <3>2. \A a \in Int : \A b, c, d, e, f \in Nat : (a - f) + (b + f) + c + d + e = a + b + c + d + e
      OBVIOUS
    <3> QED BY <1>2, <1>4, <1>6, <1>7, <1>8, <2>1, <3>1, <3>2
  <2> QED BY <1>1, <2>1 DEF IInv, WindowInv
<1>11. ~AllRead
  BY <1>1 DEF AllRead
<1>12. PartsAgree'
  BY <1>1, <1>3, <1>5, <1>6, <1>7 DEF IInv, PartsAgree
<1>13. CleanInv'
  <2>1. "page" \notin ends' /\ socket'.readable \in {"open", "closed"} =>
          page'.got + DataOut' + Unread' = socket'.sent
    <3>1. ASSUME "page" \notin ends, socket.readable \in {"open", "closed"}
          PROVE  page.got + DataOut' + Unread' = socket.sent
      <4>1. ends = {}
        BY <1>2, <1>3, <3>1 DEF Shape
      <4>2. page.got + DataOut + Unread = socket.sent
        BY <3>1 DEF IInv, CleanInv
      <4>3. Unread' = Sum(Tail(socket.incoming))
        BY <1>5 DEF Unread
      <4>4. \A a, b, c, d \in Nat : a + (b + c) + d = a + b + (c + d)
        OBVIOUS
      <4> QED BY <1>2, <1>4, <1>7, <4>1, <4>2, <4>3, <4>4
    <3> QED BY <1>1, <1>5, <3>1
  <2>2. NoCalls' <=> NoCalls
    BY <1>1 DEF NoCalls
  <2>3. NoCalls => NothingAfterEnd /\ ~EndPosted /\ page.readable \notin {"ending", "closed"}
    BY <1>11 DEF IInv, CleanInv
  <2>4. NoCalls /\ socket.readable = "closed" => socket.theirs = "fin"
    BY <1>1 DEF IInv, CleanInv
  <2> QED BY <1>1, <1>5, <1>6, <1>7, <2>1, <2>2, <2>3, <2>4 DEF CleanInv
<1>14. WriteInv'
  BY <1>1, <1>5, <1>7, <1>8 DEF IInv, WriteInv, Held
<1>15. OnePieceInv'
  BY <1>1, <1>5, <1>7, <1>8 DEF IInv, OnePieceInv
<1> QED
  BY <1>9, <1>10, <1>12, <1>13, <1>14, <1>15 DEF IInv

\* The end of the stream goes out behind everything that was read.
LEMMA PumpEndsKeeps ==
    ASSUME IInv, PumpEnds
    PROVE  IInv'
<1>1. /\ ~pump.stopped /\ ~pump.endSent /\ socket.incoming = <<>> /\ socket.readable = "closed"
      /\ pump' = [pump EXCEPT !.endSent = TRUE]
      /\ toPage' = PostedToPage(<<End("clean")>>)
      /\ relay' = [relay EXCEPT !.readEnded = TRUE]
      /\ handle' = IF relay.writeEnded THEN Leaving(handle) ELSE handle
      /\ socket' = socket /\ sink' = sink
      /\ toBroker' = toBroker /\ ends' = ends /\ page' = page /\ calls' = calls
  BY DEF PumpEnds
<1>2. /\ Shape /\ pump \in Pumps /\ relay \in Relays /\ handle \in Handles /\ "broker" \notin ends
      /\ (handle.state = "live" => handle.reason = "none") /\ relay.registered /\ handle.state # "gone"
  BY <1>1 DEF IInv, Shape, PartsAgree
<1>3. /\ pump' \in Pumps /\ pump'.credit = pump.credit /\ ~pump'.stopped /\ pump'.endSent
  BY <1>1, <1>2 DEF Pumps
<1>4. relay' \in Relays /\ relay'.registered /\ relay'.readEnded
  BY <1>1, <1>2 DEF Relays
<1>5. handle' \in Handles /\ (handle'.state = "live" => handle'.reason = "none") /\ handle'.state # "gone"
  BY <1>1, <1>2, LeavingFacts
<1>6. /\ toPage' \in Seq(PageMessages)
      /\ ends # {} => toPage' = toPage
      /\ DataOut' = DataOut /\ AcksOut' = AcksOut
      /\ NothingAfterEnd => NothingAfterEnd'
      /\ FailurePosted' => FailurePosted
      /\ NoAcks => NoAcks'
      /\ EmptyAcks => EmptyAcks'
      /\ AcksInOrder => AcksInOrder'
      /\ NoFalseLimit => NoFalseLimit'
  BY <1>1, <1>2, PostsCleanEnd
<1>7. /\ toBroker' \in Seq(BrokerMessages) /\ CreditIn' = CreditIn /\ WritesIn' = WritesIn
      /\ (NoWrites' <=> NoWrites) /\ (OneWrite' <=> OneWrite) /\ (WriteEndSent' <=> WriteEndSent)
  BY <1>1, <1>2, BrokerQueueKept
<1>8. Shape'
  BY <1>1, <1>3, <1>4, <1>5, <1>6, <1>7 DEF IInv, Shape
<1>9. WindowInv'
  BY <1>1, <1>3, <1>6, <1>7 DEF IInv, WindowInv
<1>10. PartsAgree'
  <2>1. "page" \in ends' => toPage' = <<>> /\ (~page'.here \/ \E c \in Closes : calls'[c] = "done")
    BY <1>1, <1>6 DEF IInv, PartsAgree
  <2> QED BY <1>1, <1>2, <1>3, <1>4, <1>5, <2>1 DEF IInv, PartsAgree
<1>11. CleanInv'
  <2>1. NoCalls' <=> NoCalls
    BY <1>1 DEF NoCalls
  <2>2. NoCalls => AllRead'
    BY <1>1 DEF IInv, CleanInv, AllRead
  <2>3. Unread' = Unread
    BY <1>1 DEF Unread
  <2> QED BY <1>1, <1>3, <1>6, <2>1, <2>2, <2>3 DEF IInv, CleanInv
<1>12. WriteInv'
  BY <1>1, <1>6, <1>7 DEF IInv, WriteInv, Held
<1>13. OnePieceInv'
  BY <1>1, <1>6, <1>7 DEF IInv, OnePieceInv
<1> QED
  BY <1>8, <1>9, <1>10, <1>11, <1>12, <1>13 DEF IInv
-----------------------------------------------------------------------------
(* What ends the relay, and what the peer does *)

\* A relay that stops posts nothing that may mislead the page, unless the app closed.
LEMMA StopsQuietly ==
    ASSUME IInv, NEW code \in {"clean", "revoked"}, Stop(pump, sink, <<>>, code),
           ends = {} /\ code = "clean" => pump.stopped \/ pump.endSent \/ ~NoCalls
    PROVE  StopDone
<1>1. Shape /\ pump \in Pumps /\ sink \in Sinks
  BY DEF IInv, Shape
<1>2. code \in Codes \cup {"clean"} /\ code # "limit"
  BY DEF Codes
<1> QED
  BY <1>1, <1>2, SequencesOfNotices, StopLeaves

\* The page's end of the port is closed.
LEMMA PortClosesKeeps ==
    ASSUME IInv, PortCloses
    PROVE  IInv'
<1>1. /\ "page" \in ends /\ Stop(pump, sink, <<>>, "clean") /\ socket' = ReaderCancelled(socket)
      /\ handle' = handle /\ page' = page /\ calls' = calls
  BY DEF PortCloses
<1>2. StopDone
  BY <1>1, StopsQuietly
<1>3. Shape /\ socket \in Sockets /\ handle \in Handles /\ (handle.state = "live" => handle.reason = "none")
  BY DEF IInv, Shape, PartsAgree
<1> QED
  BY <1>1, <1>2, <1>3, ShutByCancel, CallsKept, StopKeeps

\* A grant is withdrawn.
LEMMA RevokeKeeps ==
    ASSUME IInv, Revoke
    PROVE  IInv'
<1>1. /\ handle' = Gone("revoked") /\ Stop(pump, sink, <<>>, "revoked")
      /\ socket' = ResetAndDestroyed(ReaderCancelled(socket)) /\ page' = page /\ calls' = calls
  BY DEF Revoke
<1>2. StopDone
  BY <1>1, StopsQuietly
<1>3. Shape /\ socket \in Sockets /\ handle \in Handles
  BY DEF IInv, Shape
<1>4. handle' \in Handles /\ handle'.state # "live"
  BY <1>1, <1>3 DEF Gone, Handles
<1>5. Shut(socket, socket')
  <2>1. Shut(socket, ReaderCancelled(socket)) /\ ReaderCancelled(socket) \in Sockets
    BY <1>3, ShutByCancel DEF Shut, SameReading
  <2> QED BY <1>1, <2>1, ShutByDestroy, ShutTwice
<1> QED
  BY <1>1, <1>2, <1>3, <1>4, <1>5, CallsKept, StopKeeps

\* A session of the origin ends.
LEMMA SessionEndsKeeps ==
    ASSUME IInv, SessionEnds
    PROVE  IInv'
<1>1. /\ handle' = [handle EXCEPT !.state = "leaving", !.reason = "sessionEnded"]
      /\ Stop(pump, sink, <<>>, "revoked")
      /\ socket' = ReaderCancelled(Ended(socket)) /\ page' = page /\ calls' = calls
  BY DEF SessionEnds
<1>2. StopDone
  BY <1>1, StopsQuietly
<1>3. Shape /\ socket \in Sockets /\ handle \in Handles
  BY DEF IInv, Shape
<1>4. handle' \in Handles /\ handle'.state # "live"
  BY <1>1, <1>3 DEF Handles
<1>5. Shut(socket, socket')
  <2>1. Shut(socket, Ended(socket)) /\ Ended(socket) \in Sockets
    BY <1>3, ShutByEnd DEF Shut, SameReading
  <2> QED BY <1>1, <2>1, ShutByCancel, ShutTwice
<1> QED
  BY <1>1, <1>2, <1>3, <1>4, <1>5, CallsKept, StopKeeps

\* The teardown settles: both ways have ended, or the app closed.
LEMMA TeardownSettlesKeeps ==
    ASSUME IInv, TeardownSettles
    PROVE  IInv'
<1>1. /\ handle.state = "leaving" /\ handle' = [handle EXCEPT !.state = "gone"]
      /\ Stop(pump, sink, <<>>, "clean") /\ socket' = ReaderCancelled(socket) /\ page' = page
      /\ calls' = [c \in Closes |-> IF calls[c] = "waiting" THEN "answered" ELSE calls[c]]
  BY DEF TeardownSettles
<1>2. Shape /\ socket \in Sockets /\ handle \in Handles
      /\ calls \in [Closes -> {"none", "asked", "waiting", "answered", "done"}]
  BY DEF IInv, Shape
<1>3. ends = {} => pump.endSent \/ ~NoCalls
  <2>1. ends = {} => relay.readEnded \/ \E c \in Closes : calls[c] = "waiting"
    BY <1>1 DEF IInv, PartsAgree
  <2> QED BY <2>1 DEF IInv, PartsAgree, NoCalls
<1>4. StopDone
  BY <1>1, <1>3, StopsQuietly
<1>5. handle' \in Handles /\ handle'.state # "live"
  BY <1>1, <1>2 DEF Handles
<1>6. QuietCalls
  <2>1. calls' \in [Closes -> {"none", "asked", "waiting", "answered", "done"}]
    BY <1>1, <1>2
  <2>2. \A c \in Closes : (calls'[c] = "none" => calls[c] = "none") /\ (calls[c] = "done" => calls'[c] = "done")
    BY <1>1
  <2> QED BY <2>1, <2>2 DEF QuietCalls, NoCalls
<1> QED
  BY <1>1, <1>2, <1>4, <1>5, <1>6, ShutByCancel, StopKeeps

\* Only the socket, the handle and the close() calls change.
LEMMA SocketStepKeeps ==
    ASSUME IInv,
           pump' = pump, sink' = sink, relay' = relay, toPage' = toPage, toBroker' = toBroker,
           ends' = ends, page' = page,
           socket' \in Sockets, handle' \in Handles, QuietCalls,
           socket'.taken = socket.taken, socket'.outgoing <= socket.outgoing,
           handle'.state = "live" => handle'.reason = "none",
           handle'.state = "gone" => handle.state = "gone",
           handle'.state = "leaving" /\ handle.state # "leaving" => \E c \in Closes : calls'[c] = "waiting",
           \A c \in Closes : calls[c] = "waiting" => calls'[c] = "waiting",
           socket.reset => socket'.reset, socket'.reset => ~socket'.alive,
           relay.readEnded => socket'.readable = "closed" /\ socket'.incoming = <<>>,
           socket'.readable # "open" => socket'.theirs = "fin" \/ ~socket'.alive,
           "page" \notin ends /\ socket'.readable \in {"open", "closed"} =>
             page.got + DataOut + Unread' = socket'.sent,
           NoCalls /\ socket'.readable = "closed" /\ ~pump.stopped => socket'.theirs = "fin",
           AllRead => AllRead'
    PROVE  IInv'
<1>1. Shape
  BY DEF IInv
<1>2. QuietPage /\ (FailurePosted' <=> FailurePosted) /\ (NoAcks' <=> NoAcks)
  BY <1>1, PageQueueKept
<1>3. /\ DataOut' = DataOut /\ AcksOut' = AcksOut
      /\ EndPosted' => EndPosted
      /\ NothingAfterEnd => NothingAfterEnd'
      /\ EmptyAcks => EmptyAcks'
      /\ AcksInOrder => AcksInOrder'
      /\ NoFalseLimit => NoFalseLimit'
  BY <1>2 DEF QuietPage
<1>4. /\ toBroker' \in Seq(BrokerMessages) /\ CreditIn' = CreditIn /\ WritesIn' = WritesIn
      /\ (NoWrites' <=> NoWrites) /\ (OneWrite' <=> OneWrite) /\ (WriteEndSent' <=> WriteEndSent)
  BY <1>1, BrokerQueueKept
<1>5. Shape'
  BY <1>1 DEF Shape, QuietCalls
<1>6. WindowInv'
  BY <1>3, <1>4 DEF IInv, WindowInv
<1>7. PartsAgree'
  <2>1. handle'.state = "leaving" /\ "broker" \notin ends => relay.readEnded \/ \E c \in Closes : calls'[c] = "waiting"
    BY DEF IInv, PartsAgree
  <2>2. "page" \in ends => toPage = <<>> /\ (~page.here \/ \E c \in Closes : calls'[c] = "done")
    BY DEF IInv, PartsAgree, QuietCalls
  <2> QED BY <2>1, <2>2 DEF IInv, PartsAgree
<1>8. CleanInv'
  BY <1>3 DEF IInv, CleanInv, QuietCalls
<1>9. WriteInv'
  <2>1. Held' \in {0, Held} /\ Held \in Nat
    <3>1. sink.writes \in Seq(Nat)
      BY <1>1 DEF Shape, Sinks
    <3> QED BY <3>1, SumTail DEF Held
  <2>2. page.accepted + page.acked + AcksOut + Held' <= socket.taken
    <3>1. /\ page.accepted \in Nat /\ page.acked \in Nat /\ AcksOut \in Nat /\ socket.taken \in Nat
          /\ page.accepted + page.acked + AcksOut + Held <= socket.taken
      BY <1>1, CarriedType DEF IInv, WriteInv, Shape, Pages, Sockets
    <3>2. \A a, b, c, d, e \in Nat : a + b + c + d <= e => a + b + c + 0 <= e
      OBVIOUS
    <3> QED BY <2>1, <3>1, <3>2
  <2> QED BY <1>2, <1>3, <1>4, <2>2 DEF IInv, WriteInv
<1>10. OnePieceInv'
  <2>1. socket.outgoing \in Nat /\ socket'.outgoing \in Nat /\ SocketBuffer \in Nat
    BY <1>1, RelayAssumption DEF Shape, Sockets
  <2>2. socket.outgoing <= SocketBuffer => socket'.outgoing <= SocketBuffer
    BY <2>1
  <2> QED BY <1>2, <1>3, <1>4, <2>2 DEF IInv, OnePieceInv
<1> QED
  BY <1>5, <1>6, <1>7, <1>8, <1>9, <1>10 DEF IInv

\* A step that ends, flushes or destroys the socket, and tells the handle nothing but that.
LEMMA ShutKeeps ==
    ASSUME IInv, Shut(socket, socket'),
           pump' = pump, sink' = sink, relay' = relay, toPage' = toPage, toBroker' = toBroker,
           ends' = ends, page' = page, handle' \in Handles, QuietCalls,
           handle'.state = "live" => handle'.reason = "none",
           handle'.state = "gone" => handle.state = "gone",
           handle'.state = "leaving" /\ handle.state # "leaving" => \E c \in Closes : calls'[c] = "waiting",
           \A c \in Closes : calls[c] = "waiting" => calls'[c] = "waiting",
           NoCalls /\ socket'.readable = "closed" /\ ~pump.stopped => socket.theirs = "fin"
    PROVE  IInv'
<1>1. socket \in Sockets /\ Shape
  BY DEF IInv, Shape
<1>2. socket' \in Sockets /\ socket'.taken = socket.taken /\ socket'.outgoing <= socket.outgoing
  <2>1. socket.outgoing \in Nat
    BY <1>1 DEF Sockets
  <2> QED BY <2>1 DEF Shut, SameReading
<1>3. /\ socket.reset => socket'.reset
      /\ socket'.reset => ~socket'.alive
      /\ socket'.readable # "open" => socket'.theirs = "fin" \/ ~socket'.alive
  BY DEF IInv, PartsAgree, WriteInv, Shut, SameReading
<1>4. relay.readEnded => socket'.readable = "closed" /\ socket'.incoming = <<>>
  BY DEF IInv, PartsAgree, Shut, SameReading
<1>5. "page" \notin ends /\ socket'.readable \in {"open", "closed"} =>
        page.got + DataOut + Unread' = socket'.sent
  BY DEF IInv, CleanInv, Unread, Shut, SameReading
<1>6. AllRead => AllRead'
  BY DEF AllRead, Shut, SameReading
<1>7. NoCalls /\ socket'.readable = "closed" /\ ~pump.stopped => socket'.theirs = "fin"
  BY DEF Shut, SameReading
<1> QED
  BY <1>2, <1>3, <1>4, <1>5, <1>6, <1>7, SocketStepKeeps

\* close() asks the handle to leave.
LEMMA NetCloseKeeps ==
    ASSUME IInv, NEW c \in Closes, NetClose(c)
    PROVE  IInv'
<1>1. /\ calls[c] = "asked" /\ pump' = pump /\ sink' = sink /\ relay' = relay /\ toPage' = toPage
      /\ toBroker' = toBroker /\ ends' = ends /\ page' = page
  BY DEF NetClose
<1>2. /\ Shape /\ socket \in Sockets /\ handle \in Handles /\ (handle.state = "live" => handle.reason = "none")
      /\ calls \in [Closes -> {"none", "asked", "waiting", "answered", "done"}]
  BY DEF IInv, Shape, PartsAgree
<1>3. /\ Shut(socket, socket') /\ socket'.readable = socket.readable
      /\ handle' \in Handles /\ (handle'.state = "live" => handle'.reason = "none")
      /\ handle'.state = "gone" => handle.state = "gone"
      /\ \E state \in {"waiting", "answered"} :
           /\ calls' = [calls EXCEPT ![c] = state]
           /\ handle'.state = "leaving" /\ handle.state # "leaving" => state = "waiting"
  <2>1. CASE relay.registered /\ handle.state = "live"
    <3>1. handle' = Leaving(handle) /\ socket' = Ended(socket) /\ calls' = [calls EXCEPT ![c] = "waiting"]
      BY <2>1 DEF NetClose
    <3>2. socket'.readable = socket.readable
      BY <1>2, <3>1 DEF Ended, Sockets
    <3> QED BY <1>2, <3>1, <3>2, ShutByEnd, LeavingFacts
  <2>2. CASE ~(relay.registered /\ handle.state = "live")
    <3>1. handle' = handle /\ socket' = socket /\ calls' = [calls EXCEPT ![c] = "answered"]
      BY <2>2 DEF NetClose
    <3> QED BY <1>2, <3>1, SocketItself
  <2> QED BY <2>1, <2>2
<1>4. PICK state \in {"waiting", "answered"} :
        /\ calls' = [calls EXCEPT ![c] = state]
        /\ handle'.state = "leaving" /\ handle.state # "leaving" => state = "waiting"
  BY <1>3
<1>5. QuietCalls
  <2>1. calls' \in [Closes -> {"none", "asked", "waiting", "answered", "done"}]
    BY <1>2, <1>4
  <2>2. \A d \in Closes : (calls'[d] = "none" => calls[d] = "none") /\ (calls[d] = "done" => calls'[d] = "done")
    BY <1>1, <1>2, <1>4
  <2> QED BY <2>1, <2>2 DEF QuietCalls, NoCalls
<1>6. calls'[c] = state /\ \A d \in Closes : calls[d] = "waiting" => calls'[d] = "waiting"
  BY <1>1, <1>2, <1>4
<1>7. ~NoCalls
  BY <1>1 DEF NoCalls
<1> QED
  BY <1>1, <1>3, <1>4, <1>5, <1>6, <1>7, ShutKeeps

\* The drain deadline destroys a socket that is told to end.
LEMMA DrainDeadlineKeeps ==
    ASSUME IInv, DrainDeadline
    PROVE  IInv'
<1>1. /\ handle.state = "leaving" /\ socket' = Destroyed(socket) /\ handle' = [handle EXCEPT !.deadline = TRUE]
      /\ pump' = pump /\ sink' = sink /\ relay' = relay /\ toPage' = toPage
      /\ toBroker' = toBroker /\ ends' = ends /\ page' = page /\ calls' = calls
  BY DEF DrainDeadline
<1>2. Shape /\ socket \in Sockets /\ handle \in Handles
  BY DEF IInv, Shape
<1>3. handle' \in Handles /\ handle'.state = "leaving"
  BY <1>1, <1>2 DEF Handles
<1>4. NoCalls /\ ~pump.stopped => socket.theirs = "fin"
  <2>1. "broker" \notin ends /\ NoCalls => relay.readEnded
    BY <1>1 DEF IInv, PartsAgree, NoCalls
  <2> QED BY <2>1 DEF IInv, PartsAgree, CleanInv
<1> QED
  BY <1>1, <1>2, <1>3, <1>4, ShutByDestroy, CallsKept, ShutKeeps

\* What only the socket sees.
LEMMA PeerFacts ==
    ASSUME IInv
    PROVE  /\ Shape /\ socket \in Sockets /\ handle \in Handles /\ Unread \in Nat
           /\ socket.incoming \in Seq(Nat) /\ socket.sent \in Nat /\ socket.outgoing \in Nat
           /\ page.got \in Nat /\ DataOut \in Nat
           /\ handle.state = "live" => handle.reason = "none"
           /\ socket.reset => ~socket.alive
           /\ relay.readEnded => socket.readable = "closed" /\ socket.incoming = <<>>
           /\ socket.readable # "open" => socket.theirs = "fin" \/ ~socket.alive
           /\ "page" \notin ends /\ socket.readable \in {"open", "closed"} =>
                page.got + DataOut + Unread = socket.sent
           /\ NoCalls /\ socket.readable = "closed" /\ ~pump.stopped => socket.theirs = "fin"
<1>1. Shape /\ socket \in Sockets /\ handle \in Handles /\ page \in Pages
  BY DEF IInv, Shape
<1>2. socket.incoming \in Seq(Nat) /\ socket.sent \in Nat /\ socket.outgoing \in Nat /\ page.got \in Nat
  BY <1>1 DEF Sockets, Pages
<1> QED
  BY <1>1, <1>2, CarriedType DEF IInv, PartsAgree, CleanInv, WriteInv

LEMMA PeerSendsKeeps ==
    ASSUME IInv, NEW n \in Nat, PeerSends(n)
    PROVE  IInv'
<1>1. /\ socket.alive /\ socket.theirs = "open"
      /\ socket' = [socket EXCEPT !.sent = socket.sent + n, !.incoming = Append(socket.incoming, n)]
      /\ pump' = pump /\ sink' = sink /\ relay' = relay /\ handle' = handle /\ toPage' = toPage
      /\ toBroker' = toBroker /\ ends' = ends /\ page' = page /\ calls' = calls
  BY DEF PeerSends
<1>2. /\ Shape /\ socket \in Sockets /\ handle \in Handles /\ socket.incoming \in Seq(Nat) /\ socket.sent \in Nat
      /\ socket.readable = "open" /\ socket.outgoing \in Nat /\ (socket.reset => ~socket.alive)
      /\ page.got \in Nat /\ DataOut \in Nat /\ Unread \in Nat /\ (handle.state = "live" => handle.reason = "none")
      /\ ~relay.readEnded
      /\ "page" \notin ends => page.got + DataOut + Unread = socket.sent
  BY <1>1, PeerFacts
<1>3. /\ socket' \in Sockets /\ socket'.sent = socket.sent + n /\ socket'.incoming = Append(socket.incoming, n)
      /\ socket'.readable = "open" /\ socket'.taken = socket.taken /\ socket'.outgoing = socket.outgoing
      /\ (socket'.reset <=> socket.reset) /\ (socket'.alive <=> socket.alive)
  <2> DEFINE sent == socket.sent + n
             incoming == Append(socket.incoming, n)
  <2>1. sent \in Nat /\ incoming \in Seq(Nat)
    BY <1>2
  <2>2. socket' = [socket EXCEPT !.sent = sent, !.incoming = incoming]
    BY <1>1
  <2> HIDE DEF sent, incoming
  <2>3. socket' \in Sockets /\ socket'.sent = sent /\ socket'.incoming = incoming
    BY <1>2, <2>1, <2>2 DEF Sockets
  <2>4. /\ socket'.readable = socket.readable /\ socket'.taken = socket.taken /\ socket'.outgoing = socket.outgoing
        /\ (socket'.reset <=> socket.reset) /\ (socket'.alive <=> socket.alive)
    BY <1>2, <2>2 DEF Sockets
  <2> QED BY <1>2, <2>3, <2>4 DEF sent, incoming
<1>4. "page" \notin ends => page.got + DataOut + Unread' = socket'.sent
  <2>1. Unread' = Unread + n
    BY <1>2, <1>3, SumAppend DEF Unread
  <2>2. \A a, b, c, d \in Nat : a + b + (c + d) = (a + b + c) + d
    OBVIOUS
  <2> QED BY <1>2, <1>3, <2>1, <2>2
<1>5. ~AllRead
  BY <1>1 DEF AllRead
<1>6. socket'.outgoing <= socket.outgoing
  BY <1>2, <1>3
<1> QED
  BY <1>1, <1>2, <1>3, <1>4, <1>5, <1>6, CallsKept, SocketStepKeeps

LEMMA PeerEndsKeeps ==
    ASSUME IInv, PeerEnds
    PROVE  IInv'
<1> DEFINE ended == Ended(socket)
           readable == IF socket.readable = "open" THEN "closed" ELSE socket.readable
           alive == socket.ours # "fin"
<1>1. /\ socket.alive
      /\ socket' = [ended EXCEPT !.theirs = "fin", !.readable = readable, !.alive = alive]
      /\ pump' = pump /\ sink' = sink /\ relay' = relay /\ handle' = handle /\ toPage' = toPage
      /\ toBroker' = toBroker /\ ends' = ends /\ page' = page /\ calls' = calls
  <2>1. socket \in Sockets
    BY PeerFacts
  <2>2. ended.readable = socket.readable
    BY <2>1 DEF Ended, Sockets
  <2> QED BY <2>2 DEF PeerEnds
<1>2. /\ Shape /\ socket \in Sockets /\ handle \in Handles /\ socket.outgoing \in Nat
      /\ (socket.reset => ~socket.alive) /\ (handle.state = "live" => handle.reason = "none")
  BY PeerFacts
<1>3. /\ ended \in Sockets /\ ended.sent = socket.sent /\ ended.incoming = socket.incoming
      /\ ended.taken = socket.taken /\ ended.outgoing = socket.outgoing /\ (ended.reset <=> socket.reset)
  BY <1>2 DEF Ended, Sockets
<1>4. readable \in {"closed", "errored", "cancelled"} /\ alive \in BOOLEAN
  BY <1>2 DEF Sockets
<1>5. (readable = "closed" => socket.readable \in {"open", "closed"})
      /\ (socket.readable = "closed" => readable = "closed")
  OBVIOUS
<1> HIDE DEF ended, readable, alive
<1>6. /\ socket' \in Sockets /\ socket'.theirs = "fin" /\ socket'.readable = readable
      /\ socket'.sent = socket.sent /\ socket'.incoming = socket.incoming
      /\ socket'.taken = socket.taken /\ socket'.outgoing = socket.outgoing /\ (socket'.reset <=> socket.reset)
  <2>1. socket' \in Sockets
    BY <1>1, <1>3, <1>4 DEF Sockets
  <2>2. socket'.theirs = "fin" /\ socket'.readable = readable
    BY <1>1, <1>3 DEF Sockets
  <2>3. /\ socket'.sent = ended.sent /\ socket'.incoming = ended.incoming
        /\ socket'.taken = ended.taken /\ socket'.outgoing = ended.outgoing /\ socket'.reset = ended.reset
    BY <1>1, <1>3 DEF Sockets
  <2> QED BY <1>3, <2>1, <2>2, <2>3
<1>7. Unread' = Unread
  BY <1>6 DEF Unread
<1>8. AllRead => AllRead'
  BY <1>5, <1>6 DEF AllRead
<1>9. socket'.outgoing <= socket.outgoing
  BY <1>2, <1>6
<1>10. relay.readEnded => socket'.readable = "closed" /\ socket'.incoming = <<>>
  BY <1>5, <1>6, PeerFacts
<1>11. "page" \notin ends /\ socket'.readable \in {"open", "closed"} =>
         page.got + DataOut + Unread' = socket'.sent
  BY <1>4, <1>5, <1>6, <1>7, PeerFacts
<1> QED
  BY <1>1, <1>2, <1>6, <1>8, <1>9, <1>10, <1>11, CallsKept, SocketStepKeeps

LEMMA PeerResetsKeeps ==
    ASSUME IInv, PeerResets
    PROVE  IInv'
<1> DEFINE readable == IF socket.readable = "open" THEN "errored" ELSE socket.readable
           incoming == IF socket.readable = "open" THEN <<>> ELSE socket.incoming
<1>1. /\ socket' = [socket EXCEPT !.reset = TRUE, !.alive = FALSE, !.outgoing = 0, !.ours = "rst",
                                  !.readable = readable, !.incoming = incoming]
      /\ pump' = pump /\ sink' = sink /\ relay' = relay /\ handle' = handle /\ toPage' = toPage
      /\ toBroker' = toBroker /\ ends' = ends /\ page' = page /\ calls' = calls
  BY DEF PeerResets
<1>2. /\ Shape /\ socket \in Sockets /\ handle \in Handles /\ socket.outgoing \in Nat
      /\ socket.incoming \in Seq(Nat) /\ (handle.state = "live" => handle.reason = "none")
  BY PeerFacts
<1>3. readable \in {"closed", "errored", "cancelled"} /\ incoming \in Seq(Nat)
  BY <1>2 DEF Sockets
<1>4. /\ readable = "closed" => socket.readable = "closed" /\ incoming = socket.incoming
      /\ socket.readable = "closed" => readable = "closed"
  OBVIOUS
<1> HIDE DEF readable, incoming
<1>5. /\ socket' \in Sockets /\ socket'.readable = readable /\ socket'.incoming = incoming
      /\ socket'.sent = socket.sent /\ socket'.theirs = socket.theirs /\ socket'.taken = socket.taken
      /\ socket'.outgoing = 0 /\ socket'.reset /\ ~socket'.alive
  <2>1. socket' \in Sockets
    BY <1>1, <1>2, <1>3 DEF Sockets
  <2>2. /\ socket'.readable = readable /\ socket'.incoming = incoming
        /\ socket'.sent = socket.sent /\ socket'.theirs = socket.theirs /\ socket'.taken = socket.taken
        /\ socket'.outgoing = 0 /\ socket'.reset = TRUE /\ socket'.alive = FALSE
    BY <1>1, <1>2 DEF Sockets
  <2> QED BY <2>1, <2>2
<1>6. AllRead => AllRead'
  BY <1>4, <1>5 DEF AllRead
<1>7. socket'.outgoing <= socket.outgoing
  BY <1>2, <1>5
<1>8. relay.readEnded => socket'.readable = "closed" /\ socket'.incoming = <<>>
  BY <1>4, <1>5, PeerFacts
<1>9. "page" \notin ends /\ socket'.readable \in {"open", "closed"} =>
        page.got + DataOut + Unread' = socket'.sent
  BY <1>3, <1>4, <1>5, PeerFacts DEF Unread
<1>10. NoCalls /\ socket'.readable = "closed" /\ ~pump.stopped => socket'.theirs = "fin"
  BY <1>4, <1>5, PeerFacts
<1> QED
  BY <1>1, <1>2, <1>5, <1>6, <1>7, <1>8, <1>9, <1>10, CallsKept, SocketStepKeeps

\* A byte leaves, or our end does.
LEMMA FlushKeeps ==
    ASSUME IInv, PeerReads \/ FinSent
    PROVE  IInv'
<1>1. /\ pump' = pump /\ sink' = sink /\ relay' = relay /\ handle' = handle /\ toPage' = toPage
      /\ toBroker' = toBroker /\ ends' = ends /\ page' = page /\ calls' = calls
  BY DEF PeerReads, FinSent
<1>2. /\ Shape /\ socket \in Sockets /\ handle \in Handles /\ socket.outgoing \in Nat
      /\ (handle.state = "live" => handle.reason = "none")
  BY PeerFacts
<1>3. /\ socket' \in Sockets /\ socket'.readable = socket.readable /\ socket'.incoming = socket.incoming
      /\ socket'.sent = socket.sent /\ socket'.theirs = socket.theirs /\ socket'.taken = socket.taken
      /\ socket'.outgoing <= socket.outgoing /\ (socket'.reset <=> socket.reset)
      /\ socket'.alive => socket.alive
  <2>1. CASE PeerReads
    <3> DEFINE outgoing == socket.outgoing - 1
               received == socket.received + 1
    <3>1. outgoing \in Nat /\ outgoing <= socket.outgoing /\ received \in Nat
      <4>1. socket.outgoing > 0 /\ socket.received \in Nat
        BY <1>2, <2>1 DEF PeerReads, Sockets
      <4> QED BY <1>2, <4>1
    <3>2. socket' = [socket EXCEPT !.outgoing = outgoing, !.received = received]
      BY <2>1 DEF PeerReads
    <3> HIDE DEF outgoing, received
    <3>3. socket' \in Sockets
      BY <1>2, <3>1, <3>2 DEF Sockets
    <3>4. /\ socket'.readable = socket.readable /\ socket'.incoming = socket.incoming
          /\ socket'.sent = socket.sent /\ socket'.theirs = socket.theirs /\ socket'.taken = socket.taken
          /\ socket'.outgoing = outgoing /\ socket'.reset = socket.reset /\ socket'.alive = socket.alive
      BY <1>2, <3>2 DEF Sockets
    <3> QED BY <3>1, <3>3, <3>4
  <2>2. CASE FinSent
    <3> DEFINE alive == socket.theirs = "open"
    <3>1. socket.alive /\ socket' = [socket EXCEPT !.ours = "fin", !.alive = alive] /\ alive \in BOOLEAN
      BY <2>2 DEF FinSent
    <3> HIDE DEF alive
    <3>2. socket' \in Sockets
      BY <1>2, <3>1 DEF Sockets
    <3>3. /\ socket'.readable = socket.readable /\ socket'.incoming = socket.incoming
          /\ socket'.sent = socket.sent /\ socket'.theirs = socket.theirs /\ socket'.taken = socket.taken
          /\ socket'.outgoing = socket.outgoing /\ socket'.reset = socket.reset
      BY <1>2, <3>1 DEF Sockets
    <3> QED BY <1>2, <3>1, <3>2, <3>3
  <2> QED BY <2>1, <2>2
<1>4. Unread' = Unread /\ (AllRead => AllRead')
  BY <1>3 DEF Unread, AllRead
<1>5. /\ socket.reset => ~socket.alive
      /\ relay.readEnded => socket'.readable = "closed" /\ socket'.incoming = <<>>
      /\ socket'.readable # "open" => socket'.theirs = "fin" \/ ~socket'.alive
      /\ "page" \notin ends /\ socket'.readable \in {"open", "closed"} =>
           page.got + DataOut + Unread' = socket'.sent
      /\ NoCalls /\ socket'.readable = "closed" /\ ~pump.stopped => socket'.theirs = "fin"
  BY <1>3, <1>4, PeerFacts
<1> QED
  BY <1>1, <1>2, <1>3, <1>4, <1>5, CallsKept, SocketStepKeeps
-----------------------------------------------------------------------------
(* The page *)

\* What the app may read, and what it has written, of the page p and of the page q after it.
SameReads(p, q) ==
    /\ q \in Pages /\ (q.here <=> p.here)
    /\ q.queue = p.queue /\ q.queued = p.queued
    /\ q.uncredited = p.uncredited /\ q.sinceLastCredit = p.sinceLastCredit
    /\ q.got = p.got /\ q.readable = p.readable

SameWriting(p, q) ==
    /\ (q.here <=> p.here) /\ (q.writing <=> p.writing)
    /\ q.left = p.left /\ q.piece = p.piece /\ q.acked = p.acked /\ q.accepted = p.accepted
    /\ q.writable = "closed" <=> p.writable = "closed"

\* The page counts what it holds.
Holds(p) == p.queued = Sum(p.queue) /\ p.queued <= p.uncredited

\* The app reads no more, or no less, and nothing is credited.
ReadsNoFurther(p, q) ==
    /\ q \in Pages /\ (q.here <=> p.here)
    /\ q.uncredited = p.uncredited /\ q.sinceLastCredit = p.sinceLastCredit /\ q.got = p.got
    /\ Holds(p) => Holds(q)
    /\ q.readable \in {"ending", "closed"} => p.readable = q.readable

LEMMA WritelessFacts ==
    ASSUME NEW p \in Pages
    PROVE  SameReads(p, Writeless(p)) /\ SameWriting(p, Writeless(p))
<1> DEFINE writable == IF p.writable \in {"open", "closing"} THEN "errored" ELSE p.writable
<1>1. /\ writable \in {"open", "closing", "closed", "erroring", "errored"}
      /\ writable = "closed" <=> p.writable = "closed"
  BY DEF Pages
<1>2. Writeless(p) = [p EXCEPT !.writable = writable]
  BY DEF Writeless, Pages
<1> HIDE DEF writable
<1>3. SameReads(p, Writeless(p))
  BY <1>1, <1>2 DEF SameReads, Pages
<1>4. SameWriting(p, Writeless(p))
  BY <1>1, <1>2 DEF SameWriting, Pages
<1> QED
  BY <1>3, <1>4

LEMMA RejectedFacts ==
    ASSUME NEW p \in Pages
    PROVE  SameReads(p, Rejected(p)) /\ SameWriting(p, Rejected(p))
<1> DEFINE closed == IF p.closed = "pending" THEN "rejected" ELSE p.closed
<1>1. closed \in {"pending", "resolved", "rejected"}
  BY DEF Pages
<1>2. Rejected(p) = [p EXCEPT !.closed = closed]
  BY DEF Rejected, Pages
<1> HIDE DEF closed
<1>3. SameReads(p, Rejected(p))
  BY <1>1, <1>2 DEF SameReads, Pages
<1>4. SameWriting(p, Rejected(p))
  BY <1>1, <1>2 DEF SameWriting, Pages
<1> QED
  BY <1>3, <1>4

LEMMA ResolvedFacts ==
    ASSUME NEW p \in Pages
    PROVE  SameReads(p, Resolved(p)) /\ SameWriting(p, Resolved(p))
<1>1. Resolved(p) = p \/ Resolved(p) = [p EXCEPT !.closed = "resolved"]
  BY DEF Resolved
<1>2. CASE Resolved(p) = p
  BY <1>2 DEF SameReads, SameWriting
<1>3. CASE Resolved(p) = [p EXCEPT !.closed = "resolved"]
  BY <1>3 DEF SameReads, SameWriting, Pages
<1> QED
  BY <1>1, <1>2, <1>3

LEMMA UnwrittenFacts ==
    ASSUME NEW p \in Pages
    PROVE  /\ SameReads(p, Unwritten(p))
           /\ ~Unwritten(p).writing /\ Unwritten(p).left = 0 /\ Unwritten(p).piece = 0 /\ Unwritten(p).acked = 0
           /\ Unwritten(p).accepted = p.accepted /\ Unwritten(p).writable = p.writable
  BY DEF Unwritten, SameReads, Pages

LEMMA ReadlessFacts ==
    ASSUME NEW p \in Pages, NEW state \in {"errored", "cancelled"}
    PROVE  ReadsNoFurther(p, Readless(p, state)) /\ SameWriting(p, Readless(p, state))
<1>1. CASE p.readable \in Unfinished
  <2>1. Readless(p, state) = [p EXCEPT !.readable = state, !.queue = <<>>, !.queued = 0]
    BY <1>1 DEF Readless
  <2> DEFINE q == Readless(p, state)
  <2>2. <<>> \in Seq(Nat)
    OBVIOUS
  <2>3. q \in Pages
    <3> DEFINE none == <<>>
               zero == 0
    <3>1. /\ none \in Seq(Nat) /\ zero \in Nat
          /\ state \in {"open", "ending", "closed", "errored", "cancelled"}
      OBVIOUS
    <3>2. q = [p EXCEPT !.readable = state, !.queue = none, !.queued = zero]
      BY <2>1
    <3> HIDE DEF none, zero, q
    <3> QED BY <3>1, <3>2 DEF Pages
  <2>4. /\ (q.here <=> p.here) /\ (q.writing <=> p.writing)
        /\ q.left = p.left /\ q.piece = p.piece /\ q.acked = p.acked /\ q.accepted = p.accepted
        /\ q.writable = p.writable
        /\ q.uncredited = p.uncredited /\ q.sinceLastCredit = p.sinceLastCredit /\ q.got = p.got
        /\ q.queue = <<>> /\ q.queued = 0 /\ q.readable = state
    BY <2>1 DEF Pages
  <2> HIDE DEF q
  <2>5. Holds(q)
    <3>1. p.uncredited \in Nat
      BY DEF Pages
    <3> QED BY <2>4, <3>1, SumSmall DEF Holds
  <2>6. state \notin {"ending", "closed"}
    OBVIOUS
  <2>7. ReadsNoFurther(p, q) /\ SameWriting(p, q)
    BY <2>3, <2>4, <2>5, <2>6 DEF ReadsNoFurther, SameWriting
  <2> QED BY <2>7 DEF q
<1>2. CASE p.readable \notin Unfinished
  <2>1. Readless(p, state) = p
    BY <1>2 DEF Readless
  <2> QED BY <2>1 DEF ReadsNoFurther, SameWriting
<1> QED
  BY <1>1, <1>2

\* A clean end is told to a stream that is open, and to no other.
LEMMA ReadClosedFacts ==
    ASSUME NEW p \in Pages
    PROVE  /\ SameWriting(p, ReadClosed(p))
           /\ ReadClosed(p) \in Pages /\ (ReadClosed(p).here <=> p.here)
           /\ ReadClosed(p).queue = p.queue /\ ReadClosed(p).queued = p.queued
           /\ ReadClosed(p).uncredited = p.uncredited
           /\ ReadClosed(p).sinceLastCredit = p.sinceLastCredit /\ ReadClosed(p).got = p.got
<1> DEFINE readable == IF p.readable # "open" THEN p.readable ELSE IF p.queue = <<>> THEN "closed" ELSE "ending"
<1>1. readable \in {"open", "ending", "closed", "errored", "cancelled"}
  BY DEF Pages
<1>2. ReadClosed(p) = [p EXCEPT !.readable = readable]
  BY DEF ReadClosed, Pages
<1> HIDE DEF readable
<1>3. [p EXCEPT !.readable = readable] \in Pages
  BY <1>1 DEF Pages
<1>4. SameWriting(p, ReadClosed(p))
  BY <1>2 DEF SameWriting, Pages
<1> QED
  BY <1>2, <1>3, <1>4 DEF Pages

LEMMA SameAgain ==
    ASSUME NEW p, NEW q, NEW r
    PROVE  /\ SameReads(p, q) /\ SameReads(q, r) => SameReads(p, r)
           /\ SameWriting(p, q) /\ SameWriting(q, r) => SameWriting(p, r)
           /\ ReadsNoFurther(p, q) /\ ReadsNoFurther(q, r) => ReadsNoFurther(p, r)
           /\ SameReads(p, q) => ReadsNoFurther(p, q)
  BY DEF SameReads, SameWriting, ReadsNoFurther, Holds

\* A stream that failed: neither side goes any further.
LEMMA FatalFacts ==
    ASSUME NEW p \in Pages
    PROVE  /\ ReadsNoFurther(p, Fatal(p))
           /\ ~Fatal(p).writing /\ Fatal(p).left = 0 /\ Fatal(p).piece = 0 /\ Fatal(p).acked = 0
           /\ Fatal(p).accepted = p.accepted /\ (Fatal(p).writable = "closed" <=> p.writable = "closed")
<1> DEFINE u == Unwritten(p)
           e == Readless(u, "errored")
           w == Writeless(e)
           r == Rejected(w)
<1>1. r = Fatal(p)
  BY DEF Fatal
<1>2. SameReads(p, u) /\ u \in Pages
  BY UnwrittenFacts DEF SameReads
<1>3. ~u.writing /\ u.left = 0 /\ u.piece = 0 /\ u.acked = 0 /\ u.accepted = p.accepted /\ u.writable = p.writable
  BY UnwrittenFacts
<1> HIDE DEF u
<1>4. ReadsNoFurther(u, e) /\ SameWriting(u, e) /\ e \in Pages
  BY <1>2, ReadlessFacts DEF ReadsNoFurther
<1> HIDE DEF e
<1>5. SameReads(e, w) /\ SameWriting(e, w) /\ w \in Pages
  BY <1>4, WritelessFacts DEF SameReads
<1> HIDE DEF w
<1>6. SameReads(w, r) /\ SameWriting(w, r)
  BY <1>5, RejectedFacts
<1> HIDE DEF r
<1>7. ReadsNoFurther(p, r)
  <2>1. ReadsNoFurther(p, u) /\ ReadsNoFurther(e, w) /\ ReadsNoFurther(w, r)
    BY <1>2, <1>5, <1>6, SameAgain
  <2>2. ReadsNoFurther(p, e)
    BY <1>4, <2>1, SameAgain
  <2>3. ReadsNoFurther(p, w)
    BY <2>1, <2>2, SameAgain
  <2> QED BY <2>1, <2>3, SameAgain
<1>8. SameWriting(u, r)
  <2>1. SameWriting(u, w)
    BY <1>4, <1>5, SameAgain
  <2> QED BY <1>6, <2>1, SameAgain
<1> QED
  BY <1>1, <1>3, <1>7, <1>8 DEF SameWriting

\* The page acts, and the broker does not see it yet.
BrokerStill ==
    /\ socket' = socket /\ pump' = pump /\ sink' = sink /\ relay' = relay
    /\ handle' = handle /\ ends' = ends /\ calls' = calls

\* Nothing is written.
NoWriteSent ==
    /\ toBroker' \in Seq(BrokerMessages) /\ (ends # {} => toBroker' = toBroker)
    /\ WritesIn' = WritesIn
    /\ NoWrites => NoWrites'
    /\ OneWrite => OneWrite'
    /\ WriteEndSent' => WriteEndSent

LEMMA PageStepKeeps ==
    ASSUME IInv, BrokerStill, page' \in Pages, page.here, page'.here,
           toPage' \in Seq(PageMessages), toPage' # toPage => toPage # <<>>,
           toBroker' \in Seq(BrokerMessages), ends # {} => toBroker' = toBroker,
           WindowInv', CleanInv', WriteInv', OnePieceInv'
    PROVE  IInv'
<1>1. Shape'
  BY DEF IInv, Shape, BrokerStill
<1>2. PartsAgree'
  <2>1. "page" \in ends => toPage' = <<>> /\ \E c \in Closes : calls'[c] = "done"
    BY DEF IInv, PartsAgree, BrokerStill
  <2>2. "broker" \in ends => toBroker' = <<>>
    BY DEF IInv, PartsAgree
  <2> QED BY <2>1, <2>2 DEF IInv, PartsAgree, BrokerStill
<1> QED
  BY <1>1, <1>2 DEF IInv

\* A step of the reading side.
LEMMA ReadingKeeps ==
    ASSUME IInv, BrokerStill, page' \in Pages, page.here, SameWriting(page, page'), NoWriteSent,
           toPage' \in Seq(PageMessages), toPage' # toPage => toPage # <<>>,
           AcksOut' = AcksOut,
           FailurePosted' => FailurePosted,
           NoAcks => NoAcks',
           EmptyAcks => EmptyAcks',
           AcksInOrder => AcksInOrder',
           NoFalseLimit => NoFalseLimit',
           WindowInv', CleanInv'
    PROVE  IInv'
<1>1. WriteInv'
  <2>1. Held' = Held
    BY DEF Held, BrokerStill
  <2>2. page'.accepted + page'.acked + AcksOut' + Held' <= socket'.taken
    BY <2>1 DEF IInv, WriteInv, BrokerStill, SameWriting
  <2>3. "page" \notin ends' /\ ~sink'.stopped => sink'.unacked + WritesIn' + AcksOut' + page'.acked <= page'.piece
    BY DEF IInv, WriteInv, BrokerStill, SameWriting, NoWriteSent
  <2>4. /\ page'.piece <= WriteWindow /\ page'.piece <= page'.left
        /\ ~page'.writing => page'.left = 0 /\ page'.piece = 0 /\ page'.acked = 0
    BY DEF IInv, WriteInv, SameWriting
  <2>5. sink'.ending \/ WriteEndSent' => ~page'.here \/ (page'.writable = "closed" /\ ~page'.writing)
    BY DEF IInv, WriteInv, BrokerStill, SameWriting, NoWriteSent
  <2> QED BY <2>2, <2>3, <2>4, <2>5 DEF IInv, WriteInv, BrokerStill
<1>2. OnePieceInv'
  BY DEF IInv, OnePieceInv, BrokerStill, SameWriting, NoWriteSent
<1>3. page'.here
  BY DEF SameWriting
<1> QED
  BY <1>1, <1>2, <1>3, PageStepKeeps DEF NoWriteSent

\* A step that reads no further.
LEMMA WritingKeeps ==
    ASSUME IInv, BrokerStill, page.here, ReadsNoFurther(page, page'),
           toPage' \in Seq(PageMessages), toPage' # toPage => toPage # <<>>,
           toBroker' \in Seq(BrokerMessages), ends # {} => toBroker' = toBroker,
           CreditIn' = CreditIn, DataOut' = DataOut,
           EndPosted' => EndPosted,
           NothingAfterEnd => NothingAfterEnd',
           WriteInv', OnePieceInv'
    PROVE  IInv'
<1>1. WindowInv'
  BY DEF IInv, WindowInv, BrokerStill, ReadsNoFurther, Holds
<1>2. CleanInv'
  <2>1. Unread' = Unread /\ (NoCalls' <=> NoCalls) /\ (AllRead' <=> AllRead)
    BY DEF Unread, NoCalls, AllRead, BrokerStill
  <2> QED BY <2>1 DEF IInv, CleanInv, BrokerStill, ReadsNoFurther
<1> QED
  BY <1>1, <1>2, PageStepKeeps DEF ReadsNoFurther

\* A message from the broker that is taken, and the queue of the broker left alone.
LEMMA SaysNothing ==
    ASSUME Shape, toBroker' = toBroker
    PROVE  NoWriteSent /\ CreditIn' = CreditIn
  BY BrokerQueueKept DEF NoWriteSent

\* Credit on its way.
LEMMA SendsCredit ==
    ASSUME Shape, NEW n \in Nat, toBroker' = PostedToBroker(Credit(n))
    PROVE  NoWriteSent /\ CreditIn' = CreditIn + (IF ends = {} THEN n ELSE 0)
<1>1. /\ Credit(n) \in BrokerMessages /\ Credit(n).kind = "credit" /\ Credit(n).n = n
      /\ Amount(Credit(n), "credit") = n /\ Amount(Credit(n), "write") = 0
  <2>1. Credit(n) \in BrokerMessages /\ Credit(n).kind = "credit" /\ Credit(n).n = n
    BY BrokerMessageFacts
  <2> QED BY <2>1 DEF Amount
<1>2. WritesIn \in Nat
  BY CarriedType
<1> QED
  BY <1>1, <1>2, Sends DEF NoWriteSent

\* Consumed bytes are owed to the pump until they are on their way.
LEMMA ReportsFacts ==
    ASSUME Shape, NEW p \in Pages, NEW n \in Nat, Reports(p, n)
    PROVE  /\ NoWriteSent
           /\ page' \in Pages /\ SameWriting(p, page')
           /\ page'.queue = p.queue /\ page'.queued = p.queued /\ page'.uncredited = p.uncredited
           /\ page'.got = p.got /\ page'.readable = p.readable
           /\ ends = {} => page'.sinceLastCredit + CreditIn' = p.sinceLastCredit + n + CreditIn
<1> DEFINE owed == p.sinceLastCredit + n
<1>1. p.sinceLastCredit \in Nat /\ owed \in Nat /\ CreditIn \in Nat
  <2>1. p.sinceLastCredit \in Nat
    BY DEF Pages
  <2> QED BY <2>1, CarriedType
<1>2. \E since \in Nat : /\ page' = [p EXCEPT !.sinceLastCredit = since] /\ NoWriteSent
                         /\ ends = {} => since + CreditIn' = owed + CreditIn
  <2>1. CASE owed >= Coalesce
    <3>1. page' = [p EXCEPT !.sinceLastCredit = 0] /\ toBroker' = PostedToBroker(Credit(owed))
      BY <2>1 DEF Reports
    <3> HIDE DEF owed
    <3>2. NoWriteSent /\ CreditIn' = CreditIn + (IF ends = {} THEN owed ELSE 0)
      BY <1>1, <3>1, SendsCredit
    <3>3. ends = {} => 0 + CreditIn' = owed + CreditIn
      BY <1>1, <3>2
    <3> QED BY <3>1, <3>2, <3>3
  <2>2. CASE ~(owed >= Coalesce)
    <3>1. page' = [p EXCEPT !.sinceLastCredit = owed] /\ toBroker' = toBroker
      BY <2>2 DEF Reports
    <3> HIDE DEF owed
    <3> QED BY <1>1, <3>1, SaysNothing
  <2> QED BY <2>1, <2>2
<1>3. PICK since \in Nat : /\ page' = [p EXCEPT !.sinceLastCredit = since] /\ NoWriteSent
                           /\ ends = {} => since + CreditIn' = owed + CreditIn
  BY <1>2
<1>4. page' \in Pages /\ page'.sinceLastCredit = since
  BY <1>3 DEF Pages
<1>5. /\ SameWriting(p, page')
      /\ page'.queue = p.queue /\ page'.queued = p.queued /\ page'.uncredited = p.uncredited
      /\ page'.got = p.got /\ page'.readable = p.readable
  BY <1>3 DEF Pages, SameWriting
<1> QED
  BY <1>3, <1>4, <1>5

\* What pull() reports was counted and is not queued any more.
LEMMA PulledFacts ==
    ASSUME Shape, NEW p \in Pages, Holds(p), PulledAndReports(p)
    PROVE  /\ NoWriteSent
           /\ page' \in Pages /\ SameWriting(p, page') /\ Holds(page')
           /\ page'.got = p.got /\ page'.readable = p.readable
           /\ ends = {} => page'.uncredited + page'.sinceLastCredit + CreditIn'
                             = p.uncredited + p.sinceLastCredit + CreditIn
<1>1. p.queued \in Nat /\ p.uncredited \in Nat /\ p.sinceLastCredit \in Nat /\ CreditIn \in Nat
  <2>1. p.queued \in Nat /\ p.uncredited \in Nat /\ p.sinceLastCredit \in Nat
    BY DEF Pages
  <2> QED BY <2>1, CarriedType
<1>2. CASE p.readable = "open" /\ p.queued < ReadWindow
  <2> DEFINE q == [p EXCEPT !.uncredited = p.queued]
             n == p.uncredited - p.queued
  <2>1. Reports(q, n)
    BY <1>2 DEF PulledAndReports
  <2>2. n \in Nat /\ p.uncredited = p.queued + n
    BY <1>1 DEF Holds
  <2>3. q \in Pages /\ q.uncredited = p.queued
    BY <1>1 DEF Pages
  <2>4. /\ SameWriting(p, q) /\ q.queue = p.queue /\ q.queued = p.queued
        /\ q.sinceLastCredit = p.sinceLastCredit /\ q.got = p.got /\ q.readable = p.readable
    BY DEF SameWriting, Pages
  <2> HIDE DEF q, n
  <2>5. /\ NoWriteSent
        /\ page' \in Pages /\ SameWriting(q, page')
        /\ page'.queue = q.queue /\ page'.queued = q.queued /\ page'.uncredited = q.uncredited
        /\ page'.got = q.got /\ page'.readable = q.readable
        /\ ends = {} => page'.sinceLastCredit + CreditIn' = q.sinceLastCredit + n + CreditIn
    BY <2>1, <2>2, <2>3, ReportsFacts
  <2>6. Holds(page')
    BY <1>1, <2>3, <2>4, <2>5 DEF Holds
  <2>7. ASSUME ends = {}
        PROVE  page'.uncredited + page'.sinceLastCredit + CreditIn'
                 = p.uncredited + p.sinceLastCredit + CreditIn
    <3>1. page'.sinceLastCredit \in Nat /\ CreditIn' \in Nat /\ page'.uncredited = p.queued
          /\ page'.sinceLastCredit + CreditIn' = p.sinceLastCredit + n + CreditIn
      <4>1. toBroker' \in Seq(BrokerMessages)
        BY <2>5 DEF NoWriteSent
      <4>2. CreditIn' \in Nat
        BY <4>1, AmountsType, BrokerMessageFacts DEF CreditIn
      <4>3. page'.sinceLastCredit \in Nat
        BY <2>5 DEF Pages
      <4> QED BY <2>3, <2>4, <2>5, <2>7, <4>2, <4>3
    <3>2. \A a, b, c, d, e, f \in Nat : b + c = d + e + f => a + b + c = (a + e) + d + f
      OBVIOUS
    <3> QED BY <1>1, <2>2, <3>1, <3>2
  <2> QED BY <2>4, <2>5, <2>6, <2>7, SameAgain
<1>3. CASE ~(p.readable = "open" /\ p.queued < ReadWindow)
  <2>1. page' = p /\ toBroker' = toBroker
    BY <1>3 DEF PulledAndReports
  <2>2. SameWriting(p, page')
    BY <2>1 DEF SameWriting
  <2> QED BY <2>1, <2>2, SaysNothing
<1> QED
  BY <1>2, <1>3

\* What the invariant says of the reading side.
LEMMA ReadingFacts ==
    ASSUME IInv
    PROVE  /\ Shape /\ page \in Pages /\ Holds(page) /\ page.queue \in Seq(Nat)
           /\ page.queued \in Nat /\ page.uncredited \in Nat /\ page.sinceLastCredit \in Nat /\ page.got \in Nat
           /\ pump.credit \in Int /\ DataOut \in Nat /\ AcksOut \in Nat /\ CreditIn \in Nat /\ Unread \in Nat
           /\ toPage # <<>> => "page" \notin ends
           /\ ~pump.stopped /\ ends = {} =>
                pump.credit + DataOut + page.uncredited + page.sinceLastCredit + CreditIn = ReadWindow
<1>1. Shape /\ page \in Pages /\ pump \in Pumps
  BY DEF IInv, Shape
<1>2. /\ page.queue \in Seq(Nat) /\ page.queued \in Nat /\ page.uncredited \in Nat
      /\ page.sinceLastCredit \in Nat /\ page.got \in Nat /\ pump.credit \in Int
  BY <1>1 DEF Pages, Pumps
<1> QED
  BY <1>1, <1>2, CarriedType DEF IInv, PartsAgree, WindowInv, Holds

\* The timer of what was consumed.
LEMMA FlushCreditKeeps ==
    ASSUME IInv, FlushCredit
    PROVE  IInv'
<1> DEFINE n == page.sinceLastCredit
<1>1. /\ page.here /\ page' = [page EXCEPT !.sinceLastCredit = 0] /\ toBroker' = PostedToBroker(Credit(n))
      /\ BrokerStill /\ toPage' = toPage
  BY DEF FlushCredit, BrokerStill
<1>2. /\ Shape /\ page \in Pages /\ Holds(page) /\ n \in Nat /\ page.uncredited \in Nat
      /\ pump.credit \in Int /\ DataOut \in Nat /\ CreditIn \in Nat
  BY ReadingFacts
<1>3. /\ page' \in Pages /\ SameWriting(page, page') /\ page'.queue = page.queue /\ page'.queued = page.queued
      /\ page'.uncredited = page.uncredited /\ page'.sinceLastCredit = 0
      /\ page'.got = page.got /\ page'.readable = page.readable
  BY <1>1, <1>2 DEF Pages, SameWriting
<1>4. NoWriteSent /\ CreditIn' = CreditIn + (IF ends = {} THEN n ELSE 0)
  BY <1>1, <1>2, SendsCredit
<1>5. QuietPage /\ (FailurePosted' <=> FailurePosted)
  BY <1>1, <1>2, PageQueueKept
<1>6. toPage' \in Seq(PageMessages)
  BY <1>5 DEF QuietPage
<1>7. WindowInv'
  <2>1. ASSUME ~pump.stopped, ends = {}
        PROVE  pump.credit + DataOut' + page'.uncredited + page'.sinceLastCredit + CreditIn' = ReadWindow
    <3>1. pump.credit + DataOut + page.uncredited + n + CreditIn = ReadWindow
      BY <2>1, ReadingFacts
    <3>2. DataOut' = DataOut
      BY <1>1 DEF DataOut
    <3>3. \A a \in Int : \A b, c, d, e \in Nat : a + b + c + d + e = a + b + c + 0 + (e + d)
      OBVIOUS
    <3> QED BY <1>2, <1>3, <1>4, <2>1, <3>1, <3>2, <3>3
  <2>2. page'.queued = Sum(page'.queue) /\ page'.queued <= page'.uncredited
    BY <1>2, <1>3 DEF Holds
  <2> QED BY <1>1, <2>1, <2>2 DEF WindowInv, BrokerStill
<1>8. CleanInv'
  <2>1. Unread' = Unread /\ (NoCalls' <=> NoCalls) /\ (AllRead' <=> AllRead)
    BY <1>1 DEF Unread, NoCalls, AllRead, BrokerStill
  <2> QED BY <1>1, <1>3, <1>5, <2>1 DEF IInv, CleanInv, BrokerStill, QuietPage
<1> QED
  BY <1>1, <1>3, <1>4, <1>5, <1>6, <1>7, <1>8, ReadingKeeps DEF QuietPage

\* What was taken off the queue of a page and consumed.
LEMMA ConsumesKeeps ==
    ASSUME IInv, BrokerStill, page.here, NEW q \in Pages, SameWriting(page, q), NoWriteSent,
           page' \in Pages, SameWriting(q, page'), Holds(page'),
           page'.got = q.got, page'.readable = q.readable,
           page'.readable \in {"ending", "closed"} => page.readable \in {"ending", "closed"},
           toPage' = toPage \/ (toPage # <<>> /\ toPage' = Tail(toPage) /\ Head(toPage).kind = "data"),
           DataOut' \in Nat, q.got + DataOut' = page.got + DataOut,
           ~pump.stopped /\ ends = {} =>
             pump.credit + DataOut' + page'.uncredited + page'.sinceLastCredit + CreditIn' = ReadWindow
    PROVE  IInv'
<1>1. Shape /\ page.got \in Nat /\ DataOut \in Nat
  BY ReadingFacts
<1>2. /\ toPage' \in Seq(PageMessages) /\ AcksOut' = AcksOut
      /\ (toPage' # toPage => toPage # <<>>)
      /\ EndPosted' => EndPosted
      /\ NothingAfterEnd => NothingAfterEnd'
      /\ FailurePosted' => FailurePosted
      /\ NoAcks => NoAcks'
      /\ EmptyAcks => EmptyAcks'
      /\ AcksInOrder => AcksInOrder'
      /\ NoFalseLimit => NoFalseLimit'
      /\ DataOut = 0 => DataOut' = 0
  <2>1. CASE toPage' = toPage
    BY <1>1, <2>1, PageQueueKept DEF QuietPage
  <2>2. CASE toPage # <<>> /\ toPage' = Tail(toPage) /\ Head(toPage).kind = "data"
    <3>1. /\ Head(toPage).n \in Nat /\ DataOut = Head(toPage).n + DataOut' /\ AcksOut' = AcksOut
          /\ toPage' \in Seq(PageMessages)
          /\ EndPosted' => EndPosted
          /\ NothingAfterEnd => NothingAfterEnd'
          /\ FailurePosted' => FailurePosted
          /\ NoAcks => NoAcks'
          /\ EmptyAcks => EmptyAcks'
          /\ AcksInOrder => AcksInOrder'
          /\ NoFalseLimit => NoFalseLimit'
      BY <1>1, <2>2, Takes
    <3>2. \A a, b \in Nat : 0 = a + b => b = 0
      OBVIOUS
    <3> QED BY <2>2, <3>1, <3>2
  <2> QED BY <2>1, <2>2
<1>3. WindowInv'
  BY DEF WindowInv, Holds, BrokerStill
<1>4. CleanInv'
  <2>1. Unread' = Unread /\ (NoCalls' <=> NoCalls) /\ (AllRead' <=> AllRead)
    BY DEF Unread, NoCalls, AllRead, BrokerStill
  <2>2. page'.got + DataOut' = page.got + DataOut
    OBVIOUS
  <2> QED BY <1>2, <2>1, <2>2 DEF IInv, CleanInv, BrokerStill
<1>5. SameWriting(page, page')
  BY SameAgain
<1> QED
  BY <1>2, <1>3, <1>4, <1>5, ReadingKeeps

\* A chunk reaches the page.
LEMMA PageDataKeeps ==
    ASSUME IInv, PageData
    PROVE  IInv'
<1> DEFINE m == Head(toPage)
           n == m.n
           p == [page EXCEPT !.got = page.got + n]
<1>1. /\ page.here /\ toPage # <<>> /\ m.kind = "data" /\ toPage' = Tail(toPage)
      /\ BrokerStill
      /\ IF page.readable = "cancelled" THEN Reports(p, n)
         ELSE IF page.readable = "open"
         THEN PulledAndReports([p EXCEPT !.queue = Append(p.queue, n), !.queued = p.queued + n,
                                         !.uncredited = p.uncredited + n])
         ELSE page' = [p EXCEPT !.uncredited = p.uncredited + n] /\ toBroker' = toBroker
  BY DEF PageData, PageTakes, BrokerStill
<1>2. /\ Shape /\ page \in Pages /\ Holds(page) /\ page.queue \in Seq(Nat)
      /\ page.queued \in Nat /\ page.uncredited \in Nat /\ page.sinceLastCredit \in Nat /\ page.got \in Nat
      /\ pump.credit \in Int /\ DataOut \in Nat /\ CreditIn \in Nat
  BY ReadingFacts
<1>3. n \in Nat /\ DataOut = n + DataOut' /\ DataOut' \in Nat
  BY <1>1, <1>2, Takes
<1> HIDE DEF m, n
<1>4. /\ p \in Pages /\ p.got = page.got + n /\ SameWriting(page, p)
      /\ p.queue = page.queue /\ p.queued = page.queued /\ p.uncredited = page.uncredited
      /\ p.sinceLastCredit = page.sinceLastCredit /\ p.readable = page.readable
  <2> DEFINE got == page.got + n
  <2>1. got \in Nat /\ p = [page EXCEPT !.got = got]
    BY <1>2, <1>3
  <2> HIDE DEF got, p
  <2>2. p \in Pages /\ p.got = got
    BY <1>2, <2>1 DEF Pages
  <2>3. /\ SameWriting(page, p)
        /\ p.queue = page.queue /\ p.queued = page.queued /\ p.uncredited = page.uncredited
        /\ p.sinceLastCredit = page.sinceLastCredit /\ p.readable = page.readable
    BY <1>2, <2>1 DEF Pages, SameWriting
  <2> QED BY <2>2, <2>3 DEF got
<1>5. p.got + DataOut' = page.got + DataOut
  BY <1>2, <1>3, <1>4
<1> HIDE DEF p
<1>6. ASSUME page' \in Pages, page'.sinceLastCredit \in Nat, CreditIn' \in Nat,
             ends = {} => page'.uncredited + page'.sinceLastCredit + CreditIn'
                            = (page.uncredited + n) + page.sinceLastCredit + CreditIn
      PROVE  ~pump.stopped /\ ends = {} =>
               pump.credit + DataOut' + page'.uncredited + page'.sinceLastCredit + CreditIn' = ReadWindow
  <2>1. ASSUME ~pump.stopped, ends = {}
        PROVE  pump.credit + DataOut' + page'.uncredited + page'.sinceLastCredit + CreditIn' = ReadWindow
    <3>1. pump.credit + DataOut + page.uncredited + page.sinceLastCredit + CreditIn = ReadWindow
      BY <2>1, ReadingFacts
    <3>2. page'.uncredited \in Nat
      BY <1>6 DEF Pages
    <3>3. page'.uncredited + page'.sinceLastCredit + CreditIn'
            = (page.uncredited + n) + page.sinceLastCredit + CreditIn
      BY <1>6, <2>1
    <3>4. pump.credit + (n + DataOut') + page.uncredited + page.sinceLastCredit + CreditIn = ReadWindow
      BY <1>3, <3>1
    <3>5. pump.credit + DataOut' + page'.uncredited + page'.sinceLastCredit + CreditIn'
            = pump.credit + (n + DataOut') + page.uncredited + page.sinceLastCredit + CreditIn
      <4> DEFINE a == pump.credit
                 b == DataOut'
                 c == page.uncredited
                 d == page.sinceLastCredit
                 e == CreditIn
                 u == page'.uncredited
                 v == page'.sinceLastCredit
                 w == CreditIn'
      <4>1. /\ a \in Int /\ b \in Nat /\ c \in Nat /\ d \in Nat /\ e \in Nat
            /\ u \in Nat /\ v \in Nat /\ w \in Nat /\ n \in Nat
        BY <1>2, <1>3, <1>6, <3>2
      <4>2. u + v + w = (c + n) + d + e
        BY <3>3
      <4> HIDE DEF a, b, c, d, e, u, v, w
      <4>3. a + b + u + v + w = a + (n + b) + c + d + e
        BY <4>1, <4>2
      <4> QED BY <4>3 DEF a, b, c, d, e, u, v, w
    <3> QED BY <3>4, <3>5
  <2> QED BY <2>1
<1>7. ASSUME NoWriteSent PROVE CreditIn' \in Nat
  <2>1. toBroker' \in Seq(BrokerMessages)
    BY <1>7 DEF NoWriteSent
  <2> QED BY <2>1, AmountsType, BrokerMessageFacts DEF CreditIn
<1>8. page' \in Pages => page'.sinceLastCredit \in Nat
  BY DEF Pages
<1>9. CASE page.readable = "cancelled"
  <2>1. Reports(p, n)
    BY <1>1, <1>9
  <2>2. /\ NoWriteSent
        /\ page' \in Pages /\ SameWriting(p, page')
        /\ page'.queue = p.queue /\ page'.queued = p.queued /\ page'.uncredited = p.uncredited
        /\ page'.got = p.got /\ page'.readable = p.readable
        /\ ends = {} => page'.sinceLastCredit + CreditIn' = p.sinceLastCredit + n + CreditIn
    BY <1>2, <1>3, <1>4, <2>1, ReportsFacts
  <2>3. Holds(page')
    BY <1>2, <1>4, <2>2 DEF Holds
  <2>4. CreditIn' \in Nat /\ page'.sinceLastCredit \in Nat
    BY <1>7, <1>8, <2>2
  <2>5. ends = {} => page'.uncredited + page'.sinceLastCredit + CreditIn'
                       = (page.uncredited + n) + page.sinceLastCredit + CreditIn
    <3> DEFINE a == page.uncredited
               b == page'.sinceLastCredit
               c == CreditIn'
               d == page.sinceLastCredit
               e == CreditIn
    <3>1. a \in Nat /\ b \in Nat /\ c \in Nat /\ d \in Nat /\ e \in Nat /\ n \in Nat
      BY <1>2, <1>3, <2>4
    <3>2. page'.uncredited = a
      BY <1>4, <2>2
    <3>3. ends = {} => b + c = d + n + e
      BY <1>4, <2>2
    <3> HIDE DEF a, b, c, d, e
    <3>4. ends = {} => a + b + c = (a + n) + d + e
      BY <3>1, <3>3
    <3> QED BY <3>2, <3>4 DEF a, b, c, d, e
  <2>6. ~pump.stopped /\ ends = {} =>
          pump.credit + DataOut' + page'.uncredited + page'.sinceLastCredit + CreditIn' = ReadWindow
    BY <1>6, <2>2, <2>4, <2>5
  <2>7. page'.readable = page.readable
    BY <1>4, <2>2
  <2> QED BY <1>1, <1>3, <1>4, <1>5, <2>2, <2>3, <2>6, <2>7, ConsumesKeeps DEF m
<1>10. CASE page.readable = "open"
  <2> DEFINE queue == Append(p.queue, n)
             queued == p.queued + n
             uncredited == p.uncredited + n
             q == [p EXCEPT !.queue = queue, !.queued = queued, !.uncredited = uncredited]
  <2>1. PulledAndReports(q)
    BY <1>1, <1>10
  <2>2. queue \in Seq(Nat) /\ queued \in Nat /\ uncredited \in Nat /\ queued = Sum(queue) /\ queued <= uncredited
    <3>1. queue \in Seq(Nat) /\ queued \in Nat /\ uncredited \in Nat /\ queued <= uncredited
      <4>1. p.queue \in Seq(Nat) /\ n \in Nat /\ p.queued \in Nat /\ p.uncredited \in Nat /\ p.queued <= p.uncredited
        BY <1>2, <1>3, <1>4 DEF Holds
      <4>2. \A s \in Seq(Nat), x \in Nat : Append(s, x) \in Seq(Nat)
        OBVIOUS
      <4>3. \A x, y, z \in Nat : x + z \in Nat /\ (x <= y => x + z <= y + z)
        OBVIOUS
      <4> HIDE DEF p, n
      <4> QED BY <4>1, <4>2, <4>3
    <3>2. Sum(queue) = Sum(p.queue) + n
      BY <1>2, <1>3, <1>4, SumAppend
    <3> QED BY <1>2, <1>4, <3>1, <3>2 DEF Holds
  <2>3. uncredited = page.uncredited + n
    BY <1>4
  <2> HIDE DEF queue, queued, uncredited
  <2>4. q \in Pages /\ q.queue = queue /\ q.queued = queued /\ q.uncredited = uncredited
    BY <1>4, <2>2 DEF Pages
  <2>5. /\ SameWriting(p, q) /\ q.sinceLastCredit = p.sinceLastCredit /\ q.got = p.got /\ q.readable = p.readable
    BY <1>4 DEF SameWriting, Pages
  <2> HIDE DEF q
  <2>6. Holds(q)
    BY <2>2, <2>4 DEF Holds
  <2>7. /\ NoWriteSent
        /\ page' \in Pages /\ SameWriting(q, page') /\ Holds(page')
        /\ page'.got = q.got /\ page'.readable = q.readable
        /\ ends = {} => page'.uncredited + page'.sinceLastCredit + CreditIn'
                          = q.uncredited + q.sinceLastCredit + CreditIn
    BY <1>2, <2>1, <2>4, <2>6, PulledFacts
  <2>8. ~pump.stopped /\ ends = {} =>
          pump.credit + DataOut' + page'.uncredited + page'.sinceLastCredit + CreditIn' = ReadWindow
    BY <1>4, <1>6, <1>7, <1>8, <2>3, <2>4, <2>5, <2>7
  <2>9. SameWriting(page, q) /\ q.got + DataOut' = page.got + DataOut /\ page'.readable = page.readable
    BY <1>4, <1>5, <2>5, <2>7, SameAgain
  <2> QED BY <1>1, <1>3, <2>4, <2>7, <2>8, <2>9, ConsumesKeeps DEF m
<1>11. CASE page.readable \notin {"cancelled", "open"}
  <2> DEFINE uncredited == p.uncredited + n
  <2>1. page' = [p EXCEPT !.uncredited = uncredited] /\ toBroker' = toBroker
    BY <1>1, <1>11
  <2>2. uncredited \in Nat /\ page.queued <= uncredited /\ uncredited = page.uncredited + n
    BY <1>2, <1>3, <1>4 DEF Holds
  <2> HIDE DEF uncredited
  <2>3. page' \in Pages /\ page'.uncredited = uncredited
    BY <1>4, <2>1, <2>2 DEF Pages
  <2>4. /\ SameWriting(p, page') /\ page'.queue = p.queue /\ page'.queued = p.queued
        /\ page'.sinceLastCredit = p.sinceLastCredit /\ page'.got = p.got /\ page'.readable = p.readable
    BY <1>4, <2>1 DEF SameWriting, Pages
  <2>5. Holds(page') /\ page'.readable = page.readable
    BY <1>2, <1>4, <2>2, <2>3, <2>4 DEF Holds
  <2>6. NoWriteSent /\ CreditIn' = CreditIn
    BY <1>2, <2>1, SaysNothing
  <2>7. ends = {} => page'.uncredited + page'.sinceLastCredit + CreditIn'
                       = (page.uncredited + n) + page.sinceLastCredit + CreditIn
    BY <1>4, <2>2, <2>3, <2>4, <2>6
  <2>8. ~pump.stopped /\ ends = {} =>
          pump.credit + DataOut' + page'.uncredited + page'.sinceLastCredit + CreditIn' = ReadWindow
    BY <1>6, <1>7, <1>8, <2>3, <2>6, <2>7
  <2> QED BY <1>1, <1>3, <1>4, <1>5, <2>3, <2>4, <2>5, <2>6, <2>8, ConsumesKeeps DEF m
<1> QED
  BY <1>9, <1>10, <1>11

\* The app reads a chunk.
LEMMA AppReadsKeeps ==
    ASSUME IInv, AppReads
    PROVE  IInv'
<1> DEFINE rest == Tail(page.queue)
           queued == page.queued - Head(page.queue)
           readable == IF page.readable = "ending" /\ rest = <<>> THEN "closed" ELSE page.readable
           q == [page EXCEPT !.queue = rest, !.queued = queued, !.readable = readable]
<1>1. /\ Shape /\ page \in Pages /\ Holds(page) /\ page.queue \in Seq(Nat)
      /\ page.queued \in Nat /\ page.uncredited \in Nat /\ page.sinceLastCredit \in Nat /\ page.got \in Nat
      /\ pump.credit \in Int /\ DataOut \in Nat /\ CreditIn \in Nat
  BY ReadingFacts
<1>2. /\ page.here /\ page.queue # <<>> /\ BrokerStill /\ toPage' = toPage /\ PulledAndReports(q)
  <2> DEFINE p == [page EXCEPT !.queue = rest, !.queued = queued]
  <2>1. p.readable = page.readable /\ [p EXCEPT !.readable = readable] = q
    BY <1>1 DEF Pages
  <2>2. PulledAndReports([p EXCEPT !.readable = IF p.readable = "ending" /\ rest = <<>> THEN "closed" ELSE p.readable])
    BY DEF AppReads
  <2>3. page.here /\ page.queue # <<>> /\ BrokerStill /\ toPage' = toPage
    BY DEF AppReads, BrokerStill
  <2> QED BY <2>1, <2>2, <2>3
<1>3. /\ rest \in Seq(Nat) /\ queued \in Nat /\ queued = Sum(rest) /\ queued <= page.uncredited
  <2>1. /\ Sum(page.queue) = Head(page.queue) + Sum(rest) /\ Head(page.queue) \in Nat
        /\ rest \in Seq(Nat) /\ Sum(rest) \in Nat
    BY <1>1, <1>2, SumTail
  <2>2. \A a, b, c, d \in Nat : d = a + b /\ d <= c => d - a = b /\ b <= c
    OBVIOUS
  <2>3. page.queued = Sum(page.queue) /\ page.queued <= page.uncredited
    BY <1>1 DEF Holds
  <2>4. queued = Sum(rest) /\ Sum(rest) <= page.uncredited
    BY <1>1, <2>1, <2>2, <2>3
  <2> QED BY <2>1, <2>4
<1>4. /\ readable \in {"open", "ending", "closed", "errored", "cancelled"}
      /\ readable \in {"ending", "closed"} => page.readable \in {"ending", "closed"}
  BY <1>1 DEF Pages
<1> HIDE DEF rest, queued, readable
<1>5. q \in Pages /\ q.queue = rest /\ q.queued = queued /\ q.readable = readable
  BY <1>1, <1>3, <1>4 DEF Pages
<1>6. /\ SameWriting(page, q) /\ q.uncredited = page.uncredited /\ q.sinceLastCredit = page.sinceLastCredit
      /\ q.got = page.got
  BY <1>1 DEF Pages, SameWriting
<1> HIDE DEF q
<1>7. Holds(q)
  BY <1>3, <1>5, <1>6 DEF Holds
<1>8. /\ NoWriteSent
      /\ page' \in Pages /\ SameWriting(q, page') /\ Holds(page')
      /\ page'.got = q.got /\ page'.readable = q.readable
      /\ ends = {} => page'.uncredited + page'.sinceLastCredit + CreditIn'
                        = q.uncredited + q.sinceLastCredit + CreditIn
  BY <1>1, <1>2, <1>5, <1>7, PulledFacts
<1>9. DataOut' = DataOut
  BY <1>2 DEF DataOut
<1>10. ASSUME ~pump.stopped, ends = {}
       PROVE  pump.credit + DataOut' + page'.uncredited + page'.sinceLastCredit + CreditIn' = ReadWindow
  <2> DEFINE a == pump.credit
             b == DataOut
             c == page.uncredited
             d == page.sinceLastCredit
             e == CreditIn
             u == page'.uncredited
             v == page'.sinceLastCredit
             w == CreditIn'
  <2>1. /\ a \in Int /\ b \in Nat /\ c \in Nat /\ d \in Nat /\ e \in Nat
        /\ u \in Nat /\ v \in Nat /\ w \in Nat
    <3>1. toBroker' \in Seq(BrokerMessages)
      BY <1>8 DEF NoWriteSent
    <3>2. w \in Nat
      BY <3>1, AmountsType, BrokerMessageFacts DEF CreditIn
    <3>3. u \in Nat /\ v \in Nat
      BY <1>8 DEF Pages
    <3> QED BY <1>1, <3>2, <3>3
  <2>2. u + v + w = c + d + e
    BY <1>6, <1>8, <1>10
  <2>3. a + b + c + d + e = ReadWindow
    BY <1>10, ReadingFacts
  <2> HIDE DEF a, b, c, d, e, u, v, w
  <2>4. a + b + u + v + w = a + b + c + d + e
    BY <2>1, <2>2
  <2> QED BY <1>9, <2>3, <2>4 DEF a, b, c, d, e, u, v, w
<1>11. q.got + DataOut' = page.got + DataOut /\ DataOut' \in Nat
  BY <1>1, <1>6, <1>9
<1>12. page'.readable \in {"ending", "closed"} => page.readable \in {"ending", "closed"}
  BY <1>4, <1>5, <1>8
<1> QED
  BY <1>2, <1>5, <1>6, <1>8, <1>10, <1>11, <1>12, ConsumesKeeps

\* Nothing is said, and nothing is read.
LEMMA SilentKeeps ==
    ASSUME IInv, BrokerStill, page.here, toPage' = toPage, toBroker' \in Seq(BrokerMessages),
           ends # {} => toBroker' = toBroker, CreditIn' = CreditIn,
           ReadsNoFurther(page, page'), WriteInv', OnePieceInv'
    PROVE  IInv'
<1>1. Shape
  BY DEF IInv
<1>2. QuietPage
  BY <1>1, PageQueueKept
<1> QED
  BY <1>2, WritingKeeps DEF QuietPage

\* The writing side is left alone.
LEMMA SameWritingKeeps ==
    ASSUME IInv, BrokerStill, page.here, ReadsNoFurther(page, page'), SameWriting(page, page'),
           toPage' = toPage \/ (toPage # <<>> /\ toPage' = Tail(toPage) /\ Head(toPage).kind = "end"),
           toBroker' = toBroker
    PROVE  IInv'
<1>1. Shape /\ NoWriteSent /\ CreditIn' = CreditIn
  BY SaysNothing DEF IInv
<1>2. /\ toPage' \in Seq(PageMessages) /\ DataOut' = DataOut /\ AcksOut' = AcksOut
      /\ (toPage' # toPage => toPage # <<>>)
      /\ EndPosted' => EndPosted
      /\ NothingAfterEnd => NothingAfterEnd'
      /\ FailurePosted' => FailurePosted
      /\ NoAcks => NoAcks'
      /\ EmptyAcks => EmptyAcks'
      /\ AcksInOrder => AcksInOrder'
      /\ NoFalseLimit => NoFalseLimit'
  <2>1. CASE toPage' = toPage
    BY <1>1, <2>1, PageQueueKept DEF QuietPage
  <2>2. CASE toPage # <<>> /\ toPage' = Tail(toPage) /\ Head(toPage).kind = "end"
    BY <1>1, <2>2, Takes
  <2> QED BY <2>1, <2>2
<1>3. WindowInv'
  BY <1>1, <1>2 DEF IInv, WindowInv, BrokerStill, ReadsNoFurther, Holds
<1>4. CleanInv'
  <2>1. Unread' = Unread /\ (NoCalls' <=> NoCalls) /\ (AllRead' <=> AllRead)
    BY DEF Unread, NoCalls, AllRead, BrokerStill
  <2> QED BY <1>2, <2>1 DEF IInv, CleanInv, BrokerStill, ReadsNoFurther
<1>5. page' \in Pages
  BY DEF ReadsNoFurther
<1> QED
  BY <1>1, <1>2, <1>3, <1>4, <1>5, ReadingKeeps

\* The app cancels what it has not read.
LEMMA AppCancelsKeeps ==
    ASSUME IInv, AppCancels
    PROVE  IInv'
<1>1. page.here /\ BrokerStill /\ toPage' = toPage /\ toBroker' = toBroker /\ page' = Readless(page, "cancelled")
  BY DEF AppCancels, BrokerStill
<1>2. page \in Pages
  BY DEF IInv, Shape
<1> QED
  BY <1>1, <1>2, ReadlessFacts, SameWritingKeeps

\* close() is asked for.
LEMMA AppClosesKeeps ==
    ASSUME IInv, NEW c \in Closes, AppCloses(c)
    PROVE  IInv'
<1>1. /\ calls[c] = "none" /\ calls' = [calls EXCEPT ![c] = "asked"]
      /\ socket' = socket /\ pump' = pump /\ sink' = sink /\ relay' = relay /\ handle' = handle
      /\ toPage' = toPage /\ toBroker' = toBroker /\ ends' = ends /\ page' = page
  BY DEF AppCloses
<1>2. /\ socket \in Sockets /\ handle \in Handles /\ (handle.state = "live" => handle.reason = "none")
      /\ calls \in [Closes -> {"none", "asked", "waiting", "answered", "done"}]
  BY DEF IInv, Shape, PartsAgree
<1>3. \A d \in Closes : /\ calls'[d] = "none" => calls[d] = "none"
                        /\ calls[d] = "done" => calls'[d] = "done"
                        /\ calls[d] = "waiting" => calls'[d] = "waiting"
  BY <1>1, <1>2
<1>4. QuietCalls
  <2>1. calls' \in [Closes -> {"none", "asked", "waiting", "answered", "done"}]
    BY <1>1, <1>2
  <2> QED BY <1>3, <2>1 DEF QuietCalls, NoCalls
<1>5. Shut(socket, socket')
  BY <1>1, <1>2, SocketItself
<1>6. NoCalls /\ socket'.readable = "closed" /\ ~pump.stopped => socket.theirs = "fin"
  BY <1>1 DEF IInv, CleanInv
<1> QED
  BY <1>1, <1>2, <1>3, <1>4, <1>5, <1>6, ShutKeeps

\* An end is told: a clean one after everything.
LEMMA PageEndKeeps ==
    ASSUME IInv, PageEnd
    PROVE  IInv'
<1> DEFINE m == Head(toPage)
<1>1. /\ page.here /\ toPage # <<>> /\ m.kind = "end" /\ toPage' = Tail(toPage)
      /\ BrokerStill /\ toBroker' = toBroker
      /\ page' = IF m.code = "clean" THEN Resolved(ReadClosed([page EXCEPT !.readTerminal = TRUE]))
                 ELSE IF page.readable = "cancelled" THEN Rejected(page)
                 ELSE Rejected(Writeless(Readless(page, "errored")))
  BY DEF PageEnd, PageTakes, BrokerStill
<1>2. Shape /\ page \in Pages /\ Holds(page)
  BY ReadingFacts
<1>3. /\ m \in PageMessages /\ toPage' \in Seq(PageMessages)
      /\ DataOut' = DataOut /\ AcksOut' = AcksOut
      /\ m = End("clean") => EndPosted /\ (NothingAfterEnd => DataOut' = 0)
      /\ EndPosted' => EndPosted
      /\ NothingAfterEnd => NothingAfterEnd'
      /\ FailurePosted' => FailurePosted
      /\ NoAcks => NoAcks'
      /\ EmptyAcks => EmptyAcks'
      /\ AcksInOrder => AcksInOrder'
      /\ NoFalseLimit => NoFalseLimit'
  BY <1>1, <1>2, Takes
<1>4. m = End(m.code)
  BY <1>1, <1>3, PageMessageFacts
<1> HIDE DEF m
<1>5. CASE m.code = "clean"
  <2> DEFINE p == [page EXCEPT !.readTerminal = TRUE]
             q == ReadClosed(p)
  <2>1. page' = Resolved(q)
    BY <1>1, <1>5
  <2>2. SameReads(page, p) /\ SameWriting(page, p) /\ p \in Pages
    BY <1>2 DEF SameReads, SameWriting, Pages
  <2> HIDE DEF p
  <2>3. /\ SameWriting(p, q) /\ q \in Pages
        /\ q.queue = p.queue /\ q.queued = p.queued /\ q.uncredited = p.uncredited
        /\ q.sinceLastCredit = p.sinceLastCredit /\ q.got = p.got
    BY <2>2, ReadClosedFacts
  <2> HIDE DEF q
  <2>4. SameReads(q, page') /\ SameWriting(q, page')
    BY <2>1, <2>3, ResolvedFacts
  <2>5. SameWriting(page, page')
    <3>1. SameWriting(page, q)
      BY <2>2, <2>3, SameAgain
    <3> QED BY <2>4, <3>1, SameAgain
  <2>6. /\ page' \in Pages /\ page'.queue = page.queue /\ page'.queued = page.queued
        /\ page'.uncredited = page.uncredited /\ page'.sinceLastCredit = page.sinceLastCredit /\ page'.got = page.got
    BY <2>2, <2>3, <2>4 DEF SameReads
  <2>7. NoWriteSent /\ CreditIn' = CreditIn
    BY <1>1, <1>2, SaysNothing
  <2>8. WindowInv'
    BY <1>1, <1>3, <2>6, <2>7 DEF IInv, WindowInv, BrokerStill
  <2>9. CleanInv'
    <3>1. Unread' = Unread /\ (NoCalls' <=> NoCalls) /\ (AllRead' <=> AllRead)
      BY <1>1 DEF Unread, NoCalls, AllRead, BrokerStill
    <3>2. NoCalls => AllRead /\ DataOut' = 0
      BY <1>3, <1>4, <1>5 DEF IInv, CleanInv
    <3> QED BY <1>1, <1>3, <2>6, <3>1, <3>2 DEF IInv, CleanInv, BrokerStill
  <2> QED BY <1>1, <1>3, <2>5, <2>6, <2>7, <2>8, <2>9, ReadingKeeps
<1>6. CASE m.code # "clean" /\ page.readable = "cancelled"
  <2>1. page' = Rejected(page)
    BY <1>1, <1>6
  <2>2. ReadsNoFurther(page, page') /\ SameWriting(page, page')
    BY <1>2, <2>1, RejectedFacts, SameAgain
  <2> QED BY <1>1, <2>2, SameWritingKeeps DEF m
<1>7. CASE m.code # "clean" /\ page.readable # "cancelled"
  <2> DEFINE e == Readless(page, "errored")
             w == Writeless(e)
  <2>1. page' = Rejected(w)
    BY <1>1, <1>7
  <2>2. ReadsNoFurther(page, e) /\ SameWriting(page, e) /\ e \in Pages
    BY <1>2, ReadlessFacts DEF ReadsNoFurther
  <2> HIDE DEF e
  <2>3. SameReads(e, w) /\ SameWriting(e, w) /\ w \in Pages
    BY <2>2, WritelessFacts DEF SameReads
  <2> HIDE DEF w
  <2>4. SameReads(w, page') /\ SameWriting(w, page')
    BY <2>1, <2>3, RejectedFacts
  <2>5. ReadsNoFurther(page, page')
    <3>1. ReadsNoFurther(e, w) /\ ReadsNoFurther(w, page')
      BY <2>3, <2>4, SameAgain
    <3>2. ReadsNoFurther(page, w)
      BY <2>2, <3>1, SameAgain
    <3> QED BY <3>1, <3>2, SameAgain
  <2>6. SameWriting(page, page')
    <3>1. SameWriting(page, w)
      BY <2>2, <2>3, SameAgain
    <3> QED BY <2>4, <3>1, SameAgain
  <2> QED BY <1>1, <2>5, <2>6, SameWritingKeeps DEF m
<1> QED
  BY <1>5, <1>6, <1>7

\* What the invariant says of the writing side.
LEMMA WritingFacts ==
    ASSUME IInv
    PROVE  /\ Shape /\ page \in Pages
           /\ page.left \in Nat /\ page.piece \in Nat /\ page.acked \in Nat /\ page.accepted \in Nat
           /\ AcksOut \in Nat /\ WritesIn \in Nat /\ sink.unacked \in Nat /\ WriteWindow \in Nat
           /\ sink.writes \in Seq(Nat) /\ sink.unacked = Sum(sink.writes)
           /\ page.piece <= WriteWindow /\ page.piece <= page.left
           /\ ~page.writing => page.left = 0 /\ page.piece = 0 /\ page.acked = 0
           /\ "page" \notin ends /\ ~sink.stopped =>
                sink.unacked + WritesIn + AcksOut + page.acked <= page.piece
           /\ FailurePosted => sink.stopped \/ sink.ended
           /\ sink.ended => sink.ending
           /\ page.here /\ (sink.ending \/ WriteEndSent) => page.writable = "closed" /\ ~page.writing
           /\ AcksInOrder
           /\ ~socket.reset /\ ~sink.stopped =>
                /\ sink.writes # <<>> => Head(sink.writes) > 0 /\ NoWrites /\ EmptyAcks
                /\ OneWrite /\ (NoWrites \/ NoAcks)
                /\ ~page.writing /\ "page" \notin ends => sink.writes = <<>> /\ NoWrites /\ NoAcks
           /\ toPage # <<>> => "page" \notin ends
           /\ "broker" \in ends => sink.stopped
<1>1. Shape /\ page \in Pages /\ sink \in Sinks
  BY DEF IInv, Shape
<1>2. /\ page.left \in Nat /\ page.piece \in Nat /\ page.acked \in Nat /\ page.accepted \in Nat
      /\ sink.writes \in Seq(Nat)
  BY <1>1 DEF Pages, Sinks
<1>3. sink.unacked = Sum(sink.writes) /\ sink.unacked \in Nat
  BY <1>2, UnitsFacts DEF IInv, WriteInv
<1>4. WriteWindow \in Nat
  BY RelayAssumption
<1>5. /\ page.piece <= WriteWindow /\ page.piece <= page.left
      /\ ~page.writing => page.left = 0 /\ page.piece = 0 /\ page.acked = 0
      /\ "page" \notin ends /\ ~sink.stopped =>
           sink.unacked + WritesIn + AcksOut + page.acked <= page.piece
      /\ FailurePosted => sink.stopped \/ sink.ended
      /\ sink.ended => sink.ending
      /\ page.here /\ (sink.ending \/ WriteEndSent) => page.writable = "closed" /\ ~page.writing
  BY DEF IInv, WriteInv
<1>6. /\ AcksInOrder
      /\ ~socket.reset /\ ~sink.stopped =>
           /\ sink.writes # <<>> => Head(sink.writes) > 0 /\ NoWrites /\ EmptyAcks
           /\ OneWrite /\ (NoWrites \/ NoAcks)
           /\ ~page.writing /\ "page" \notin ends => sink.writes = <<>> /\ NoWrites /\ NoAcks
  BY DEF IInv, OnePieceInv
<1>7. (toPage # <<>> => "page" \notin ends) /\ ("broker" \in ends => sink.stopped)
  BY DEF IInv, PartsAgree
<1> QED
  BY <1>1, <1>2, <1>3, <1>4, <1>5, <1>6, <1>7, CarriedType

\* A step of the writing side.
LEMMA WritesOnKeeps ==
    ASSUME IInv, BrokerStill, page.here, ReadsNoFurther(page, page'),
           toPage' \in Seq(PageMessages), toPage' # toPage => toPage # <<>>,
           toBroker' \in Seq(BrokerMessages), ends # {} => toBroker' = toBroker,
           CreditIn' = CreditIn, DataOut' = DataOut,
           EndPosted' => EndPosted,
           NothingAfterEnd => NothingAfterEnd',
           FailurePosted' => FailurePosted,
           NoFalseLimit => NoFalseLimit',
           AcksInOrder', AcksOut' \in Nat,
           page'.accepted + page'.acked + AcksOut' <= page.accepted + page.acked + AcksOut,
           "page" \notin ends /\ ~sink.stopped =>
             sink.unacked + WritesIn' + AcksOut' + page'.acked <= page'.piece,
           page'.piece <= WriteWindow, page'.piece <= page'.left,
           ~page'.writing => page'.left = 0 /\ page'.piece = 0 /\ page'.acked = 0,
           sink.ending \/ WriteEndSent' => page'.writable = "closed" /\ ~page'.writing,
           ~socket.reset /\ ~sink.stopped =>
             /\ sink.writes # <<>> => NoWrites' /\ EmptyAcks'
             /\ OneWrite' /\ (NoWrites' \/ NoAcks')
             /\ ~page'.writing /\ "page" \notin ends => sink.writes = <<>> /\ NoWrites' /\ NoAcks'
    PROVE  IInv'
<1>1. WriteInv'
  <2>1. Held' = Held /\ Held \in Nat
    <3>1. sink.writes \in Seq(Nat)
      BY WritingFacts
    <3> QED BY <3>1, SumTail DEF Held, BrokerStill
  <2>2. page'.accepted + page'.acked + AcksOut' + Held' <= socket'.taken
    <3> DEFINE a == page.accepted + page.acked + AcksOut
               b == page'.accepted + page'.acked + AcksOut'
    <3>0. \A x, y, z \in Nat : x + y + z \in Nat
      OBVIOUS
    <3>1. a \in Nat
      <4>1. page.accepted \in Nat /\ page.acked \in Nat /\ AcksOut \in Nat
        BY WritingFacts
      <4> QED BY <3>0, <4>1
    <3>2. b \in Nat
      <4>1. page'.accepted \in Nat /\ page'.acked \in Nat
        BY DEF ReadsNoFurther, Pages
      <4> QED BY <3>0, <4>1
    <3>3. a + Held <= socket.taken /\ socket' = socket /\ b <= a
      BY DEF IInv, WriteInv, BrokerStill
    <3>4. socket.taken \in Nat
      BY DEF IInv, Shape, Sockets
    <3> HIDE DEF a, b
    <3>5. b + Held <= socket.taken
      BY <2>1, <3>1, <3>2, <3>3, <3>4
    <3> QED BY <2>1, <3>3, <3>5 DEF b
  <2>3. NoFalseLimit' /\ (FailurePosted' => sink'.stopped \/ sink'.ended)
    BY DEF IInv, WriteInv, BrokerStill
  <2>4. sink'.ending \/ WriteEndSent' => ~page'.here \/ (page'.writable = "closed" /\ ~page'.writing)
    BY DEF BrokerStill
  <2>5. /\ socket'.reset => ~socket'.alive
        /\ sink'.unacked = Sum(sink'.writes)
        /\ sink'.ended => sink'.ending
        /\ "page" \notin ends' /\ ~sink'.stopped => sink'.unacked + WritesIn' + AcksOut' + page'.acked <= page'.piece
    BY DEF IInv, WriteInv, BrokerStill
  <2> QED BY <2>2, <2>3, <2>4, <2>5 DEF WriteInv
<1>2. OnePieceInv'
  BY DEF IInv, OnePieceInv, BrokerStill
<1> QED
  BY <1>1, <1>2, WritingKeeps

\* A page that gives up: the broker stopped, ended or holds nothing of it.
LEMMA FatalKeeps ==
    ASSUME IInv, BrokerStill, page.here, page' = Fatal(page), toBroker' = toBroker,
           toPage' = toPage \/ (toPage # <<>> /\ toPage' = Tail(toPage) /\ Head(toPage).kind = "failed"),
           \/ sink.stopped
           \/ ~page.writing
           \/ sink.writes = <<>> /\ NoWrites /\ NoAcks
    PROVE  IInv'
<1>1. /\ Shape /\ page \in Pages
      /\ page.acked \in Nat /\ page.accepted \in Nat /\ page.piece \in Nat /\ AcksOut \in Nat /\ WritesIn \in Nat
      /\ sink.unacked \in Nat /\ sink.unacked = Sum(sink.writes) /\ WriteWindow \in Nat
      /\ ~page.writing => page.piece = 0 /\ page.acked = 0
      /\ "page" \notin ends /\ ~sink.stopped => sink.unacked + WritesIn + AcksOut + page.acked <= page.piece
      /\ sink.ending \/ WriteEndSent => page.writable = "closed" /\ ~page.writing
      /\ AcksInOrder
      /\ ~socket.reset /\ ~sink.stopped =>
           /\ sink.writes # <<>> => NoWrites /\ EmptyAcks
           /\ OneWrite /\ (NoWrites \/ NoAcks)
           /\ ~page.writing /\ "page" \notin ends => sink.writes = <<>> /\ NoWrites /\ NoAcks
  BY WritingFacts
<1>2. /\ ReadsNoFurther(page, page')
      /\ ~page'.writing /\ page'.left = 0 /\ page'.piece = 0 /\ page'.acked = 0
      /\ page'.accepted = page.accepted /\ (page'.writable = "closed" <=> page.writable = "closed")
  BY <1>1, FatalFacts
<1>3. /\ toPage' \in Seq(PageMessages) /\ DataOut' = DataOut /\ AcksOut' = AcksOut
      /\ (toPage' # toPage => toPage # <<>>)
      /\ EndPosted' => EndPosted
      /\ NothingAfterEnd => NothingAfterEnd'
      /\ FailurePosted' => FailurePosted
      /\ NoAcks => NoAcks'
      /\ EmptyAcks => EmptyAcks'
      /\ AcksInOrder => AcksInOrder'
      /\ NoFalseLimit => NoFalseLimit'
  <2>1. CASE toPage' = toPage
    BY <1>1, <2>1, PageQueueKept DEF QuietPage
  <2>2. CASE toPage # <<>> /\ toPage' = Tail(toPage) /\ Head(toPage).kind = "failed"
    BY <1>1, <2>2, Takes
  <2> QED BY <2>1, <2>2
<1>4. /\ toBroker' \in Seq(BrokerMessages) /\ CreditIn' = CreditIn /\ WritesIn' = WritesIn
      /\ (NoWrites' <=> NoWrites) /\ (OneWrite' <=> OneWrite) /\ (WriteEndSent' <=> WriteEndSent)
  BY <1>1, BrokerQueueKept
<1>5. "page" \notin ends /\ ~sink.stopped => sink.unacked + WritesIn + AcksOut + 0 <= 0
  <2>1. CASE ~page.writing
    BY <1>1, <2>1
  <2>2. CASE sink.writes = <<>> /\ NoWrites /\ NoAcks
    <3>1. toPage \in Seq(PageMessages) /\ toBroker \in Seq(BrokerMessages)
      BY <1>1 DEF Shape
    <3>2. WritesIn = 0
      BY <2>2, <3>1, CarriedNone, BrokerMessageFacts DEF WritesIn, NoWrites
    <3>3. AcksOut = 0
      BY <2>2, <3>1, CarriedNone, PageMessageFacts DEF AcksOut, NoAcks
    <3>4. sink.unacked = 0
      BY <1>1, <2>2, SumSmall
    <3> QED BY <3>2, <3>3, <3>4
  <2> QED BY <2>1, <2>2
<1>6. page'.accepted + page'.acked + AcksOut' <= page.accepted + page.acked + AcksOut
  BY <1>1, <1>2, <1>3
<1>7. "page" \notin ends /\ ~sink.stopped => sink.unacked + WritesIn' + AcksOut' + page'.acked <= page'.piece
  BY <1>2, <1>3, <1>4, <1>5
<1>8. ~socket.reset /\ ~sink.stopped =>
        /\ sink.writes # <<>> => NoWrites' /\ EmptyAcks'
        /\ OneWrite' /\ (NoWrites' \/ NoAcks')
        /\ ~page'.writing /\ "page" \notin ends => sink.writes = <<>> /\ NoWrites' /\ NoAcks'
  BY <1>1, <1>3, <1>4
<1>9. page'.piece <= WriteWindow /\ page'.piece <= page'.left
  BY <1>1, <1>2
<1>10. sink.ending \/ WriteEndSent' => page'.writable = "closed" /\ ~page'.writing
  BY <1>1, <1>2, <1>4
<1> QED
  BY <1>1, <1>2, <1>3, <1>4, <1>6, <1>7, <1>8, <1>9, <1>10, WritesOnKeeps

\* A failure of the write.
LEMMA PageFailedKeeps ==
    ASSUME IInv, PageFailed
    PROVE  IInv'
<1>1. /\ page.here /\ toPage # <<>> /\ Head(toPage).kind = "failed" /\ toPage' = Tail(toPage)
      /\ BrokerStill /\ toBroker' = toBroker /\ page' = Fatal(page)
  BY DEF PageFailed, PageTakes, BrokerStill
<1>2. FailurePosted
  BY <1>1, Takes DEF IInv
<1>3. sink.stopped \/ ~page.writing
  BY <1>1, <1>2, WritingFacts
<1> QED
  BY <1>1, <1>3, FatalKeeps

\* A write that nothing will answer.
LEMMA SilenceKeeps ==
    ASSUME IInv, Silence
    PROVE  IInv'
<1>1. /\ page.here /\ BrokerStill /\ toPage' = toPage /\ toBroker' = toBroker /\ page' = Fatal(page)
      /\ sink.stopped \/ sink.writes = <<>>
      /\ \A i \in 1 .. Len(toBroker) : toBroker[i].kind # "write"
      /\ \A i \in 1 .. Len(toPage) : toPage[i].kind \notin {"ack", "failed"}
  BY DEF Silence, BrokerStill
<1>2. DOMAIN toPage = 1 .. Len(toPage) /\ DOMAIN toBroker = 1 .. Len(toBroker)
  BY DEF IInv, Shape
<1>3. NoWrites /\ NoAcks
  BY <1>1, <1>2 DEF NoWrites, NoAcks
<1> QED
  BY <1>1, <1>3, FatalKeeps

\* Bytes of a write on their way.
LEMMA SendsWrite ==
    ASSUME Shape, NEW n \in Nat, toBroker' = PostedToBroker(Write(n))
    PROVE  /\ toBroker' \in Seq(BrokerMessages) /\ (ends # {} => toBroker' = toBroker)
           /\ CreditIn' = CreditIn /\ WritesIn' = WritesIn + (IF ends = {} THEN n ELSE 0)
           /\ NoWrites => OneWrite'
           /\ WriteEndSent' => WriteEndSent
<1>1. /\ Write(n) \in BrokerMessages /\ Write(n).kind = "write" /\ Write(n).n = n
      /\ Amount(Write(n), "write") = n /\ Amount(Write(n), "credit") = 0
  <2>1. Write(n) \in BrokerMessages /\ Write(n).kind = "write" /\ Write(n).n = n
    BY BrokerMessageFacts
  <2> QED BY <2>1 DEF Amount
<1>2. CreditIn \in Nat
  BY CarriedType
<1> QED
  BY <1>1, <1>2, Sends

\* The app writes.
LEMMA AppWritesKeeps ==
    ASSUME IInv, NEW n \in Nat, AppWritesBytes(n)
    PROVE  IInv'
<1> DEFINE piece == Least(n, WriteWindow)
           asked == page.asked + n
           writes == page.writes + 1
<1>1. /\ page.here /\ page.writable = "open" /\ ~page.writing /\ BrokerStill /\ toPage' = toPage
      /\ page' = [page EXCEPT !.writing = TRUE, !.left = n, !.piece = piece, !.acked = 0,
                              !.asked = asked, !.writes = writes]
      /\ toBroker' = PostedToBroker(Write(piece))
  BY DEF AppWritesBytes, BrokerStill
<1>2. /\ Shape /\ page \in Pages
      /\ page.accepted \in Nat /\ AcksOut \in Nat /\ WritesIn \in Nat
      /\ sink.unacked \in Nat /\ WriteWindow \in Nat
      /\ page.piece = 0 /\ page.acked = 0
      /\ "page" \notin ends /\ ~sink.stopped => sink.unacked + WritesIn + AcksOut + page.acked <= page.piece
      /\ ~sink.ending /\ ~WriteEndSent
      /\ AcksInOrder
      /\ ~socket.reset /\ ~sink.stopped =>
           /\ sink.writes # <<>> => Head(sink.writes) > 0 /\ NoWrites /\ EmptyAcks
           /\ OneWrite /\ (NoWrites \/ NoAcks)
           /\ "page" \notin ends => sink.writes = <<>> /\ NoWrites /\ NoAcks
      /\ "broker" \in ends => sink.stopped
  <2>1. ~(page.writable = "closed")
    BY <1>1
  <2> QED BY <1>1, <2>1, WritingFacts
<1>3. page.asked \in Nat /\ page.writes \in Nat
  BY <1>2 DEF Pages
<1>4. piece \in Nat /\ piece <= WriteWindow /\ piece <= n
  BY <1>2 DEF Least
<1>5. asked \in Nat /\ writes \in Nat
  BY <1>3
<1> HIDE DEF piece, asked, writes
<1>6. page' \in Pages
  <2> DEFINE zero == 0
             true == TRUE
  <2>1. zero \in Nat /\ true \in BOOLEAN
    OBVIOUS
  <2>2. page' = [page EXCEPT !.writing = true, !.left = n, !.piece = piece, !.acked = zero,
                             !.asked = asked, !.writes = writes]
    BY <1>1
  <2> HIDE DEF zero, true
  <2> QED BY <1>2, <1>4, <1>5, <2>1, <2>2 DEF Pages
<1>7. /\ page'.writing /\ page'.left = n /\ page'.piece = piece /\ page'.acked = 0
      /\ page'.accepted = page.accepted
  BY <1>1, <1>2 DEF Pages
<1>8. ReadsNoFurther(page, page')
  <2>1. /\ (page'.here <=> page.here) /\ page'.uncredited = page.uncredited
        /\ page'.sinceLastCredit = page.sinceLastCredit /\ page'.got = page.got
        /\ page'.queue = page.queue /\ page'.queued = page.queued /\ page'.readable = page.readable
    BY <1>1, <1>2 DEF Pages
  <2> QED BY <1>6, <2>1 DEF ReadsNoFurther, Holds
<1>9. QuietPage /\ (FailurePosted' <=> FailurePosted) /\ (NoAcks' <=> NoAcks)
  BY <1>1, <1>2, PageQueueKept
<1>10. /\ toBroker' \in Seq(BrokerMessages) /\ (ends # {} => toBroker' = toBroker)
       /\ CreditIn' = CreditIn /\ WritesIn' = WritesIn + (IF ends = {} THEN piece ELSE 0)
       /\ NoWrites => OneWrite'
       /\ WriteEndSent' => WriteEndSent
  BY <1>1, <1>2, <1>4, SendsWrite
<1>11. /\ toPage' \in Seq(PageMessages) /\ DataOut' = DataOut /\ AcksOut' = AcksOut /\ AcksInOrder'
       /\ EndPosted' => EndPosted
       /\ NothingAfterEnd => NothingAfterEnd'
       /\ EmptyAcks => EmptyAcks'
       /\ NoFalseLimit => NoFalseLimit'
  BY <1>2, <1>9 DEF QuietPage
<1>12. "page" \notin ends /\ ~sink.stopped => sink.unacked + WritesIn' + AcksOut' + page'.acked <= page'.piece
  <2>1. ASSUME "page" \notin ends, ~sink.stopped
        PROVE  sink.unacked + WritesIn' + AcksOut' + page'.acked <= page'.piece
    <3>1. sink.unacked + WritesIn + AcksOut + 0 <= 0
      BY <1>2, <2>1
    <3>2. sink.unacked = 0 /\ WritesIn = 0 /\ AcksOut = 0
      BY <1>2, <3>1
    <3>3. ends = {}
      BY <1>2, <2>1 DEF Shape
    <3>4. WritesIn' = piece
      BY <1>4, <1>10, <3>2, <3>3
    <3> QED BY <1>4, <1>7, <1>11, <3>2, <3>4
  <2> QED BY <2>1
<1>13. page'.accepted + page'.acked + AcksOut' <= page.accepted + page.acked + AcksOut
  BY <1>2, <1>7, <1>11
<1>14. ~socket.reset /\ ~sink.stopped =>
         /\ sink.writes # <<>> => NoWrites' /\ EmptyAcks'
         /\ OneWrite' /\ (NoWrites' \/ NoAcks')
         /\ ~page'.writing /\ "page" \notin ends => sink.writes = <<>> /\ NoWrites' /\ NoAcks'
  <2>1. ASSUME ~socket.reset, ~sink.stopped, "page" \notin ends
        PROVE  sink.writes = <<>> /\ OneWrite' /\ NoAcks'
    BY <1>2, <1>9, <1>10, <2>1
  <2>2. ASSUME ~socket.reset, ~sink.stopped, "page" \in ends
        PROVE  /\ sink.writes # <<>> => NoWrites' /\ EmptyAcks'
               /\ OneWrite' /\ (NoWrites' \/ NoAcks')
    <3>1. toBroker' = toBroker
      BY <1>10, <2>2
    <3>2. (NoWrites' <=> NoWrites) /\ (OneWrite' <=> OneWrite)
      BY <1>2, <3>1, BrokerQueueKept
    <3> QED BY <1>2, <1>9, <1>11, <2>2, <3>2
  <2> QED BY <1>7, <2>1, <2>2
<1>15. page'.piece <= WriteWindow /\ page'.piece <= page'.left /\ AcksOut' \in Nat
  BY <1>2, <1>4, <1>7, <1>11
<1> QED
  BY <1>1, <1>2, <1>7, <1>8, <1>9, <1>10, <1>11, <1>12, <1>13, <1>14, <1>15, WritesOnKeeps

\* The app, or its stream, closes or aborts the writing side.
LEMMA WritableStepKeeps ==
    ASSUME IInv, BrokerStill, page.here, toPage' = toPage,
           ReadsNoFurther(page, page'),
           page'.writing <=> page.writing, page'.left = page.left, page'.piece = page.piece,
           page'.acked = page.acked, page'.accepted = page.accepted,
           \/ toBroker' = toBroker
           \/ \E m \in {WriteEnd, WriteAbort} : toBroker' = PostedToBroker(m),
           page'.writable = "closed" \/ (page.writable # "closed" /\ toBroker' # PostedToBroker(WriteEnd)),
           page'.writable = "closed" => ~page.writing
    PROVE  IInv'
<1>1. /\ Shape /\ page \in Pages
      /\ page.acked \in Nat /\ page.accepted \in Nat /\ AcksOut \in Nat /\ WritesIn \in Nat /\ CreditIn \in Nat
      /\ page.piece <= WriteWindow /\ page.piece <= page.left
      /\ ~page.writing => page.left = 0 /\ page.piece = 0 /\ page.acked = 0
      /\ "page" \notin ends /\ ~sink.stopped => sink.unacked + WritesIn + AcksOut + page.acked <= page.piece
      /\ sink.ending \/ WriteEndSent => page.writable = "closed" /\ ~page.writing
      /\ AcksInOrder
      /\ ~socket.reset /\ ~sink.stopped =>
           /\ sink.writes # <<>> => NoWrites /\ EmptyAcks
           /\ OneWrite /\ (NoWrites \/ NoAcks)
           /\ ~page.writing /\ "page" \notin ends => sink.writes = <<>> /\ NoWrites /\ NoAcks
  BY WritingFacts, CarriedType
<1>2. QuietPage /\ (FailurePosted' <=> FailurePosted) /\ (NoAcks' <=> NoAcks)
  BY <1>1, PageQueueKept
<1>3. /\ toPage' \in Seq(PageMessages) /\ DataOut' = DataOut /\ AcksOut' = AcksOut /\ AcksInOrder'
      /\ EndPosted' => EndPosted
      /\ NothingAfterEnd => NothingAfterEnd'
      /\ EmptyAcks => EmptyAcks'
      /\ NoFalseLimit => NoFalseLimit'
  BY <1>1, <1>2 DEF QuietPage
<1>4. /\ toBroker' \in Seq(BrokerMessages) /\ (ends # {} => toBroker' = toBroker)
      /\ CreditIn' = CreditIn /\ WritesIn' = WritesIn
      /\ NoWrites => NoWrites'
      /\ OneWrite => OneWrite'
      /\ WriteEndSent' => WriteEndSent \/ page'.writable = "closed"
  <2>1. CASE toBroker' = toBroker
    BY <1>1, <2>1, BrokerQueueKept
  <2>2. ASSUME NEW m \in {WriteEnd, WriteAbort}, toBroker' = PostedToBroker(m)
        PROVE  /\ toBroker' \in Seq(BrokerMessages) /\ (ends # {} => toBroker' = toBroker)
               /\ CreditIn' = CreditIn /\ WritesIn' = WritesIn
               /\ NoWrites => NoWrites'
               /\ OneWrite => OneWrite'
               /\ WriteEndSent' => WriteEndSent \/ page'.writable = "closed"
    <3>1. /\ m \in BrokerMessages /\ m.kind \in {"writeEnd", "writeAbort"}
          /\ m.kind = "writeEnd" => m = WriteEnd
      BY BrokerMessageFacts
    <3>2. Amount(m, "credit") = 0 /\ Amount(m, "write") = 0 /\ m.kind # "write"
      BY <3>1 DEF Amount
    <3>3. /\ toBroker' \in Seq(BrokerMessages) /\ (ends # {} => toBroker' = toBroker)
          /\ CreditIn' = CreditIn + (IF ends = {} THEN 0 ELSE 0)
          /\ WritesIn' = WritesIn + (IF ends = {} THEN 0 ELSE 0)
          /\ NoWrites => NoWrites'
          /\ OneWrite => OneWrite'
          /\ WriteEndSent' => WriteEndSent \/ m.kind = "writeEnd"
      BY <1>1, <2>2, <3>1, <3>2, Sends
    <3>4. m.kind = "writeEnd" => page'.writable = "closed"
      BY <2>2, <3>1
    <3> QED BY <1>1, <3>3, <3>4
  <2> QED BY <2>1, <2>2
<1>5. sink.ending \/ WriteEndSent' => page'.writable = "closed" /\ ~page'.writing
  BY <1>1, <1>4
<1>6. page'.accepted + page'.acked + AcksOut' <= page.accepted + page.acked + AcksOut
  BY <1>1, <1>3
<1>7. "page" \notin ends /\ ~sink.stopped => sink.unacked + WritesIn' + AcksOut' + page'.acked <= page'.piece
  BY <1>1, <1>3, <1>4
<1>8. ~socket.reset /\ ~sink.stopped =>
        /\ sink.writes # <<>> => NoWrites' /\ EmptyAcks'
        /\ OneWrite' /\ (NoWrites' \/ NoAcks')
        /\ ~page'.writing /\ "page" \notin ends => sink.writes = <<>> /\ NoWrites' /\ NoAcks'
  BY <1>1, <1>2, <1>3, <1>4
<1>9. page'.piece <= WriteWindow /\ page'.piece <= page'.left /\ AcksOut' \in Nat
      /\ (~page'.writing => page'.left = 0 /\ page'.piece = 0 /\ page'.acked = 0)
  BY <1>1, <1>3
<1> QED
  BY <1>2, <1>3, <1>4, <1>5, <1>6, <1>7, <1>8, <1>9, WritesOnKeeps

LEMMA AppEndsKeeps ==
    ASSUME IInv, AppEnds \/ AppAborts
    PROVE  IInv'
<1>1. page \in Pages
  BY DEF IInv, Shape
<1>2. /\ page.here /\ page.writable # "closed" /\ BrokerStill /\ toPage' = toPage /\ toBroker' = toBroker
      /\ \E writable \in {"closing", "erroring"}, aborted \in BOOLEAN :
           page' = [page EXCEPT !.writable = writable, !.aborted = aborted]
  <2>1. CASE AppEnds
    <3>1. page' = [page EXCEPT !.writable = "closing"]
      BY <2>1 DEF AppEnds
    <3>2. page' = [page EXCEPT !.writable = "closing", !.aborted = page.aborted] /\ page.aborted \in BOOLEAN
      BY <1>1, <3>1 DEF Pages
    <3> QED BY <2>1, <3>2 DEF AppEnds, BrokerStill
  <2>2. CASE AppAborts
    BY <2>2 DEF AppAborts, BrokerStill
  <2> QED BY <2>1, <2>2
<1>3. PICK writable \in {"closing", "erroring"}, aborted \in BOOLEAN :
        page' = [page EXCEPT !.writable = writable, !.aborted = aborted]
  BY <1>2
<1>4. writable \in {"open", "closing", "closed", "erroring", "errored"} /\ writable # "closed"
  OBVIOUS
<1>5. page' \in Pages /\ page'.writable = writable
  BY <1>1, <1>3, <1>4 DEF Pages
<1>6. /\ (page'.here <=> page.here) /\ page'.uncredited = page.uncredited
      /\ page'.sinceLastCredit = page.sinceLastCredit /\ page'.got = page.got
      /\ page'.queue = page.queue /\ page'.queued = page.queued /\ page'.readable = page.readable
      /\ (page'.writing <=> page.writing) /\ page'.left = page.left /\ page'.piece = page.piece
      /\ page'.acked = page.acked /\ page'.accepted = page.accepted
  BY <1>1, <1>3 DEF Pages
<1>7. ReadsNoFurther(page, page')
  BY <1>5, <1>6 DEF ReadsNoFurther, Holds
<1>8. SameWriting(page, page')
  BY <1>2, <1>4, <1>5, <1>6 DEF SameWriting
<1> QED
  BY <1>2, <1>7, <1>8, SameWritingKeeps

\* The stream closes its sink once the last write is settled.
LEMMA EndWriteKeeps ==
    ASSUME IInv, EndWrite
    PROVE  IInv'
<1> DEFINE p == [page EXCEPT !.writable = "closed", !.writeTerminal = TRUE]
<1>1. /\ page.here /\ ~page.writing /\ BrokerStill /\ toPage' = toPage
      /\ page' = Resolved(p) /\ toBroker' = PostedToBroker(WriteEnd)
  BY DEF EndWrite, BrokerStill
<1>2. page \in Pages
  BY DEF IInv, Shape
<1>3. SameReads(page, p) /\ p.writable = "closed"
  BY <1>2 DEF Pages, SameReads
<1>4. /\ (p.writing <=> page.writing) /\ p.left = page.left /\ p.piece = page.piece
      /\ p.acked = page.acked /\ p.accepted = page.accepted
  BY <1>2 DEF Pages
<1> HIDE DEF p
<1>5. p \in Pages
  BY <1>3 DEF SameReads
<1>6. SameReads(p, page') /\ SameWriting(p, page')
  BY <1>1, <1>5, ResolvedFacts
<1>7. ReadsNoFurther(page, page')
  BY <1>3, <1>6, SameAgain
<1>8. /\ page'.writable = "closed"
      /\ (page'.writing <=> page.writing) /\ page'.left = page.left /\ page'.piece = page.piece
      /\ page'.acked = page.acked /\ page'.accepted = page.accepted
  BY <1>3, <1>4, <1>6 DEF SameWriting
<1> QED
  BY <1>1, <1>7, <1>8, WritableStepKeeps

LEMMA AbortWriteKeeps ==
    ASSUME IInv, AbortWrite
    PROVE  IInv'
<1> DEFINE p == [page EXCEPT !.writable = "errored"]
<1>1. /\ page.here /\ page.writable = "erroring" /\ BrokerStill /\ toPage' = toPage
      /\ page' = Rejected(p) /\ toBroker' = PostedToBroker(WriteAbort)
  BY DEF AbortWrite, BrokerStill
<1>2. page \in Pages
  BY DEF IInv, Shape
<1>3. SameReads(page, p) /\ p.writable = "errored"
  BY <1>2 DEF Pages, SameReads
<1>4. /\ (p.writing <=> page.writing) /\ p.left = page.left /\ p.piece = page.piece
      /\ p.acked = page.acked /\ p.accepted = page.accepted
  BY <1>2 DEF Pages
<1> HIDE DEF p
<1>5. p \in Pages
  BY <1>3 DEF SameReads
<1>6. SameReads(p, page') /\ SameWriting(p, page')
  BY <1>1, <1>5, RejectedFacts
<1>7. ReadsNoFurther(page, page')
  BY <1>3, <1>6, SameAgain
<1>8. /\ page'.writable # "closed"
      /\ (page'.writing <=> page.writing) /\ page'.left = page.left /\ page'.piece = page.piece
      /\ page'.acked = page.acked /\ page'.accepted = page.accepted
  BY <1>3, <1>4, <1>6 DEF SameWriting
<1>9. toBroker' = PostedToBroker(WriteEnd) => toBroker' = toBroker
  <2>1. WriteEnd # WriteAbort
    BY BrokerMessageFacts
  <2>2. toBroker \in Seq(BrokerMessages)
    BY DEF IInv, Shape
  <2>3. CASE ends = {}
    <3>1. /\ toBroker' = Append(toBroker, WriteAbort)
          /\ toBroker' = PostedToBroker(WriteEnd) => toBroker' = Append(toBroker, WriteEnd)
      BY <1>1, <2>3 DEF PostedToBroker
    <3>2. Append(toBroker, WriteAbort) # Append(toBroker, WriteEnd)
      <4>1. /\ Append(toBroker, WriteAbort)[Len(toBroker) + 1] = WriteAbort
            /\ Append(toBroker, WriteEnd)[Len(toBroker) + 1] = WriteEnd
        BY <2>2, AppendProperties, BrokerMessageFacts
      <4> QED BY <2>1, <4>1
    <3> QED BY <3>1, <3>2
  <2>4. CASE ends # {}
    BY <1>1, <2>4 DEF PostedToBroker
  <2> QED BY <2>3, <2>4
<1>10. CASE toBroker' = toBroker
  <2>1. SameWriting(page, page')
    BY <1>1, <1>3, <1>4, <1>6 DEF SameReads, SameWriting
  <2> QED BY <1>1, <1>7, <1>10, <2>1, SameWritingKeeps
<1>11. CASE toBroker' # toBroker
  BY <1>1, <1>7, <1>8, <1>9, <1>11, WritableStepKeeps
<1> QED
  BY <1>10, <1>11

\* An acknowledgement that completes a piece leaves nothing of it behind.
LEMMA PageAckKeeps ==
    ASSUME IInv, PageAck
    PROVE  IInv'
<1> DEFINE m == Head(toPage)
           acked == page.acked + m.n
           left == page.left - page.piece
           piece == Least(left, WriteWindow)
           accepted == page.accepted + page.piece
<1>1. /\ page.here /\ toPage # <<>> /\ m.kind = "ack" /\ toPage' = Tail(toPage) /\ BrokerStill
      /\ IF ~page.writing THEN page' = page /\ toBroker' = toBroker
         ELSE IF acked < page.piece THEN page' = [page EXCEPT !.acked = acked] /\ toBroker' = toBroker
         ELSE IF left = 0
         THEN page' = [Unwritten(page) EXCEPT !.accepted = accepted] /\ toBroker' = toBroker
         ELSE /\ page' = [page EXCEPT !.left = left, !.piece = piece, !.acked = 0, !.accepted = accepted]
              /\ toBroker' = PostedToBroker(Write(piece))
  BY DEF PageAck, PageTakes, BrokerStill
<1>2. /\ Shape /\ page \in Pages
      /\ page.left \in Nat /\ page.piece \in Nat /\ page.acked \in Nat /\ page.accepted \in Nat
      /\ AcksOut \in Nat /\ WritesIn \in Nat /\ sink.unacked \in Nat /\ WriteWindow \in Nat
      /\ sink.writes \in Seq(Nat) /\ sink.unacked = Sum(sink.writes)
      /\ page.piece <= WriteWindow /\ page.piece <= page.left
      /\ ~page.writing => page.left = 0 /\ page.piece = 0 /\ page.acked = 0
      /\ ~sink.stopped => sink.unacked + WritesIn + AcksOut + page.acked <= page.piece
      /\ sink.ending \/ WriteEndSent => page.writable = "closed" /\ ~page.writing
      /\ AcksInOrder
      /\ ~socket.reset /\ ~sink.stopped =>
           /\ sink.writes # <<>> => Head(sink.writes) > 0 /\ NoWrites /\ EmptyAcks
           /\ OneWrite /\ (NoWrites \/ NoAcks)
           /\ ~page.writing => sink.writes = <<>> /\ NoWrites /\ NoAcks
      /\ "page" \notin ends /\ ("broker" \in ends => sink.stopped)
  BY <1>1, WritingFacts
<1>3. /\ m.n \in Nat /\ DataOut' = DataOut /\ AcksOut = m.n + AcksOut' /\ ~NoAcks
      /\ toPage' \in Seq(PageMessages) /\ AcksOut' \in Nat
      /\ AcksInOrder => NoAcks' \/ AcksOut' > 0
      /\ EndPosted' => EndPosted
      /\ NothingAfterEnd => NothingAfterEnd'
      /\ FailurePosted' => FailurePosted
      /\ NoAcks => NoAcks'
      /\ EmptyAcks => EmptyAcks'
      /\ AcksInOrder => AcksInOrder'
      /\ NoFalseLimit => NoFalseLimit'
  BY <1>1, <1>2, Takes
<1>4. acked \in Nat /\ left \in Nat /\ accepted \in Nat /\ acked = page.acked + m.n
      /\ accepted = page.accepted + page.piece /\ left = page.left - page.piece
  <2>1. \A a, b \in Nat : a + b \in Nat /\ (a <= b => b - a \in Nat)
    OBVIOUS
  <2>2. acked \in Nat /\ accepted \in Nat
    BY <1>2, <1>3, <2>1
  <2>3. left \in Nat
    BY <1>2, <2>1
  <2> QED BY <2>2, <2>3
<1>5. piece \in Nat /\ piece <= left /\ piece <= WriteWindow
  BY <1>2, <1>4 DEF Least
<1>6. CASE ~page.writing \/ acked < page.piece
  <2>1. toBroker' = toBroker
    BY <1>1, <1>6
  <2>2. /\ toBroker' \in Seq(BrokerMessages) /\ CreditIn' = CreditIn /\ WritesIn' = WritesIn
        /\ (NoWrites' <=> NoWrites) /\ (OneWrite' <=> OneWrite) /\ (WriteEndSent' <=> WriteEndSent)
    BY <1>2, <2>1, BrokerQueueKept
  <2>3. \E a \in Nat : /\ page' = [page EXCEPT !.acked = a] /\ a <= page.acked + m.n
                       /\ ~page.writing => a = 0
    <3>1. CASE ~page.writing
      <4>1. page' = [page EXCEPT !.acked = page.acked]
        BY <1>1, <1>2, <3>1 DEF Pages
      <4>2. page.acked <= page.acked + m.n
        BY <1>2, <1>3
      <4> QED BY <1>2, <3>1, <4>1, <4>2
    <3>2. CASE page.writing
      <4>1. page' = [page EXCEPT !.acked = acked] /\ acked <= page.acked + m.n
        BY <1>1, <1>4, <1>6, <3>2
      <4> HIDE DEF acked
      <4> QED BY <1>4, <3>2, <4>1
    <3> QED BY <3>1, <3>2
  <2>4. PICK a \in Nat : /\ page' = [page EXCEPT !.acked = a] /\ a <= page.acked + m.n
                         /\ ~page.writing => a = 0
    BY <2>3
  <2> HIDE DEF m, acked, left, piece, accepted
  <2>5. page' \in Pages /\ page'.acked = a
    BY <1>2, <2>4 DEF Pages
  <2>6. /\ (page'.writing <=> page.writing) /\ page'.left = page.left /\ page'.piece = page.piece
        /\ page'.accepted = page.accepted /\ page'.writable = page.writable
        /\ (page'.here <=> page.here) /\ page'.uncredited = page.uncredited
        /\ page'.sinceLastCredit = page.sinceLastCredit /\ page'.got = page.got
        /\ page'.queue = page.queue /\ page'.queued = page.queued /\ page'.readable = page.readable
    BY <1>2, <2>4 DEF Pages
  <2>7. ReadsNoFurther(page, page')
    BY <2>5, <2>6 DEF ReadsNoFurther, Holds
  <2>8. /\ page'.accepted + page'.acked + AcksOut' <= page.accepted + page.acked + AcksOut
        /\ ~sink.stopped => sink.unacked + WritesIn' + AcksOut' + page'.acked <= page'.piece
    <3> DEFINE n == m.n
               rest == AcksOut'
    <3>1. n \in Nat /\ rest \in Nat /\ AcksOut = n + rest /\ a <= page.acked + n /\ a \in Nat
      BY <1>3, <2>4
    <3> HIDE DEF n, rest
    <3>2. page.accepted + a + rest <= page.accepted + page.acked + AcksOut
      <4>1. \A x, y, z, u, v \in Nat : u <= y + z => x + u + v <= x + y + (z + v)
        OBVIOUS
      <4>2. page.accepted \in Nat /\ page.acked \in Nat
        BY <1>2
      <4> QED BY <3>1, <4>1, <4>2
    <3>3. ~sink.stopped => sink.unacked + WritesIn + rest + a <= page.piece
      <4>1. \A x, w, y, z, u, v, q \in Nat : u <= y + z /\ x + w + (z + v) + y <= q => x + w + v + u <= q
        OBVIOUS
      <4>2. /\ sink.unacked \in Nat /\ WritesIn \in Nat /\ page.acked \in Nat /\ page.piece \in Nat
            /\ ~sink.stopped => sink.unacked + WritesIn + AcksOut + page.acked <= page.piece
        BY <1>2
      <4> QED BY <3>1, <4>1, <4>2
    <3> QED BY <2>2, <2>5, <2>6, <3>2, <3>3 DEF rest
  <2>9. ~socket.reset /\ ~sink.stopped =>
          /\ sink.writes # <<>> => NoWrites' /\ EmptyAcks'
          /\ OneWrite' /\ (NoWrites' \/ NoAcks')
          /\ ~page'.writing /\ "page" \notin ends => sink.writes = <<>> /\ NoWrites' /\ NoAcks'
    BY <1>2, <1>3, <2>2, <2>6
  <2>10. sink.ending \/ WriteEndSent' => page'.writable = "closed" /\ ~page'.writing
    BY <1>2, <2>2, <2>6
  <2>11. /\ page'.piece <= WriteWindow /\ page'.piece <= page'.left
         /\ ~page'.writing => page'.left = 0 /\ page'.piece = 0 /\ page'.acked = 0
    BY <1>2, <2>4, <2>5, <2>6
  <2> QED BY <1>1, <1>2, <1>3, <2>1, <2>2, <2>7, <2>8, <2>9, <2>10, <2>11, WritesOnKeeps
<1>7. CASE page.writing /\ ~(acked < page.piece)
  <2>1. page.piece <= page.acked + m.n
    BY <1>2, <1>4, <1>7
  <2>2. ~sink.stopped => sink.unacked = 0 /\ WritesIn = 0 /\ AcksOut' = 0
    <3> DEFINE n == m.n
               rest == AcksOut'
    <3>1. n \in Nat /\ rest \in Nat /\ AcksOut = n + rest /\ page.piece <= page.acked + n
      BY <1>3, <2>1
    <3> HIDE DEF n, rest
    <3>2. ~sink.stopped => sink.unacked = 0 /\ WritesIn = 0 /\ rest = 0
      BY <1>2, <3>1
    <3> QED BY <3>2 DEF rest
  <2>3. ~socket.reset /\ ~sink.stopped => sink.writes = <<>> /\ NoWrites /\ NoAcks'
    <3>1. ASSUME ~socket.reset, ~sink.stopped PROVE sink.writes = <<>>
      <4>1. sink.writes # <<>> => Sum(sink.writes) = Head(sink.writes) + Sum(Tail(sink.writes))
                                  /\ Head(sink.writes) \in Nat /\ Sum(Tail(sink.writes)) \in Nat
        BY <1>2, SumTail
      <4>2. sink.writes # <<>> => Head(sink.writes) > 0
        BY <1>2, <3>1
      <4>3. Sum(sink.writes) = 0
        BY <1>2, <2>2, <3>1
      <4>4. \A a, b \in Nat : 0 = a + b => ~(a > 0)
        OBVIOUS
      <4> QED BY <4>1, <4>2, <4>3, <4>4
    <3>2. ~sink.stopped => NoAcks'
      BY <1>2, <1>3, <2>2
    <3> QED BY <1>2, <1>3, <3>1, <3>2
  <2>4. ~sink.ending /\ ~WriteEndSent
    BY <1>2, <1>7
  <2>5. accepted + 0 + AcksOut' <= page.accepted + page.acked + AcksOut
    <3> DEFINE n == m.n
               rest == AcksOut'
    <3>1. n \in Nat /\ rest \in Nat /\ AcksOut = n + rest /\ page.piece <= page.acked + n
      BY <1>3, <2>1
    <3>2. page.accepted \in Nat /\ page.piece \in Nat /\ page.acked \in Nat
      BY <1>2
    <3> HIDE DEF n, rest
    <3>3. \A a, b, c, d, e \in Nat : b <= c + d => (a + b) + 0 + e <= a + c + (d + e)
      OBVIOUS
    <3>4. (page.accepted + page.piece) + 0 + rest <= page.accepted + page.acked + (n + rest)
      BY <3>1, <3>2, <3>3
    <3> QED BY <3>1, <3>4 DEF rest
  <2>6. CASE left = 0
    <3> DEFINE u == Unwritten(page)
    <3>1. page' = [u EXCEPT !.accepted = accepted] /\ toBroker' = toBroker
      BY <1>1, <1>7, <2>6
    <3>2. /\ SameReads(page, u) /\ ~u.writing /\ u.left = 0 /\ u.piece = 0 /\ u.acked = 0
          /\ u.writable = page.writable
      BY <1>2, UnwrittenFacts
    <3> HIDE DEF u, m, acked, left, piece, accepted
    <3>3. u \in Pages
      BY <3>2 DEF SameReads
    <3>4. page' \in Pages /\ page'.accepted = accepted
      BY <1>4, <3>1, <3>3 DEF Pages
    <3>5. /\ ~page'.writing /\ page'.left = 0 /\ page'.piece = 0 /\ page'.acked = 0
          /\ SameReads(u, page')
      <4>1. /\ page'.writing = u.writing /\ page'.left = u.left /\ page'.piece = u.piece /\ page'.acked = u.acked
            /\ (page'.here <=> u.here) /\ page'.uncredited = u.uncredited
            /\ page'.sinceLastCredit = u.sinceLastCredit /\ page'.got = u.got
            /\ page'.queue = u.queue /\ page'.queued = u.queued /\ page'.readable = u.readable
        BY <3>1, <3>3 DEF Pages
      <4> QED BY <3>2, <3>4, <4>1 DEF SameReads
    <3>6. ReadsNoFurther(page, page')
      BY <3>2, <3>5, SameAgain
    <3>7. /\ toBroker' \in Seq(BrokerMessages) /\ CreditIn' = CreditIn /\ WritesIn' = WritesIn
          /\ (NoWrites' <=> NoWrites) /\ (OneWrite' <=> OneWrite) /\ (WriteEndSent' <=> WriteEndSent)
      BY <1>2, <3>1, BrokerQueueKept
    <3>8. ~sink.stopped => sink.unacked + WritesIn' + AcksOut' + page'.acked <= page'.piece
      BY <2>2, <3>5, <3>7
    <3>9. ~socket.reset /\ ~sink.stopped =>
            /\ sink.writes # <<>> => NoWrites' /\ EmptyAcks'
            /\ OneWrite' /\ (NoWrites' \/ NoAcks')
            /\ ~page'.writing /\ "page" \notin ends => sink.writes = <<>> /\ NoWrites' /\ NoAcks'
      BY <1>2, <2>3, <3>7
    <3>10. page'.piece <= WriteWindow /\ page'.piece <= page'.left
      BY <1>2, <3>5
    <3>11. page'.accepted + page'.acked + AcksOut' <= page.accepted + page.acked + AcksOut
      BY <2>5, <3>4, <3>5
    <3> QED BY <1>1, <1>2, <1>3, <2>4, <3>1, <3>5, <3>6, <3>7, <3>8, <3>9, <3>10, <3>11, WritesOnKeeps
  <2>7. CASE left # 0
    <3>1. /\ page' = [page EXCEPT !.left = left, !.piece = piece, !.acked = 0, !.accepted = accepted]
          /\ toBroker' = PostedToBroker(Write(piece))
      BY <1>1, <1>7, <2>7
    <3> HIDE DEF m, acked, left, piece, accepted
    <3>2. page' \in Pages
      <4> DEFINE zero == 0
      <4>1. zero \in Nat /\ page' = [page EXCEPT !.left = left, !.piece = piece, !.acked = zero, !.accepted = accepted]
        BY <3>1
      <4> HIDE DEF zero
      <4> QED BY <1>2, <1>4, <1>5, <4>1 DEF Pages
    <3>3. /\ page'.left = left /\ page'.piece = piece /\ page'.acked = 0 /\ page'.accepted = accepted
      BY <1>2, <3>1 DEF Pages
    <3>4. /\ (page'.writing <=> page.writing)
          /\ (page'.here <=> page.here) /\ page'.uncredited = page.uncredited
          /\ page'.sinceLastCredit = page.sinceLastCredit /\ page'.got = page.got
          /\ page'.queue = page.queue /\ page'.queued = page.queued /\ page'.readable = page.readable
      BY <1>2, <3>1 DEF Pages
    <3>5. ReadsNoFurther(page, page')
      BY <3>2, <3>4 DEF ReadsNoFurther, Holds
    <3>6. /\ toBroker' \in Seq(BrokerMessages) /\ (ends # {} => toBroker' = toBroker)
          /\ CreditIn' = CreditIn /\ WritesIn' = WritesIn + (IF ends = {} THEN piece ELSE 0)
          /\ NoWrites => OneWrite'
          /\ WriteEndSent' => WriteEndSent
      BY <1>2, <1>5, <3>1, SendsWrite
    <3>7. ~sink.stopped => sink.unacked + WritesIn' + AcksOut' + page'.acked <= page'.piece
      <4>1. ASSUME ~sink.stopped PROVE sink.unacked + WritesIn' + AcksOut' + page'.acked <= page'.piece
        <5>1. ends = {}
          BY <1>2, <4>1 DEF Shape
        <5>2. WritesIn' = 0 + piece /\ sink.unacked = 0 /\ AcksOut' = 0
          BY <2>2, <3>6, <4>1, <5>1
        <5>3. 0 + (0 + piece) + 0 + 0 <= piece
          BY <1>5
        <5> QED BY <3>3, <5>2, <5>3
      <4> QED BY <4>1
    <3>8. ~socket.reset /\ ~sink.stopped =>
            /\ sink.writes # <<>> => NoWrites' /\ EmptyAcks'
            /\ OneWrite' /\ (NoWrites' \/ NoAcks')
            /\ ~page'.writing /\ "page" \notin ends => sink.writes = <<>> /\ NoWrites' /\ NoAcks'
      BY <1>7, <2>3, <3>4, <3>6
    <3>9. page'.piece <= WriteWindow /\ page'.piece <= page'.left
      BY <1>5, <3>3
    <3>10. page'.accepted + page'.acked + AcksOut' <= page.accepted + page.acked + AcksOut
      BY <2>5, <3>3
    <3>11. ~sink.ending /\ ~WriteEndSent' /\ page'.writing
      BY <1>7, <2>4, <3>4, <3>6
    <3> QED BY <1>1, <1>2, <1>3, <3>5, <3>6, <3>7, <3>8, <3>9, <3>10, <3>11, WritesOnKeeps
  <2> QED BY <2>6, <2>7
<1> QED
  BY <1>6, <1>7

\* The page's end of the port closes: what was on its way to the page is gone.
LEMMA PageLeavesKeeps ==
    ASSUME IInv, page' \in Pages, ends' = ends \cup {"page"}, toPage' = <<>>, toBroker' = toBroker,
           socket' = socket, pump' = pump, sink' = sink, relay' = relay, handle' = handle, QuietCalls,
           Holds(page'), page'.accepted <= page.accepted,
           ~page'.writing, page'.left = 0, page'.piece = 0, page'.acked = 0,
           ~page'.here \/ \E c \in Closes : calls'[c] = "done",
           ~page'.here => page'.readable = "open",
           page'.here => page.here /\ ~NoCalls' /\ (page.writable = "closed" => page'.writable = "closed"),
           \A c \in Closes : calls[c] = "waiting" => calls'[c] = "waiting"
    PROVE  IInv'
<1>1. /\ Shape /\ page.acked \in Nat /\ page.accepted \in Nat /\ AcksOut \in Nat /\ WriteWindow \in Nat
      /\ sink.writes \in Seq(Nat)
      /\ page.here /\ (sink.ending \/ WriteEndSent) => page.writable = "closed"
  BY WritingFacts
<1>2. /\ toPage' \in Seq(PageMessages) /\ AcksOut' = 0
      /\ ~EndPosted' /\ NothingAfterEnd' /\ ~FailurePosted'
      /\ NoAcks' /\ EmptyAcks' /\ AcksInOrder' /\ NoFalseLimit'
  BY PageQueueEmpty
<1>3. /\ toBroker' \in Seq(BrokerMessages)
      /\ (NoWrites' <=> NoWrites) /\ (OneWrite' <=> OneWrite) /\ (WriteEndSent' <=> WriteEndSent)
  BY <1>1, BrokerQueueKept
<1>4. Shape'
  BY <1>1, <1>2, <1>3 DEF Shape, QuietCalls
<1>5. WindowInv'
  BY DEF WindowInv, Holds
<1>6. PartsAgree'
  BY DEF IInv, PartsAgree, QuietCalls
<1>7. CleanInv'
  <2>1. AllRead' <=> AllRead
    BY DEF AllRead
  <2>2. NoCalls' => page'.readable = "open"
    OBVIOUS
  <2> QED BY <1>2, <2>1, <2>2 DEF IInv, CleanInv, QuietCalls
<1>8. WriteInv'
  <2>1. Held' = Held /\ Held \in Nat
    BY <1>1, SumTail DEF Held
  <2>2. page'.accepted + page'.acked + AcksOut' + Held' <= socket'.taken
    <3>1. page.accepted + page.acked + AcksOut + Held <= socket.taken /\ socket.taken \in Nat
      BY <1>1 DEF IInv, WriteInv, Shape, Sockets
    <3>2. page'.accepted \in Nat
      BY DEF Pages
    <3>3. \A a, b, c, d, e, f \in Nat : a + b + c + d <= e /\ f <= a => f + 0 + 0 + d <= e
      OBVIOUS
    <3>4. page'.accepted + 0 + 0 + Held <= socket.taken
      BY <1>1, <2>1, <3>1, <3>2, <3>3
    <3> QED BY <1>2, <2>1, <3>4
  <2>3. page'.piece <= WriteWindow /\ page'.piece <= page'.left
    BY <1>1
  <2>4. sink'.ending \/ WriteEndSent' => ~page'.here \/ (page'.writable = "closed" /\ ~page'.writing)
    BY <1>1, <1>3
  <2> QED BY <1>2, <2>2, <2>3, <2>4 DEF IInv, WriteInv
<1>9. OnePieceInv'
  BY <1>2, <1>3 DEF IInv, OnePieceInv
<1> QED
  BY <1>4, <1>5, <1>6, <1>7, <1>8, <1>9 DEF IInv

LEMMA DisposeKeeps ==
    ASSUME IInv, NEW c \in Closes, Dispose(c)
    PROVE  IInv'
<1> DEFINE u == Unwritten(page)
           p == [u EXCEPT !.readTerminal = TRUE, !.writeTerminal = TRUE]
           r == Resolved(p)
           q == ReadClosed(r)
<1>1. /\ page.here /\ calls[c] = "answered" /\ calls' = [calls EXCEPT ![c] = "done"]
      /\ page' = Writeless(q) /\ ends' = ends \cup {"page"} /\ toPage' = <<>> /\ toBroker' = toBroker
      /\ socket' = socket /\ pump' = pump /\ sink' = sink /\ relay' = relay /\ handle' = handle
  BY DEF Dispose
<1>2. page \in Pages /\ Holds(page) /\ calls \in [Closes -> {"none", "asked", "waiting", "answered", "done"}]
  BY ReadingFacts DEF Shape
<1>3. /\ SameReads(page, u) /\ ~u.writing /\ u.left = 0 /\ u.piece = 0 /\ u.acked = 0
      /\ u.accepted = page.accepted /\ u.writable = page.writable
  BY <1>2, UnwrittenFacts
<1> HIDE DEF u
<1>4. SameReads(u, p) /\ SameWriting(u, p) /\ p \in Pages
  BY <1>3 DEF SameReads, SameWriting, Pages
<1> HIDE DEF p
<1>5. SameReads(p, r) /\ SameWriting(p, r) /\ r \in Pages
  BY <1>4, ResolvedFacts DEF SameReads
<1> HIDE DEF r
<1>6. /\ SameWriting(r, q) /\ q \in Pages /\ (q.here <=> r.here)
      /\ q.queue = r.queue /\ q.queued = r.queued /\ q.uncredited = r.uncredited
  BY <1>5, ReadClosedFacts
<1> HIDE DEF q
<1>7. SameReads(q, page') /\ SameWriting(q, page') /\ page' \in Pages
  BY <1>1, <1>6, WritelessFacts DEF SameReads
<1>8. SameWriting(u, page')
  <2>1. SameWriting(u, r)
    BY <1>4, <1>5, SameAgain
  <2>2. SameWriting(u, q)
    BY <1>6, <2>1, SameAgain
  <2> QED BY <1>7, <2>2, SameAgain
<1>9. Holds(page') /\ page'.here
  BY <1>1, <1>2, <1>3, <1>4, <1>5, <1>6, <1>7 DEF SameReads, Holds
<1>10. /\ ~page'.writing /\ page'.left = 0 /\ page'.piece = 0 /\ page'.acked = 0
       /\ page'.accepted = page.accepted /\ (page.writable = "closed" => page'.writable = "closed")
  BY <1>3, <1>8 DEF SameWriting
<1>11. page'.accepted <= page.accepted
  BY <1>2, <1>10 DEF Pages
<1>12. /\ calls'[c] = "done"
       /\ \A d \in Closes : /\ calls'[d] = "none" => calls[d] = "none"
                            /\ calls[d] = "done" => calls'[d] = "done"
                            /\ calls[d] = "waiting" => calls'[d] = "waiting"
  BY <1>1, <1>2
<1>13. QuietCalls
  <2>1. calls' \in [Closes -> {"none", "asked", "waiting", "answered", "done"}]
    BY <1>1, <1>2
  <2> QED BY <1>12, <2>1 DEF QuietCalls, NoCalls
<1>14. ~NoCalls'
  BY <1>12 DEF NoCalls
<1> QED
  BY <1>1, <1>7, <1>9, <1>10, <1>11, <1>12, <1>13, <1>14, PageLeavesKeeps

LEMMA NavigatesKeeps ==
    ASSUME IInv, Navigates
    PROVE  IInv'
<1>1. /\ page' = [NewPage EXCEPT !.here = FALSE] /\ ends' = ends \cup {"page"} /\ toPage' = <<>>
      /\ toBroker' = toBroker /\ socket' = socket /\ pump' = pump /\ sink' = sink /\ relay' = relay
      /\ handle' = handle /\ calls' = calls
  BY DEF Navigates
<1>2. page' \in Pages
  <2> DEFINE none == <<>>
             zero == 0
  <2>1. none \in Seq(Nat) /\ zero \in Nat
    OBVIOUS
  <2>2. page' =
          [here |-> FALSE, queue |-> none, queued |-> zero, uncredited |-> zero, sinceLastCredit |-> zero,
           got |-> zero, readable |-> "open", readTerminal |-> FALSE,
           writing |-> FALSE, left |-> zero, piece |-> zero, acked |-> zero, accepted |-> zero,
           asked |-> zero, writes |-> zero,
           writable |-> "open", aborted |-> FALSE, writeTerminal |-> FALSE, closed |-> "pending"]
    BY <1>1 DEF NewPage
  <2> HIDE DEF none, zero
  <2> QED BY <2>1, <2>2 DEF Pages
<1>3. /\ ~page'.here /\ page'.readable = "open" /\ page'.queue = <<>> /\ page'.queued = 0 /\ page'.uncredited = 0
      /\ ~page'.writing /\ page'.left = 0 /\ page'.piece = 0 /\ page'.acked = 0 /\ page'.accepted = 0
  BY <1>1 DEF NewPage
<1>4. Holds(page')
  BY <1>3, SumSmall DEF Holds
<1>5. page'.accepted <= page.accepted
  <2>1. page.accepted \in Nat
    BY WritingFacts
  <2> QED BY <1>3, <2>1
<1>6. Shape
  BY DEF IInv
<1> QED
  BY <1>1, <1>2, <1>3, <1>4, <1>5, <1>6, CallsKept, PageLeavesKeeps
-----------------------------------------------------------------------------
(* The invariant *)

LEMMA InitHolds == Init => IInv
<1> SUFFICES ASSUME Init PROVE IInv
  OBVIOUS
<1>1. toPage = <<>> /\ toBroker = <<>> /\ ends = {} /\ calls = [c \in Closes |-> "none"] /\ page = NewPage
  BY DEF Init
<1>2. ReadWindow \in Nat /\ WriteWindow \in Nat /\ SocketBuffer \in Nat
  BY RelayAssumption
<1>3. /\ socket \in Sockets /\ socket.incoming = <<>> /\ socket.sent = 0 /\ socket.readable = "open"
      /\ socket.taken = 0 /\ socket.outgoing = 0 /\ ~socket.reset /\ socket.alive
  <2> DEFINE none == <<>>
             zero == 0
  <2>1. none \in Seq(Nat) /\ zero \in Nat
    OBVIOUS
  <2>2. socket = [sent |-> zero, theirs |-> "open", reset |-> FALSE, incoming |-> none, readable |-> "open",
                  taken |-> zero, outgoing |-> zero, received |-> zero, ours |-> "open", alive |-> TRUE]
    BY DEF Init
  <2>3. socket.incoming = <<>> /\ socket.sent = 0 /\ socket.taken = 0 /\ socket.outgoing = 0
    BY <2>2
  <2> HIDE DEF none, zero
  <2> QED BY <2>1, <2>2, <2>3 DEF Sockets
<1>4. pump \in Pumps /\ pump.credit = ReadWindow /\ ~pump.stopped /\ ~pump.endSent
  BY <1>2 DEF Init, Pumps
<1>5. /\ sink \in Sinks /\ sink.writes = <<>> /\ sink.unacked = 0 /\ ~sink.stopped /\ ~sink.ending /\ ~sink.ended
  <2> DEFINE none == <<>>
  <2>1. none \in Seq(Nat)
    OBVIOUS
  <2>2. sink = [writes |-> none, unacked |-> 0, stopped |-> FALSE, ending |-> FALSE, ended |-> FALSE]
    BY DEF Init
  <2>3. sink.writes = <<>>
    BY <2>2
  <2> HIDE DEF none
  <2> QED BY <2>1, <2>2, <2>3 DEF Sinks
<1>6. /\ relay \in Relays /\ relay.registered /\ ~relay.readEnded
      /\ handle \in Handles /\ handle.state = "live" /\ handle.reason = "none"
  BY DEF Init, Relays, Handles
<1>7. /\ page \in Pages /\ page.here /\ page.queue = <<>> /\ page.queued = 0 /\ page.uncredited = 0
      /\ page.sinceLastCredit = 0 /\ page.got = 0 /\ page.readable = "open" /\ ~page.writing
      /\ page.left = 0 /\ page.piece = 0 /\ page.acked = 0 /\ page.accepted = 0
  <2> DEFINE none == <<>>
             zero == 0
  <2>1. none \in Seq(Nat) /\ zero \in Nat
    OBVIOUS
  <2>2. page =
          [here |-> TRUE, queue |-> none, queued |-> zero, uncredited |-> zero, sinceLastCredit |-> zero,
           got |-> zero, readable |-> "open", readTerminal |-> FALSE,
           writing |-> FALSE, left |-> zero, piece |-> zero, acked |-> zero, accepted |-> zero,
           asked |-> zero, writes |-> zero,
           writable |-> "open", aborted |-> FALSE, writeTerminal |-> FALSE, closed |-> "pending"]
    BY <1>1 DEF NewPage
  <2>3. page.queue = <<>> /\ page.queued = 0 /\ page.uncredited = 0 /\ page.sinceLastCredit = 0 /\ page.got = 0
        /\ page.left = 0 /\ page.piece = 0 /\ page.acked = 0 /\ page.accepted = 0
    BY <2>2
  <2> HIDE DEF none, zero
  <2>4. page.here /\ page.readable = "open" /\ ~page.writing
    BY <2>2
  <2>5. page \in Pages
    BY <2>1, <2>2 DEF Pages
  <2> QED BY <2>3, <2>4, <2>5
<1>8. DataOut = 0 /\ AcksOut = 0 /\ CreditIn = 0 /\ WritesIn = 0 /\ Unread = 0
  BY <1>1, <1>3, CarriedSmall, SumSmall, PageMessageFacts, BrokerMessageFacts
  DEF DataOut, AcksOut, CreditIn, WritesIn, Unread
<1>9. DOMAIN toPage = {} /\ DOMAIN toBroker = {} /\ Len(toPage) = 0
  BY <1>1
<1>10. ~EndPosted /\ NothingAfterEnd /\ ~FailurePosted /\ NoAcks /\ EmptyAcks /\ AcksInOrder
       /\ NoFalseLimit /\ NoWrites /\ OneWrite /\ ~WriteEndSent
  BY <1>9 DEF EndPosted, NothingAfterEnd, FailurePosted, NoAcks, EmptyAcks, AcksInOrder,
              NoFalseLimit, NoWrites, OneWrite, WriteEndSent
<1>11. Shape
  <2>1. toPage \in Seq(PageMessages) /\ toBroker \in Seq(BrokerMessages)
    BY <1>1
  <2>2. calls \in [Closes -> {"none", "asked", "waiting", "answered", "done"}]
    BY <1>1
  <2> QED BY <1>1, <1>3, <1>4, <1>5, <1>6, <1>7, <2>1, <2>2 DEF Shape
<1>12. WindowInv
  BY <1>2, <1>4, <1>7, <1>8, SumSmall DEF WindowInv
<1>13. PartsAgree
  BY <1>1, <1>3, <1>6, <1>7 DEF PartsAgree
<1>14. CleanInv
  BY <1>3, <1>7, <1>8, <1>10 DEF CleanInv
<1>15. WriteInv
  <2>1. Held = 0
    BY <1>5 DEF Held
  <2> QED BY <1>2, <1>3, <1>5, <1>7, <1>8, <1>10, <2>1, SumSmall DEF WriteInv
<1>16. OnePieceInv
  <2>1. Len(sink.writes) <= 1
    BY <1>5
  <2> QED BY <1>2, <1>3, <1>5, <1>10, <2>1 DEF OnePieceInv
<1> QED
  BY <1>11, <1>12, <1>13, <1>14, <1>15, <1>16 DEF IInv

LEMMA StutterKeeps ==
    ASSUME IInv, UNCHANGED vars
    PROVE  IInv'
<1>1. Shape /\ socket \in Sockets /\ handle \in Handles
  BY DEF IInv, Shape
<1>2. Shut(socket, socket')
  BY <1>1, SocketItself DEF vars
<1>3. NoCalls /\ socket'.readable = "closed" /\ ~pump.stopped => socket.theirs = "fin"
  BY DEF IInv, CleanInv, vars
<1>4. handle'.state = "live" => handle'.reason = "none"
  BY DEF IInv, PartsAgree, vars
<1> QED
  BY <1>1, <1>2, <1>3, <1>4, CallsKept, ShutKeeps DEF vars

LEMMA StepHolds == IInv /\ [Next]_vars => IInv'
<1> SUFFICES ASSUME IInv, [Next]_vars PROVE IInv'
  OBVIOUS
<1>1. 1 .. MaxChunk \subseteq Nat /\ 0 .. AppBytes \subseteq Nat
  OBVIOUS
<1>2. CASE Peer
  <2>1. CASE \E n \in 1 .. MaxChunk : PeerSends(n)
    BY <1>1, <2>1, PeerSendsKeeps
  <2> QED BY <1>2, <2>1, PeerEndsKeeps, PeerResetsKeeps, FlushKeeps DEF Peer
<1>3. CASE Pump
  BY <1>3, PumpReadsKeeps, PumpEndsKeeps, PumpFailsKeeps DEF Pump
<1>4. CASE Sink
  BY <1>4, WriteSettlesKeeps, WriteRejectedKeeps DEF Sink
<1>5. CASE BrokerReceives
  BY <1>5, ReceiveCreditKeeps, ReceiveWriteKeeps, ReceiveEndKeeps, ReceiveAbortKeeps DEF BrokerReceives
<1>6. CASE Teardown
  BY <1>6, FlushKeeps, DrainDeadlineKeeps, TeardownSettlesKeeps, PortClosesKeeps DEF Teardown
<1>7. CASE PageReceives
  BY <1>7, PageDataKeeps, PageEndKeeps, PageAckKeeps, PageFailedKeeps DEF PageReceives
<1>8. CASE App
  <2>1. CASE \E n \in 0 .. AppBytes : AppWritesBytes(n)
    BY <1>1, <2>1, AppWritesKeeps
  <2>2. CASE \E c \in Closes : AppCloses(c)
    BY <2>2, AppClosesKeeps
  <2> QED BY <1>8, <2>1, <2>2, AppReadsKeeps, AppCancelsKeeps, AppEndsKeeps, NavigatesKeeps DEF App
<1>9. CASE Heartbeat \/ Revoke \/ SessionEnds \/ FlushCredit \/ Silence \/ EndWrite \/ AbortWrite
  BY <1>9, HeartbeatKeeps, RevokeKeeps, SessionEndsKeeps, FlushCreditKeeps, SilenceKeeps, EndWriteKeeps,
     AbortWriteKeeps
<1>10. CASE \E c \in Closes : NetClose(c) \/ Dispose(c)
  BY <1>10, NetCloseKeeps, DisposeKeeps
<1>11. CASE UNCHANGED vars
  BY <1>11, StutterKeeps
<1> QED
  BY <1>2, <1>3, <1>4, <1>5, <1>6, <1>7, <1>8, <1>9, <1>10, <1>11 DEF Next

\* IInv is inductive.
LEMMA InvariantHolds == Spec => []IInv
<1>1. Init => IInv
  BY InitHolds
<1>2. IInv /\ [Next]_vars => IInv'
  BY StepHolds
<1> QED
  BY <1>1, <1>2, PTL DEF Spec

\* Every byte of the read window is in one place.
THEOREM Conservation == Spec => []CreditConserved
<1>1. IInv => CreditConserved
  BY DEF IInv, WindowInv, CreditConserved, DataOut, CreditIn
<1> QED
  BY <1>1, InvariantHolds, PTL

\* A page within its window is not refused.
THEOREM NoRefusal == Spec => []NoFalseLimit
<1>1. IInv => NoFalseLimit
  BY DEF IInv, WriteInv
<1> QED
  BY <1>1, InvariantHolds, PTL

\* What the app is told was accepted is in the socket.
THEOREM Accepted == Spec => []AcceptedIsInSocket
<1>1. IInv => AcceptedIsInSocket
  <2> SUFFICES ASSUME IInv PROVE AcceptedIsInSocket
    OBVIOUS
  <2>1. /\ page.accepted \in Nat /\ page.acked \in Nat /\ AcksOut \in Nat
    BY WritingFacts
  <2>2. Held \in Nat
    <3>1. sink.writes \in Seq(Nat)
      BY WritingFacts
    <3> QED BY <3>1, SumTail DEF Held
  <2>3. page.accepted + page.acked + AcksOut + Held <= socket.taken /\ socket.taken \in Nat
    BY DEF IInv, WriteInv, Shape, Sockets
  <2>4. \A a, b, c, d, e \in Nat : a + b + c + d <= e => a + b + c <= e
    OBVIOUS
  <2>5. page.accepted + page.acked + AcksOut <= socket.taken
    BY <2>1, <2>2, <2>3, <2>4
  <2> QED BY <2>5 DEF AcceptedIsInSocket, AcksOut
<1> QED
  BY <1>1, InvariantHolds, PTL

\* A clean end the app did not ask for comes after every byte the peer sent.
THEOREM CleanEnd == Spec => []CleanEndMeansAll
<1>1. IInv => CleanEndMeansAll
  <2> SUFFICES ASSUME IInv, page.readable \in {"ending", "closed"}, NoCalls
               PROVE  socket.theirs = "fin" /\ page.got = socket.sent
    BY DEF CleanEndMeansAll, NoCalls
  <2>1. AllRead /\ DataOut = 0
    BY DEF IInv, CleanInv
  <2>2. "page" \notin ends
    BY DEF IInv, PartsAgree, NoCalls
  <2>3. Unread = 0
    BY <2>1, SumSmall DEF Unread, AllRead
  <2>4. page.got + DataOut + Unread = socket.sent /\ page.got \in Nat
    BY <2>1, <2>2, ReadingFacts DEF IInv, CleanInv, AllRead
  <2> QED BY <2>1, <2>3, <2>4 DEF AllRead
<1> QED
  BY <1>1, InvariantHolds, PTL
-----------------------------------------------------------------------------
(* A close loses nothing, for an app that closes once: a second close() is answered   *)
(* while the first still flushes, and takes the port with it.                         *)

\* A call of close() is never forgotten.
TwiceKept == ClosedTwice => ClosedTwice'

LostOf(s) == s.taken - s.received - s.outgoing

\* What may lose bytes only grows.
StillExcused ==
    /\ socket.reset => socket'.reset
    /\ handle.deadline => handle'.deadline
    /\ handle.reason \in {"revoked", "sessionEnded", "aborted", "failed"} =>
         handle'.reason \in {"revoked", "sessionEnded", "aborted", "failed"}

\* A page's step, and what it says of aborts.
Troubles(p, q) ==
    /\ ~p.here => ~q.here
    /\ p.aborted => q.aborted
    /\ q.writable = "erroring" => p.writable = "erroring" \/ q.aborted

\* A step of the broker, of the peer or of the user.
LEMMA BrokerLoses ==
    ASSUME LossInv, TwiceKept, page' = page, StillExcused, Sound(socket'),
           LostOf(socket') = LostOf(socket) \/ Excused',
           handle'.state = "leaving" \/ relay'.writeEnded => socket'.ours # "open",
           AbortSent' => AbortSent,
           AnswersWait'
    PROVE  LossInv'
<1>1. Excused => Excused'
  BY DEF Excused, StillExcused, TwiceKept
<1>2. Lost > 0 => Excused
  BY DEF LossInv, CloseLosesNothing, Excused
<1>3. Lost' > 0 => Excused'
  BY <1>1, <1>2 DEF Lost, LostOf
<1>4. CloseLosesNothing'
  BY <1>3 DEF CloseLosesNothing, Excused
<1> QED
  BY <1>4 DEF LossInv, Sound

\* A step of the page.
LEMMA PageLoses ==
    ASSUME LossInv, TwiceKept, socket' = socket, relay' = relay, handle' = handle,
           \A c \in Closes : calls'[c] \in {"answered", "done"} => calls[c] \in {"answered", "done"},
           ends \subseteq ends', Troubles(page, page'), AbortSent' => AbortSent \/ page'.aborted
    PROVE  LossInv'
<1>1. Excused => Excused'
  BY DEF Excused, Troubles, TwiceKept
<1>2. Lost > 0 => Excused
  BY DEF LossInv, CloseLosesNothing, Excused
<1>3. Lost' > 0 => Excused'
  BY <1>1, <1>2 DEF Lost
<1>4. CloseLosesNothing'
  BY <1>3 DEF CloseLosesNothing, Excused
<1>5. /\ page'.writable = "erroring" => page'.aborted
      /\ AbortSent' => page'.aborted \/ ~page'.here
  BY DEF LossInv, Troubles
<1>6. AnswersWait'
  BY DEF LossInv, AnswersWait, TwiceKept
<1> QED
  BY <1>4, <1>5, <1>6 DEF LossInv

\* What posts and what is taken off adds no abort.
LEMMA PostsAbort ==
    ASSUME Shape, NEW m, toBroker' = PostedToBroker(m)
    PROVE  AbortSent' => AbortSent \/ m.kind = "writeAbort"
<1>1. CASE ends = {}
  <2>1. toBroker \in Seq(BrokerMessages \cup {m})
    BY DEF Shape
  <2>2. toBroker' = Append(toBroker, m)
    BY <1>1 DEF PostedToBroker
  <2>3. \A i \in DOMAIN (toBroker') : toBroker'[i] = m \/ (i \in DOMAIN toBroker /\ toBroker'[i] = toBroker[i])
    BY <2>1, <2>2
  <2> QED BY <2>3 DEF AbortSent
<1>2. CASE ends # {}
  BY <1>2 DEF PostedToBroker, AbortSent
<1> QED
  BY <1>1, <1>2

\* What the endings of a socket cost.
LEMMA EndSpares ==
    ASSUME NEW s \in Sockets
    PROVE  /\ LostOf(Ended(s)) = LostOf(s) /\ Ended(s) \in Sockets
           /\ Sound(s) => Sound(Ended(s)) /\ Ended(s).ours # "open"
           /\ Ended(s).reset <=> s.reset
<1>1. Shut(s, Ended(s)) /\ Ended(s).outgoing = s.outgoing
      /\ (Sound(s) => Sound(Ended(s)) /\ Ended(s).ours # "open")
  BY ShutByEnd
<1> QED
  BY <1>1 DEF LostOf, Shut, SameReading

LEMMA CancelSpares ==
    ASSUME NEW s \in Sockets, Sound(s), s.ours \notin {"open", "ending"}
    PROVE  LostOf(ReaderCancelled(s)) = LostOf(s)
<1>1. CASE pump.stopped \/ s.readable \in {"errored", "cancelled"} \/ (s.readable = "closed" /\ s.incoming = <<>>)
  BY <1>1 DEF ReaderCancelled, Cancelled
<1>2. CASE ~(pump.stopped \/ s.readable \in {"errored", "cancelled"} \/ (s.readable = "closed" /\ s.incoming = <<>>))
  <2> DEFINE d == Destroyed(s)
  <2>1. ReaderCancelled(s) = [d EXCEPT !.readable = "cancelled", !.incoming = <<>>]
    BY <1>2 DEF ReaderCancelled, Cancelled
  <2>2. d \in Sockets
    BY ShutByDestroy DEF Shut, SameReading
  <2>3. d.taken = s.taken /\ d.received = s.received /\ d.outgoing = s.outgoing
    <3>1. Shut(s, d)
      BY ShutByDestroy
    <3>2. s.alive => s.outgoing = 0
      BY DEF Sound, Sockets
    <3>3. ~s.alive => d = s
      BY DEF Destroyed
    <3> HIDE DEF d
    <3> QED BY <3>1, <3>2, <3>3 DEF Shut
  <2> HIDE DEF d
  <2> QED BY <2>1, <2>2, <2>3 DEF LostOf, Sockets
<1> QED
  BY <1>1, <1>2

LEMMA ResetEnds ==
    ASSUME NEW s \in Sockets, Sound(s)
    PROVE  ResetAndDestroyed(s).ours # "open"
<1>1. CASE s.alive
  <2>1. ResetAndDestroyed(s) = [Destroyed(s) EXCEPT !.ours = "rst"] /\ Destroyed(s) \in Sockets
    BY <1>1, ShutByDestroy DEF ResetAndDestroyed, Shut, SameReading
  <2> QED BY <2>1 DEF Sockets
<1>2. CASE ~s.alive
  BY <1>2 DEF ResetAndDestroyed, Sound
<1> QED
  BY <1>1, <1>2

LEMMA LossFacts ==
    ASSUME IInv, LossInv
    PROVE  /\ Shape /\ socket \in Sockets /\ handle \in Handles /\ relay \in Relays /\ page \in Pages
           /\ Sound(socket)
           /\ handle.state = "leaving" \/ relay.writeEnded => socket.ours # "open"
           /\ handle.state = "live" => handle.reason = "none"
           /\ "broker" \in ends => toBroker = <<>>
           /\ AnswersWait
  BY DEF IInv, Shape, LossInv, Sound, PartsAgree

\* A relay that stops, for whatever reason.
LEMMA StopLoses ==
    ASSUME IInv, LossInv, TwiceKept, NEW p, NEW k, NEW posted, NEW code, Stop(p, k, posted, code),
           page' = page, StillExcused, Sound(socket'),
           LostOf(socket') = LostOf(socket) \/ Excused',
           socket.ours # "open" => socket'.ours # "open",
           handle'.state = "leaving" => socket'.ours # "open"
    PROVE  LossInv'
<1>1. "broker" \in ends' /\ toBroker' = <<>> /\ relay' = [relay EXCEPT !.registered = FALSE]
  BY DEF Stop
<1>2. ~AbortSent'
  BY <1>1, BrokerQueueEmpty
<1>3. relay'.writeEnded => relay.writeEnded
  BY <1>1, LossFacts DEF Relays
<1>4. relay'.writeEnded => socket'.ours # "open"
  BY <1>3, LossFacts
<1>5. AnswersWait'
  BY <1>1 DEF AnswersWait
<1> QED
  BY <1>1, <1>2, <1>4, <1>5, BrokerLoses

LEMMA PortClosesLoses ==
    ASSUME IInv, LossInv, TwiceKept, PortCloses
    PROVE  LossInv'
<1>1. /\ "page" \in ends /\ "broker" \notin ends /\ Stop(pump, sink, <<>>, "clean")
      /\ socket' = ReaderCancelled(socket) /\ handle' = handle /\ page' = page
  BY DEF PortCloses
<1>2. socket \in Sockets /\ Sound(socket) /\ Shut(socket, ReaderCancelled(socket))
  BY LossFacts, ShutByCancel
<1>3. StillExcused
  BY <1>1, <1>2 DEF StillExcused, Shut, SameReading
<1>4. Sound(socket') /\ (socket.ours # "open" => socket'.ours # "open")
  BY <1>1, <1>2, ShutByCancel
<1>5. LostOf(socket') = LostOf(socket) \/ Excused'
  <2>1. CASE ~page.here
    BY <1>1, <2>1 DEF Excused
  <2>2. CASE page.here
    <3>1. \E c \in Closes : calls[c] = "done"
      BY <1>1, <2>2 DEF IInv, PartsAgree
    <3>2. relay.readEnded \/ Excused'
      BY <1>1, <3>1, LossFacts DEF AnswersWait, TwiceKept, Excused
    <3>3. relay.readEnded => socket' = socket
      BY <1>1, <1>2, ShutByCancel DEF IInv, PartsAgree
    <3> QED BY <3>2, <3>3
  <2> QED BY <2>1, <2>2
<1>6. handle'.state = "leaving" => socket'.ours # "open"
  BY <1>1, <1>4, LossFacts
<1> QED
  BY <1>1, <1>3, <1>4, <1>5, <1>6, StopLoses

LEMMA RevokeLoses ==
    ASSUME IInv, LossInv, TwiceKept, Revoke
    PROVE  LossInv'
<1>1. /\ handle' = Gone("revoked") /\ Stop(pump, sink, <<>>, "revoked")
      /\ socket' = ResetAndDestroyed(ReaderCancelled(socket)) /\ page' = page
  BY DEF Revoke
<1> DEFINE s == ReaderCancelled(socket)
<1>2. s \in Sockets /\ Sound(s) /\ Shut(socket, s)
  BY LossFacts, ShutByCancel DEF Shut, SameReading
<1>3. Sound(socket') /\ socket'.ours # "open" /\ Shut(s, socket')
  BY <1>1, <1>2, ShutByDestroy, ResetEnds
<1>4. handle'.reason = "revoked" /\ handle'.state = "gone" /\ (handle.deadline => handle'.deadline)
  BY <1>1, LossFacts DEF Gone, Handles
<1>5. StillExcused /\ Excused'
  BY <1>2, <1>3, <1>4 DEF StillExcused, Excused, Shut, SameReading
<1> QED
  BY <1>1, <1>3, <1>5, StopLoses

LEMMA SessionEndsLoses ==
    ASSUME IInv, LossInv, TwiceKept, SessionEnds
    PROVE  LossInv'
<1>1. /\ handle' = [handle EXCEPT !.state = "leaving", !.reason = "sessionEnded"]
      /\ Stop(pump, sink, <<>>, "revoked")
      /\ socket' = ReaderCancelled(Ended(socket)) /\ page' = page
  BY DEF SessionEnds
<1> DEFINE s == Ended(socket)
<1>2. s \in Sockets /\ Sound(s) /\ s.ours # "open" /\ (s.reset <=> socket.reset)
  BY LossFacts, EndSpares
<1>3. Sound(socket') /\ socket'.ours # "open" /\ Shut(s, socket')
  BY <1>1, <1>2, ShutByCancel
<1>4. handle'.reason = "sessionEnded" /\ (handle.deadline => handle'.deadline)
  BY <1>1, LossFacts DEF Handles
<1>5. StillExcused /\ Excused'
  BY <1>2, <1>3, <1>4 DEF StillExcused, Excused, Shut, SameReading
<1> QED
  BY <1>1, <1>3, <1>5, StopLoses

\* The socket has ended, or it is gone: stopping the relay takes nothing with it.
LEMMA TeardownSettlesLoses ==
    ASSUME IInv, LossInv, TwiceKept, TeardownSettles
    PROVE  LossInv'
<1>1. /\ handle.state = "leaving" /\ socket.ours # "ending" /\ handle' = [handle EXCEPT !.state = "gone"]
      /\ Stop(pump, sink, <<>>, "clean") /\ socket' = ReaderCancelled(socket) /\ page' = page
  BY DEF TeardownSettles
<1>2. socket \in Sockets /\ Sound(socket) /\ socket.ours # "open"
  BY <1>1, LossFacts
<1>3. Sound(socket') /\ socket'.ours # "open" /\ Shut(socket, socket')
  BY <1>1, <1>2, ShutByCancel
<1>4. LostOf(socket') = LostOf(socket)
  BY <1>1, <1>2, CancelSpares
<1>5. handle'.reason = handle.reason /\ (handle.deadline => handle'.deadline)
  BY <1>1, LossFacts DEF Handles
<1>6. StillExcused
  BY <1>3, <1>5 DEF StillExcused, Shut, SameReading
<1> QED
  BY <1>1, <1>3, <1>4, <1>6, StopLoses

\* A socket that fails may lose what it held; a handle that left already keeps it.
LEMMA FailLoses ==
    ASSUME IInv, LossInv, TwiceKept, page' = page, calls' = calls, NEW p, NEW k, NEW posted, NEW code, NEW rest,
           FailSocket(p, k, posted, code, rest), toBroker' = rest => (AbortSent' => AbortSent)
    PROVE  LossInv'
<1>1. CASE handle.state = "live"
  <2> DEFINE s == ReaderCancelled(socket)
  <2>1. handle' = Gone("failed") /\ Stop(p, k, posted, code) /\ socket' = Destroyed(s)
    BY <1>1 DEF FailSocket
  <2>2. s \in Sockets /\ Sound(s) /\ Shut(socket, s)
    BY LossFacts, ShutByCancel DEF Shut, SameReading
  <2>3. Sound(socket') /\ socket'.ours # "open" /\ Shut(s, socket')
    BY <2>1, <2>2, ShutByDestroy
  <2>4. handle'.reason = "failed" /\ handle'.state = "gone" /\ (handle.deadline => handle'.deadline)
    BY <2>1, LossFacts DEF Gone, Handles
  <2>5. StillExcused /\ Excused'
    BY <2>2, <2>3, <2>4 DEF StillExcused, Excused, Shut, SameReading
  <2> QED BY <2>1, <2>3, <2>5, StopLoses
<1>2. CASE handle.state # "live"
  <2>1. /\ toBroker' = rest /\ socket' = socket /\ handle' = handle /\ relay' = relay /\ ends' = ends
    BY <1>2 DEF FailSocket
  <2>2. StillExcused
    BY <2>1 DEF StillExcused
  <2>3. AnswersWait'
    BY <2>1, LossFacts DEF AnswersWait, TwiceKept
  <2> QED BY <2>1, <2>2, <2>3, LossFacts, BrokerLoses
<1> QED
  BY <1>1, <1>2

LEMMA LeavingLoses ==
    ASSUME NEW h \in Handles, h.state = "live" => h.reason = "none"
    PROVE  /\ h.deadline => Leaving(h).deadline
           /\ h.reason \in {"revoked", "sessionEnded", "aborted", "failed"} => Leaving(h).reason = h.reason
           /\ Leaving(h).state = "leaving" => h.state \in {"live", "leaving"}
  BY DEF Leaving, Handles

\* What a message of the page leaves of the socket.
LEMMA DrainedLoses ==
    ASSUME IInv, LossInv, TwiceKept, page' = page, calls' = calls, NEW k, NEW s \in Sockets, NEW posted, NEW rest,
           Drained(k, s, posted, rest), Sound(s), LostOf(s) = LostOf(socket) \/ Excused,
           s.reset <=> socket.reset, s.ours = "open" => socket.ours = "open", AbortSent' => AbortSent
    PROVE  LossInv'
<1>1. ends' = ends
  BY DEF Drained
<1>2. CASE k.ending /\ k.writes = <<>> /\ ~k.ended /\ ~k.stopped
  <2>1. /\ socket' = Ended(s) /\ relay' = [relay EXCEPT !.writeEnded = TRUE]
        /\ handle' = IF relay.readEnded THEN Leaving(handle) ELSE handle
    BY <1>2 DEF Drained
  <2>2. Sound(socket') /\ socket'.ours # "open" /\ LostOf(socket') = LostOf(s) /\ (socket'.reset <=> socket.reset)
    BY <2>1, EndSpares
  <2>3. StillExcused
    BY <2>1, <2>2, LossFacts, LeavingLoses DEF StillExcused
  <2>4. Excused => Excused'
    BY <2>3 DEF StillExcused, Excused, TwiceKept
  <2>5. relay'.readEnded <=> relay.readEnded
    BY <2>1, LossFacts DEF Relays
  <2>6. AnswersWait'
    BY <1>1, <2>5, LossFacts DEF AnswersWait, TwiceKept
  <2> QED BY <2>2, <2>3, <2>4, <2>6, BrokerLoses
<1>3. CASE ~(k.ending /\ k.writes = <<>> /\ ~k.ended /\ ~k.stopped)
  <2>1. socket' = s /\ relay' = relay /\ handle' = handle
    BY <1>3 DEF Drained
  <2>2. StillExcused /\ (Excused => Excused')
    BY <2>1 DEF StillExcused, Excused, TwiceKept
  <2>3. handle'.state = "leaving" \/ relay'.writeEnded => socket'.ours # "open"
    BY <2>1, LossFacts
  <2>4. AnswersWait'
    BY <1>1, <2>1, LossFacts DEF AnswersWait, TwiceKept
  <2> QED BY <2>1, <2>2, <2>3, <2>4, BrokerLoses
<1> QED
  BY <1>2, <1>3

LEMMA HandedSpares ==
    ASSUME NEW s \in Sockets, NEW n \in Nat, Sound(s), Writable(s)
    PROVE  /\ Handed(s, n) \in Sockets /\ Sound(Handed(s, n)) /\ LostOf(Handed(s, n)) = LostOf(s)
           /\ (Handed(s, n).reset <=> s.reset) /\ Handed(s, n).ours = s.ours
<1> DEFINE t == Handed(s, n)
<1>1. /\ t \in Sockets /\ t.taken = s.taken + n /\ t.outgoing = s.outgoing + n /\ t.received = s.received
      /\ t.ours = s.ours /\ (t.reset <=> s.reset) /\ (t.alive <=> s.alive)
  BY HandedFacts
<1>2. s.taken \in Nat /\ s.outgoing \in Nat /\ s.received \in Nat /\ s.ours = "open" /\ s.alive
  BY DEF Sockets, Writable
<1> HIDE DEF t
<1>3. LostOf(t) = LostOf(s)
  <2>1. \A a, b, c, d \in Nat : (a + d) - b - (c + d) = a - b - c
    OBVIOUS
  <2> QED BY <1>1, <1>2, <2>1 DEF LostOf
<1>4. Sound(t)
  BY <1>1, <1>2 DEF Sound
<1> QED
  BY <1>1, <1>3, <1>4 DEF t

\* A message that was taken off the port.
LEMMA HeardLoses ==
    ASSUME Shape, toBroker # <<>>, toBroker' = Tail(toBroker)
    PROVE  AbortSent' => AbortSent
  BY Receives

LEMMA ReceiveWriteLoses ==
    ASSUME IInv, LossInv, TwiceKept, ReceiveWrite
    PROVE  LossInv'
<1> DEFINE n == Head(toBroker).n
           rest == Tail(toBroker)
           queued == Queued(sink, n)
<1>1. /\ toBroker # <<>> /\ page' = page /\ calls' = calls
      /\ Head(toBroker).kind = "write"
  BY DEF ReceiveWrite, Arrives
<1>2. Shape /\ socket \in Sockets /\ Sound(socket)
  BY LossFacts
<1>3. toBroker' = rest => (AbortSent' => AbortSent)
  BY <1>1, <1>2, HeardLoses
<1>4. n \in Nat
  <2>1. Head(toBroker) \in BrokerMessages
    BY <1>1, <1>2 DEF Shape
  <2> QED BY <1>1, <2>1, BrokerMessageFacts
<1>5. \/ \E k, posted : Drained(k, socket, posted, rest)
      \/ \E k, posted : FailSocket(pump, k, posted, "limit", rest)
      \/ Writable(socket) /\ \E k, posted : Drained(k, Handed(socket, n), posted, rest)
  <2> HIDE DEF n, rest, queued
  <2> QED BY DEF ReceiveWrite, n, rest, queued
<1> HIDE DEF n, rest, queued
<1>6. CASE \E k, posted : Drained(k, socket, posted, rest)
  <2>1. PICK k, posted : Drained(k, socket, posted, rest)
    BY <1>6
  <2>2. toBroker' = rest
    BY <2>1 DEF Drained
  <2> QED BY <1>1, <1>2, <1>3, <2>1, <2>2, DrainedLoses
<1>7. CASE \E k, posted : FailSocket(pump, k, posted, "limit", rest)
  <2>1. PICK k, posted : FailSocket(pump, k, posted, "limit", rest)
    BY <1>7
  <2> QED BY <1>1, <1>3, <2>1, FailLoses
<1>8. CASE Writable(socket) /\ \E k, posted : Drained(k, Handed(socket, n), posted, rest)
  <2>1. PICK k, posted : Drained(k, Handed(socket, n), posted, rest)
    BY <1>8
  <2>2. toBroker' = rest
    BY <2>1 DEF Drained
  <2>3. /\ Handed(socket, n) \in Sockets /\ Sound(Handed(socket, n)) /\ LostOf(Handed(socket, n)) = LostOf(socket)
        /\ (Handed(socket, n).reset <=> socket.reset) /\ Handed(socket, n).ours = socket.ours
    BY <1>2, <1>4, <1>8, HandedSpares
  <2> QED BY <1>1, <1>3, <2>1, <2>2, <2>3, DrainedLoses
<1> QED
  BY <1>5, <1>6, <1>7, <1>8

LEMMA WriteSettlesLoses ==
    ASSUME IInv, LossInv, TwiceKept, WriteSettles
    PROVE  LossInv'
<1> DEFINE others == Tail(sink.writes)
           next == IF others = <<>> THEN 0 ELSE Head(others)
<1>1. Writable(socket) /\ sink.writes # <<>> /\ page' = page /\ calls' = calls
  BY DEF WriteSettles, Drains
<1>2. Shape /\ socket \in Sockets /\ Sound(socket) /\ sink.writes \in Seq(Nat)
  BY LossFacts, WritingFacts
<1>3. next \in Nat
  <2>1. others \in Seq(Nat)
    BY <1>1, <1>2
  <2> HIDE DEF others
  <2> QED BY <2>1
<1>4. \E k, posted : Drained(k, Handed(socket, next), posted, toBroker)
  <2> HIDE DEF others
  <2> QED BY DEF WriteSettles, others
<1> HIDE DEF next
<1>5. PICK k, posted : Drained(k, Handed(socket, next), posted, toBroker)
  BY <1>4
<1>6. toBroker' = toBroker
  BY <1>5 DEF Drained
<1>7. AbortSent' => AbortSent
  BY <1>2, <1>6, BrokerQueueKept
<1>8. /\ Handed(socket, next) \in Sockets /\ Sound(Handed(socket, next))
      /\ LostOf(Handed(socket, next)) = LostOf(socket)
      /\ (Handed(socket, next).reset <=> socket.reset) /\ Handed(socket, next).ours = socket.ours
  BY <1>1, <1>2, <1>3, HandedSpares
<1> QED
  BY <1>1, <1>5, <1>7, <1>8, DrainedLoses

LEMMA WriteRejectedLoses ==
    ASSUME IInv, LossInv, TwiceKept, WriteRejected \/ PumpFails
    PROVE  LossInv'
<1>1. page' = page /\ calls' = calls
  BY DEF WriteRejected, PumpFails
<1>2. \E p, k, posted, code : FailSocket(p, k, posted, code, toBroker)
  BY DEF WriteRejected, PumpFails
<1>3. toBroker' = toBroker => (AbortSent' => AbortSent)
  BY LossFacts, BrokerQueueKept
<1>4. PICK p, k, posted, code : FailSocket(p, k, posted, code, toBroker)
  BY <1>2
<1> QED
  BY <1>1, <1>3, <1>4, FailLoses

LEMMA ReceiveEndLoses ==
    ASSUME IInv, LossInv, TwiceKept, ReceiveEnd
    PROVE  LossInv'
<1>1. toBroker # <<>> /\ page' = page /\ calls' = calls
  BY DEF ReceiveEnd, Arrives
<1>2. \E k : Drained(k, socket, <<>>, Tail(toBroker))
  BY DEF ReceiveEnd
<1>3. PICK k : Drained(k, socket, <<>>, Tail(toBroker))
  BY <1>2
<1>4. toBroker' = Tail(toBroker)
  BY <1>3 DEF Drained
<1> QED
  BY <1>1, <1>3, <1>4, LossFacts, HeardLoses, DrainedLoses

\* An abort loses what it is meant to lose.
LEMMA ReceiveAbortLoses ==
    ASSUME IInv, LossInv, TwiceKept, ReceiveAbort
    PROVE  LossInv'
<1> DEFINE rest == Tail(toBroker)
<1>1. toBroker # <<>> /\ Head(toBroker).kind = "writeAbort" /\ page' = page /\ calls' = calls
  BY DEF ReceiveAbort, Arrives
<1>2. Shape /\ socket \in Sockets /\ Sound(socket)
  BY LossFacts
<1>3. AbortSent /\ (toBroker' = rest => (AbortSent' => AbortSent))
  <2>1. AbortSent
    <3>1. toBroker \in Seq(BrokerMessages) /\ 1 \in DOMAIN toBroker /\ toBroker[1] = Head(toBroker)
      BY <1>1, <1>2 DEF Shape
    <3> QED BY <1>1, <3>1 DEF AbortSent
  <2> QED BY <2>1
<1>4. Excused
  BY <1>3 DEF LossInv, Excused
<1>5. CASE sink.stopped
  <2>1. Drained(sink, socket, <<>>, rest)
    BY <1>5 DEF ReceiveAbort
  <2>2. toBroker' = rest
    BY <2>1 DEF Drained
  <2> QED BY <1>1, <1>2, <1>3, <2>1, <2>2, DrainedLoses
<1>6. CASE ~sink.stopped /\ handle.state = "live"
  <2> DEFINE s == ReaderCancelled(socket)
  <2>1. /\ Stop(pump, [sink EXCEPT !.stopped = TRUE], <<Failed("reset")>>, "reset") /\ handle' = Gone("aborted")
        /\ socket' = ResetAndDestroyed(s)
    BY <1>6 DEF ReceiveAbort
  <2>2. s \in Sockets /\ Sound(s) /\ Shut(socket, s)
    BY <1>2, ShutByCancel DEF Shut, SameReading
  <2>3. Sound(socket') /\ socket'.ours # "open" /\ Shut(s, socket')
    BY <2>1, <2>2, ShutByDestroy, ResetEnds
  <2>4. handle'.reason = "aborted" /\ handle'.state = "gone" /\ (handle.deadline => handle'.deadline)
    BY <2>1, LossFacts DEF Gone, Handles
  <2>5. StillExcused /\ Excused'
    BY <2>2, <2>3, <2>4 DEF StillExcused, Excused, Shut, SameReading
  <2> QED BY <1>1, <2>1, <2>3, <2>5, StopLoses
<1>7. CASE ~sink.stopped /\ handle.state # "live"
  <2> DEFINE s == WriterAborted(socket)
  <2>1. Drained([sink EXCEPT !.stopped = TRUE], s, <<Failed("reset")>>, rest)
    BY <1>7 DEF ReceiveAbort
  <2>2. toBroker' = rest
    BY <2>1 DEF Drained
  <2>3. /\ s \in Sockets /\ Sound(s) /\ (s.reset <=> socket.reset)
        /\ s.ours = "open" => socket.ours = "open"
    BY <1>2, ShutByAbort DEF Shut, SameReading
  <2> HIDE DEF s
  <2> QED BY <1>1, <1>3, <1>4, <2>1, <2>2, <2>3, DrainedLoses
<1> QED
  BY <1>5, <1>6, <1>7

\* A step that leaves the handle, the flags and the calls alone, and the socket its bytes.
LEMMA SocketLoses ==
    ASSUME IInv, LossInv, TwiceKept, page' = page, handle' = handle, relay' = relay, calls' = calls, ends \subseteq ends',
           Sound(socket'), LostOf(socket') = LostOf(socket) \/ socket'.reset, socket.reset => socket'.reset,
           socket.ours # "open" => socket'.ours # "open", AbortSent' => AbortSent
    PROVE  LossInv'
<1>1. StillExcused /\ (socket'.reset => Excused')
  BY DEF StillExcused, Excused
<1>2. AnswersWait'
  BY LossFacts DEF AnswersWait, TwiceKept
<1> QED
  BY <1>1, <1>2, LossFacts, BrokerLoses

\* No byte is lost but to a reset.
BytesKept ==
    /\ Sound(socket') /\ (LostOf(socket') = LostOf(socket) \/ socket'.reset)
    /\ (socket.reset => socket'.reset) /\ (socket.ours # "open" => socket'.ours # "open")

LEMMA PeerLoses ==
    ASSUME IInv, LossInv, TwiceKept, Peer \/ FinSent
    PROVE  LossInv'
<1>1. /\ page' = page /\ handle' = handle /\ relay' = relay /\ calls' = calls /\ ends' = ends
      /\ toBroker' = toBroker
  BY DEF Peer, PeerSends, PeerEnds, PeerResets, PeerReads, FinSent
<1>2. socket \in Sockets /\ Sound(socket) /\ Shape
  BY LossFacts
<1>3. AbortSent' => AbortSent
  BY <1>1, <1>2, BrokerQueueKept
<1>4. /\ socket.taken \in Nat /\ socket.outgoing \in Nat /\ socket.received \in Nat
      /\ socket.ours \in {"open", "ending", "fin", "cut", "rst"} /\ socket.alive \in BOOLEAN
  BY <1>2 DEF Sockets
<1>5. BytesKept
  <2>1. ASSUME NEW n, PeerSends(n)
        PROVE  BytesKept
    <3>1. /\ socket'.taken = socket.taken /\ socket'.outgoing = socket.outgoing /\ socket'.received = socket.received
          /\ socket'.ours = socket.ours /\ socket'.alive = socket.alive /\ socket'.reset = socket.reset
      BY <1>2, <2>1 DEF PeerSends, Sockets
    <3> QED BY <1>2, <3>1 DEF Sound, LostOf, BytesKept
  <2>2. CASE PeerEnds
    <3> DEFINE e == Ended(socket)
               readable == IF e.readable = "open" THEN "closed" ELSE e.readable
               alive == socket.ours # "fin"
    <3>1. e \in Sockets /\ Sound(e) /\ e.ours # "open" /\ LostOf(e) = LostOf(socket) /\ (e.reset <=> socket.reset)
      BY <1>2, EndSpares
    <3>2. socket' = [e EXCEPT !.theirs = "fin", !.readable = readable, !.alive = alive] /\ socket.alive
      BY <2>2 DEF PeerEnds
    <3>3. e.ours = "fin" <=> socket.ours = "fin"
      BY <1>2 DEF Ended, Writable, Sockets
    <3>4. socket.ours \in {"open", "ending", "fin"}
      BY <1>4, <3>2, <1>2 DEF Sound
    <3>5. e.ours \in {"ending", "fin"}
      BY <1>2, <3>1, <3>2, <3>4 DEF Ended, Writable, Sockets
    <3> HIDE DEF e, readable, alive
    <3>6. /\ socket'.taken = e.taken /\ socket'.outgoing = e.outgoing /\ socket'.received = e.received
          /\ socket'.ours = e.ours /\ socket'.alive = alive /\ socket'.reset = e.reset
      BY <3>1, <3>2 DEF Sockets
    <3> QED BY <3>1, <3>3, <3>5, <3>6 DEF Sound, LostOf, alive, BytesKept
  <2>3. CASE PeerResets
    <3> DEFINE readable == IF socket.readable = "open" THEN "errored" ELSE socket.readable
               incoming == IF socket.readable = "open" THEN <<>> ELSE socket.incoming
    <3>1. socket' = [socket EXCEPT !.reset = TRUE, !.alive = FALSE, !.outgoing = 0, !.ours = "rst",
                                   !.readable = readable, !.incoming = incoming]
      BY <2>3 DEF PeerResets
    <3> HIDE DEF readable, incoming
    <3>2. socket'.reset = TRUE /\ socket'.alive = FALSE /\ socket'.outgoing = 0 /\ socket'.ours = "rst"
      BY <1>2, <3>1 DEF Sockets
    <3> QED BY <3>2 DEF Sound, BytesKept
  <2>4. CASE PeerReads
    <3>1. socket.outgoing > 0 /\ socket' = [socket EXCEPT !.outgoing = @ - 1, !.received = @ + 1]
      BY <2>4 DEF PeerReads
    <3>2. /\ socket'.taken = socket.taken /\ socket'.outgoing = socket.outgoing - 1
          /\ socket'.received = socket.received + 1
          /\ socket'.ours = socket.ours /\ socket'.alive = socket.alive /\ socket'.reset = socket.reset
      BY <1>2, <3>1 DEF Sockets
    <3>3. LostOf(socket') = LostOf(socket)
      BY <1>4, <3>2 DEF LostOf
    <3>4. Sound(socket')
      BY <1>2, <1>4, <3>1, <3>2 DEF Sound
    <3> QED BY <3>2, <3>3, <3>4 DEF BytesKept
  <2>5. CASE FinSent
    <3> DEFINE alive == socket.theirs = "open"
    <3>1. socket.outgoing = 0 /\ socket' = [socket EXCEPT !.ours = "fin", !.alive = alive]
      BY <2>5 DEF FinSent
    <3> HIDE DEF alive
    <3>2. /\ socket'.taken = socket.taken /\ socket'.outgoing = socket.outgoing /\ socket'.received = socket.received
          /\ socket'.ours = "fin" /\ socket'.reset = socket.reset
      BY <1>2, <3>1 DEF Sockets
    <3> QED BY <3>1, <3>2 DEF Sound, LostOf, BytesKept
  <2> QED BY <2>1, <2>2, <2>3, <2>4, <2>5 DEF Peer
<1> QED
  BY <1>1, <1>3, <1>5, SocketLoses DEF BytesKept

LEMMA QuietLoses ==
    ASSUME IInv, LossInv, TwiceKept, PumpReads \/ ReceiveCredit \/ Heartbeat
    PROVE  LossInv'
<1>1. /\ page' = page /\ handle' = handle /\ relay' = relay /\ calls' = calls /\ ends' = ends
  BY DEF PumpReads, ReceiveCredit, Heartbeat
<1>2. socket \in Sockets /\ Sound(socket) /\ Shape
  BY LossFacts
<1>3. AbortSent' => AbortSent
  <2>1. toBroker' = toBroker \/ (toBroker # <<>> /\ toBroker' = Tail(toBroker))
    BY DEF PumpReads, ReceiveCredit, Heartbeat, Arrives
  <2> QED BY <1>2, <2>1, BrokerQueueKept, HeardLoses
<1>4. /\ socket'.taken = socket.taken /\ socket'.outgoing = socket.outgoing /\ socket'.received = socket.received
      /\ socket'.ours = socket.ours /\ socket'.alive = socket.alive /\ socket'.reset = socket.reset
  BY <1>2 DEF PumpReads, ReceiveCredit, Heartbeat, Sockets
<1> QED
  BY <1>1, <1>2, <1>3, <1>4, SocketLoses DEF Sound, LostOf

\* The end of the reading side releases a socket that was told to end before.
LEMMA PumpEndsLoses ==
    ASSUME IInv, LossInv, TwiceKept, PumpEnds
    PROVE  LossInv'
<1>1. /\ relay' = [relay EXCEPT !.readEnded = TRUE] /\ socket' = socket /\ page' = page /\ calls' = calls
      /\ handle' = IF relay.writeEnded THEN Leaving(handle) ELSE handle
      /\ toBroker' = toBroker
  BY DEF PumpEnds
<1>2. relay'.readEnded /\ (relay'.writeEnded <=> relay.writeEnded)
  BY <1>1, LossFacts DEF Relays
<1>3. StillExcused
  BY <1>1, LossFacts, LeavingLoses DEF StillExcused
<1>4. handle'.state = "leaving" \/ relay'.writeEnded => socket'.ours # "open"
  BY <1>1, <1>2, LossFacts
<1>5. AbortSent' => AbortSent
  BY <1>1, LossFacts, BrokerQueueKept
<1>6. AnswersWait'
  BY <1>2 DEF AnswersWait
<1> QED
  BY <1>1, <1>2, <1>3, <1>4, <1>5, <1>6, LossFacts, BrokerLoses

LEMMA DrainDeadlineLoses ==
    ASSUME IInv, LossInv, TwiceKept, DrainDeadline
    PROVE  LossInv'
<1>1. /\ socket' = Destroyed(socket) /\ handle' = [handle EXCEPT !.deadline = TRUE]
      /\ relay' = relay /\ page' = page /\ calls' = calls /\ ends' = ends /\ toBroker' = toBroker
  BY DEF DrainDeadline
<1>2. Sound(socket') /\ socket'.ours # "open" /\ Shut(socket, socket')
  BY <1>1, LossFacts, ShutByDestroy
<1>3. handle'.deadline /\ handle'.reason = handle.reason
  BY <1>1, LossFacts DEF Handles
<1>4. StillExcused /\ Excused'
  BY <1>2, <1>3 DEF StillExcused, Excused, Shut, SameReading
<1>5. AbortSent' => AbortSent
  BY <1>1, LossFacts, BrokerQueueKept
<1>6. AnswersWait'
  BY <1>1, LossFacts DEF AnswersWait, TwiceKept
<1> QED
  BY <1>1, <1>2, <1>4, <1>5, <1>6, LossFacts, BrokerLoses

\* A close() is answered at once when there is nothing left to wait for, or another waits.
LEMMA NetCloseLoses ==
    ASSUME IInv, LossInv, TwiceKept, NEW c \in Closes, NetClose(c)
    PROVE  LossInv'
<1>1. /\ calls[c] = "asked" /\ relay' = relay /\ page' = page /\ ends' = ends /\ toBroker' = toBroker
  BY DEF NetClose
<1>2. AbortSent' => AbortSent
  BY <1>1, LossFacts, BrokerQueueKept
<1>3. CASE relay.registered /\ handle.state = "live"
  <2>1. /\ handle' = Leaving(handle) /\ socket' = Ended(socket)
        /\ calls' = [calls EXCEPT ![c] = "waiting"]
    BY <1>3 DEF NetClose
  <2>2. Sound(socket') /\ socket'.ours # "open" /\ LostOf(socket') = LostOf(socket) /\ (socket'.reset <=> socket.reset)
    BY <2>1, LossFacts, EndSpares
  <2>3. StillExcused
    BY <2>1, <2>2, LossFacts, LeavingLoses DEF StillExcused
  <2>4. AnswersWait'
    BY <1>1, <2>1, LossFacts DEF Shape, AnswersWait, TwiceKept
  <2> QED BY <1>1, <1>2, <2>2, <2>3, <2>4, BrokerLoses
<1>4. CASE ~(relay.registered /\ handle.state = "live")
  <2>1. /\ handle' = handle /\ socket' = socket
    BY <1>4 DEF NetClose
  <2>2. ClosedTwice \/ "broker" \in ends \/ relay.readEnded
    <3>1. CASE ~relay.registered
      BY <3>1 DEF IInv, PartsAgree
    <3>2. CASE handle.state = "gone"
      BY <3>2 DEF IInv, PartsAgree
    <3>3. CASE handle.state = "leaving"
      <4>1. ClosedTwice \/ \A d \in Closes : calls[d] # "waiting"
        BY <1>1 DEF ClosedTwice
      <4> QED BY <3>3, <4>1 DEF IInv, PartsAgree
    <3> QED BY <1>4, <3>1, <3>2, <3>3, LossFacts DEF Handles
  <2>3. StillExcused
    BY <2>1 DEF StillExcused
  <2>4. AnswersWait'
    BY <1>1, <2>2 DEF AnswersWait, TwiceKept
  <2> QED BY <1>1, <1>2, <2>1, <2>3, <2>4, LossFacts, BrokerLoses
<1> QED
  BY <1>3, <1>4

-----------------------------------------------------------------------------
(* The page's steps lose nothing.  *)

LEMMA TroubleFacts ==
    ASSUME NEW p \in Pages
    PROVE  /\ Troubles(p, p) /\ Troubles(p, Writeless(p)) /\ Troubles(p, Rejected(p)) /\ Troubles(p, Resolved(p))
           /\ Troubles(p, Unwritten(p)) /\ Troubles(p, ReadClosed(p))
           /\ \A state \in {"errored", "cancelled"} : Troubles(p, Readless(p, state))
<1>1. Troubles(p, p) /\ Troubles(p, Rejected(p)) /\ Troubles(p, Resolved(p))
  BY DEF Troubles, Rejected, Resolved, Pages
<1>2. Troubles(p, Writeless(p))
  BY DEF Troubles, Writeless, Pages
<1>3. Troubles(p, Unwritten(p)) /\ Troubles(p, ReadClosed(p))
  BY DEF Troubles, Unwritten, ReadClosed, Pages
<1>4. ASSUME NEW state \in {"errored", "cancelled"} PROVE Troubles(p, Readless(p, state))
  BY DEF Troubles, Readless, Pages
<1> QED
  BY <1>1, <1>2, <1>3, <1>4

LEMMA TroublesAgain ==
    ASSUME NEW p, NEW q, NEW r, Troubles(p, q), Troubles(q, r)
    PROVE  Troubles(p, r)
  BY DEF Troubles

LEMMA FatalTroubles ==
    ASSUME NEW p \in Pages
    PROVE  Troubles(p, Fatal(p))
<1> DEFINE a == Unwritten(p)
           b == Readless(a, "errored")
           c == Writeless(b)
           d == Rejected(c)
<1>1. a \in Pages /\ Troubles(p, a)
  BY UnwrittenFacts, TroubleFacts DEF SameReads
<1>2. b \in Pages /\ Troubles(a, b)
  BY <1>1, ReadlessFacts, TroubleFacts DEF ReadsNoFurther
<1>3. c \in Pages /\ Troubles(b, c)
  BY <1>2, WritelessFacts, TroubleFacts DEF SameReads
<1>4. Troubles(c, d)
  BY <1>3, TroubleFacts
<1>5. Fatal(p) = d
  BY DEF Fatal
<1> HIDE DEF a, b, c, d
<1> QED
  BY <1>1, <1>2, <1>3, <1>4, <1>5, TroublesAgain

\* What is reported as consumed is no abort.
LEMMA ReportsTroubles ==
    ASSUME Shape, NEW p \in Pages, NEW n, Reports(p, n)
    PROVE  Troubles(p, page') /\ (AbortSent' => AbortSent)
<1>1. CASE p.sinceLastCredit + n >= Coalesce
  <2>1. page' = [p EXCEPT !.sinceLastCredit = 0] /\ toBroker' = PostedToBroker(Credit(p.sinceLastCredit + n))
    BY <1>1 DEF Reports
  <2>2. Credit(p.sinceLastCredit + n).kind # "writeAbort"
    BY DEF Credit
  <2> QED BY <2>1, <2>2, PostsAbort DEF Troubles, Pages
<1>2. CASE ~(p.sinceLastCredit + n >= Coalesce)
  <2>1. page' = [p EXCEPT !.sinceLastCredit = p.sinceLastCredit + n] /\ toBroker' = toBroker
    BY <1>2 DEF Reports
  <2> QED BY <2>1, BrokerQueueKept DEF Troubles, Pages
<1> QED
  BY <1>1, <1>2

LEMMA PulledTroubles ==
    ASSUME Shape, NEW p \in Pages, PulledAndReports(p)
    PROVE  Troubles(p, page') /\ (AbortSent' => AbortSent)
<1>1. CASE p.readable = "open" /\ p.queued < ReadWindow
  <2> DEFINE q == [p EXCEPT !.uncredited = p.queued]
  <2>1. Reports(q, p.uncredited - p.queued)
    BY <1>1 DEF PulledAndReports
  <2>2. q \in Pages /\ Troubles(p, q)
    BY DEF Pages, Troubles
  <2> HIDE DEF q
  <2> QED BY <2>1, <2>2, ReportsTroubles, TroublesAgain
<1>2. CASE ~(p.readable = "open" /\ p.queued < ReadWindow)
  BY <1>2, TroubleFacts, BrokerQueueKept DEF PulledAndReports
<1> QED
  BY <1>1, <1>2

LEMMA PageReadsLoses ==
    ASSUME IInv, LossInv, TwiceKept, PageData \/ AppReads
    PROVE  LossInv'
<1>1. BrokerStill /\ page \in Pages /\ Shape
  BY LossFacts DEF PageData, AppReads, BrokerStill
<1>2. Troubles(page, page') /\ (AbortSent' => AbortSent)
  <2>1. CASE PageData
    <3> DEFINE n == Head(toPage).n
               p == [page EXCEPT !.got = @ + n]
               q == [p EXCEPT !.queue = Append(@, n), !.queued = @ + n, !.uncredited = @ + n]
    <3>1. n \in Nat
      <4>1. toPage # <<>> /\ Head(toPage).kind = "data" /\ Head(toPage) \in PageMessages
        BY <1>1, <2>1 DEF PageData, PageTakes, Shape
      <4> QED BY <4>1, PageMessageFacts
    <3>2. p \in Pages /\ Troubles(page, p)
      <4>1. page.got + n \in Nat
        <5>1. page.got \in Nat
          BY <1>1 DEF Pages
        <5> HIDE DEF n
        <5>2. \A a, b \in Nat : a + b \in Nat
          OBVIOUS
        <5> QED BY <3>1, <5>1, <5>2
      <4> HIDE DEF n
      <4> QED BY <1>1, <4>1 DEF Pages, Troubles
    <3>3. q \in Pages /\ Troubles(p, q)
      <4> HIDE DEF n, p
      <4>1. p.queued + n \in Nat /\ p.uncredited + n \in Nat /\ Append(p.queue, n) \in Seq(Nat)
        <5>1. p.queued \in Nat /\ p.uncredited \in Nat /\ p.queue \in Seq(Nat)
          BY <3>2 DEF Pages
        <5> QED BY <3>1, <5>1
      <4> QED BY <3>2, <4>1 DEF Pages, Troubles
    <3>4. \/ Reports(p, n)
          \/ PulledAndReports(q)
          \/ page' = [p EXCEPT !.uncredited = @ + n] /\ toBroker' = toBroker
      BY <2>1 DEF PageData
    <3> HIDE DEF n, p, q
    <3>5. CASE Reports(p, n)
      BY <1>1, <3>2, <3>5, ReportsTroubles, TroublesAgain
    <3>6. CASE PulledAndReports(q)
      BY <1>1, <3>2, <3>3, <3>6, PulledTroubles, TroublesAgain
    <3>7. CASE page' = [p EXCEPT !.uncredited = @ + n] /\ toBroker' = toBroker
      <4>1. Troubles(p, page')
        BY <3>2, <3>7 DEF Troubles, Pages
      <4> QED BY <1>1, <3>2, <3>7, <4>1, TroublesAgain, BrokerQueueKept
    <3> QED BY <3>4, <3>5, <3>6, <3>7
  <2>2. CASE AppReads
    <3> DEFINE rest == Tail(page.queue)
               queued == page.queued - Head(page.queue)
               readable == IF page.readable = "ending" /\ rest = <<>> THEN "closed" ELSE page.readable
               q == [page EXCEPT !.queue = rest, !.queued = queued, !.readable = readable]
    <3>1. page.queue \in Seq(Nat) /\ page.queue # <<>> /\ page.queued = Sum(page.queue)
      BY <1>1, <2>2, ReadingFacts DEF AppReads, Holds
    <3>2. rest \in Seq(Nat) /\ Head(page.queue) \in Nat /\ Sum(page.queue) = Head(page.queue) + Sum(rest)
          /\ Sum(rest) \in Nat
      BY <3>1, SumTail
    <3>3. queued \in Nat
      BY <3>1, <3>2
    <3>4. readable \in {"open", "ending", "closed", "errored", "cancelled"}
      BY <1>1 DEF Pages
    <3>5. PulledAndReports(q)
      <4>1. PulledAndReports([[page EXCEPT !.queue = rest, !.queued = queued] EXCEPT
                               !.readable = IF @ = "ending" /\ rest = <<>> THEN "closed" ELSE @])
        BY <2>2 DEF AppReads
      <4>2. [[page EXCEPT !.queue = rest, !.queued = queued] EXCEPT
               !.readable = IF @ = "ending" /\ rest = <<>> THEN "closed" ELSE @] = q
        <5> HIDE DEF rest, queued
        <5> QED BY <1>1 DEF Pages
      <4> QED BY <4>1, <4>2
    <3> HIDE DEF rest, queued, readable
    <3>6. q \in Pages /\ Troubles(page, q)
      BY <1>1, <3>2, <3>3, <3>4 DEF Pages, Troubles
    <3> HIDE DEF q
    <3> QED BY <1>1, <3>5, <3>6, PulledTroubles, TroublesAgain
  <2> QED BY <2>1, <2>2
<1> QED
  BY <1>1, <1>2, PageLoses DEF BrokerStill

LEMMA PageEndsLoses ==
    ASSUME IInv, LossInv, TwiceKept, PageEnd \/ PageFailed \/ Silence \/ AppCancels \/ AppEnds \/ AppAborts
    PROVE  LossInv'
<1>1. BrokerStill /\ page \in Pages /\ Shape /\ toBroker' = toBroker
  BY LossFacts DEF PageEnd, PageFailed, Silence, AppCancels, AppEnds, AppAborts, BrokerStill
<1>2. Troubles(page, page')
  <2>1. CASE PageEnd
    <3> DEFINE a == [page EXCEPT !.readTerminal = TRUE]
               b == Readless(page, "errored")
    <3>1. a \in Pages /\ Troubles(page, a)
      BY <1>1 DEF Pages, Troubles
    <3>2. ReadClosed(a) \in Pages /\ Troubles(a, ReadClosed(a))
      BY <3>1, ReadClosedFacts, TroubleFacts
    <3>3. Troubles(page, Resolved(ReadClosed(a)))
      BY <3>1, <3>2, TroubleFacts, TroublesAgain
    <3>4. b \in Pages /\ Troubles(page, b)
      BY <1>1, ReadlessFacts, TroubleFacts DEF ReadsNoFurther
    <3>5. Writeless(b) \in Pages /\ Troubles(b, Writeless(b))
      BY <3>4, WritelessFacts, TroubleFacts DEF SameReads
    <3>6. Troubles(page, Rejected(Writeless(b)))
      BY <3>4, <3>5, TroubleFacts, TroublesAgain
    <3>7. page' \in {Resolved(ReadClosed(a)), Rejected(page), Rejected(Writeless(b))}
      BY <2>1 DEF PageEnd
    <3> HIDE DEF a, b
    <3> QED BY <1>1, <3>3, <3>6, <3>7, TroubleFacts
  <2>2. CASE PageFailed \/ Silence
    BY <1>1, <2>2, FatalTroubles DEF PageFailed, Silence
  <2>3. CASE AppCancels
    BY <1>1, <2>3, TroubleFacts DEF AppCancels
  <2>4. CASE AppEnds \/ AppAborts
    BY <1>1, <2>4 DEF AppEnds, AppAborts, Troubles, Pages
  <2> QED BY <2>1, <2>2, <2>3, <2>4
<1> QED
  BY <1>1, <1>2, BrokerQueueKept, PageLoses DEF BrokerStill

LEMMA PageWritesLoses ==
    ASSUME IInv, LossInv, TwiceKept,
           PageAck \/ FlushCredit \/ EndWrite \/ AbortWrite \/ \E n \in Nat : AppWritesBytes(n)
    PROVE  LossInv'
<1>1. BrokerStill /\ page \in Pages /\ Shape
  BY LossFacts DEF PageAck, FlushCredit, EndWrite, AbortWrite, AppWritesBytes, BrokerStill
<1>2. Troubles(page, page') /\ (AbortSent' => AbortSent \/ page'.aborted)
  <2>1. CASE PageAck
    <3> DEFINE u == [Unwritten(page) EXCEPT !.accepted = page.accepted + page.piece]
    <3>1. Troubles(page, u)
      BY <1>1 DEF Unwritten, Troubles, Pages
    <3>2. \/ page' \in {page, u} /\ toBroker' = toBroker
          \/ \E x : page' = [page EXCEPT !.acked = x] /\ toBroker' = toBroker
          \/ \E w, x, y : page' = [page EXCEPT !.left = w, !.piece = x, !.acked = 0, !.accepted = y]
                          /\ toBroker' = PostedToBroker(Write(x))
      BY <2>1 DEF PageAck
    <3> HIDE DEF u
    <3>3. CASE page' \in {page, u} /\ toBroker' = toBroker
      BY <1>1, <3>1, <3>3, TroubleFacts, BrokerQueueKept
    <3>4. CASE \E x : page' = [page EXCEPT !.acked = x] /\ toBroker' = toBroker
      BY <1>1, <3>4, BrokerQueueKept DEF Troubles, Pages
    <3>5. CASE \E w, x, y : page' = [page EXCEPT !.left = w, !.piece = x, !.acked = 0, !.accepted = y]
                            /\ toBroker' = PostedToBroker(Write(x))
      <4>1. PICK w, x, y : page' = [page EXCEPT !.left = w, !.piece = x, !.acked = 0, !.accepted = y]
                           /\ toBroker' = PostedToBroker(Write(x))
        BY <3>5
      <4>2. Write(x).kind # "writeAbort"
        BY DEF Write
      <4> QED BY <1>1, <4>1, <4>2, PostsAbort DEF Troubles, Pages
    <3> QED BY <3>2, <3>3, <3>4, <3>5
  <2>2. CASE FlushCredit
    <3>1. page' = [page EXCEPT !.sinceLastCredit = 0] /\ toBroker' = PostedToBroker(Credit(page.sinceLastCredit))
      BY <2>2 DEF FlushCredit
    <3>2. Credit(page.sinceLastCredit).kind # "writeAbort"
      BY DEF Credit
    <3> QED BY <1>1, <3>1, <3>2, PostsAbort DEF Troubles, Pages
  <2>3. CASE EndWrite
    <3> DEFINE q == [page EXCEPT !.writable = "closed", !.writeTerminal = TRUE]
    <3>1. page' = Resolved(q) /\ toBroker' = PostedToBroker(WriteEnd)
      BY <2>3 DEF EndWrite
    <3>2. q \in Pages /\ Troubles(page, q)
      BY <1>1 DEF Pages, Troubles
    <3>3. WriteEnd.kind # "writeAbort"
      BY DEF WriteEnd
    <3> HIDE DEF q
    <3> QED BY <1>1, <3>1, <3>2, <3>3, TroubleFacts, TroublesAgain, PostsAbort
  <2>4. CASE AbortWrite
    <3> DEFINE q == [page EXCEPT !.writable = "errored"]
    <3>1. page.writable = "erroring" /\ page' = Rejected(q)
      BY <2>4 DEF AbortWrite
    <3>2. q \in Pages /\ Troubles(page, q)
      BY <1>1 DEF Pages, Troubles
    <3>3. page.aborted
      BY <3>1 DEF LossInv
    <3> HIDE DEF q
    <3>4. Troubles(page, page')
      BY <3>1, <3>2, TroubleFacts, TroublesAgain
    <3> QED BY <3>3, <3>4 DEF Troubles
  <2>5. ASSUME NEW n \in Nat, AppWritesBytes(n)
        PROVE  Troubles(page, page') /\ (AbortSent' => AbortSent)
    <3> DEFINE piece == Least(n, WriteWindow)
    <3>1. /\ page' = [page EXCEPT !.writing = TRUE, !.left = n, !.piece = piece, !.acked = 0,
                                  !.asked = @ + n, !.writes = @ + 1]
          /\ toBroker' = PostedToBroker(Write(piece))
      BY <2>5 DEF AppWritesBytes
    <3>2. Write(piece).kind # "writeAbort"
      BY DEF Write
    <3> HIDE DEF piece
    <3> QED BY <1>1, <3>1, <3>2, PostsAbort DEF Troubles, Pages
  <2> QED BY <2>1, <2>2, <2>3, <2>4, <2>5
<1> QED
  BY <1>1, <1>2, PageLoses DEF BrokerStill

LEMMA AppClosesLoses ==
    ASSUME IInv, LossInv, TwiceKept, NEW c \in Closes, AppCloses(c)
    PROVE  LossInv'
<1>1. /\ socket' = socket /\ relay' = relay /\ handle' = handle /\ ends' = ends /\ page' = page
      /\ toBroker' = toBroker /\ calls' = [calls EXCEPT ![c] = "asked"]
  BY DEF AppCloses
<1>2. AbortSent' => AbortSent
  BY <1>1, LossFacts, BrokerQueueKept
<1>3. StillExcused
  BY <1>1 DEF StillExcused
<1>4. AnswersWait'
  BY <1>1, LossFacts DEF Shape, AnswersWait, TwiceKept
<1> QED
  BY <1>1, <1>2, <1>3, <1>4, LossFacts, BrokerLoses

LEMMA DisposeLoses ==
    ASSUME IInv, LossInv, TwiceKept, NEW c \in Closes, Dispose(c)
    PROVE  LossInv'
<1> DEFINE a == [Unwritten(page) EXCEPT !.readTerminal = TRUE, !.writeTerminal = TRUE]
<1>1. /\ socket' = socket /\ relay' = relay /\ handle' = handle /\ ends' = ends \cup {"page"}
      /\ toBroker' = toBroker /\ calls' = [calls EXCEPT ![c] = "done"] /\ calls[c] = "answered"
      /\ page' = Writeless(ReadClosed(Resolved(a)))
  BY DEF Dispose
<1>2. Shape /\ page \in Pages
  BY LossFacts
<1>3. a \in Pages /\ Troubles(page, a)
  <2>1. Unwritten(page) \in Pages /\ Troubles(page, Unwritten(page))
    BY <1>2, UnwrittenFacts, TroubleFacts DEF SameReads
  <2> QED BY <2>1 DEF Troubles, Pages
<1> HIDE DEF a
<1>4. Resolved(a) \in Pages /\ Troubles(a, Resolved(a))
  BY <1>3, ResolvedFacts, TroubleFacts DEF SameReads
<1>5. ReadClosed(Resolved(a)) \in Pages /\ Troubles(Resolved(a), ReadClosed(Resolved(a)))
  BY <1>4, ReadClosedFacts, TroubleFacts
<1>6. Troubles(page, page')
  BY <1>1, <1>3, <1>4, <1>5, TroubleFacts, TroublesAgain
<1>7. AbortSent' => AbortSent
  BY <1>1, <1>2, BrokerQueueKept
<1>8. \A d \in Closes : calls'[d] \in {"answered", "done"} => calls[d] \in {"answered", "done"}
  BY <1>1, <1>2 DEF Shape
<1> QED
  BY <1>1, <1>6, <1>7, <1>8, PageLoses

LEMMA NavigatesLoses ==
    ASSUME IInv, LossInv, TwiceKept, Navigates
    PROVE  LossInv'
<1>1. /\ socket' = socket /\ relay' = relay /\ handle' = handle /\ ends' = ends \cup {"page"}
      /\ toBroker' = toBroker /\ calls' = calls /\ page' = [NewPage EXCEPT !.here = FALSE]
  BY DEF Navigates
<1>2. ~page'.here /\ page'.writable = "open"
  BY <1>1 DEF NewPage
<1>3. Lost' = Lost /\ Excused'
  BY <1>1, <1>2 DEF Lost, Excused
<1>4. CloseLosesNothing'
  BY <1>3 DEF CloseLosesNothing, Excused
<1>5. AnswersWait'
  BY <1>1 DEF LossInv, AnswersWait, TwiceKept
<1> QED
  BY <1>1, <1>2, <1>4, <1>5 DEF LossInv

\* Steps that leave the calls alone are all but four.
LEMMA CallsOnlyGrow ==
    ASSUME Shape, [Next]_vars
    PROVE  /\ calls' \in [Closes -> {"none", "asked", "waiting", "answered", "done"}]
           /\ \A c \in Closes : calls[c] # "none" => calls'[c] # "none"
<1> USE DEF Shape
<1>1. CASE calls' = calls
  BY <1>1
<1>2. CASE TeardownSettles
  <2>1. calls' = [c \in Closes |-> IF calls[c] = "waiting" THEN "answered" ELSE calls[c]]
    BY <1>2 DEF TeardownSettles
  <2> QED BY <2>1
<1>3. ASSUME NEW c \in Closes, AppCloses(c) \/ NetClose(c) \/ Dispose(c)
      PROVE  \E x \in {"asked", "waiting", "answered", "done"} : calls' = [calls EXCEPT ![c] = x]
  BY <1>3 DEF AppCloses, NetClose, Dispose
<1>4. CASE \E c \in Closes : AppCloses(c) \/ NetClose(c) \/ Dispose(c)
  <2>1. PICK c \in Closes : AppCloses(c) \/ NetClose(c) \/ Dispose(c)
    BY <1>4
  <2>2. PICK x \in {"asked", "waiting", "answered", "done"} : calls' = [calls EXCEPT ![c] = x]
    BY <1>3, <2>1
  <2> QED BY <2>2
<1>5. \/ TeardownSettles \/ calls' = calls
      \/ \E c \in Closes : AppCloses(c) \/ NetClose(c) \/ Dispose(c)
  <2>1. CASE Peer \/ Teardown
    BY <2>1 DEF Peer, PeerSends, PeerEnds, PeerResets, PeerReads, Teardown, FinSent, DrainDeadline, PortCloses
  <2>2. CASE Pump \/ Sink \/ BrokerReceives
    BY <2>2 DEF Pump, PumpReads, PumpEnds, PumpFails, Sink, WriteSettles, WriteRejected,
       BrokerReceives, ReceiveCredit, ReceiveWrite, ReceiveEnd, ReceiveAbort
  <2>3. CASE PageReceives
    BY <2>3 DEF PageReceives, PageData, PageEnd, PageAck, PageFailed
  <2>4. CASE App
    BY <2>4 DEF App, AppReads, AppCancels, AppEnds, AppAborts, Navigates, AppWritesBytes
  <2>5. CASE Heartbeat \/ Revoke \/ SessionEnds \/ FlushCredit \/ Silence \/ EndWrite \/ AbortWrite
    BY <2>5 DEF Heartbeat, Revoke, SessionEnds, FlushCredit, Silence, EndWrite, AbortWrite
  <2>6. CASE UNCHANGED vars
    BY <2>6 DEF vars
  <2> QED BY <2>1, <2>2, <2>3, <2>4, <2>5, <2>6 DEF Next
<1> QED
  BY <1>1, <1>2, <1>4, <1>5

LEMMA TwiceIsKept ==
    ASSUME Shape, [Next]_vars
    PROVE  TwiceKept
  BY CallsOnlyGrow DEF TwiceKept, ClosedTwice

LEMMA LossStep ==
    IInv /\ LossInv /\ [Next]_vars => LossInv'
<1> SUFFICES ASSUME IInv, LossInv, [Next]_vars PROVE LossInv'
  OBVIOUS
<1> TwiceKept
  BY TwiceIsKept DEF IInv
<1>1. CASE Peer \/ Teardown
  BY <1>1, PeerLoses, DrainDeadlineLoses, TeardownSettlesLoses, PortClosesLoses DEF Teardown
<1>2. CASE Pump \/ Sink \/ BrokerReceives
  BY <1>2, QuietLoses, PumpEndsLoses, WriteRejectedLoses, WriteSettlesLoses, ReceiveWriteLoses, ReceiveEndLoses,
     ReceiveAbortLoses DEF Pump, Sink, BrokerReceives
<1>3. CASE PageReceives
  BY <1>3, PageReadsLoses, PageEndsLoses, PageWritesLoses DEF PageReceives
<1>4. CASE App
  <2>1. 0 .. AppBytes \subseteq Nat
    OBVIOUS
  <2> QED BY <1>4, <2>1, PageReadsLoses, PageEndsLoses, PageWritesLoses, NavigatesLoses, AppClosesLoses DEF App
<1>5. CASE Heartbeat \/ Revoke \/ SessionEnds \/ FlushCredit \/ Silence \/ EndWrite \/ AbortWrite
  BY <1>5, QuietLoses, RevokeLoses, SessionEndsLoses, PageWritesLoses, PageEndsLoses
<1>6. CASE \E c \in Closes : NetClose(c) \/ Dispose(c)
  BY <1>6, NetCloseLoses, DisposeLoses
<1>7. CASE UNCHANGED vars
  <2>1. Troubles(page, page')
    BY <1>7, LossFacts, TroubleFacts DEF vars
  <2>2. AbortSent' => AbortSent
    BY <1>7, LossFacts, BrokerQueueKept DEF vars
  <2> QED BY <1>7, <2>1, <2>2, PageLoses DEF vars
<1> QED
  BY <1>1, <1>2, <1>3, <1>4, <1>5, <1>6, <1>7 DEF Next

LEMMA LossInit == Init => LossInv
<1> SUFFICES ASSUME Init PROVE LossInv
  OBVIOUS
<1>1. /\ socket.taken = 0 /\ socket.received = 0 /\ socket.outgoing = 0 /\ socket.ours = "open" /\ socket.alive
      /\ handle.state = "live" /\ ~relay.writeEnded /\ toBroker = <<>>
      /\ \A c \in Closes : calls[c] = "none"
  BY DEF Init
<1>2. page.writable = "open"
  BY DEF Init, NewPage
<1>3. Lost = 0 /\ ~AbortSent
  BY <1>1 DEF Lost, AbortSent
<1> QED
  BY <1>1, <1>2, <1>3 DEF LossInv, CloseLosesNothing, AnswersWait

\* What the socket accepted reaches the peer, unless something took the socket that may
\* take it, or the app closed it a second time while it was still flushing
\* (destroySocket, onUnlink in socket.ts, pump.stop).
THEOREM NothingIsLost == Spec => []CloseLosesNothing
<1>1. Init => LossInv
  BY LossInit
<1>2. IInv /\ LossInv /\ [Next]_vars => LossInv'
  BY LossStep
<1>3. LossInv => CloseLosesNothing
  BY DEF LossInv
<1> QED
  BY <1>1, <1>2, <1>3, InvariantHolds, PTL DEF Spec
=============================================================================
