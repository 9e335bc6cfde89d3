---------------------------- MODULE ServerProofs ----------------------------
(***************************************************************************)
(* For every number of connections and reads, every length of the queue    *)
(* and every allowance: the server of Server leaves no connection stray,   *)
(* shows the app its connections in order, and accepts one for each read.  *)
(***************************************************************************)
EXTENDS Server, FiniteSetTheorems, SequenceTheorems, TLAPS

\* The server's parts end together, and a listener that ended keeps nobody.
PartsAgree ==
    /\ pump.stopped <=> handle = "gone"
    /\ "broker" \in ends <=> handle = "gone"
    /\ handle = "gone" => listener.reason # "none"
    /\ handle = "live" => listener.reason \in {"none", "failed"}
    /\ listener.reason # "none" => listener.queue = <<>> /\ ~listener.waiting
    /\ listener.waiting => listener.queue = <<>>
    /\ call \in {"closing", "done"} => handle = "gone"
    /\ "page" \in ends => toPage = <<>> /\ (~page.here \/ handle = "gone")

\* The queue holds queued connections, oldest first, and everybody met or on the way
\* to the page is older.
QueueInOrder ==
    /\ \A c, d \in Conns : c < d /\ conn[d] # "none" => conn[c] # "none"
    /\ \A i \in DOMAIN listener.queue : conn[listener.queue[i]] = "queued"
    /\ \A i, j \in DOMAIN listener.queue : i < j => listener.queue[i] < listener.queue[j]
    /\ \A i \in DOMAIN Met : conn[Met[i]] # "none"
    /\ \A i \in InTransit : conn[toPage[i].conn] # "none"
    /\ \A i \in DOMAIN Met, j \in DOMAIN listener.queue : Met[i] < listener.queue[j]
    /\ \A i \in InTransit, j \in DOMAIN listener.queue : toPage[i].conn < listener.queue[j]

\* The page's stream and the port.
PageAgrees ==
    /\ \A i \in DOMAIN toPage : toPage[i].kind = "end" => "broker" \in ends
    /\ page.stream \in {"closing", "closed", "errored"} => ends # {}
    /\ page.reads > 0 => page.queue = <<>> /\ page.stream = "open"
    /\ page.reads <= page.asked
    /\ ~page.overlapped => page.reads <= 1

\* The inductive invariant.
IInv ==
    /\ TypeOK
    /\ PartsAgree
    /\ QueueInOrder
    /\ PageAgrees
    /\ NoStrayConnection
    /\ InOrderThenEnd
    /\ OneReadOneAccept
-----------------------------------------------------------------------------
(* Sequences *)

Messages == {Accepted(c) : c \in Conns} \cup {End(code) : code \in {"clean", "revoked", "internal"}}

\* A sequence that is continued starts as it was.
LEMMA StartFacts ==
    ASSUME NEW S, NEW s \in Seq(S), NEW t \in Seq(S)
    PROVE  /\ s \o t \in Seq(S) /\ Len(s) <= Len(s \o t)
           /\ \A i \in DOMAIN s : i \in DOMAIN (s \o t) /\ s[i] = (s \o t)[i]
<1>1. s \o t \in Seq(S) /\ Len(s \o t) = Len(s) + Len(t)
  BY ConcatProperties
<1>2. \A i \in 1 .. Len(s) + Len(t) :
         (s \o t)[i] = IF i <= Len(s) THEN s[i] ELSE t[i - Len(s)]
  BY ConcatProperties
<1>3. Len(s) \in Nat /\ Len(t) \in Nat /\ DOMAIN s = 1 .. Len(s)
  OBVIOUS
<1>4. DOMAIN (s \o t) = 1 .. Len(s \o t)
  BY <1>1
<1> QED
  BY <1>1, <1>2, <1>3, <1>4

\* What has been met is a sequence, and its first part what the app was given.
LEMMA MetFacts ==
    ASSUME TypeOK
    PROVE  /\ Met \in Seq(Conns)
           /\ \A i \in DOMAIN page.got : i \in DOMAIN Met /\ page.got[i] = Met[i]
           /\ page.queue = <<>> => Met = page.got
<1>1. page.got \in Seq(Conns) /\ page.queue \in Seq(Conns)
  BY DEF TypeOK
<1>2. page.queue = <<>> => Met = page.got
  BY <1>1, ConcatEmptySeq DEF Met
<1> QED
  BY <1>1, <1>2, StartFacts DEF Met

\* What splice leaves is a part of the queue in its order.
LEMMA WithoutFacts ==
    ASSUME NEW S, NEW s \in Seq(S), NEW at \in DOMAIN s
    PROVE  /\ Without(s, at) \in Seq(S) /\ Len(Without(s, at)) = Len(s) - 1
           /\ DOMAIN Without(s, at) = 1 .. Len(s) - 1
           /\ \A i \in DOMAIN Without(s, at) :
                 Without(s, at)[i] = s[IF i < at THEN i ELSE i + 1]
           /\ \A i \in DOMAIN s \ {at} : \E j \in DOMAIN Without(s, at) : Without(s, at)[j] = s[i]
<1> DEFINE n == Len(s) - 1
           u == [j \in 1 .. n |-> IF j < at THEN s[j] ELSE s[j + 1]]
<1>1. DOMAIN s = 1 .. Len(s) /\ Len(s) \in Nat /\ n \in Nat
  OBVIOUS
<1>2. Without(s, at) = u
  BY DEF Without
<1>3. \A i \in 1 .. n : i \in DOMAIN s /\ i + 1 \in DOMAIN s
  BY <1>1
<1>4. \A i \in 1 .. n : u[i] = s[IF i < at THEN i ELSE i + 1] /\ u[i] \in S
  BY <1>3
<1>5. u \in Seq(S) /\ Len(u) = n /\ DOMAIN u = 1 .. n
  <2> HIDE DEF n
  <2> QED BY <1>1, <1>4
<1>6. ASSUME NEW i \in DOMAIN s \ {at} PROVE \E j \in 1 .. n : u[j] = s[i]
  <2>1. CASE i < at
    BY <1>1, <1>4, <2>1
  <2>2. CASE i > at
    <3>1. i - 1 \in 1 .. n /\ ~(i - 1 < at) /\ (i - 1) + 1 = i
      BY <1>1, <2>2
    <3> QED BY <1>4, <3>1
  <2> QED BY <1>1, <2>1, <2>2
<1> QED
  BY <1>2, <1>4, <1>5, <1>6

Transit(s) == {i \in DOMAIN s : s[i].kind = "accepted"}

NoEnd(s) == \A i \in DOMAIN s : s[i].kind # "end"

\* With no end on its way, the connections on their way are the messages.
LEMMA TransitCount ==
    ASSUME NEW s \in Seq(Messages), NoEnd(s)
    PROVE  /\ Cardinality(Transit(s)) = Len(s)
           /\ Transit(s) = DOMAIN s
           /\ \A i \in DOMAIN s : s[i].conn \in Conns
<1>1. \A i \in DOMAIN s : s[i].kind = "accepted" /\ s[i].conn \in Conns
  BY DEF Messages, Accepted, End, NoEnd
<1>2. DOMAIN s = 1 .. Len(s) /\ Len(s) \in Nat
  BY LenProperties
<1>4. Transit(s) = DOMAIN s
  BY <1>1 DEF Transit
<1>3. ASSUME NEW n \in Nat PROVE Cardinality(1 .. n) = n
  <2>1. Cardinality(1 .. n) = IF 1 > n THEN 0 ELSE n - 1 + 1
    BY FS_Interval
  <2> QED BY <2>1
<1> QED
  BY <1>1, <1>2, <1>3, <1>4

\* Another connection on its way.
LEMMA PostFacts ==
    ASSUME toPage \in Seq(Messages), NoEnd(toPage), NEW c \in Conns,
           toPage' = Append(toPage, Accepted(c))
    PROVE  /\ toPage' \in Seq(Messages) /\ NoEnd(toPage') /\ Len(toPage') = Len(toPage) + 1 /\ Len(toPage) \in Nat
           /\ Transit(toPage') = Transit(toPage) \cup {Len(toPage) + 1} /\ toPage'[Len(toPage) + 1].conn = c
           /\ \A i \in Transit(toPage) : i < Len(toPage) + 1 /\ toPage'[i] = toPage[i]
           /\ DOMAIN toPage = 1 .. Len(toPage) /\ DOMAIN toPage' = 1 .. Len(toPage) + 1
<1> DEFINE m == Accepted(c)
           s == toPage
           t == toPage'
<1>1. m \in Messages /\ m.kind = "accepted" /\ m.conn = c
  BY DEF Messages, Accepted
<1>2. s \in Seq(Messages) /\ t = Append(s, m) /\ NoEnd(s)
  OBVIOUS
<1> HIDE DEF m, s, t
<1>3. /\ t \in Seq(Messages) /\ DOMAIN t = 1 .. Len(s) + 1
      /\ Len(t) = Len(s) + 1 /\ Len(s) \in Nat /\ DOMAIN s = 1 .. Len(s)
      /\ \A i \in DOMAIN s : t[i] = s[i]
      /\ t[Len(s) + 1] = m
  BY <1>1, <1>2, AppendProperties
<1>4. NoEnd(t)
  BY <1>1, <1>2, <1>3 DEF NoEnd
<1>5. Transit(t) = DOMAIN t /\ Transit(s) = DOMAIN s
  BY <1>2, <1>3, <1>4, TransitCount
<1>6. 1 .. Len(s) + 1 = (1 .. Len(s)) \cup {Len(s) + 1}
  BY <1>3
<1>7. Transit(t) = Transit(s) \cup {Len(s) + 1}
  BY <1>3, <1>5, <1>6
<1>8. \A i \in Transit(s) : i < Len(s) + 1 /\ t[i] = s[i]
  BY <1>3, <1>5
<1> QED
  BY <1>1, <1>3, <1>4, <1>7, <1>8 DEF s, t

\* The oldest message is taken off.
LEMMA TailFacts ==
    ASSUME NEW s \in Seq(Messages), s # <<>>
    PROVE  /\ Tail(s) \in Seq(Messages) /\ Len(Tail(s)) = Len(s) - 1
           /\ DOMAIN s = 1 .. Len(s) /\ DOMAIN Tail(s) = 1 .. Len(s) - 1
           /\ \A i \in DOMAIN Tail(s) : i + 1 \in DOMAIN s /\ Tail(s)[i] = s[i + 1]
           /\ Head(s) = s[1] /\ 1 \in DOMAIN s
           /\ \A i \in Transit(s) : i = 1 \/ i - 1 \in Transit(Tail(s))
           /\ \A i \in Transit(Tail(s)) : i + 1 \in Transit(s) /\ Tail(s)[i] = s[i + 1]
<1>1. /\ Tail(s) \in Seq(Messages) /\ Len(Tail(s)) = Len(s) - 1
      /\ \A i \in 1 .. Len(Tail(s)) : Tail(s)[i] = s[i + 1]
  BY HeadTailProperties
<1>2. Len(s) \in Nat \ {0} /\ DOMAIN s = 1 .. Len(s) /\ Head(s) = s[1]
  BY EmptySeq
<1>3. DOMAIN Tail(s) = 1 .. Len(s) - 1
  BY <1>1
<1>4. \A i \in DOMAIN Tail(s) : i + 1 \in DOMAIN s /\ Tail(s)[i] = s[i + 1]
  BY <1>1, <1>2, <1>3
<1>5. \A i \in Transit(s) : i = 1 \/ i - 1 \in Transit(Tail(s))
  <2> TAKE i \in Transit(s)
  <2>1. i \in 1 .. Len(s)
    BY <1>2 DEF Transit
  <2>2. CASE i # 1
    <3>1. i - 1 \in DOMAIN Tail(s) /\ (i - 1) + 1 = i
      BY <1>2, <1>3, <2>1, <2>2
    <3> QED BY <1>4, <3>1 DEF Transit
  <2> QED BY <2>2
<1> QED
  BY <1>1, <1>2, <1>3, <1>4, <1>5 DEF Transit

-----------------------------------------------------------------------------
(* The end of the server *)

Reasons == {"closed", "sessionEnded", "revoked", "failed"}

\* What closeTree and the relay's cleanup do together, whoever asks for it.
LEMMA CloseTreePreserves ==
    ASSUME IInv, handle = "live", page' = page,
           call' \in {"none", "asked", "closing", "done", "failed"},
           NEW left \in [queue : Seq(Conns), waiting : BOOLEAN, bound : BOOLEAN, reason : Reasons],
           left.queue = <<>>, ~left.waiting,
           NEW code \in {"clean", "revoked", "internal"},
           CloseTree(left, code)
    PROVE  IInv'
<1> USE DEF IInv
<1>1. toPage \in Seq(Messages) /\ "broker" \notin ends
  BY DEF TypeOK, Messages, PartsAgree
<1>2. CASE "page" \in ends
  <2>1. toPage = <<>> /\ toPage' = <<>> /\ Met' = Met /\ InTransit' = {}
    BY <1>2 DEF CloseTree, Posted, PartsAgree, Met, InTransit
  <2>2. \A c \in Conns : conn'[c] \in {"none", "closed"} /\ (conn'[c] = "none" <=> conn[c] = "none")
    BY DEF CloseTree, Over
  <2>3. TypeOK'
    BY <2>1 DEF TypeOK, CloseTree, Over, Reasons
  <2>4. PartsAgree'
    BY <1>2, <2>1 DEF PartsAgree, CloseTree, Reasons, TypeOK
  <2>5. QueueInOrder'
    <3>1. listener'.queue = <<>> /\ DOMAIN listener'.queue = {}
      BY DEF CloseTree
    <3>2. \A i \in DOMAIN Met : Met[i] \in Conns
      BY MetFacts
    <3> QED BY <2>1, <2>2, <3>1, <3>2 DEF QueueInOrder
  <2>6. PageAgrees'
    BY <2>1 DEF PageAgrees, CloseTree
  <2>7. NoStrayConnection'
    BY <2>2 DEF NoStrayConnection
  <2>8. InOrderThenEnd'
    BY <2>1 DEF InOrderThenEnd
  <2>9. OneReadOneAccept'
    BY DEF OneReadOneAccept, CloseTree
  <2> QED BY <2>3, <2>4, <2>5, <2>6, <2>7, <2>8, <2>9
<1>3. CASE "page" \notin ends
  <2> DEFINE e == End(code)
  <2>1. e \in Messages /\ e.kind = "end"
    BY DEF Messages, End
  <2>2. toPage' = Append(toPage, e)
    BY <1>3 DEF CloseTree, Posted
  <2> HIDE DEF e
  <2>3. /\ toPage' \in Seq(Messages) /\ DOMAIN toPage' = 1 .. Len(toPage) + 1
        /\ Len(toPage') = Len(toPage) + 1 /\ Len(toPage) \in Nat /\ DOMAIN toPage = 1 .. Len(toPage)
        /\ \A i \in DOMAIN toPage : toPage'[i] = toPage[i]
        /\ toPage'[Len(toPage) + 1] = e
    BY <1>1, <2>1, <2>2, AppendProperties
  <2>4. Met' = Met /\ InTransit' = InTransit /\ \A i \in InTransit : toPage'[i] = toPage[i]
    BY <2>1, <2>3 DEF Met, InTransit
  <2>5. \A c \in Conns : conn'[c] \in {"none", "closed"} /\ (conn'[c] = "none" <=> conn[c] = "none")
    BY DEF CloseTree, Over
  <2>6. \A i \in DOMAIN toPage : toPage[i].kind # "end"
    BY <1>1 DEF PageAgrees
  <2>7. ends = {}
    BY <1>1, <1>3 DEF TypeOK
  <2>8. TypeOK'
    BY <2>3 DEF TypeOK, CloseTree, Over, Reasons, Messages
  <2>9. PartsAgree'
    BY <1>3 DEF PartsAgree, CloseTree, Reasons, TypeOK
  <2>10. QueueInOrder'
    <3>1. listener'.queue = <<>> /\ DOMAIN listener'.queue = {}
      BY DEF CloseTree
    <3>2. \A i \in DOMAIN Met : Met[i] \in Conns
      BY MetFacts
    <3>3. \A i \in InTransit : toPage[i].conn \in Conns
      BY <1>1 DEF InTransit, Messages, Accepted, End
    <3> QED BY <2>4, <2>5, <3>1, <3>2, <3>3 DEF QueueInOrder
  <2>11. PageAgrees'
    BY DEF PageAgrees, CloseTree
  <2>12. NoStrayConnection'
    BY <2>5 DEF NoStrayConnection
  <2>13. InOrderThenEnd'
    <3>1. page.stream \in {"open", "cancelled"}
      BY <2>7 DEF PageAgrees, TypeOK
    <3> QED BY <2>3, <2>4, <2>6, <3>1 DEF InOrderThenEnd
  <2>14. OneReadOneAccept'
    BY DEF OneReadOneAccept, CloseTree
  <2> QED BY <2>8, <2>9, <2>10, <2>11, <2>12, <2>13, <2>14
<1> QED
  BY <1>2, <1>3

-----------------------------------------------------------------------------
(* Accepting *)

\* Connection c, older than the queue and younger than all before it, goes to the page
\* for one credit or one unit of demand, and leaves the queue q, a read that waits or
\* none, and a demand of n.
HandsOver(c, q, waits, n) ==
    /\ handle = "live" /\ listener.reason = "none" /\ UNCHANGED <<handle, ends, page, call>>
    /\ conn[c] \in {"none", "queued"} /\ conn' = [conn EXCEPT ![c] = "live"]
    /\ toPage' = Posted(Accepted(c))
    /\ listener' = [listener EXCEPT !.queue = q, !.waiting = waits]
    /\ pump' = [pump EXCEPT !.demand = n]
    /\ waits => q = <<>>
    /\ waits <=> n > 0
    /\ credits' \in Nat /\ credits + pump.demand = credits' + n + 1

InTurn(c, q) ==
    /\ \A d \in Conns : d < c => conn[d] # "none"
    /\ \A i \in DOMAIN Met : Met[i] < c
    /\ \A i \in InTransit : toPage[i].conn < c
    /\ \A j \in DOMAIN q : c < q[j] /\ conn[q[j]] = "queued"
    /\ \A i, j \in DOMAIN q : i < j => q[i] < q[j]
    /\ \A d \in Conns \ {c} : conn[d] = "queued" => \E j \in DOMAIN q : q[j] = d

\* Handing a connection over keeps the invariant.
LEMMA HandOverPreserves ==
    ASSUME IInv, NEW c \in Conns, NEW q \in Seq(Conns), NEW w \in BOOLEAN, NEW n \in 0 .. MaxDemand,
           HandsOver(c, q, w, n), InTurn(c, q)
    PROVE  IInv'
<1> USE DEF IInv, HandsOver, InTurn
<1> USE ServerAssumption
<1>1. toPage \in Seq(Messages) /\ "broker" \notin ends /\ ends \subseteq {"broker", "page"} /\ NoEnd(toPage)
  BY DEF TypeOK, Messages, PartsAgree, PageAgrees, NoEnd
<1>2. listener'.queue = q /\ listener'.waiting = w /\ listener'.reason = "none" /\ listener'.bound = listener.bound
      /\ pump'.demand = n /\ pump'.stopped = pump.stopped
  BY DEF TypeOK
<1>3. Met' = Met /\ (\A i \in DOMAIN Met : Met[i] \in Conns)
      /\ (\A i \in InTransit : i \in DOMAIN toPage /\ toPage[i].conn \in Conns)
  <2>1. \A i \in DOMAIN Met : Met[i] \in Conns
    BY MetFacts
  <2>2. \A i \in InTransit : i \in DOMAIN toPage /\ toPage[i].conn \in Conns
    BY <1>1 DEF InTransit, Messages, Accepted, End
  <2> QED BY <2>1, <2>2 DEF Met
<1>4. /\ conn' \in [Conns -> {"none", "queued", "live", "closed"}]
      /\ conn'[c] = "live" /\ \A d \in Conns \ {c} : conn'[d] = conn[d]
  BY DEF TypeOK
<1>5. PartsAgree'
  <2>1. "page" \notin ends \/ toPage' = toPage
    BY DEF Posted
  <2> QED BY <1>2, <2>1 DEF PartsAgree
<1>6. \A d, e \in Conns : d < e /\ conn'[e] # "none" => conn'[d] # "none"
  BY <1>4 DEF QueueInOrder
<1>7. /\ \A i \in DOMAIN q : conn'[q[i]] = "queued"
      /\ \A i \in DOMAIN Met : conn'[Met[i]] # "none"
      /\ \A i \in DOMAIN Met, j \in DOMAIN q : Met[i] < q[j]
      /\ \A i \in InTransit : conn'[toPage[i].conn] # "none"
      /\ \A i \in InTransit, j \in DOMAIN q : toPage[i].conn < q[j]
  <2>1. \A i \in DOMAIN q : q[i] \in Conns \ {c}
    <3> TAKE i \in DOMAIN q
    <3>1. q[i] \in Conns
      BY ElementOfSeq, LenProperties
    <3>2. c < q[i]
      OBVIOUS
    <3> QED BY <3>1, <3>2 DEF Conns
  <2>2. \A i \in DOMAIN q : conn'[q[i]] = "queued"
    BY <1>4, <2>1
  <2>3. \A i \in DOMAIN Met : conn'[Met[i]] # "none"
    BY <1>3, <1>4 DEF QueueInOrder
  <2>4. \A i \in InTransit : conn'[toPage[i].conn] # "none"
    BY <1>3, <1>4 DEF QueueInOrder
  <2>5. \A i \in DOMAIN Met, j \in DOMAIN q : Met[i] < q[j]
    BY <1>3, <2>1 DEF Conns
  <2>6. \A i \in InTransit, j \in DOMAIN q : toPage[i].conn < q[j]
    BY <1>3, <2>1 DEF Conns
  <2> QED BY <2>2, <2>3, <2>4, <2>5, <2>6
<1>8. CASE "page" \in ends
  <2>1. toPage = <<>> /\ toPage' = <<>> /\ InTransit' = {} /\ InTransit = {}
    BY <1>8 DEF Posted, PartsAgree, InTransit
  <2>2. TypeOK'
    BY <1>2, <1>4, <2>1 DEF TypeOK
  <2>3. QueueInOrder'
    BY <1>2, <1>3, <1>6, <1>7, <2>1 DEF QueueInOrder
  <2>4. PageAgrees'
    BY <2>1 DEF PageAgrees
  <2>5. NoStrayConnection'
    BY <1>2, <1>4, <1>8, <2>1, <1>3 DEF NoStrayConnection, PartsAgree
  <2>6. InOrderThenEnd'
    BY <1>3, <2>1 DEF InOrderThenEnd
  <2>7. OneReadOneAccept'
    BY <1>8 DEF OneReadOneAccept
  <2> QED BY <1>5, <2>2, <2>3, <2>4, <2>5, <2>6, <2>7
<1>9. CASE "page" \notin ends
  <2>1. toPage' = Append(toPage, Accepted(c))
    BY <1>9 DEF Posted
  <2>2. /\ toPage' \in Seq(Messages) /\ NoEnd(toPage') /\ Len(toPage') = Len(toPage) + 1 /\ Len(toPage) \in Nat
        /\ Transit(toPage') = Transit(toPage) \cup {Len(toPage) + 1} /\ toPage'[Len(toPage) + 1].conn = c
        /\ \A i \in Transit(toPage) : i < Len(toPage) + 1 /\ toPage'[i] = toPage[i]
    BY <1>1, <2>1, PostFacts
  <2>3. InTransit' = InTransit \cup {Len(toPage) + 1} /\ (\A i \in InTransit : toPage'[i] = toPage[i])
        /\ (\A i \in InTransit : i < Len(toPage) + 1) /\ InTransit = Transit(toPage) /\ InTransit' = Transit(toPage')
    BY <2>2 DEF InTransit, Transit
  <2>4. ends = {}
    BY <1>1, <1>9
  <2>5. TypeOK'
    BY <1>2, <1>4, <2>2 DEF TypeOK, Messages
  <2>6. QueueInOrder'
    <3>1. \A i \in InTransit' : conn'[toPage'[i].conn] # "none"
      <4> TAKE i \in InTransit'
      <4>1. CASE i \in InTransit
        <5>1. toPage'[i] = toPage[i]
          BY <2>3, <4>1, Zenon
        <5>2. conn'[toPage[i].conn] # "none"
          BY <1>7, <4>1, Zenon
        <5> QED BY <5>1, <5>2, Zenon
      <4>2. CASE i = Len(toPage) + 1
        BY <1>4, <2>2, <4>2
      <4> QED BY <2>3, <4>1, <4>2
    <3>2. \A i \in InTransit', j \in DOMAIN q : toPage'[i].conn < q[j]
      <4> TAKE i \in InTransit', j \in DOMAIN q
      <4>1. CASE i \in InTransit
        <5>1. toPage'[i] = toPage[i]
          BY <2>3, <4>1, Zenon
        <5>2. toPage[i].conn < q[j]
          BY <1>7, <4>1, Zenon
        <5> QED BY <5>1, <5>2, Zenon
      <4>2. CASE i = Len(toPage) + 1
        BY <2>2, <4>2
      <4> QED BY <2>3, <4>1, <4>2
    <3> QED BY <1>2, <1>3, <1>6, <1>7, <3>1, <3>2 DEF QueueInOrder
  <2>7. PageAgrees'
    BY <2>2 DEF PageAgrees, NoEnd
  <2>8. NoStrayConnection'
    <3>1. ASSUME NEW d \in Conns, conn'[d] = "queued"
          PROVE  \E i \in DOMAIN q : q[i] = d
      BY <1>4, <3>1
    <3>2. ASSUME NEW d \in Conns, conn'[d] = "live", page.here, page.stream # "cancelled"
          PROVE  (\E i \in DOMAIN Met : Met[i] = d) \/ (\E i \in InTransit' : toPage'[i].conn = d)
      <4>1. CASE d = c
        BY <2>2, <2>3, <4>1
      <4>2. CASE d # c
        <5>1. (\E i \in DOMAIN Met : Met[i] = d) \/ (\E i \in InTransit : toPage[i].conn = d)
          BY <1>4, <3>2, <4>2 DEF NoStrayConnection
        <5> QED BY <2>3, <5>1
      <4> QED BY <4>1, <4>2
    <3> QED BY <1>2, <1>3, <3>1, <3>2 DEF NoStrayConnection
  <2>9. InOrderThenEnd'
    <3>1. page.stream \in {"open", "cancelled"}
      BY <2>4 DEF PageAgrees, TypeOK
    <3>2. \A i, j \in InTransit' : i < j => toPage'[i].conn < toPage'[j].conn
      <4> SUFFICES ASSUME NEW i \in InTransit', NEW j \in InTransit', i < j
                   PROVE  toPage'[i].conn < toPage'[j].conn
        OBVIOUS
      <4>1. i \in InTransit
        BY <1>3, <2>2, <2>3
      <4>2. CASE j \in InTransit
        BY <2>3, <4>1, <4>2 DEF InOrderThenEnd
      <4>3. CASE j = Len(toPage) + 1
        BY <2>2, <2>3, <4>1, <4>3
      <4> QED BY <2>3, <4>2, <4>3
    <3>3. \A i \in DOMAIN Met, j \in InTransit' : Met[i] < toPage'[j].conn
      BY <2>2, <2>3 DEF InOrderThenEnd
    <3> QED BY <1>3, <2>2, <3>1, <3>2, <3>3 DEF InOrderThenEnd, NoEnd
  <2>10. OneReadOneAccept'
    <3>1. Cardinality(InTransit) = Len(toPage) /\ Cardinality(InTransit') = Len(toPage')
      BY <1>1, <2>2, <2>3, TransitCount
    <3>2. ASSUME page.stream = "open", ~page.overlapped
          PROVE  page.queue = <<>> /\ page.reads = credits' + n + Cardinality(InTransit')
      <4>1. page.queue = <<>> /\ page.reads = credits + pump.demand + Cardinality(InTransit)
        BY <2>4, <3>2 DEF OneReadOneAccept
      <4>2. credits \in Nat /\ pump.demand \in Nat /\ n \in Nat
        BY DEF TypeOK
      <4>3. \A a, b, x, y, l \in Nat : a + b = x + y + 1 => a + b + l = x + y + (l + 1)
        OBVIOUS
      <4>4. credits + pump.demand + Len(toPage) = credits' + n + (Len(toPage) + 1)
        BY <2>2, <4>2, <4>3
      <4>5. page.reads = credits + pump.demand + Len(toPage)
        BY <3>1, <4>1
      <4>6. Cardinality(InTransit') = Len(toPage) + 1
        BY <2>2, <3>1
      <4> QED BY <4>1, <4>4, <4>5, <4>6
    <3> QED BY <1>2, <3>2 DEF OneReadOneAccept
  <2> QED BY <1>5, <2>5, <2>6, <2>7, <2>8, <2>9, <2>10
<1> QED
  BY <1>8, <1>9

-----------------------------------------------------------------------------
(* Peers and the queue *)

\* A step on the broker's side that sends the page nothing: what it leaves alone, what
\* it makes of the queue, and what of the demand.
QuietShape ==
    /\ UNCHANGED <<handle, toPage, ends, page, call>> /\ pump'.stopped = pump.stopped
    /\ conn' \in [Conns -> {"none", "queued", "live", "closed"}]
    /\ listener' \in [queue : Seq(Conns), waiting : BOOLEAN, bound : BOOLEAN,
                      reason : Reasons \cup {"none"}]
    /\ pump' \in [demand : 0 .. MaxDemand, stopped : BOOLEAN] /\ credits' \in Nat
    /\ ~pump'.stopped => (listener'.waiting <=> pump'.demand > 0)
    /\ handle = "gone" => listener'.reason # "none"
    /\ handle = "live" => listener'.reason \in {"none", "failed"}
    /\ listener'.reason # "none" => listener'.queue = <<>> /\ ~listener'.waiting
    /\ listener'.waiting => listener'.queue = <<>>

QuietQueue ==
    /\ \A c, d \in Conns : c < d /\ conn'[d] # "none" => conn'[c] # "none"
    /\ \A c \in Conns : conn[c] # "none" => conn'[c] # "none"
    /\ \A c \in Conns : conn'[c] = "live" => conn[c] = "live"
    /\ \A c \in Conns : conn'[c] = "queued" =>
          listener'.reason = "none" /\ \E i \in DOMAIN listener'.queue : listener'.queue[i] = c
    /\ \A i \in DOMAIN listener'.queue : conn'[listener'.queue[i]] = "queued"
    /\ \A i, j \in DOMAIN listener'.queue : i < j => listener'.queue[i] < listener'.queue[j]
    /\ \A i \in DOMAIN Met, j \in DOMAIN listener'.queue : Met[i] < listener'.queue[j]
    /\ \A i \in InTransit, j \in DOMAIN listener'.queue : toPage[i].conn < listener'.queue[j]

QuietCount ==
    ends = {} /\ page.stream = "open" /\ ~page.overlapped =>
        credits + pump.demand = credits' + pump'.demand

\* A step that posts nothing keeps it.
LEMMA QuietPreserves ==
    ASSUME IInv, QuietShape, QuietQueue, QuietCount
    PROVE  IInv'
<1> USE DEF IInv, QuietShape, QuietQueue, QuietCount
<1>1. Met' = Met /\ InTransit' = InTransit
  BY DEF Met, InTransit
<1>2. \A i \in DOMAIN Met : Met[i] \in Conns
  BY MetFacts
<1>3. \A i \in InTransit : toPage[i].conn \in Conns
  <2>1. toPage \in Seq(Messages)
    BY DEF TypeOK, Messages
  <2> QED BY <2>1 DEF InTransit, Messages, Accepted, End
<1>4. TypeOK'
  BY DEF TypeOK, Reasons
<1>5. PartsAgree'
  BY DEF PartsAgree
<1>6. QueueInOrder'
  <2>1. \A i \in DOMAIN Met : conn'[Met[i]] # "none"
    BY <1>2 DEF QueueInOrder
  <2>2. \A i \in InTransit : conn'[toPage[i].conn] # "none"
    BY <1>3 DEF QueueInOrder
  <2> QED BY <1>1, <2>1, <2>2 DEF QueueInOrder
<1>7. PageAgrees'
  BY DEF PageAgrees
<1>8. NoStrayConnection'
  BY <1>1 DEF NoStrayConnection
<1>9. InOrderThenEnd'
  BY <1>1 DEF InOrderThenEnd
<1>10. OneReadOneAccept'
  <2>1. credits \in Nat /\ pump.demand \in Nat /\ pump'.demand \in Nat
    BY DEF TypeOK
  <2> QED BY <1>1, <2>1 DEF OneReadOneAccept
<1> QED
  BY <1>4, <1>5, <1>6, <1>7, <1>8, <1>9, <1>10

\* The types of the parts, and of the connections they name.
LEMMA ListenerFacts ==
    ASSUME IInv
    PROVE  /\ listener \in [queue : Seq(Conns), waiting : BOOLEAN, bound : BOOLEAN,
                            reason : Reasons \cup {"none"}]
           /\ pump \in [demand : 0 .. MaxDemand, stopped : BOOLEAN] /\ credits \in Nat
           /\ conn \in [Conns -> {"none", "queued", "live", "closed"}]
           /\ DOMAIN listener.queue = 1 .. Len(listener.queue) /\ Len(listener.queue) \in Nat
           /\ \A i \in DOMAIN listener.queue : listener.queue[i] \in Conns
           /\ \A i \in DOMAIN Met : Met[i] \in Conns
           /\ \A i \in InTransit : toPage[i].conn \in Conns
<1>1. \A i \in DOMAIN Met : Met[i] \in Conns
  BY MetFacts DEF IInv
<1>2. \A i \in InTransit : toPage[i].conn \in Conns
  <2>1. toPage \in Seq(Messages)
    BY DEF IInv, TypeOK, Messages
  <2> QED BY <2>1 DEF InTransit, Messages, Accepted, End
<1>3. listener.queue \in Seq(Conns)
  BY DEF IInv, TypeOK
<1> QED
  BY <1>1, <1>2, <1>3, LenProperties, ElementOfSeq DEF IInv, TypeOK, Reasons

\* A new connection is the youngest.
LEMMA MadeFacts ==
    ASSUME IInv, NEW c \in Conns, Made(c)
    PROVE  /\ conn[c] = "none" /\ \A d \in Conns : conn[d] # "none" <=> d < c
           /\ \A i \in DOMAIN Met : Met[i] < c
           /\ \A i \in InTransit : toPage[i].conn < c
           /\ \A i \in DOMAIN listener.queue : listener.queue[i] < c
<1>1. conn[c] = "none" /\ \A d \in Conns : d < c => conn[d] # "none"
  BY DEF Made, Conns
<1>2. \A d \in Conns : conn[d] # "none" => d < c
  <2> TAKE d \in Conns
  <2>1. CASE c < d
    BY <1>1, <2>1 DEF IInv, QueueInOrder
  <2> QED BY <1>1, <2>1, ServerAssumption DEF Conns
<1> QED
  BY <1>1, <1>2, ListenerFacts DEF IInv, QueueInOrder

\* A peer connects.
LEMMA ConnectsPreserves ==
    ASSUME IInv, NEW c \in Conns, Connects(c)
    PROVE  IInv'
<1>1. Made(c) /\ UNCHANGED <<handle, credits, ends, page, call>>
  BY DEF Connects
<1>2. /\ conn[c] = "none" /\ \A d \in Conns : conn[d] # "none" <=> d < c
      /\ \A i \in DOMAIN Met : Met[i] < c
      /\ \A i \in InTransit : toPage[i].conn < c
      /\ \A i \in DOMAIN listener.queue : listener.queue[i] < c
  BY <1>1, MadeFacts
<1>3. CASE Refused /\ conn' = [conn EXCEPT ![c] = "closed"] /\ UNCHANGED <<listener, pump, toPage>>
  <2>1. \A d \in Conns : conn'[d] = IF d = c THEN "closed" ELSE conn[d]
    BY <1>3, ListenerFacts
  <2>2. QuietShape
    BY <1>1, <1>3, ListenerFacts DEF QuietShape, IInv, TypeOK, PartsAgree
  <2>3. QuietQueue
    <3>1. \A d, e \in Conns : d < e /\ conn'[e] # "none" => conn'[d] # "none"
      BY <1>2, <2>1 DEF IInv, QueueInOrder, Conns
    <3>2. \A i \in DOMAIN listener.queue : conn'[listener.queue[i]] = "queued"
      BY <1>2, <2>1, ListenerFacts DEF IInv, QueueInOrder
    <3> QED BY <1>3, <2>1, <3>1, <3>2 DEF QuietQueue, IInv, QueueInOrder, NoStrayConnection
  <2>4. QuietCount
    BY <1>1, <1>3 DEF QuietCount
  <2> QED BY <2>2, <2>3, <2>4, QuietPreserves
<1>4. CASE ~Refused /\ listener.waiting /\ Handed(c)
  <2>1. listener.queue = <<>> /\ listener.reason = "none" /\ handle = "live" /\ ~pump.stopped /\ pump.demand > 0
    BY <1>4 DEF IInv, PartsAgree, TypeOK
  <2>2. pump.demand \in 0 .. MaxDemand /\ credits \in Nat /\ MaxDemand \in Nat
    BY ServerAssumption DEF IInv, TypeOK
  <2> DEFINE n == pump.demand - 1
             w == pump.demand > 1
  <2>3. n \in 0 .. MaxDemand /\ w \in BOOLEAN /\ (w <=> n > 0) /\ credits + pump.demand = credits + n + 1
    BY <2>1, <2>2
  <2>4. HandsOver(c, <<>>, w, n)
    <3>1. listener' = [listener EXCEPT !.queue = <<>>, !.waiting = w]
      BY <1>4, <2>1, ListenerFacts DEF Handed
    <3> HIDE DEF w
    <3> QED BY <1>1, <1>2, <1>4, <2>1, <2>2, <2>3, <3>1 DEF Handed, HandsOver
  <2>5. InTurn(c, <<>>)
    <3>1. \A d \in Conns \ {c} : conn[d] # "queued"
      BY <2>1 DEF IInv, NoStrayConnection
    <3> QED BY <1>2, <3>1 DEF InTurn
  <2> HIDE DEF n, w
  <2>6. <<>> \in Seq(Conns)
    OBVIOUS
  <2> QED BY <2>3, <2>4, <2>5, <2>6, HandOverPreserves
<1>5. CASE /\ ~Refused /\ ~listener.waiting /\ conn' = [conn EXCEPT ![c] = "queued"]
           /\ listener' = [listener EXCEPT !.queue = Append(@, c)] /\ UNCHANGED <<pump, toPage>>
  <2> DEFINE q == listener.queue
             r == Append(listener.queue, c)
  <2>1. \A d \in Conns : conn'[d] = IF d = c THEN "queued" ELSE conn[d]
    BY <1>5, ListenerFacts
  <2>2. /\ r \in Seq(Conns) /\ DOMAIN q = 1 .. Len(q) /\ Len(q) \in Nat /\ DOMAIN r = 1 .. Len(q) + 1
        /\ r[Len(q) + 1] = c /\ \A i \in DOMAIN q : r[i] = q[i] /\ i \in DOMAIN r
        /\ \A i \in DOMAIN r : i \in DOMAIN q \/ i = Len(q) + 1
    BY ListenerFacts, AppendProperties
  <2>3. listener'.queue = r /\ listener'.waiting = listener.waiting
        /\ listener'.bound = listener.bound /\ listener'.reason = "none" /\ listener.reason = "none"
    BY <1>5, ListenerFacts DEF Refused
  <2> HIDE DEF r
  <2>4. QuietShape
    BY <1>1, <1>5, <2>1, <2>2, <2>3, ListenerFacts DEF QuietShape, IInv, TypeOK, PartsAgree
  <2>5. QuietQueue
    <3>1. \A d, e \in Conns : d < e /\ conn'[e] # "none" => conn'[d] # "none"
      BY <1>2, <2>1 DEF IInv, QueueInOrder, Conns
    <3>2. \A i \in DOMAIN r : conn'[r[i]] = "queued"
      BY <1>2, <2>1, <2>2, ListenerFacts DEF IInv, QueueInOrder
    <3>3. \A i, j \in DOMAIN r : i < j => r[i] < r[j]
      BY <1>2, <2>2 DEF IInv, QueueInOrder
    <3>4. /\ \A i \in DOMAIN Met, j \in DOMAIN r : Met[i] < r[j]
          /\ \A i \in InTransit, j \in DOMAIN r : toPage[i].conn < r[j]
      BY <1>2, <2>2 DEF IInv, QueueInOrder
    <3>5. \A d \in Conns : conn'[d] = "queued" => \E i \in DOMAIN r : r[i] = d
      BY <2>1, <2>2 DEF IInv, NoStrayConnection
    <3> QED BY <2>1, <2>3, <3>1, <3>2, <3>3, <3>4, <3>5 DEF QuietQueue
  <2>6. QuietCount
    BY <1>1, <1>5 DEF QuietCount
  <2> QED BY <2>4, <2>5, <2>6, QuietPreserves
<1> QED
  BY <1>1, <1>3, <1>4, <1>5 DEF Connects

\* A queued peer goes away.
LEMMA QueuedEndsPreserves ==
    ASSUME IInv, NEW c \in Conns, QueuedEnds(c)
    PROVE  IInv'
<1>1. conn[c] = "queued" /\ UNCHANGED <<handle, pump, toPage, credits, ends, page, call>>
  BY DEF QueuedEnds
<1>2. PICK at \in DOMAIN listener.queue :
         listener.queue[at] = c /\ listener' = [listener EXCEPT !.queue = Without(@, at)]
  BY DEF QueuedEnds
<1> DEFINE q == listener.queue
           r == Without(listener.queue, at)
<1>3. \A d \in Conns : conn'[d] = IF d = c THEN "closed" ELSE conn[d]
  BY ListenerFacts DEF QueuedEnds
<1>4. /\ r \in Seq(Conns) /\ DOMAIN r = 1 .. Len(q) - 1 /\ DOMAIN q = 1 .. Len(q) /\ Len(q) \in Nat
      /\ \A i \in DOMAIN r : r[i] = q[IF i < at THEN i ELSE i + 1]
      /\ \A i \in DOMAIN q \ {at} : \E j \in DOMAIN r : r[j] = q[i]
  BY ListenerFacts, WithoutFacts
<1>5. listener'.queue = r /\ listener'.waiting = listener.waiting
      /\ listener'.bound = listener.bound /\ listener'.reason = "none" /\ listener.reason = "none"
  BY <1>1, <1>2, ListenerFacts DEF IInv, NoStrayConnection
<1> HIDE DEF r
<1>6. QuietShape
  <2>1. ~listener.waiting
    BY <1>4 DEF IInv, PartsAgree
  <2> QED BY <1>1, <1>2, <1>4, <1>5, <1>3, <2>1, ListenerFacts DEF QuietShape, IInv, TypeOK, PartsAgree, QueuedEnds
<1>7. QuietQueue
  <2> DEFINE k(i) == IF i < at THEN i ELSE i + 1
  <2>1. \A i \in DOMAIN r : k(i) \in DOMAIN q \ {at} /\ r[i] = q[k(i)]
    BY <1>4
  <2>2. \A i, j \in DOMAIN r : i < j => k(i) < k(j)
    BY <1>4
  <2> HIDE DEF k
  <2>3. \A i \in DOMAIN q \ {at} : q[i] # c /\ q[i] \in Conns
    <3> TAKE i \in DOMAIN q \ {at}
    <3>1. i \in Nat /\ at \in Nat /\ q[i] \in Conns /\ q[at] \in Conns
      BY <1>4, ListenerFacts
    <3>2. CASE i < at
      BY <1>2, <3>1, <3>2, ServerAssumption DEF IInv, QueueInOrder, Conns
    <3>3. CASE at < i
      BY <1>2, <3>1, <3>3, ServerAssumption DEF IInv, QueueInOrder, Conns
    <3> QED BY <3>1, <3>2, <3>3
  <2>4. \A d, e \in Conns : d < e /\ conn'[e] # "none" => conn'[d] # "none"
    BY <1>1, <1>3 DEF IInv, QueueInOrder
  <2>5. \A i \in DOMAIN r : conn'[r[i]] = "queued"
    BY <1>3, <2>1, <2>3 DEF IInv, QueueInOrder
  <2>6. \A i, j \in DOMAIN r : i < j => r[i] < r[j]
    BY <2>1, <2>2 DEF IInv, QueueInOrder
  <2>7. /\ \A i \in DOMAIN Met, j \in DOMAIN r : Met[i] < r[j]
        /\ \A i \in InTransit, j \in DOMAIN r : toPage[i].conn < r[j]
    BY <2>1 DEF IInv, QueueInOrder
  <2>8. \A d \in Conns : conn'[d] = "queued" => \E i \in DOMAIN r : r[i] = d
    <3> SUFFICES ASSUME NEW d \in Conns, conn'[d] = "queued" PROVE \E i \in DOMAIN r : r[i] = d
      OBVIOUS
    <3>1. d # c /\ conn[d] = "queued"
      BY <1>3
    <3>2. PICK i \in DOMAIN q : q[i] = d
      BY <3>1 DEF IInv, NoStrayConnection
    <3> QED BY <1>2, <1>4, <3>1, <3>2
  <2> QED BY <1>1, <1>3, <1>5, <2>4, <2>5, <2>6, <2>7, <2>8 DEF QuietQueue
<1>8. QuietCount
  BY <1>1 DEF QuietCount
<1> QED
  BY <1>6, <1>7, <1>8, QuietPreserves

\* An accepted socket ends.
LEMMA SocketEndsPreserves ==
    ASSUME IInv, NEW c \in Conns, SocketEnds(c)
    PROVE  IInv'
<1>1. conn[c] = "live" /\ UNCHANGED <<listener, handle, pump, toPage, credits, ends, page, call>>
  BY DEF SocketEnds
<1>2. \A d \in Conns : conn'[d] = IF d = c THEN "closed" ELSE conn[d]
  BY ListenerFacts DEF SocketEnds
<1>3. QuietShape
  BY <1>1, <1>2, ListenerFacts DEF QuietShape, IInv, TypeOK, PartsAgree, SocketEnds
<1>4. QuietQueue
  <2>1. \A i \in DOMAIN listener.queue : conn'[listener.queue[i]] = "queued"
    BY <1>1, <1>2, ListenerFacts DEF IInv, QueueInOrder
  <2>2. \A d, e \in Conns : d < e /\ conn'[e] # "none" => conn'[d] # "none"
    BY <1>1, <1>2 DEF IInv, QueueInOrder
  <2> QED BY <1>1, <1>2, <2>1, <2>2 DEF QuietQueue, IInv, QueueInOrder, NoStrayConnection
<1>5. QuietCount
  BY <1>1 DEF QuietCount
<1> QED
  BY <1>3, <1>4, <1>5, QuietPreserves

\* The listening socket fails.
LEMMA ListenerFailsPreserves ==
    ASSUME IInv, ListenerFails
    PROVE  IInv'
<1> DEFINE failed == [listener EXCEPT !.queue = <<>>, !.waiting = FALSE, !.reason = "failed"]
<1>1. listener.reason = "none" /\ handle = "live" /\ UNCHANGED <<page, call>>
  BY DEF ListenerFails, IInv, TypeOK, PartsAgree
<1>2. /\ failed \in [queue : Seq(Conns), waiting : BOOLEAN, bound : BOOLEAN, reason : Reasons]
      /\ failed.queue = <<>> /\ ~failed.waiting /\ failed.reason = "failed"
  <2>1. <<>> \in Seq(Conns)
    OBVIOUS
  <2> QED BY <2>1, ListenerFacts DEF Reasons
<1> HIDE DEF failed
<1>3. CASE listener.waiting /\ CloseTree(failed, "internal")
  BY <1>1, <1>2, <1>3, CloseTreePreserves DEF IInv, TypeOK
<1>4. CASE /\ ~listener.waiting /\ listener' = failed
           /\ conn' = [c \in Conns |-> IF conn[c] = "queued" THEN "closed" ELSE conn[c]]
           /\ UNCHANGED <<handle, pump, toPage, credits, ends>>
  <2>1. \A d \in Conns : conn'[d] = IF conn[d] = "queued" THEN "closed" ELSE conn[d]
    BY <1>4
  <2>2. QuietShape
    BY <1>1, <1>2, <1>4, ListenerFacts DEF QuietShape, IInv, TypeOK, PartsAgree, Reasons
  <2>3. QuietQueue
    BY <1>2, <1>4, <2>1 DEF QuietQueue, IInv, QueueInOrder
  <2>4. QuietCount
    BY <1>4 DEF QuietCount
  <2> QED BY <2>2, <2>3, <2>4, QuietPreserves
<1> QED
  BY <1>3, <1>4 DEF ListenerFails, failed

-----------------------------------------------------------------------------
(* The accept pump *)

\* Without overlapping reads there is one read, one credit or one unit of demand.
LEMMA OneAtATime ==
    ASSUME IInv, ends = {}, page.stream = "open", ~page.overlapped
    PROVE  credits + pump.demand <= 1
<1>1. toPage \in Seq(Messages) /\ NoEnd(toPage) /\ credits \in Nat /\ pump.demand \in Nat /\ page.reads \in Nat
  BY DEF IInv, TypeOK, Messages, PageAgrees, NoEnd
<1>2. Cardinality(InTransit) = Len(toPage) /\ Len(toPage) \in Nat
  BY <1>1, TransitCount, LenProperties DEF InTransit, Transit
<1>3. page.reads = credits + pump.demand + Cardinality(InTransit) /\ page.reads <= 1
  BY DEF IInv, OneReadOneAccept, PageAgrees
<1> QED
  BY <1>1, <1>2, <1>3

\* The pump asks the listener for a connection.
LEMMA PulledPreserves ==
    ASSUME IInv, credits > 0, "broker" \notin ends, ~listener.waiting, listener.reason = "none",
           credits' = credits - 1, Pulled, UNCHANGED <<handle, ends, page, call>>
    PROVE  IInv'
<1> DEFINE q == listener.queue
<1>1. handle = "live" /\ ~pump.stopped /\ pump.demand = 0 /\ credits \in Nat /\ MaxDemand \in Nat \ {0}
  BY ServerAssumption DEF IInv, TypeOK, PartsAgree
<1>2. CASE /\ Room /\ q # <<>> /\ conn' = [conn EXCEPT ![q[Oldest]] = "live"]
           /\ toPage' = Posted(Accepted(q[Oldest]))
           /\ listener' = [listener EXCEPT !.queue = Without(@, Oldest)] /\ UNCHANGED pump
  <2> DEFINE c == q[1]
             r == Without(q, 1)
  <2>1. q \in Seq(Conns) /\ 1 \in DOMAIN q /\ DOMAIN q = 1 .. Len(q) /\ Len(q) \in Nat /\ c \in Conns
    BY <1>2, ListenerFacts, EmptySeq
  <2>2. /\ r \in Seq(Conns) /\ DOMAIN r = 1 .. Len(q) - 1
        /\ \A i \in DOMAIN r : i + 1 \in DOMAIN q /\ r[i] = q[i + 1]
        /\ \A i \in DOMAIN q \ {1} : \E j \in DOMAIN r : r[j] = q[i]
    <3>1. /\ r \in Seq(Conns) /\ DOMAIN r = 1 .. Len(q) - 1
          /\ \A i \in DOMAIN r : r[i] = q[IF i < 1 THEN i ELSE i + 1]
          /\ \A i \in DOMAIN q \ {1} : \E j \in DOMAIN r : r[j] = q[i]
      BY <2>1, WithoutFacts
    <3> HIDE DEF r
    <3> QED BY <2>1, <3>1
  <2> HIDE DEF r
  <2>3. HandsOver(c, r, FALSE, 0)
    <3>1. listener' = [listener EXCEPT !.queue = r, !.waiting = FALSE]
      BY <1>2, ListenerFacts DEF r, Oldest
    <3>2. pump' = [pump EXCEPT !.demand = 0]
      BY <1>1, <1>2, ListenerFacts
    <3>3. conn[c] = "queued"
      BY <2>1 DEF IInv, QueueInOrder
    <3>4. conn' = [conn EXCEPT ![c] = "live"] /\ toPage' = Posted(Accepted(c))
      BY <1>2 DEF Oldest
    <3>5. credits' \in Nat /\ credits + pump.demand = credits' + 0 + 1
      BY <1>1
    <3> HIDE DEF c
    <3> QED BY <1>1, <3>1, <3>2, <3>3, <3>4, <3>5 DEF HandsOver
  <2>4. InTurn(c, r)
    <3>1. conn[c] = "queued" /\ \A d \in Conns : d < c => conn[d] # "none"
      BY <2>1 DEF IInv, QueueInOrder
    <3>2. /\ \A i \in DOMAIN Met : Met[i] < c
          /\ \A i \in InTransit : toPage[i].conn < c
      BY <2>1 DEF IInv, QueueInOrder
    <3>3. \A j \in DOMAIN r : c < r[j] /\ conn[r[j]] = "queued"
      <4> TAKE j \in DOMAIN r
      <4>1. j + 1 \in DOMAIN q /\ 1 < j + 1 /\ r[j] = q[j + 1]
        BY <2>1, <2>2
      <4> QED BY <2>1, <4>1 DEF IInv, QueueInOrder
    <3>4. \A i, j \in DOMAIN r : i < j => r[i] < r[j]
      <4> SUFFICES ASSUME NEW i \in DOMAIN r, NEW j \in DOMAIN r, i < j PROVE r[i] < r[j]
        OBVIOUS
      <4>1. i + 1 \in DOMAIN q /\ j + 1 \in DOMAIN q /\ i + 1 < j + 1 /\ r[i] = q[i + 1] /\ r[j] = q[j + 1]
        BY <2>1, <2>2
      <4> QED BY <4>1 DEF IInv, QueueInOrder
    <3>5. \A d \in Conns \ {c} : conn[d] = "queued" => \E j \in DOMAIN r : r[j] = d
      <4> SUFFICES ASSUME NEW d \in Conns, d # c, conn[d] = "queued" PROVE \E j \in DOMAIN r : r[j] = d
        OBVIOUS
      <4>1. PICK i \in DOMAIN q : q[i] = d
        BY DEF IInv, NoStrayConnection
      <4> QED BY <2>2, <4>1
    <3> QED BY <3>1, <3>2, <3>3, <3>4, <3>5 DEF InTurn
  <2>5. 0 \in 0 .. MaxDemand
    BY <1>1
  <2> HIDE DEF c
  <2> QED BY <2>1, <2>2, <2>3, <2>4, <2>5, HandOverPreserves
<1>3. CASE /\ conn' = [c \in Conns |-> IF conn[c] = "queued" THEN "closed" ELSE conn[c]]
           /\ listener' = [listener EXCEPT !.queue = <<>>, !.waiting = TRUE]
           /\ pump' = [pump EXCEPT !.demand = 1] /\ UNCHANGED toPage
  <2>1. \A d \in Conns : conn'[d] = IF conn[d] = "queued" THEN "closed" ELSE conn[d]
    BY <1>3
  <2>2. /\ listener'.queue = <<>> /\ listener'.waiting /\ listener'.reason = "none"
        /\ listener' \in [queue : Seq(Conns), waiting : BOOLEAN, bound : BOOLEAN, reason : Reasons \cup {"none"}]
        /\ pump'.demand = 1 /\ pump'.stopped = pump.stopped /\ pump' \in [demand : 0 .. MaxDemand, stopped : BOOLEAN]
    <3>1. <<>> \in Seq(Conns)
      OBVIOUS
    <3>2. 1 \in 0 .. MaxDemand
      BY <1>1
    <3>3. pump'.demand = 1 /\ pump'.stopped = pump.stopped /\ pump' \in [demand : 0 .. MaxDemand, stopped : BOOLEAN]
      BY <1>3, <3>2, ListenerFacts
    <3>4. /\ listener'.queue = <<>> /\ listener'.waiting /\ listener'.reason = "none"
          /\ listener' \in [queue : Seq(Conns), waiting : BOOLEAN, bound : BOOLEAN, reason : Reasons \cup {"none"}]
      BY <1>3, <3>1, ListenerFacts
    <3> QED BY <3>3, <3>4
  <2>3. QuietShape
    BY <1>1, <1>3, <2>1, <2>2, ListenerFacts DEF QuietShape, IInv, TypeOK, PartsAgree
  <2>4. QuietQueue
    BY <1>3, <2>1, <2>2 DEF QuietQueue, IInv, QueueInOrder
  <2>5. QuietCount
    BY <1>1, <2>2 DEF QuietCount
  <2> QED BY <2>3, <2>4, <2>5, QuietPreserves
<1> QED
  BY <1>2, <1>3 DEF Pulled

\* A read of the page reaches the pump.
LEMMA TakesCreditPreserves ==
    ASSUME IInv, TakesCredit
    PROVE  IInv'
<1>1. credits > 0 /\ "broker" \notin ends /\ handle = "live" /\ UNCHANGED <<page, call>>
  BY DEF TakesCredit, IInv, TypeOK, PartsAgree
<1>2. CASE /\ listener.waiting /\ credits' = credits - 1
           /\ pump' = [pump EXCEPT !.demand = Clamped(@ + 1)] /\ UNCHANGED <<listener, conn, handle, toPage, ends>>
  <2>1. pump.demand \in 0 .. MaxDemand /\ MaxDemand \in Nat \ {0} /\ credits \in Nat
        /\ ~pump.stopped /\ pump.demand > 0
    BY <1>1, <1>2, ServerAssumption DEF IInv, TypeOK, PartsAgree
  <2>2. Clamped(pump.demand + 1) \in 0 .. MaxDemand /\ Clamped(pump.demand + 1) > 0
    BY <2>1 DEF Clamped, Least
  <2>3. QuietShape
    <3> DEFINE n == Clamped(pump.demand + 1)
    <3>1. n \in 0 .. MaxDemand /\ n > 0 /\ pump' = [pump EXCEPT !.demand = n]
      BY <1>2, <2>2
    <3> HIDE DEF n
    <3>2. pump'.demand = n /\ pump'.stopped = pump.stopped /\ pump' \in [demand : 0 .. MaxDemand, stopped : BOOLEAN]
      BY <3>1, ListenerFacts
    <3>3. credits' \in Nat
      BY <1>1, <1>2, <2>1
    <3> QED BY <1>1, <1>2, <2>1, <3>1, <3>2, <3>3, ListenerFacts DEF QuietShape, IInv, PartsAgree
  <2>4. QuietQueue
    BY <1>2 DEF QuietQueue, IInv, QueueInOrder, NoStrayConnection
  <2>5. QuietCount
    BY <1>1, <2>1, OneAtATime DEF QuietCount
  <2> QED BY <2>3, <2>4, <2>5, QuietPreserves
<1>3. CASE ~listener.waiting /\ listener.reason = "none" /\ credits' = credits - 1 /\ Pulled /\ UNCHANGED <<handle, ends>>
  BY <1>1, <1>3, PulledPreserves
<1>4. CASE ~listener.waiting /\ listener.reason = "failed" /\ CloseTree(listener, "internal")
  <2>1. listener \in [queue : Seq(Conns), waiting : BOOLEAN, bound : BOOLEAN, reason : Reasons]
    BY <1>4, ListenerFacts DEF Reasons
  <2>2. listener.queue = <<>>
    BY <1>4 DEF IInv, PartsAgree
  <2> QED BY <1>1, <1>4, <2>1, <2>2, CloseTreePreserves DEF IInv, TypeOK
<1> QED
  BY <1>1, <1>2, <1>3, <1>4 DEF TakesCredit

-----------------------------------------------------------------------------
(* The page *)

Pages == [here : BOOLEAN, reads : 0 .. Reads, asked : 0 .. Reads, overlapped : BOOLEAN,
          stream : {"open", "closing", "closed", "errored", "cancelled"},
          queue : Seq(Conns), got : Seq(Conns)]

\* A step of the page's that takes nothing off the port: what it leaves alone, what it
\* keeps of the connections, and what it makes of the reads.
PageShape ==
    /\ UNCHANGED <<listener, conn, handle, pump>>
    /\ page' \in Pages /\ credits' \in Nat /\ ends' \subseteq {"broker", "page"}
    /\ call' \in {"none", "asked", "closing", "done", "failed"}
    /\ toPage' = toPage \/ toPage' = <<>>
    /\ "broker" \in ends' <=> "broker" \in ends
    /\ call' \in {"closing", "done"} => handle = "gone"
    /\ "page" \in ends' => toPage' = <<>> /\ (~page'.here \/ handle = "gone")
    /\ page'.stream \in {"closing", "closed", "errored"} => ends' # {}
    /\ page'.reads > 0 => page'.queue = <<>> /\ page'.stream = "open"
    /\ page'.reads <= page'.asked
    /\ ~page'.overlapped => page'.reads <= 1

PageKeeps ==
    /\ \A i \in DOMAIN Met' : i \in DOMAIN Met /\ Met'[i] = Met[i]
    /\ \A i \in DOMAIN Met : page'.here /\ page'.stream # "cancelled" => handle = "gone" \/ i \in DOMAIN Met'
    /\ page'.here /\ page'.stream # "cancelled" =>
          handle = "gone" \/ (toPage' = toPage /\ page.here /\ page.stream # "cancelled")
    /\ toPage' # <<>> => page'.stream \in {"open", "cancelled"}

PageCount ==
    ends' = {} /\ page'.stream = "open" /\ ~page'.overlapped =>
        /\ page'.queue = <<>>
        /\ page'.reads = credits' + pump.demand + Cardinality(InTransit')

\* A step of this kind keeps the invariant.
LEMMA PagePreserves ==
    ASSUME IInv, PageShape, PageKeeps, PageCount
    PROVE  IInv'
<1> USE DEF IInv, PageShape
<1>1. toPage' \in Seq(Messages)
  <2>1. toPage \in Seq(Messages) /\ <<>> \in Seq(Messages)
    BY DEF TypeOK, Messages
  <2> QED BY <2>1
<1>2. \A i \in DOMAIN toPage' : i \in DOMAIN toPage /\ toPage'[i] = toPage[i] /\ toPage' = toPage
  OBVIOUS
<1>3. \A i \in InTransit' : i \in InTransit /\ toPage'[i] = toPage[i]
  BY <1>2 DEF InTransit
<1>4. TypeOK'
  BY <1>1 DEF TypeOK, Messages, Pages
<1>5. PartsAgree'
  BY DEF PartsAgree
<1>6. QueueInOrder'
  BY <1>3 DEF QueueInOrder, PageKeeps
<1>7. PageAgrees'
  BY <1>2 DEF PageAgrees
<1>8. NoStrayConnection'
  <2>1. ASSUME NEW c \in Conns, conn[c] = "live", page'.here, page'.stream # "cancelled"
        PROVE  (\E i \in DOMAIN Met' : Met'[i] = c) \/ (\E i \in InTransit' : toPage'[i].conn = c)
    <3>1. handle = "live"
      BY <2>1 DEF NoStrayConnection
    <3>2. toPage' = toPage /\ page.here /\ page.stream # "cancelled" /\ \A i \in DOMAIN Met : i \in DOMAIN Met'
      BY <2>1, <3>1 DEF PageKeeps
    <3>3. InTransit' = InTransit
      BY <3>2 DEF InTransit
    <3>4. (\E i \in DOMAIN Met : Met[i] = c) \/ (\E i \in InTransit : toPage[i].conn = c)
      BY <2>1, <3>2 DEF NoStrayConnection
    <3> QED BY <3>2, <3>3, <3>4 DEF PageKeeps
  <2> QED BY <2>1 DEF NoStrayConnection
<1>9. InOrderThenEnd'
  <2>1. \A i, j \in DOMAIN Met' : i < j => Met'[i] < Met'[j]
    BY DEF InOrderThenEnd, PageKeeps
  <2>2. \A i \in DOMAIN Met', j \in InTransit' : Met'[i] < toPage'[j].conn
    BY <1>3 DEF InOrderThenEnd, PageKeeps
  <2>3. \A i, j \in InTransit' : i < j => toPage'[i].conn < toPage'[j].conn
    BY <1>3 DEF InOrderThenEnd
  <2>4. \A i \in DOMAIN toPage' : toPage'[i].kind = "end" => i = Len(toPage')
    BY <1>2 DEF InOrderThenEnd
  <2> QED BY <2>1, <2>2, <2>3, <2>4 DEF InOrderThenEnd, PageKeeps
<1>10. OneReadOneAccept'
  BY DEF OneReadOneAccept, PageCount
<1> QED
  BY <1>4, <1>5, <1>6, <1>7, <1>8, <1>9, <1>10

\* The types of what the page and the port hold.
LEMMA PageFacts ==
    ASSUME IInv
    PROVE  /\ page \in Pages /\ credits \in Nat /\ ends \subseteq {"broker", "page"}
           /\ toPage \in Seq(Messages) /\ pump.demand \in Nat /\ Reads \in Nat
           /\ call \in {"none", "asked", "closing", "done", "failed"}
           /\ handle \in {"live", "gone"}
  BY ServerAssumption DEF IInv, TypeOK, Pages, Messages

\* The app reads, several times at once or once.
LEMMA AppReadsPreserves ==
    ASSUME IInv, NEW k \in 1 .. Reads, AppReads(k)
    PROVE  IInv'
<1> DEFINE q == page.queue
           served == Least(k, Len(q))
           left == SubSeq(q, served + 1, Len(q))
           first == SubSeq(q, 1, served)
           waiting == IF page.stream = "open" THEN k - served ELSE 0
<1>1. /\ page.here /\ page.stream \in {"open", "closing"} /\ page.asked + k <= Reads
      /\ page' = [page EXCEPT !.asked = @ + k, !.queue = left, !.got = @ \o first,
                    !.reads = @ + waiting, !.overlapped = @ \/ page.reads + waiting > 1,
                    !.stream = IF @ = "closing" /\ left = <<>> THEN "closed" ELSE @]
      /\ Report(Least(waiting, 2))
      /\ UNCHANGED <<listener, conn, handle, pump, toPage, ends, call>>
  BY DEF AppReads
<1>2. q \in Seq(Conns) /\ Len(q) \in Nat /\ page.got \in Seq(Conns) /\ k \in Nat /\ k >= 1
      /\ page.reads \in Nat /\ page.asked \in Nat /\ page.reads <= page.asked
  BY PageFacts, LenProperties DEF Pages, IInv, PageAgrees
<1>3. served \in Nat /\ served <= Len(q) /\ served <= k /\ (served < k => served = Len(q))
  BY <1>2 DEF Least
<1>4. waiting \in Nat /\ waiting <= k /\ (waiting > 0 => page.stream = "open" /\ served = Len(q))
  BY <1>2, <1>3
<1> HIDE DEF served
<1>5. left \in Seq(Conns) /\ first \in Seq(Conns) /\ first \o left = q
  <2>1. 1 \in 1 .. Len(q) + 1 /\ served \in 1 - 1 .. Len(q) /\ Len(q) \in served .. Len(q)
    BY <1>2, <1>3
  <2>2. first \o left = SubSeq(q, 1, Len(q))
    BY <1>2, <2>1, ConcatAdjacentSubSeq
  <2>3. SubSeq(q, 1, Len(q)) = q
    BY <1>2, SubSeqFull
  <2>4. \A i \in 1 .. Len(q) : q[i] \in Conns
    BY <1>2, ElementOfSeq
  <2>5. left \in Seq(Conns)
    BY <1>2, <1>3, <2>4, SubSeqProperties
  <2>6. first \in Seq(Conns)
    BY <1>2, <1>3, <2>4, SubSeqProperties
  <2> QED BY <2>2, <2>3, <2>5, <2>6
<1>6. served = Len(q) => left = <<>>
  BY <1>2, SubSeqEmpty
<1>7. q = <<>> => served = Len(q)
  BY <1>2, <1>3, EmptySeq
<1> HIDE DEF left, first, waiting
<1>8. /\ page'.asked = page.asked + k /\ page'.queue = left /\ page'.got = page.got \o first
      /\ page'.reads = page.reads + waiting /\ page'.overlapped = (page.overlapped \/ page.reads + waiting > 1)
      /\ page'.stream = (IF page.stream = "closing" /\ left = <<>> THEN "closed" ELSE page.stream)
      /\ page'.here = page.here
  BY <1>1, PageFacts DEF Pages
<1>9. Met' = Met
  <2>1. Met' = (page.got \o first) \o left
    BY <1>8 DEF Met
  <2>2. page.got \in Seq(Conns) /\ first \in Seq(Conns) /\ left \in Seq(Conns)
    BY <1>2, <1>5
  <2>3. (page.got \o first) \o left = page.got \o (first \o left)
    <3>1. \A a, b, c \in Seq(Conns) : (a \o b) \o c = a \o (b \o c)
      BY ConcatAssociative
    <3> QED BY <2>2, <3>1
  <2> QED BY <1>5, <2>1, <2>3 DEF Met
<1>10. page.reads > 0 => left = <<>> /\ page.stream = "open"
  BY <1>6, <1>7 DEF IInv, PageAgrees
<1>11. PageShape
  <2>1. page' \in Pages
    <3>1. page.got \o first \in Seq(Conns)
      BY <1>2, <1>5, ConcatProperties
    <3>2. page.asked + k \in 0 .. Reads /\ page.reads + waiting \in 0 .. Reads
      BY <1>1, <1>2, <1>4, PageFacts
    <3> QED BY <1>1, <1>5, <3>1, <3>2, PageFacts DEF Pages
  <2>2. Least(waiting, 2) \in Nat
    BY <1>4 DEF Least
  <2>3. credits' \in Nat
    BY <1>1, <2>2, PageFacts DEF Report
  <2>4. page'.reads > 0 => page'.queue = <<>> /\ page'.stream = "open"
    BY <1>2, <1>4, <1>6, <1>8, <1>10
  <2>5. page'.reads <= page'.asked /\ (~page'.overlapped => page'.reads <= 1)
    <3>1. ~page'.overlapped => ~(page.reads + waiting > 1)
      BY <1>8, Zenon
    <3>2. \A n \in Nat : ~(n > 1) => n <= 1
      OBVIOUS
    <3>3. page'.reads \in Nat /\ page'.reads = page.reads + waiting
      BY <1>2, <1>4, <1>8
    <3>4. page'.reads <= page'.asked
      BY <1>2, <1>4, <1>8
    <3> QED BY <3>1, <3>2, <3>3, <3>4
  <2>6. page'.stream \in {"closing", "closed", "errored"} => ends' # {}
    BY <1>1, <1>8 DEF IInv, PageAgrees
  <2> QED BY <1>1, <1>8, <2>1, <2>3, <2>4, <2>5, <2>6, PageFacts DEF PageShape, IInv, PartsAgree
<1>12. PageKeeps
  <2>1. toPage # <<>> => page.stream = "open"
    BY <1>1 DEF IInv, InOrderThenEnd
  <2> QED BY <1>1, <1>8, <1>9, <2>1 DEF PageKeeps
<1>13. PageCount
  <2> SUFFICES ASSUME ends' = {}, page'.stream = "open", ~page'.overlapped
               PROVE  page'.queue = <<>> /\ page'.reads = credits' + pump.demand + Cardinality(InTransit')
    BY DEF PageCount
  <2>1. ends = {} /\ page.stream = "open" /\ ~page.overlapped /\ page.reads + waiting <= 1
    <3>1. ~page.overlapped /\ ~(page.reads + waiting > 1)
      BY <1>8, Zenon
    <3>2. page.reads + waiting \in Nat
      BY <1>2, <1>4
    <3>3. ends = {} /\ page.stream = "open"
      BY <1>1, <1>8
    <3> QED BY <3>1, <3>2, <3>3
  <2>2. q = <<>> /\ page.reads = credits + pump.demand + Cardinality(InTransit)
    BY <2>1 DEF IInv, OneReadOneAccept
  <2>3. served = 0
    BY <1>3, <1>7, <2>2
  <2>4. waiting = 1 /\ page.reads = 0
    BY <1>2, <2>1, <2>3 DEF waiting
  <2>5. credits' = credits + 1
    BY <1>1, <2>1, <2>4 DEF Report, Least
  <2>6. Cardinality(InTransit) \in Nat /\ InTransit' = InTransit
    <3>1. NoEnd(toPage)
      BY <2>1 DEF IInv, PageAgrees, NoEnd
    <3> QED BY <1>1, <3>1, TransitCount, PageFacts, LenProperties DEF InTransit, Transit
  <2> QED BY <1>6, <1>7, <1>8, <2>2, <2>4, <2>5, <2>6, PageFacts
<1> QED
  BY <1>11, <1>12, <1>13, PagePreserves

\* A step of the app's call alone.
LEMMA CallPreserves ==
    ASSUME IInv, UNCHANGED <<listener, conn, handle, pump, toPage, credits, ends, page>>,
           call' \in {"none", "asked", "closing", "done", "failed"},
           call' \in {"closing", "done"} => handle = "gone"
    PROVE  IInv'
<1> USE DEF IInv
<1>1. Met' = Met /\ InTransit' = InTransit
  BY DEF Met, InTransit
<1>2. TypeOK'
  BY DEF TypeOK
<1>3. PartsAgree'
  BY DEF PartsAgree
<1>4. QueueInOrder'
  BY <1>1 DEF QueueInOrder
<1>5. PageAgrees'
  BY DEF PageAgrees
<1>6. NoStrayConnection'
  BY <1>1 DEF NoStrayConnection
<1>7. InOrderThenEnd'
  BY <1>1 DEF InOrderThenEnd
<1>8. OneReadOneAccept'
  BY <1>1 DEF OneReadOneAccept
<1> QED
  BY <1>2, <1>3, <1>4, <1>5, <1>6, <1>7, <1>8

\* A page that has lost what its stream had queued: the app cancels it, or leaves.
LEMMA PageLosesPreserves ==
    ASSUME IInv, AppCancels \/ PageLeaves
    PROVE  IInv'
<1>1. /\ page'.reads = 0 /\ page'.queue = <<>> /\ page'.got = page.got /\ page'.asked = page.asked
      /\ page' \in Pages /\ UNCHANGED <<listener, conn, handle, pump, credits, call>>
  <2>1. page \in Pages /\ 0 \in 0 .. Reads /\ <<>> \in Seq(Conns)
    BY PageFacts
  <2>2. CASE AppCancels
    BY <2>1, <2>2 DEF AppCancels, Pages
  <2>3. CASE PageLeaves
    BY <2>1, <2>3 DEF PageLeaves, Pages
  <2> QED BY <2>2, <2>3
<1>2. \/ page'.stream = "cancelled" /\ toPage' = toPage /\ ends' = ends /\ page'.here = page.here
      \/ page'.stream = "closed" /\ toPage' = <<>> /\ ends' = ends \cup {"page"} /\ ~page'.here
  <2>1. page \in Pages
    BY PageFacts
  <2> QED BY <2>1 DEF AppCancels, PageLeaves, Pages
<1>3. page.got \in Seq(Conns) /\ page.asked \in Nat
  BY PageFacts DEF Pages
<1>4. Met' = page.got
  BY <1>1, <1>3, ConcatEmptySeq DEF Met
<1>5. \A i \in DOMAIN Met' : i \in DOMAIN Met /\ Met'[i] = Met[i]
  BY <1>4, MetFacts DEF IInv
<1>6. PageShape
  <2>1. page'.reads <= page'.asked /\ page'.reads <= 1 /\ ~(page'.reads > 0)
    BY <1>1, <1>3
  <2> QED BY <1>1, <1>2, <2>1, PageFacts DEF PageShape, IInv, PartsAgree
<1>7. PageKeeps
  BY <1>2, <1>5 DEF PageKeeps
<1>8. PageCount
  BY <1>2 DEF PageCount
<1> QED
  BY <1>6, <1>7, <1>8, PagePreserves

\* The page's end is disposed of when close() returns.
LEMMA CloseReturnsPreserves ==
    ASSUME IInv, CloseReturns
    PROVE  IInv'
<1>1. /\ call = "closing" /\ handle = "gone" /\ call' = "done" /\ toPage' = <<>>
      /\ ends' = ends \cup {"page"} /\ UNCHANGED <<listener, conn, handle, pump, credits>>
  BY DEF CloseReturns, IInv, PartsAgree
<1>2. /\ page' \in Pages /\ page'.queue = page.queue /\ page'.got = page.got /\ page'.asked = page.asked
      /\ page'.reads = 0 \/ (page' = page /\ page.stream # "open")
  <2>1. page \in Pages /\ 0 \in 0 .. Reads
    BY PageFacts
  <2>2. CASE page.stream = "open"
    BY <2>1, <2>2 DEF CloseReturns, Closed, Pages
  <2>3. CASE page.stream # "open"
    BY <2>1, <2>3 DEF CloseReturns
  <2> QED BY <2>2, <2>3
<1>3. page'.reads = 0
  <2>1. page.reads \in Nat /\ (page.reads > 0 => page.stream = "open")
    BY PageFacts DEF Pages, IInv, PageAgrees
  <2> QED BY <1>2, <2>1
<1>4. Met' = Met
  BY <1>2 DEF Met
<1>5. PageShape
  <2>1. page.asked \in Nat
    BY PageFacts DEF Pages
  <2>2. page'.reads <= page'.asked /\ page'.reads <= 1 /\ ~(page'.reads > 0)
    BY <1>2, <1>3, <2>1
  <2> QED BY <1>1, <1>2, <2>2, PageFacts DEF PageShape
<1>6. PageKeeps
  BY <1>1, <1>4 DEF PageKeeps
<1>7. PageCount
  BY <1>1 DEF PageCount
<1> QED
  BY <1>5, <1>6, <1>7, PagePreserves

\* destroy() leaves no queue and nobody who waits.
LEMMA DestroyedFacts ==
    ASSUME IInv, NEW r \in Reasons
    PROVE  /\ Destroyed(r) \in [queue : Seq(Conns), waiting : BOOLEAN, bound : BOOLEAN, reason : Reasons]
           /\ Destroyed(r).queue = <<>> /\ ~Destroyed(r).waiting
<1>1. CASE listener.reason = "none"
  BY <1>1 DEF Destroyed
<1>2. CASE listener.reason # "none"
  <2>1. Destroyed(r) = [listener EXCEPT !.waiting = FALSE] /\ listener.queue = <<>>
    BY <1>2 DEF Destroyed, IInv, PartsAgree
  <2> QED BY <1>2, <2>1, ListenerFacts
<1> QED
  BY <1>1, <1>2

\* Whoever ends the server.
LEMMA ServerEndsPreserves ==
    ASSUME IInv, Revoked \/ SessionEnds \/ PortCloses \/ NetClose
    PROVE  IInv'
<1> USE DEF Reasons
<1>1. CASE Revoked
  BY <1>1, DestroyedFacts, CloseTreePreserves, PageFacts DEF Revoked
<1>2. CASE SessionEnds
  BY <1>2, DestroyedFacts, CloseTreePreserves, PageFacts DEF SessionEnds
<1>3. CASE PortCloses
  BY <1>3, DestroyedFacts, CloseTreePreserves, PageFacts DEF PortCloses
<1>4. CASE NetClose
  <2>1. CASE handle = "live"
    BY <1>4, <2>1, DestroyedFacts, CloseTreePreserves DEF NetClose
  <2>2. CASE handle # "live"
    BY <1>4, <2>2, CallPreserves, PageFacts DEF NetClose
  <2> QED BY <2>1, <2>2
<1> QED
  BY <1>1, <1>2, <1>3, <1>4

\* A connection that reaches the page is met next, unless the app has cancelled.
LEMMA ArrivesFacts ==
    ASSUME IInv, NEW c \in Conns, Arrives(c), page.stream \in {"open", "cancelled"}
    PROVE  /\ page' \in Pages /\ credits' \in Nat
           /\ page'.here = page.here /\ page'.stream = page.stream /\ page'.overlapped = page.overlapped
           /\ page'.asked = page.asked /\ page'.reads <= page.reads
           /\ page.stream = "cancelled" => page' = page /\ credits' = credits
           /\ page.stream = "open" => Met' = Append(Met, c)
           /\ page.stream = "open" /\ page.reads = 0 => page'.queue # <<>> /\ page'.reads = 0 /\ credits' = credits
           /\ page.stream = "open" /\ page.reads > 0 => page'.queue = <<>> /\ page'.reads = page.reads - 1
           /\ page.stream = "open" /\ page.reads = 1 => credits' = credits
<1>1. /\ page \in Pages /\ page.reads \in Nat /\ credits \in Nat /\ page.got \in Seq(Conns) /\ page.queue \in Seq(Conns)
      /\ page.reads \in 0 .. Reads /\ Reads \in Nat
  BY PageFacts DEF Pages
<1>2. credits' \in Nat /\ (~(page.stream = "open" /\ page.reads > 1) => credits' = credits)
  BY <1>1 DEF Arrives, Report
<1>3. CASE page.stream = "cancelled"
  BY <1>1, <1>2, <1>3 DEF Arrives
<1>4. CASE page.stream = "open" /\ page.reads = 0
  <2>1. page' = [page EXCEPT !.queue = Append(@, c)]
    BY <1>4 DEF Arrives
  <2> DEFINE q == page.queue
             g == page.got
  <2>2. g \in Seq(Conns) /\ q \in Seq(Conns)
    BY <1>1
  <2>3. Met = g \o q
    BY DEF Met
  <2>4. page' \in Pages /\ page'.queue = Append(q, c) /\ page'.got = g /\ page'.reads = 0 /\ page'.here = page.here
        /\ page'.stream = page.stream /\ page'.overlapped = page.overlapped /\ page'.asked = page.asked
    <3>1. Append(q, c) \in Seq(Conns) /\ page \in Pages /\ page.reads = 0
      BY <1>1, <1>4, <2>2, AppendProperties
    <3> HIDE DEF q
    <3>2. page' = [page EXCEPT !.queue = Append(q, c)]
      BY <2>1 DEF q
    <3>3. page.reads \in 0 .. Reads
      BY <1>1
    <3> QED BY <3>1, <3>2, <3>3 DEF Pages
  <2>5. Met' = g \o Append(q, c)
    BY <2>4 DEF Met
  <2> HIDE DEF q, g
  <2>6. Append(q, c) # <<>>
    BY <2>2, AppendProperties
  <2>7. g \o Append(q, c) = Append(g \o q, c)
    <3>1. \A s, t \in Seq(Conns) : \A d \in Conns : s \o Append(t, d) = Append(s \o t, d)
      BY AppendIsConcat, ConcatAssociative, ConcatProperties
    <3> QED BY <2>2, <3>1
  <2> QED BY <1>1, <1>2, <1>4, <2>3, <2>4, <2>5, <2>6, <2>7
<1>5. CASE page.stream = "open" /\ page.reads > 0
  <2>1. page' = [page EXCEPT !.reads = @ - 1, !.got = Append(@, c)] /\ page.queue = <<>>
    BY <1>1, <1>5 DEF Arrives, IInv, PageAgrees
  <2>2. Append(page.got, c) \in Seq(Conns) /\ page.reads - 1 \in 0 .. Reads
    BY <1>1, <1>5, AppendProperties
  <2>3. page' \in Pages /\ page'.queue = <<>> /\ page'.got = Append(page.got, c) /\ page'.reads = page.reads - 1
        /\ page'.here = page.here
        /\ page'.stream = page.stream /\ page'.overlapped = page.overlapped /\ page'.asked = page.asked
    BY <1>1, <1>5, <2>1, <2>2 DEF Pages
  <2>4. Met' = Append(page.got, c) \o <<>> /\ Met = page.got \o <<>>
    BY <2>1, <2>3 DEF Met
  <2>5. Met' = Append(Met, c)
    BY <1>1, <2>2, <2>4, ConcatEmptySeq
  <2> QED BY <1>1, <1>2, <1>5, <2>3, <2>5
<1> QED
  BY <1>1, <1>3, <1>4, <1>5

\* A connection reaches the page.
LEMMA AcceptedPreserves ==
    ASSUME IInv, toPage # <<>>, "page" \notin ends, toPage' = Tail(toPage),
           Head(toPage).kind = "accepted", Arrives(Head(toPage).conn),
           UNCHANGED <<listener, conn, handle, pump, ends, call>>
    PROVE  IInv'
<1> USE DEF IInv
<1> DEFINE c == Head(toPage).conn
<1>1. toPage \in Seq(Messages)
  BY PageFacts
<1>2. /\ toPage' \in Seq(Messages) /\ Len(toPage') = Len(toPage) - 1
      /\ DOMAIN toPage = 1 .. Len(toPage) /\ DOMAIN toPage' = 1 .. Len(toPage) - 1
      /\ \A i \in DOMAIN toPage' : i + 1 \in DOMAIN toPage /\ toPage'[i] = toPage[i + 1]
      /\ Head(toPage) = toPage[1] /\ 1 \in DOMAIN toPage
      /\ \A i \in InTransit : i = 1 \/ i - 1 \in InTransit'
      /\ \A i \in InTransit' : i + 1 \in InTransit /\ toPage'[i] = toPage[i + 1]
  BY <1>1, TailFacts DEF InTransit, Transit
<1>3. 1 \in InTransit /\ toPage[1].conn = c /\ c \in Conns
  BY <1>2, ListenerFacts DEF InTransit
<1>4. page.stream \in {"open", "cancelled"} /\ Len(toPage) \in Nat
  BY <1>1, LenProperties DEF InOrderThenEnd
<1>5. /\ page' \in Pages /\ credits' \in Nat
      /\ page'.here = page.here /\ page'.stream = page.stream /\ page'.overlapped = page.overlapped
      /\ page'.asked = page.asked /\ page'.reads <= page.reads
      /\ page.stream = "cancelled" => page' = page /\ credits' = credits
      /\ page.stream = "open" => Met' = Append(Met, c)
      /\ page.stream = "open" /\ page.reads = 0 => page'.queue # <<>> /\ page'.reads = 0 /\ credits' = credits
      /\ page.stream = "open" /\ page.reads > 0 => page'.queue = <<>> /\ page'.reads = page.reads - 1
      /\ page.stream = "open" /\ page.reads = 1 => credits' = credits
  BY <1>3, <1>4, ArrivesFacts
<1> HIDE DEF c
<1>6. /\ page.stream = "open" => Met' = Append(Met, c)
      /\ page.stream = "cancelled" => Met' = Met
  BY <1>5 DEF Met
<1>7. TypeOK'
  BY <1>2, <1>5 DEF TypeOK, Messages, Pages
<1>8. PartsAgree'
  BY <1>5 DEF PartsAgree
<1>9. /\ \A i \in DOMAIN Met' : \/ i \in DOMAIN Met /\ Met'[i] = Met[i]
                                \/ page.stream = "open" /\ i = Len(Met) + 1 /\ Met'[i] = c
      /\ \A i \in DOMAIN Met : i \in DOMAIN Met' /\ Met'[i] = Met[i]
      /\ page.stream = "open" => \E i \in DOMAIN Met' : Met'[i] = c
      /\ DOMAIN Met = 1 .. Len(Met) /\ Len(Met) \in Nat
  <2> DEFINE s == Met
             t == Met'
  <2>1. s \in Seq(Conns)
    BY MetFacts
  <2>2. (page.stream = "open" => t = Append(s, c)) /\ (page.stream # "open" => t = s)
    BY <1>4, <1>6
  <2> HIDE DEF s, t
  <2>3. DOMAIN s = 1 .. Len(s) /\ Len(s) \in Nat
    BY <2>1, LenProperties
  <2>4. CASE page.stream = "open"
    <3>1. /\ DOMAIN t = 1 .. Len(s) + 1 /\ t[Len(s) + 1] = c
          /\ \A i \in 1 .. Len(s) : t[i] = s[i]
      BY <1>3, <2>1, <2>2, <2>4, AppendProperties
    <3> QED BY <2>3, <2>4, <3>1 DEF s, t
  <2>5. CASE page.stream # "open"
    BY <2>2, <2>3, <2>5 DEF s, t
  <2> QED BY <2>4, <2>5
<1>10. \A i \in InTransit' : i + 1 \in InTransit /\ toPage'[i] = toPage[i + 1] /\ 1 < i + 1 /\ i \in Nat
  BY <1>2, <1>4 DEF InTransit
<1>11. QueueInOrder'
  <2>1. conn[c] # "none" /\ \A j \in DOMAIN listener.queue : c < listener.queue[j]
    BY <1>3 DEF QueueInOrder
  <2>2. \A i \in DOMAIN Met' : conn[Met'[i]] # "none"
    BY <1>9, <2>1 DEF QueueInOrder
  <2>3. \A i \in DOMAIN Met', j \in DOMAIN listener.queue : Met'[i] < listener.queue[j]
    BY <1>9, <2>1 DEF QueueInOrder
  <2>4. \A i \in InTransit' : conn[toPage'[i].conn] # "none"
    BY <1>10 DEF QueueInOrder
  <2>5. \A i \in InTransit', j \in DOMAIN listener.queue : toPage'[i].conn < listener.queue[j]
    BY <1>10 DEF QueueInOrder
  <2> QED BY <2>2, <2>3, <2>4, <2>5 DEF QueueInOrder
<1>12. page.reads \in Nat /\ page'.reads \in Nat /\ page.asked \in Nat
  BY <1>5, PageFacts DEF Pages
<1>13. PageAgrees'
  <2>1. \A i \in DOMAIN toPage' : toPage'[i].kind = "end" => "broker" \in ends
    BY <1>2 DEF PageAgrees
  <2>2. page'.reads > 0 => page.reads > 0 /\ page.stream = "open"
    BY <1>5, <1>12 DEF PageAgrees
  <2>3. page'.reads <= page'.asked
    BY <1>5, <1>12 DEF PageAgrees
  <2>4. ~page'.overlapped => page'.reads <= 1
    <3>1. ~page'.overlapped => page.reads <= 1
      BY <1>5, Zenon DEF PageAgrees
    <3> QED BY <1>5, <1>12, <3>1
  <2> QED BY <1>5, <2>1, <2>2, <2>3, <2>4 DEF PageAgrees
<1>14. NoStrayConnection'
  <2>1. ASSUME NEW d \in Conns, conn[d] = "live", page'.here, page'.stream # "cancelled"
        PROVE  (\E i \in DOMAIN Met' : Met'[i] = d) \/ (\E i \in InTransit' : toPage'[i].conn = d)
    <3>1. page.stream = "open" /\ page.here
      BY <1>4, <1>5, <2>1
    <3>2. CASE \E i \in DOMAIN Met : Met[i] = d
      BY <1>9, <3>2
    <3>3. CASE \E i \in InTransit : toPage[i].conn = d
      <4>1. PICK i \in InTransit : toPage[i].conn = d
        BY <3>3
      <4>2. CASE i = 1
        BY <1>3, <1>9, <3>1, <4>1, <4>2
      <4>3. CASE i # 1
        <5>1. i - 1 \in InTransit' /\ i \in 1 .. Len(toPage)
          BY <1>2, <4>3 DEF InTransit
        <5>2. toPage'[i - 1] = toPage[(i - 1) + 1] /\ (i - 1) + 1 = i
          BY <1>4, <1>10, <5>1
        <5> QED BY <4>1, <5>1, <5>2
      <4> QED BY <4>2, <4>3
    <3> QED BY <2>1, <3>1, <3>2, <3>3 DEF NoStrayConnection
  <2> QED BY <2>1 DEF NoStrayConnection
<1>15. InOrderThenEnd'
  <2>1. \A i, j \in DOMAIN Met' : i < j => Met'[i] < Met'[j]
    <3> SUFFICES ASSUME NEW i \in DOMAIN Met', NEW j \in DOMAIN Met', i < j
                 PROVE  Met'[i] < Met'[j]
      OBVIOUS
    <3>1. i \in DOMAIN Met /\ Met'[i] = Met[i]
      BY <1>9
    <3>2. CASE j \in DOMAIN Met
      BY <1>9, <3>1, <3>2 DEF InOrderThenEnd
    <3>3. CASE Met'[j] = c
      BY <1>3, <3>1, <3>3 DEF InOrderThenEnd
    <3> QED BY <1>9, <3>2, <3>3
  <2>2. \A i \in DOMAIN Met', j \in InTransit' : Met'[i] < toPage'[j].conn
    <3> SUFFICES ASSUME NEW i \in DOMAIN Met', NEW j \in InTransit'
                 PROVE  Met'[i] < toPage'[j].conn
      OBVIOUS
    <3>1. j + 1 \in InTransit /\ toPage'[j] = toPage[j + 1] /\ 1 < j + 1
      BY <1>10
    <3>2. CASE i \in DOMAIN Met /\ Met'[i] = Met[i]
      BY <3>1, <3>2 DEF InOrderThenEnd
    <3>3. CASE Met'[i] = c
      BY <1>3, <3>1, <3>3 DEF InOrderThenEnd
    <3> QED BY <1>9, <3>2, <3>3
  <2>3. \A i, j \in InTransit' : i < j => toPage'[i].conn < toPage'[j].conn
    <3> SUFFICES ASSUME NEW i \in InTransit', NEW j \in InTransit', i < j
                 PROVE  toPage'[i].conn < toPage'[j].conn
      OBVIOUS
    <3>1. i + 1 \in InTransit /\ j + 1 \in InTransit /\ i + 1 < j + 1
      BY <1>10
    <3> QED BY <1>10, <3>1 DEF InOrderThenEnd
  <2>4. \A i \in DOMAIN toPage' : toPage'[i].kind = "end" => i = Len(toPage')
    <3> SUFFICES ASSUME NEW i \in DOMAIN toPage', toPage'[i].kind = "end"
                 PROVE  i = Len(toPage')
      OBVIOUS
    <3>1. i + 1 \in DOMAIN toPage /\ toPage'[i] = toPage[i + 1]
      BY <1>2
    <3>2. i + 1 = Len(toPage)
      BY <3>1 DEF InOrderThenEnd
    <3> QED BY <1>2, <1>4, <3>2
  <2> QED BY <1>4, <1>5, <2>1, <2>2, <2>3, <2>4 DEF InOrderThenEnd
<1>16. OneReadOneAccept'
  <2> SUFFICES ASSUME ends = {}, page.stream = "open", ~page.overlapped
               PROVE  page'.queue = <<>> /\ page'.reads = credits' + pump.demand + Cardinality(InTransit')
    BY <1>5 DEF OneReadOneAccept
  <2>1. page.reads = credits + pump.demand + Cardinality(InTransit) /\ page.reads <= 1
    BY DEF OneReadOneAccept, PageAgrees
  <2>2. NoEnd(toPage) /\ NoEnd(toPage')
    BY <1>2 DEF PageAgrees, NoEnd
  <2>3. Cardinality(InTransit) = Len(toPage) /\ Cardinality(InTransit') = Len(toPage')
    BY <1>1, <1>2, <2>2, TransitCount DEF InTransit, Transit
  <2>4. Len(toPage) >= 1 /\ credits \in Nat /\ pump.demand \in Nat
    BY <1>2, <1>4, PageFacts
  <2>5. page.reads = credits + pump.demand + Len(toPage)
    BY <2>1, <2>3
  <2>6. \A r, a, b, l \in Nat : r <= 1 /\ l >= 1 /\ r = a + b + l => r = 1 /\ a = 0 /\ b = 0 /\ l = 1
    OBVIOUS
  <2>7. page.reads = 1 /\ credits = 0 /\ pump.demand = 0 /\ Len(toPage) = 1
    <3>1. page.reads \in Nat /\ page.reads <= 1 /\ Len(toPage) \in Nat
      BY <1>4, <1>12, <2>1
    <3> QED BY <2>4, <2>5, <2>6, <3>1
  <2>8. page'.queue = <<>> /\ page'.reads = 0 /\ credits' = 0 /\ Cardinality(InTransit') = 0
    BY <1>2, <1>5, <2>3, <2>7
  <2> QED BY <2>7, <2>8
<1> QED
  BY <1>7, <1>8, <1>11, <1>13, <1>14, <1>15, <1>16
\* The end reaches the page: it is the last message, and the server is gone.
LEMMA EndPreserves ==
    ASSUME IInv, toPage # <<>>, "page" \notin ends, toPage' = Tail(toPage), Head(toPage).kind = "end",
           \/ page' = page /\ page.stream # "open"
           \/ page' \in {Closed, Errored},
           UNCHANGED <<listener, conn, handle, pump, credits, ends, call>>
    PROVE  IInv'
<1>1. toPage \in Seq(Messages) /\ page \in Pages /\ page.asked \in Nat /\ page.reads \in Nat
      /\ 0 \in 0 .. Reads /\ <<>> \in Seq(Conns) /\ page.got \in Seq(Conns)
  BY PageFacts DEF Pages
<1>2. Head(toPage) = toPage[1] /\ 1 \in DOMAIN toPage /\ Len(toPage') = Len(toPage) - 1
      /\ toPage' \in Seq(Messages)
  BY <1>1, TailFacts
<1>3. Len(toPage) = 1 /\ "broker" \in ends /\ handle = "gone"
  BY <1>2 DEF IInv, InOrderThenEnd, PageAgrees, PartsAgree
<1>4. toPage' = <<>>
  BY <1>2, <1>3, EmptySeq
<1>5. CASE page' = page /\ page.stream # "open"
  <2>1. PageShape
    BY <1>1, <1>3, <1>4, <1>5, PageFacts DEF PageShape, IInv, PageAgrees, PartsAgree
  <2>2. PageKeeps
    BY <1>3, <1>4, <1>5 DEF PageKeeps, Met
  <2>3. PageCount
    BY <1>3 DEF PageCount
  <2> QED BY <2>1, <2>2, <2>3, PagePreserves
<1>6. CASE page' \in {Closed, Errored}
  <2>1. /\ page' \in Pages /\ page'.reads = 0 /\ page'.asked = page.asked /\ page'.got = page.got
        /\ page'.queue \in {page.queue, <<>>}
    <3>1. CASE page' = Closed
      BY <1>1, <3>1 DEF Closed, Pages
    <3>2. CASE page' = Errored
      BY <1>1, <3>2 DEF Errored, Pages
    <3> QED BY <1>6, <3>1, <3>2
  <2>2. \A i \in DOMAIN Met' : i \in DOMAIN Met /\ Met'[i] = Met[i]
    <3>1. CASE page'.queue = page.queue
      BY <2>1, <3>1 DEF Met
    <3>2. CASE page'.queue = <<>>
      <4>1. Met' = page.got
        BY <1>1, <2>1, <3>2, ConcatEmptySeq DEF Met
      <4> QED BY <4>1, MetFacts DEF IInv
    <3> QED BY <2>1, <3>1, <3>2
  <2>3. PageShape
    <3>1. page'.reads <= page'.asked /\ page'.reads <= 1 /\ ~(page'.reads > 0)
      BY <1>1, <2>1
    <3> QED BY <1>3, <1>4, <2>1, <3>1, PageFacts DEF PageShape, IInv, PartsAgree
  <2>4. PageKeeps
    BY <1>3, <1>4, <2>2 DEF PageKeeps
  <2>5. PageCount
    BY <1>3 DEF PageCount
  <2> QED BY <2>3, <2>4, <2>5, PagePreserves
<1> QED
  BY <1>5, <1>6

\* Whatever the page reads off its port.
LEMMA PageReceivesPreserves ==
    ASSUME IInv, PageReceives
    PROVE  IInv'
<1>1. /\ toPage # <<>> /\ "page" \notin ends /\ toPage' = Tail(toPage)
      /\ UNCHANGED <<listener, conn, handle, pump, ends, call>>
  BY DEF PageReceives
<1>2. CASE Head(toPage).kind = "accepted" /\ Arrives(Head(toPage).conn)
  BY <1>1, <1>2, AcceptedPreserves
<1>3. CASE /\ Head(toPage).kind = "end" /\ UNCHANGED credits
           /\ page' = IF page.stream # "open" THEN page
                      ELSE IF Head(toPage).code = "clean" THEN Closed ELSE Errored
  <2>1. \/ page' = page /\ page.stream # "open"
        \/ page' \in {Closed, Errored}
    BY <1>3
  <2> QED BY <1>1, <1>3, <2>1, EndPreserves
<1> QED
  BY <1>2, <1>3 DEF PageReceives

-----------------------------------------------------------------------------
(* The invariant *)

\* A server that was just bound.
LEMMA InitIInv ==
    ASSUME Init
    PROVE  IInv
<1> USE ServerAssumption DEF Init
<1>1. Met = <<>> /\ InTransit = {} /\ DOMAIN toPage = {} /\ DOMAIN listener.queue = {} /\ DOMAIN Met = {}
  BY DEF Met, InTransit
<1>2. TypeOK
  BY DEF TypeOK
<1>3. PartsAgree
  BY DEF PartsAgree
<1>4. QueueInOrder
  BY <1>1 DEF QueueInOrder
<1>5. PageAgrees
  BY <1>1 DEF PageAgrees
<1>6. NoStrayConnection
  BY DEF NoStrayConnection
<1>7. InOrderThenEnd
  BY <1>1 DEF InOrderThenEnd
<1>8. OneReadOneAccept
  BY <1>1, FS_EmptySet DEF OneReadOneAccept
<1> QED
  BY <1>2, <1>3, <1>4, <1>5, <1>6, <1>7, <1>8 DEF IInv

\* Nothing happens.
LEMMA StutterIInv ==
    ASSUME IInv, UNCHANGED vars
    PROVE  IInv'
  BY CallPreserves, PageFacts DEF vars, IInv, PartsAgree

\* Every step of the server keeps the invariant.
LEMMA NextIInv ==
    ASSUME IInv, Next
    PROVE  IInv'
<1>1. CASE \E c \in Conns : Connects(c) \/ QueuedEnds(c) \/ SocketEnds(c)
  BY <1>1, ConnectsPreserves, QueuedEndsPreserves, SocketEndsPreserves
<1>2. CASE ListenerFails
  BY <1>2, ListenerFailsPreserves
<1>3. CASE Revoked \/ SessionEnds \/ PortCloses \/ NetClose
  BY <1>3, ServerEndsPreserves
<1>4. CASE TakesCredit
  BY <1>4, TakesCreditPreserves
<1>5. CASE PageReceives
  BY <1>5, PageReceivesPreserves
<1>6. CASE \E k \in 1 .. Reads : AppReads(k)
  BY <1>6, AppReadsPreserves
<1>7. CASE AppCancels \/ PageLeaves
  BY <1>7, PageLosesPreserves
<1>8. CASE AppCloses \/ CloseTimesOut
  BY <1>8, CallPreserves DEF AppCloses, CloseTimesOut
<1>9. CASE CloseReturns
  BY <1>9, CloseReturnsPreserves
<1> QED
  BY <1>1, <1>2, <1>3, <1>4, <1>5, <1>6, <1>7, <1>8, <1>9 DEF Next

\* The invariant holds throughout every behaviour.
LEMMA Inductive == Spec => []IInv
<1>1. Init => IInv
  BY InitIInv
<1>2. IInv /\ [Next]_vars => IInv'
  BY NextIInv, StutterIInv
<1> QED
  BY <1>1, <1>2, PTL DEF Spec

-----------------------------------------------------------------------------
(* Theorems *)

\* The parts have their types, and the pump reads exactly while it has demand.
\* (pumpLoop and onDemand in relay/accept-pump.ts.)
THEOREM TypeCorrect == Spec => []TypeOK
<1>1. IInv => TypeOK
  BY DEF IInv
<1> QED
  BY <1>1, Inductive, PTL

\* No connection is left to itself, whatever ends first: the peer, the read, the page,
\* the listener or the grant.  (cleanup in relay/server.ts, destroy in
\* node-adapters.ts, pull() in net-listen.ts.)
THEOREM NoConnectionIsStray == Spec => []NoStrayConnection
<1>1. IInv => NoStrayConnection
  BY DEF IInv
<1> QED
  BY <1>1, Inductive, PTL

\* The app meets its connections in the order they were made, and the end after them.
\* (accept() and its queue in node-adapters.ts, the order of the port.)
THEOREM AlwaysInOrder == Spec => []InOrderThenEnd
<1>1. IInv => InOrderThenEnd
  BY DEF IInv
<1> QED
  BY <1>1, Inductive, PTL

\* Each read of an app whose reads do not overlap accepts exactly one connection.
\* (contracts/handles.ts, TcpServer; onDemand in relay/accept-pump.ts.)
THEOREM OneReadAcceptsOne == Spec => []OneReadOneAccept
<1>1. IInv => OneReadOneAccept
  BY DEF IInv
<1> QED
  BY <1>1, Inductive, PTL
=============================================================================
