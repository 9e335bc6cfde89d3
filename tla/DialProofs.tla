----------------------------- MODULE DialProofs -----------------------------
(***************************************************************************)
(* The safety invariants of Dial hold for every number of calls,           *)
(* addresses, sockets, documents and withdrawals.                          *)
(*                                                                         *)
(* Five facts make them inductive.  DocumentsAgree: a call belongs to one  *)
(* document, ids are not reused within it.  WireInOrder: the channel keeps *)
(* the order of documents, so what was received is never newer than what   *)
(* is on the way; a cancel or the end of a call meets its own entry.       *)
(* WorkAgrees: what the broker keeps of a call at each stage; a call that  *)
(* is filed is not answered, a live handle is past its work.               *)
(* RepliesAgree: the page and the port lag behind the broker.              *)
(* LiveHasPort: a handle whose call is over went with a port, so net.close *)
(* misses it only when that port has closed.                               *)
(***************************************************************************)
EXTENDS Dial, FiniteSetTheorems, TLAPS

DocumentsAgree ==
    /\ document # Elsewhere => \A c \in Calls : made[c] <= document
    /\ \A c \in Calls :
          /\ page[c] = "idle" <=> made[c] = Elsewhere
          /\ page[c] \notin {"idle", "gone"} => Here(c)
          /\ made[c] # Elsewhere => id[c] \in Ids
    /\ \A c, d \in Calls : made[c] # Elsewhere /\ made[c] = made[d] /\ id[c] = id[d] => c = d
    /\ document # Elsewhere =>
          \A c \in Calls : Here(c) => id[c] <= Cardinality({d \in Calls : Here(d)})

WireInOrder ==
    /\ \A i \in 1 .. Len(wire) :
          /\ made[wire[i].call] # Elsewhere
          /\ wire[i].kind = Connect => dispatch[wire[i].call] = "none"
          /\ wire[i].kind = Cancel => wire[i].call \in hooked
    /\ \A i, j \in 1 .. Len(wire) : i < j =>
          /\ made[wire[i].call] <= made[wire[j].call]
          /\ ~ (wire[i].kind = Connect /\ wire[j].kind = Connect /\ wire[i].call = wire[j].call)
    /\ \A c \in Calls : dispatch[c] # "none" =>
          /\ made[c] # Elsewhere
          /\ \A i \in 1 .. Len(wire) : made[c] <= made[wire[i].call]

WorkAgrees ==
    \A c \in Calls :
       /\ dispatch[c] = "none" <=> work[c] = "none"
       /\ dispatch[c] = "none" => answer[c] = "none" /\ c \notin signal
       /\ work[c] \in {"preparing", "dialling", "dialled"} => dispatch[c] \in {"running", "done"}
       /\ dispatch[c] \in {"running", "returned", "closing"} => answer[c] = "none" \/ c \in late
       /\ handle[c] = "live" => work[c] = "ended" /\ dispatch[c] \in {"returned", "done"}
       /\ \A i \in Ids : pending[i] = c =>
             id[c] = i /\ answer[c] = "none" /\ dispatch[c] \in {"running", "returned", "closing"}

RepliesAgree ==
    \A c \in Calls :
       /\ page[c] \in {"awaiting", "open"} => answer[c] = "ok"
       /\ made[c] # Elsewhere => page[c] = "asked" \/ c \in late \/ ~Here(c) \/ answer[c] # "none"
       /\ port[c] # "none" =>
             /\ portTo[c] # Elsewhere /\ made[c] # Elsewhere /\ made[c] <= portTo[c]
             /\ document # Elsewhere => portTo[c] <= document

\* A handle that outlives its dispatch went with a port.
LiveHasPort ==
    \A c \in Calls : handle[c] = "live" /\ dispatch[c] = "done" => port[c] # "none"

IInv ==
    /\ TypeOK
    /\ DocumentsAgree
    /\ WireInOrder
    /\ WorkAgrees
    /\ RepliesAgree
    /\ NoStraySocket
    /\ CancelWins
    /\ CancelFindsItsCall
    /\ LiveHasPort
    /\ HandleIsKnown

(* TypeOK in the groups of variables that the actions leave alone together. *)
PageTypes ==
    /\ document \in 0 .. Documents
    /\ page \in [Calls -> {"idle", "asked", "awaiting", "open", "failed", "gone"}]
    /\ made \in [Calls -> 0 .. Documents]
    /\ id \in [Calls -> 0 .. Cardinality(Calls)]
    /\ hooked \subseteq Calls

WireTypes == wire \in Seq([kind : {Connect, Cancel, Close}, call : Calls])

CallTypes ==
    /\ pending \in [Ids -> Calls \cup {None}]
    /\ signal \subseteq Calls
    /\ dispatch \in [Calls -> {"none", "running", "returned", "closing", "done"}]
    /\ answer \in [Calls -> {"none", "ok", "error"}]
    /\ late \subseteq Calls

DialTypes ==
    /\ work \in [Calls -> {"none", "preparing", "dialling", "dialled", "ended"}]
    /\ race \in [Calls -> {"none", "open", "won", "unreachable", "timeout", "revoked"}]
    /\ attempt \in [Calls -> [Tries -> {"untried", "connecting", "connected", "failed", "won", "over"}]]
    /\ handle \in [Calls -> {"none", "live", "gone"}]

RaceAgrees == \A c \in Calls : race[c] = "open" <=> work[c] = "dialling"

PortTypes ==
    /\ port \in [Calls -> {"none", "posted", "arrived", "claimed", "closing", "closed"}]
    /\ portTo \in [Calls -> 0 .. Documents]
    /\ withdrawals \in 0 .. Withdrawals

LEMMA TypeGroups ==
    TypeOK <=> /\ PageTypes /\ WireTypes /\ CallTypes
               /\ DialTypes /\ RaceAgrees /\ PortTypes
BY DEF TypeOK, PageTypes, WireTypes, CallTypes, DialTypes, RaceAgrees, PortTypes

-----------------------------------------------------------------------------
(* The channel, the ids and the attempts *)

\* What is received was the first message, and the others move up.
LEMMA WireShifts ==
    ASSUME WireTypes, wire # <<>>, wire' = Tail(wire)
    PROVE  /\ WireTypes'
           /\ Len(wire) \in Nat \ {0} /\ Len(wire') = Len(wire) - 1
           /\ Head(wire) = wire[1]
           /\ \A i \in 1 .. Len(wire') : wire'[i] = wire[i + 1]
BY DEF WireTypes

\* What is sent comes last.
LEMMA WireGrows ==
    ASSUME WireTypes, NEW kind \in {Connect, Cancel, Close}, NEW c \in Calls,
           wire' = Append(wire, Message(kind, c))
    PROVE  /\ WireTypes'
           /\ Len(wire) \in Nat /\ Len(wire') = Len(wire) + 1
           /\ \A i \in 1 .. Len(wire) : wire'[i] = wire[i]
           /\ wire'[Len(wire) + 1] = Message(kind, c)
<1>1. Message(kind, c) \in [kind : {Connect, Cancel, Close}, call : Calls]
  BY DEF Message
<1> QED
  BY <1>1 DEF WireTypes

\* What is on the wire is a message.
LEMMA WireHolds ==
    ASSUME WireTypes
    PROVE  \A i \in 1 .. Len(wire) :
              wire[i].call \in Calls /\ wire[i].kind \in {Connect, Cancel, Close}
                /\ wire[i] = Message(wire[i].kind, wire[i].call)
<1> DEFINE Messages == [kind : {Connect, Cancel, Close}, call : Calls]
<1>1. \A i \in 1 .. Len(wire) : wire[i] \in Messages
  <2>1. wire \in Seq(Messages)
    BY DEF WireTypes
  <2> HIDE DEF Messages
  <2> QED BY <2>1
<1>2. \A m \in [kind : {Connect, Cancel, Close}, call : Calls] :
        m.call \in Calls /\ m.kind \in {Connect, Cancel, Close} /\ m = Message(m.kind, m.call)
  BY DEF Message
<1> QED
  BY <1>1, <1>2

\* What the order of the channel says of the message that is received.
LEMMA Received ==
    ASSUME WireTypes, WireInOrder, NEW kind, NEW c \in Calls, Arriving(kind, c)
    PROVE  /\ made[c] # Elsewhere
           /\ kind = Connect => dispatch[c] = "none"
           /\ kind = Cancel => c \in hooked
           /\ \A d \in Calls : dispatch[d] # "none" => made[d] # Elsewhere /\ made[d] <= made[c]
<1>1. Len(wire) \in Nat \ {0} /\ Head(wire) = wire[1]
  BY WireShifts DEF Arriving
<1>2. 1 \in 1 .. Len(wire) /\ wire[1].kind = kind /\ wire[1].call = c
  BY <1>1 DEF Arriving, Message
<1> QED
  BY <1>2 DEF WireInOrder

\* The id of a request that is made is one more than those of its document.
LEMMA NextId ==
    ASSUME NEW c \in Calls, ~Here(c)
    PROVE  /\ Cardinality({d \in Calls : Here(d)}) \in Nat
           /\ 1 + Cardinality({d \in Calls : Here(d)}) \in Ids
           /\ Cardinality({d \in Calls : Here(d)} \cup {c})
                = 1 + Cardinality({d \in Calls : Here(d)})
<1> DEFINE S == {d \in Calls : Here(d)}
<1>a. S \subseteq Calls /\ c \notin S
  OBVIOUS
<1> HIDE DEF S
<1>1. IsFiniteSet(S) /\ Cardinality(S) \in Nat /\ IsFiniteSet(Calls)
  BY <1>a, DialAssumption, FS_Subset, FS_CardinalityType
<1>2. Cardinality(S \cup {c}) = 1 + Cardinality(S)
  BY <1>a, <1>1, FS_AddElement
<1>3. Cardinality(S \cup {c}) <= Cardinality(Calls) /\ Cardinality(Calls) \in Nat
  <2>1. S \cup {c} \subseteq Calls
    BY <1>a
  <2> QED BY <1>1, <2>1, FS_Subset, FS_CardinalityType
<1>4. Cardinality(S) \in Nat /\ 1 + Cardinality(S) \in Ids
  BY <1>1, <1>2, <1>3 DEF Ids
<1> QED
  BY <1>2, <1>4 DEF S

\* startNext starts one that was untried, and touches no other.
LEMMA StartedFacts ==
    ASSUME NEW c \in Calls,
           NEW a \in [Tries -> {"untried", "connecting", "connected", "failed", "won", "over"}]
    PROVE  /\ Started(a, c) \in [Tries -> {"untried", "connecting", "connected", "failed", "won", "over"}]
           /\ \A t \in Tries : Started(a, c)[t] \in {a[t], "connecting"}
BY DEF Started

LEMMA AbandonedFacts ==
    ASSUME DialTypes, NEW c \in Calls
    PROVE  /\ Abandoned(c) \in [Tries -> {"untried", "connecting", "connected", "failed", "won", "over"}]
           /\ \A t \in Tries : /\ Abandoned(c)[t] # "connecting"
                               /\ Abandoned(c)[t] = "won" => attempt[c][t] = "won"
BY DEF Abandoned, DialTypes

LEMMA DestroyedFacts ==
    ASSUME NEW a \in [Tries -> {"untried", "connecting", "connected", "failed", "won", "over"}]
    PROVE  /\ Destroyed(a) \in [Tries -> {"untried", "connecting", "connected", "failed", "won", "over"}]
           /\ \A t \in Tries : /\ Destroyed(a)[t] # "won"
                               /\ Destroyed(a)[t] = "connecting" => a[t] = "connecting"
BY DEF Destroyed

-----------------------------------------------------------------------------
(* Types *)

\* The actions by the variables they change.
Broker == \E c \in Calls :
    \/ ReceiveConnect(c) \/ ReceiveCancel(c) \/ ReceiveClose(c) \/ Budget(c) \/ Prepared(c)
    \/ Stagger(c) \/ Deadline(c) \/ Acquire(c) \/ Delivers(c) \/ Closed(c) \/ PortCloses(c)
    \/ \E t \in Tries : Connects(c, t) \/ Fails(c, t) \/ Arrives(c, t) \/ FailureSeen(c, t)

Page == \E c \in Calls :
    \/ AppConnects(c) \/ AppAborts(c) \/ PageBudget(c)
    \/ ReplyArrives(c) \/ PortArrives(c) \/ PortWaitExpires(c) \/ UnclaimedExpires(c)

LEMMA Steps ==
    ASSUME [Next]_vars
    PROVE  Broker \/ Page \/ ReceiveStale \/ Withdraw \/ Reload \/ Leave \/ UNCHANGED vars
BY DEF Next, Receive, Attempts, Continues, PageHears, Broker, Page

LEMMA PageUntouched ==
    ASSUME Broker \/ ReceiveStale \/ Withdraw \/ UNCHANGED vars
    PROVE  UNCHANGED pageVars
BY DEF Broker, ReceiveConnect, ReceiveCancel, ReceiveClose, ReceiveStale, Budget, Prepared,
       Stagger, Connects, Fails, Arrives, FailureSeen, Deadline, Acquire, Delivers, Closed,
       PortCloses, Withdraw, vars

LEMMA PageTyped ==
    ASSUME PageTypes, DocumentsAgree, [Next]_vars
    PROVE  PageTypes'
<1>1. CASE UNCHANGED pageVars
  BY <1>1 DEF PageTypes, pageVars
<1>2. ASSUME NEW c \in Calls, AppConnects(c)
      PROVE  PageTypes'
  <2>1. document # Elsewhere /\ ~Here(c)
    BY <1>2 DEF AppConnects, DocumentsAgree, Here
  <2> DEFINE n == 1 + Cardinality({d \in Calls : Here(d)})
  <2>2. n \in Ids
    BY <2>1, NextId
  <2>3. id' = [id EXCEPT ![c] = n]
    BY <1>2 DEF AppConnects
  <2> HIDE DEF n
  <2>4. n \in 0 .. Cardinality(Calls)
    BY <2>2 DEF Ids
  <2>5. id' \in [Calls -> 0 .. Cardinality(Calls)]
    BY <2>3, <2>4 DEF PageTypes
  <2>6. /\ document' = document /\ hooked' = hooked
        /\ page' = [page EXCEPT ![c] = "asked"] /\ made' = [made EXCEPT ![c] = document]
    BY <1>2 DEF AppConnects
  <2> QED BY <2>5, <2>6 DEF PageTypes
<1>3. ASSUME NEW c \in Calls,
             \/ AppAborts(c) \/ PageBudget(c) \/ ReplyArrives(c) \/ PortArrives(c)
             \/ PortWaitExpires(c)
      PROVE  PageTypes'
  BY <1>3 DEF AppAborts, PageBudget, ReplyArrives, PortArrives, PortWaitExpires, PageTypes
<1>4. CASE Reload \/ Leave
  <2>1. document' \in 0 .. Documents
    BY <1>4, DialAssumption DEF Reload, Leave, Unloads, PageTypes, Elsewhere
  <2> QED BY <1>4, <2>1 DEF Reload, Leave, Unloads, PageTypes
<1> QED
  BY <1>1, <1>2, <1>3, <1>4, Steps, PageUntouched DEF Page, UnclaimedExpires

LEMMA WireTyped ==
    ASSUME WireTypes, [Next]_vars
    PROVE  WireTypes'
<1>1. CASE UNCHANGED wire
  BY <1>1 DEF WireTypes
<1>2. CASE wire # <<>> /\ wire' = Tail(wire)
  BY <1>2, WireShifts
<1>3. ASSUME NEW c \in Calls, AppConnects(c) \/ AppAborts(c) \/ PortWaitExpires(c)
      PROVE  WireTypes'
  BY <1>3, WireGrows DEF AppConnects, AppAborts, PortWaitExpires
<1> QED
  BY <1>1, <1>2, <1>3, Steps
  DEF Broker, Page, ReceiveConnect, ReceiveCancel, ReceiveClose, ReceiveStale, Arriving, Budget,
      Prepared, Stagger, Connects, Fails, Arrives, FailureSeen, Deadline, Acquire, Delivers,
      Closed, PortCloses, Withdraw, PageBudget, ReplyArrives, PortArrives, UnclaimedExpires, Reload, Leave,
      Unloads, vars

LEMMA CallTyped ==
    ASSUME PageTypes, CallTypes, DocumentsAgree, WireInOrder, [Next]_vars
    PROVE  CallTypes'
<1>1. CASE UNCHANGED <<callVars, late>>
  BY <1>1 DEF CallTypes, callVars
<1>2. ASSUME NEW S \in SUBSET Calls, NEW a \in {"ok", "error"}, Answered(S, a)
      PROVE  /\ pending' \in [Ids -> Calls \cup {None}]
             /\ answer' \in [Calls -> {"none", "ok", "error"}]
  BY <1>2 DEF Answered, Forgotten, CallTypes
<1>3. ASSUME NEW S \in SUBSET Calls, Rejected(S)
      PROVE  dispatch' \in [Calls -> {"none", "running", "returned", "closing", "done"}]
  BY <1>3 DEF Rejected, CallTypes
<1>4. ASSUME NEW c \in Calls, ReceiveConnect(c)
      PROVE  CallTypes'
  BY <1>4 DEF ReceiveConnect, CallTypes
<1>5. ASSUME NEW c \in Calls, ReceiveCancel(c)
      PROVE  CallTypes'
  <2> DEFINE cut == ({pending[id[c]]} \ {None}) \cap Cancellable
  <2>1. cut \in SUBSET Calls
    BY DEF Cancellable
  <2>2. Rejected(cut) /\ Answered(cut, "error") /\ late' = late
    BY <1>5 DEF ReceiveCancel, Rejected
  <2>3. signal' \subseteq Calls
    <3>1. wire # <<>> /\ signal' = signal \cup ({pending[id[c]]} \ {None})
      BY <1>5 DEF ReceiveCancel, Arriving
    <3>2. id[c] \in Ids
      BY <1>5, <3>1 DEF ReceiveCancel, Arriving, WireInOrder, Message, DocumentsAgree
    <3> QED BY <3>1, <3>2 DEF CallTypes
  <2> QED BY <1>2, <1>3, <2>1, <2>2, <2>3 DEF CallTypes
<1>6. ASSUME NEW c \in Calls, Rejected({c}), UNCHANGED <<signal, late>>
      PROVE  CallTypes'
  BY <1>2, <1>3, <1>6 DEF CallTypes, Rejected
<1>7. ASSUME NEW c \in Calls, Budget(c)
      PROVE  CallTypes'
  BY <1>2, <1>7 DEF Budget, CallTypes
<1>8. ASSUME NEW c \in Calls, Prepared(c) \/ Deadline(c) \/ Closed(c)
                               \/ \E t \in Tries : FailureSeen(c, t)
      PROVE  CallTypes'
  BY <1>1, <1>6, <1>8 DEF Prepared, Deadline, Closed, FailureSeen, callVars
<1>9. ASSUME NEW c \in Calls, Acquire(c)
      PROVE  CallTypes'
  BY <1>6, <1>9 DEF Acquire, CallTypes
<1>10. ASSUME NEW c \in Calls, Delivers(c)
      PROVE  CallTypes'
  <2>1. CASE Posted(c)
    <3>1. Answered({c}, "ok")
      BY <2>1 DEF Posted
    <3> QED BY <1>2, <1>10, <2>1, <3>1 DEF Delivers, Posted, CallTypes
  <2>2. CASE ClosesInstead(c)
    BY <1>10, <2>2 DEF Delivers, ClosesInstead, CallTypes
  <2> QED BY <1>10, <2>1, <2>2 DEF Delivers
<1>11. CASE Withdraw
  <2>1. Cancellable \in SUBSET Calls
    BY DEF Cancellable
  <2> QED BY <1>2, <1>3, <1>11, <2>1 DEF Withdraw, Rejected, CallTypes
<1>12. ASSUME NEW c \in Calls, PageBudget(c)
      PROVE  CallTypes'
  BY <1>12 DEF PageBudget, CallTypes, callVars
<1> QED
  BY <1>1, <1>4, <1>5, <1>7, <1>8, <1>9, <1>10, <1>11, <1>12, Steps
  DEF Broker, Page, ReceiveClose, ReceiveStale, Stagger, Connects, Fails, Arrives,
      PortCloses, AppConnects, AppAborts, ReplyArrives, PortArrives, PortWaitExpires, UnclaimedExpires,
      Reload, Leave, Unloads, vars

\* Cancelling closes a race and ends its dial together.
LEMMA HaltedFacts ==
    ASSUME DialTypes, RaceAgrees, NEW S \in SUBSET Calls, Halted(S)
    PROVE  /\ race' \in [Calls -> {"none", "open", "won", "unreachable", "timeout", "revoked"}]
           /\ work' \in [Calls -> {"none", "preparing", "dialling", "dialled", "ended"}]
           /\ \A c \in Calls : race'[c] = "open" <=> work'[c] = "dialling"
           /\ \A c \in Calls : \/ race'[c] = race[c] /\ work'[c] = work[c] /\ (c \in S => race[c] # "open")
                               \/ c \in S /\ race[c] = "open" /\ race'[c] = "revoked" /\ work'[c] = "ended"
<1>1. \A c \in Calls :
        /\ race'[c] = IF c \in S /\ race[c] = "open" THEN "revoked" ELSE race[c]
        /\ work'[c] = IF c \in S /\ race[c] = "open" THEN "ended" ELSE work[c]
  BY DEF Halted
<1>2. /\ race' \in [Calls -> {"none", "open", "won", "unreachable", "timeout", "revoked"}]
      /\ work' \in [Calls -> {"none", "preparing", "dialling", "dialled", "ended"}]
  <2>1. race' = [c \in Calls |-> race'[c]] /\ work' = [c \in Calls |-> work'[c]]
    BY DEF Halted
  <2> QED BY <1>1, <2>1 DEF DialTypes
<1>3. \A c \in Calls : race'[c] = "open" <=> work'[c] = "dialling"
  BY <1>1 DEF RaceAgrees
<1> QED
  BY <1>1, <1>2, <1>3

LEMMA DialTyped ==
    ASSUME WireTypes, WireInOrder, WorkAgrees, DialTypes, RaceAgrees, [Next]_vars
    PROVE  DialTypes' /\ RaceAgrees'
<1> DEFINE States == {"untried", "connecting", "connected", "failed", "won", "over"}
<1>1. CASE UNCHANGED dialVars
  BY <1>1 DEF DialTypes, RaceAgrees, dialVars
<1>2. ASSUME NEW c \in Calls
      PROVE  /\ attempt[c] \in [Tries -> States]
             /\ Abandoned(c) \in [Tries -> States]
             /\ Destroyed(attempt[c]) \in [Tries -> States]
             /\ Started(attempt[c], c) \in [Tries -> States]
  <2>1. attempt[c] \in [Tries -> States]
    BY DEF DialTypes
  <2> QED BY <2>1, AbandonedFacts, DestroyedFacts, StartedFacts
<1>a. ASSUME NEW c \in Calls, NEW a \in [Tries -> States], attempt' = [attempt EXCEPT ![c] = a]
      PROVE  attempt' \in [Calls -> [Tries -> States]]
  BY <1>a DEF DialTypes
<1>3. ASSUME NEW c \in Calls, ReceiveConnect(c) \/ Acquire(c) \/ Deadline(c) \/ ReceiveClose(c)
      PROVE  DialTypes' /\ RaceAgrees'
  <2>a. attempt \in [Calls -> [Tries -> States]]
    BY DEF DialTypes
  <2>1. attempt' \in [Calls -> [Tries -> States]]
    <3>1. attempt' = attempt \/ attempt' = [attempt EXCEPT ![c] = attempt[c]]
            \/ attempt' = [attempt EXCEPT ![c] = Destroyed(attempt[c])]
            \/ attempt' = [attempt EXCEPT ![c] = Abandoned(c)]
      BY <1>3 DEF ReceiveConnect, Acquire, Deadline, ReceiveClose
    <3> QED BY <1>2, <1>a, <2>a, <3>1
  <2>2. CASE ReceiveConnect(c)
    <3>1. /\ UNCHANGED <<race, handle>>
          /\ \E w \in {"preparing", "ended"} : work' = [work EXCEPT ![c] = w]
      BY <2>2 DEF ReceiveConnect
    <3>2. dispatch[c] = "none"
      BY <2>2, Received DEF ReceiveConnect
    <3>3. race[c] # "open"
      BY <3>2 DEF WorkAgrees, RaceAgrees
    <3> QED BY <2>1, <3>1, <3>3 DEF DialTypes, RaceAgrees
  <2>3. CASE Acquire(c)
    BY <2>1, <2>3 DEF Acquire, DialTypes, RaceAgrees
  <2>4. CASE Deadline(c)
    BY <2>1, <2>4 DEF Deadline, DialTypes, RaceAgrees
  <2>5. CASE ReceiveClose(c)
    BY <2>1, <2>5 DEF ReceiveClose, DialTypes, RaceAgrees
  <2> QED BY <1>3, <2>2, <2>3, <2>4, <2>5
<1>4. ASSUME NEW c \in Calls, ReceiveCancel(c)
      PROVE  DialTypes' /\ RaceAgrees'
  <2> DEFINE cut == ({pending[id[c]]} \ {None}) \cap Cancellable
  <2>1. cut \in SUBSET Calls /\ Halted(cut) /\ handle' = handle
    BY <1>4 DEF ReceiveCancel, Cancellable
  <2>2. attempt' = [d \in Calls |-> IF d \in cut THEN Abandoned(d) ELSE attempt[d]]
    BY <1>4 DEF ReceiveCancel
  <2>3. attempt' \in [Calls -> [Tries -> States]]
    <3> HIDE DEF cut
    <3> QED BY <1>2, <2>2
  <2> HIDE DEF cut
  <2> QED BY <2>1, <2>3, HaltedFacts DEF DialTypes, RaceAgrees
<1>5. ASSUME NEW c \in Calls, Prepared(c)
      PROVE  DialTypes' /\ RaceAgrees'
  <2>1. attempt' = attempt \/ attempt' = [attempt EXCEPT ![c] = Started(attempt[c], c)]
    BY <1>5 DEF Prepared
  <2>2. attempt' \in [Calls -> [Tries -> States]]
    BY <1>2, <1>a, <2>1 DEF DialTypes
  <2> QED BY <1>5, <2>2 DEF Prepared, DialTypes, RaceAgrees
<1>6. ASSUME NEW c \in Calls, Stagger(c)
      PROVE  DialTypes' /\ RaceAgrees'
  <2>1. attempt' = [attempt EXCEPT ![c] = Started(attempt[c], c)]
    BY <1>6 DEF Stagger
  <2>2. attempt' \in [Calls -> [Tries -> States]]
    BY <1>2, <1>a, <2>1
  <2> QED BY <1>6, <2>2 DEF Stagger, DialTypes, RaceAgrees
<1>7. ASSUME NEW c \in Calls, NEW t \in Tries, Connects(c, t) \/ Fails(c, t)
      PROVE  DialTypes' /\ RaceAgrees'
  <2>1. PICK a \in States : attempt' = [attempt EXCEPT ![c] = [attempt[c] EXCEPT ![t] = a]]
    BY <1>7 DEF Connects, Fails
  <2>2. [attempt[c] EXCEPT ![t] = a] \in [Tries -> States]
    BY <1>2
  <2>3. attempt' \in [Calls -> [Tries -> States]]
    BY <1>a, <2>1, <2>2
  <2> QED BY <1>7, <2>3 DEF Connects, Fails, DialTypes, RaceAgrees
<1>8. ASSUME NEW c \in Calls, NEW t \in Tries, Arrives(c, t)
      PROVE  DialTypes' /\ RaceAgrees'
  <2>1. [Abandoned(c) EXCEPT ![t] = "won"] \in [Tries -> States]
    BY <1>2
  <2>2. attempt' = [attempt EXCEPT ![c] = [Abandoned(c) EXCEPT ![t] = "won"]]
          \/ attempt' = [attempt EXCEPT ![c][t] = "over"]
    BY <1>8 DEF Arrives
  <2>3. attempt' \in [Calls -> [Tries -> States]]
    BY <1>a, <2>1, <2>2 DEF DialTypes
  <2> QED BY <1>8, <2>3 DEF Arrives, DialTypes, RaceAgrees
<1>9. ASSUME NEW c \in Calls, NEW t \in Tries, FailureSeen(c, t)
      PROVE  DialTypes' /\ RaceAgrees'
  <2> DEFINE over == [attempt[c] EXCEPT ![t] = "over"]
  <2>1. over \in [Tries -> States]
    BY <1>2
  <2>2. Started(over, c) \in [Tries -> States]
    BY <2>1, StartedFacts
  <2>3. attempt' \in [Calls -> [Tries -> States]]
    BY <1>9, <2>1, <2>2 DEF FailureSeen, DialTypes
  <2>4. CASE race[c] = "open" /\ Untried(c) = {} /\ Running(c) = {t}
    <3>1. race' = [race EXCEPT ![c] = "unreachable"] /\ work' = [work EXCEPT ![c] = "ended"]
          /\ handle' = handle
      BY <1>9, <2>4 DEF FailureSeen
    <3> QED BY <2>3, <3>1 DEF DialTypes, RaceAgrees
  <2>5. CASE ~(race[c] = "open" /\ Untried(c) = {} /\ Running(c) = {t})
    <3>1. UNCHANGED <<race, work, handle>>
      BY <1>9, <2>5 DEF FailureSeen
    <3> QED BY <2>3, <3>1 DEF DialTypes, RaceAgrees
  <2> QED BY <2>4, <2>5
<1>10. ASSUME NEW c \in Calls, Delivers(c) \/ PortCloses(c)
      PROVE  DialTypes' /\ RaceAgrees'
  <2>1. attempt' = attempt \/ attempt' = [attempt EXCEPT ![c] = Destroyed(attempt[c])]
    BY <1>10 DEF Delivers, Posted, ClosesInstead, PortCloses
  <2>2. attempt' \in [Calls -> [Tries -> States]]
    BY <1>2, <1>a, <2>1 DEF DialTypes
  <2>3. /\ UNCHANGED <<work, race>>
        /\ handle' = handle \/ handle' = [handle EXCEPT ![c] = "gone"]
    BY <1>10 DEF Delivers, Posted, ClosesInstead, PortCloses
  <2> QED BY <2>2, <2>3 DEF DialTypes, RaceAgrees
<1>11. CASE Withdraw
  <2>1. attempt' \in [Calls -> [Tries -> States]]
    <3>1. attempt' = [c \in Calls |-> IF c \in Live THEN Destroyed(attempt[c])
                                     ELSE IF c \in Cancellable THEN Abandoned(c) ELSE attempt[c]]
      BY <1>11 DEF Withdraw
    <3> QED BY <1>2, <3>1
  <2>2. Halted(Cancellable) /\ Cancellable \in SUBSET Calls
    BY <1>11 DEF Withdraw, Cancellable
  <2>3. handle' \in [Calls -> {"none", "live", "gone"}]
    BY <1>11 DEF Withdraw, DialTypes
  <2> QED BY <2>1, <2>2, <2>3, HaltedFacts DEF DialTypes, RaceAgrees
<1> QED
  BY <1>1, <1>3, <1>4, <1>5, <1>6, <1>7, <1>8, <1>9, <1>10, <1>11, Steps
  DEF Broker, Page, Budget, Closed, ReceiveStale, AppConnects, AppAborts, PageBudget,
      ReplyArrives, PortArrives, PortWaitExpires, UnclaimedExpires, Reload, Leave, Unloads, vars

LEMMA PortTyped ==
    ASSUME PageTypes, PortTypes, [Next]_vars
    PROVE  PortTypes'
<1>1. CASE UNCHANGED <<portVars, withdrawals>>
  BY <1>1 DEF PortTypes, portVars
<1>2. ASSUME NEW c \in Calls,
             \/ Delivers(c) \/ PortCloses(c)
             \/ ReplyArrives(c) \/ PortArrives(c) \/ UnclaimedExpires(c)
      PROVE  PortTypes'
  BY <1>2 DEF Delivers, Posted, ClosesInstead, PortCloses, ReplyArrives, PortArrives, UnclaimedExpires,
              PortTypes, PageTypes
<1>3. CASE Withdraw
  BY <1>3, DialAssumption DEF Withdraw, PortTypes, portVars
<1>4. CASE Reload \/ Leave
  BY <1>4 DEF Reload, Leave, Unloads, PortTypes
<1> QED
  BY <1>1, <1>2, <1>3, <1>4, Steps
  DEF Broker, Page, ReceiveConnect, ReceiveCancel, ReceiveClose, ReceiveStale, Budget, Prepared,
      Stagger, Connects, Fails, Arrives, FailureSeen, Deadline, Acquire, Closed,
      AppConnects, AppAborts, PageBudget, PortWaitExpires, vars

-----------------------------------------------------------------------------
(* Documents, and the order of the channel *)

LEMMA DocumentsAgreeKept ==
    ASSUME PageTypes, DocumentsAgree, [Next]_vars
    PROVE  DocumentsAgree'
<1>1. CASE UNCHANGED <<document, page, made, id>>
  BY <1>1 DEF DocumentsAgree, Here
<1>2. ASSUME NEW c \in Calls, AppConnects(c)
      PROVE  DocumentsAgree'
  <2> DEFINE here == {d \in Calls : Here(d)}
  <2>1. document # Elsewhere /\ ~Here(c) /\ made[c] = Elsewhere
    BY <1>2 DEF AppConnects, DocumentsAgree, Here
  <2>2. /\ Cardinality(here) \in Nat /\ 1 + Cardinality(here) \in Ids
        /\ Cardinality(here \cup {c}) = 1 + Cardinality(here)
    BY <2>1, NextId
  <2>3. /\ document' = document
        /\ made' = [made EXCEPT ![c] = document]
        /\ id' = [id EXCEPT ![c] = 1 + Cardinality(here)]
        /\ page' = [page EXCEPT ![c] = "asked"]
    BY <1>2 DEF AppConnects
  <2>4. {d \in Calls : made'[d] = document'} = here \cup {c}
    BY <2>3 DEF PageTypes, Here
  <2>5. \A d \in Calls : Here(d) => id[d] <= Cardinality(here)
    BY <2>1 DEF DocumentsAgree
  <2> HIDE DEF here
  <2>6. \A d \in Calls \ {c} : made'[d] = made[d] /\ id'[d] = id[d] /\ page'[d] = page[d]
    BY <2>3 DEF PageTypes
  <2>7. made'[c] = document /\ id'[c] = 1 + Cardinality(here) /\ page'[c] = "asked"
    BY <2>3 DEF PageTypes
  <2>8. \A d \in Calls \ {c} : ~(made'[d] = made'[c] /\ id'[d] = id'[c])
    BY <2>2, <2>5, <2>6, <2>7 DEF Here, PageTypes
  <2>9. \A d \in Calls : made'[d] = document' => id'[d] <= Cardinality(here \cup {c})
    BY <2>2, <2>3, <2>5, <2>6, <2>7 DEF Here, PageTypes
  <2>10. \A d, e \in Calls :
            made'[d] # Elsewhere /\ made'[d] = made'[e] /\ id'[d] = id'[e] => d = e
    BY <2>6, <2>8 DEF DocumentsAgree
  <2>11. \A d \in Calls :
            /\ made'[d] <= document'
            /\ page'[d] = "idle" <=> made'[d] = Elsewhere
            /\ page'[d] \notin {"idle", "gone"} => made'[d] = document'
            /\ made'[d] # Elsewhere => id'[d] \in Ids
    BY <2>1, <2>2, <2>3, <2>6, <2>7 DEF DocumentsAgree, Here, PageTypes
  <2> QED BY <2>4, <2>9, <2>10, <2>11 DEF DocumentsAgree, Here
<1>3. ASSUME NEW c \in Calls,
             PageBudget(c) \/ ReplyArrives(c) \/ PortArrives(c) \/ PortWaitExpires(c)
      PROVE  DocumentsAgree'
  <2>1. UNCHANGED <<document, made, id>>
    BY <1>3 DEF PageBudget, ReplyArrives, PortArrives, PortWaitExpires
  <2>2. \A d \in Calls :
           \/ page'[d] = page[d]
           \/ page[d] \in {"asked", "awaiting"} /\ page'[d] \in {"awaiting", "open", "failed"}
    BY <1>3 DEF PageBudget, ReplyArrives, PortArrives, PortWaitExpires, PageTypes
  <2>3. \A d \in Calls :
           /\ page'[d] = "idle" <=> made'[d] = Elsewhere
           /\ page'[d] \notin {"idle", "gone"} => made'[d] = document'
    BY <2>1, <2>2 DEF DocumentsAgree, Here
  <2> QED BY <2>1, <2>3 DEF DocumentsAgree, Here
<1>4. CASE Reload \/ Leave
  <2>1. /\ document # Elsewhere /\ document' \in {Elsewhere, document + 1}
        /\ page' = [c \in Calls |-> IF Here(c) THEN "gone" ELSE page[c]]
        /\ UNCHANGED <<made, id>>
    BY <1>4 DEF Reload, Leave, Unloads
  <2>2. \A c \in Calls : document' # Elsewhere => made'[c] <= document' /\ made'[c] # document'
    BY <2>1 DEF DocumentsAgree, PageTypes
  <2>3. \A c \in Calls :
           /\ page'[c] = "idle" <=> made'[c] = Elsewhere
           /\ page'[c] \in {"idle", "gone"}
    BY <2>1 DEF DocumentsAgree, PageTypes, Here
  <2> QED BY <2>1, <2>2, <2>3 DEF DocumentsAgree, Here
<1> QED
  BY <1>1, <1>2, <1>3, <1>4, Steps, PageUntouched DEF Page, AppAborts, UnclaimedExpires, pageVars

\* What has been asked, and by which document, is settled once.
LEMMA MadeKept ==
    ASSUME PageTypes, DocumentsAgree, [Next]_vars
    PROVE  /\ \A c \in Calls : made[c] # Elsewhere => made'[c] = made[c] /\ id'[c] = id[c]
           /\ hooked \subseteq hooked'
           /\ \A c \in Calls : made[c] # Elsewhere /\ ~Here(c) => ~Here(c)'
<1>1. CASE UNCHANGED <<document, made, id>> /\ hooked \subseteq hooked'
  BY <1>1 DEF Here
<1>2. ASSUME NEW c \in Calls, AppConnects(c)
      PROVE  /\ document' = document /\ hooked' = hooked
             /\ \A d \in Calls : made[d] # Elsewhere => made'[d] = made[d] /\ id'[d] = id[d]
  <2>1. made[c] = Elsewhere
    BY <1>2 DEF AppConnects, DocumentsAgree
  <2> QED BY <1>2, <2>1 DEF AppConnects, PageTypes
<1>3. ASSUME NEW c \in Calls,
             \/ AppAborts(c) \/ PageBudget(c) \/ ReplyArrives(c) \/ PortArrives(c)
             \/ PortWaitExpires(c)
      PROVE  UNCHANGED <<document, made, id>> /\ hooked \subseteq hooked'
  BY <1>3 DEF AppAborts, PageBudget, ReplyArrives, PortArrives, PortWaitExpires
<1>4. CASE Reload \/ Leave
  <2>1. /\ document # Elsewhere /\ document' \in {Elsewhere, document + 1}
        /\ UNCHANGED <<made, id, hooked>>
    BY <1>4 DEF Reload, Leave, Unloads
  <2>2. \A c \in Calls : made[c] <= document /\ made[c] \in Nat /\ document \in Nat
    BY <2>1 DEF DocumentsAgree, PageTypes
  <2> QED BY <2>1, <2>2 DEF Here
<1>5. CASE Page
  <2>1. PICK c \in Calls :
          \/ AppConnects(c) \/ AppAborts(c) \/ PageBudget(c)
          \/ ReplyArrives(c) \/ PortArrives(c) \/ PortWaitExpires(c) \/ UnclaimedExpires(c)
    BY <1>5 DEF Page
  <2>2. CASE AppConnects(c)
    BY <1>2, <2>2 DEF Here
  <2>3. CASE UnclaimedExpires(c)
    BY <1>1, <2>3 DEF UnclaimedExpires, pageVars
  <2> QED BY <1>1, <1>3, <2>1, <2>2, <2>3
<1>6. CASE UNCHANGED pageVars
  BY <1>1, <1>6 DEF pageVars
<1> QED
  BY <1>4, <1>5, <1>6, Steps, PageUntouched

\* What is received was in order with what follows it.
LEMMA WireInOrderShifts ==
    ASSUME WireTypes, WireInOrder, wire # <<>>, wire' = Tail(wire),
           UNCHANGED <<made, hooked>>,
           \A c \in Calls : dispatch'[c] # dispatch[c] =>
              /\ made[c] # Elsewhere
              /\ dispatch[c] # "none" \/ Head(wire) = Message(Connect, c)
              /\ dispatch'[c] # "none"
    PROVE  WireInOrder'
<1>1. /\ Len(wire) \in Nat \ {0} /\ Len(wire') = Len(wire) - 1
      /\ Head(wire) = wire[1]
      /\ \A i \in 1 .. Len(wire') : wire'[i] = wire[i + 1]
  BY WireShifts
<1>2. \A i \in 1 .. Len(wire') : i + 1 \in 1 .. Len(wire) /\ 1 < i + 1 /\ 1 \in 1 .. Len(wire)
  BY <1>1
<1>3. \A i \in 1 .. Len(wire) : wire[i].call \in Calls
  BY WireHolds
<1>4. \A i \in 1 .. Len(wire') :
        /\ made'[wire'[i].call] # Elsewhere
        /\ wire'[i].kind = Cancel => wire'[i].call \in hooked'
  BY <1>1, <1>2 DEF WireInOrder
<1>5. \A i \in 1 .. Len(wire') : wire'[i].kind = Connect => dispatch'[wire'[i].call] = "none"
  <2> SUFFICES ASSUME NEW i \in 1 .. Len(wire'), wire'[i].kind = Connect
               PROVE  dispatch'[wire'[i].call] = "none"
    OBVIOUS
  <2> DEFINE c == wire[i + 1].call
  <2>1. c \in Calls /\ wire'[i] = wire[i + 1] /\ dispatch[c] = "none"
    BY <1>1, <1>2, <1>3 DEF WireInOrder
  <2>2. wire[1] # Message(Connect, c)
    <3>1. ~ (wire[1].kind = Connect /\ wire[i + 1].kind = Connect /\ wire[1].call = wire[i + 1].call)
      BY <1>2 DEF WireInOrder
    <3> QED BY <2>1, <3>1 DEF Message
  <2> QED BY <1>1, <2>1, <2>2
<1>6. \A i, j \in 1 .. Len(wire') : i < j =>
        /\ made'[wire'[i].call] <= made'[wire'[j].call]
        /\ ~ (wire'[i].kind = Connect /\ wire'[j].kind = Connect /\ wire'[i].call = wire'[j].call)
  BY <1>1, <1>2 DEF WireInOrder
<1>7. \A c \in Calls : dispatch'[c] # "none" =>
        /\ made'[c] # Elsewhere
        /\ \A i \in 1 .. Len(wire') : made'[c] <= made'[wire'[i].call]
  <2> SUFFICES ASSUME NEW c \in Calls, dispatch'[c] # "none"
               PROVE  /\ made[c] # Elsewhere
                      /\ \A i \in 1 .. Len(wire') : made[c] <= made[wire[i + 1].call]
    BY <1>1
  <2>1. CASE dispatch[c] # "none"
    BY <1>2, <2>1 DEF WireInOrder
  <2>2. CASE dispatch[c] = "none"
    <3>1. made[c] # Elsewhere /\ wire[1].call = c
      BY <1>1, <2>2 DEF Message
    <3> QED BY <1>2, <3>1 DEF WireInOrder
  <2> QED BY <2>1, <2>2
<1> QED
  BY <1>4, <1>5, <1>6, <1>7 DEF WireInOrder

\* What the document sends is in order with what was sent.
LEMMA WireInOrderGrows ==
    ASSUME PageTypes, WireTypes, DocumentsAgree, WireInOrder, document # Elsewhere,
           NEW kind \in {Connect, Cancel, Close}, NEW c \in Calls,
           wire' = Append(wire, Message(kind, c)),
           UNCHANGED dispatch, hooked \subseteq hooked',
           made'[c] = document,
           \A d \in Calls : made[d] # Elsewhere => made'[d] = made[d],
           kind = Connect => made[c] = Elsewhere,
           kind = Cancel => c \in hooked'
    PROVE  WireInOrder'
<1> DEFINE n == Len(wire) + 1
<1>1. /\ Len(wire) \in Nat /\ Len(wire') = n
      /\ \A i \in 1 .. Len(wire) : wire'[i] = wire[i]
      /\ wire'[n].kind = kind /\ wire'[n].call = c
  BY WireGrows DEF Message
<1>2. \A i \in 1 .. n : i = n \/ i \in 1 .. Len(wire)
  BY <1>1
<1>3. \A i \in 1 .. Len(wire) :
        wire[i].call \in Calls /\ made[wire[i].call] # Elsewhere
          /\ made'[wire[i].call] = made[wire[i].call] /\ made[wire[i].call] <= document
  BY WireHolds DEF WireInOrder, DocumentsAgree
<1>4. kind = Connect => dispatch[c] = "none"
  BY DEF WireInOrder
<1>5. document \in Nat
  BY DEF PageTypes
<1> HIDE DEF n
<1>6. \A i \in 1 .. n :
        /\ made'[wire'[i].call] # Elsewhere
        /\ wire'[i].kind = Connect => dispatch'[wire'[i].call] = "none"
        /\ wire'[i].kind = Cancel => wire'[i].call \in hooked'
  <2> TAKE i \in 1 .. n
  <2>1. CASE i = n
    BY <1>1, <1>4, <2>1
  <2>2. CASE i \in 1 .. Len(wire)
    BY <1>1, <1>3, <2>2 DEF WireInOrder
  <2> QED BY <1>2, <2>1, <2>2
<1>7. \A i, j \in 1 .. n : i < j =>
        /\ made'[wire'[i].call] <= made'[wire'[j].call]
        /\ ~ (wire'[i].kind = Connect /\ wire'[j].kind = Connect /\ wire'[i].call = wire'[j].call)
  <2> SUFFICES ASSUME NEW i \in 1 .. n, NEW j \in 1 .. n, i < j
               PROVE  /\ made'[wire'[i].call] <= made'[wire'[j].call]
                      /\ ~ (wire'[i].kind = Connect /\ wire'[j].kind = Connect /\ wire'[i].call = wire'[j].call)
    OBVIOUS
  <2>1. i \in 1 .. Len(wire)
    BY <1>1 DEF n
  <2>2. CASE j = n
    BY <1>1, <1>3, <2>1, <2>2
  <2>3. CASE j \in 1 .. Len(wire)
    BY <1>1, <1>3, <2>1, <2>3 DEF WireInOrder
  <2> QED BY <1>2, <2>2, <2>3
<1>8. \A d \in Calls : dispatch'[d] # "none" =>
        /\ made'[d] # Elsewhere
        /\ \A i \in 1 .. n : made'[d] <= made'[wire'[i].call]
  <2> SUFFICES ASSUME NEW d \in Calls, dispatch[d] # "none"
               PROVE  made'[d] # Elsewhere /\ \A i \in 1 .. n : made'[d] <= made'[wire'[i].call]
    OBVIOUS
  <2>1. made[d] # Elsewhere /\ made'[d] = made[d] /\ made[d] <= document
    BY DEF WireInOrder, DocumentsAgree
  <2>2. ASSUME NEW i \in 1 .. n
        PROVE  made'[d] <= made'[wire'[i].call]
    <3>1. CASE i = n
      BY <1>1, <2>1, <3>1
    <3>2. CASE i \in 1 .. Len(wire)
      BY <1>1, <1>3, <2>1, <3>2 DEF WireInOrder
    <3> QED BY <1>2, <3>1, <3>2
  <2> QED BY <2>1, <2>2
<1> QED
  BY <1>1, <1>6, <1>7, <1>8 DEF WireInOrder

\* Once a call has been received, its dispatch never goes back.
LEMMA WireInOrderKept ==
    ASSUME PageTypes, WireTypes, CallTypes, RaceAgrees,
           DocumentsAgree, WireInOrder, WorkAgrees, [Next]_vars
    PROVE  WireInOrder'
<1>1. ASSUME UNCHANGED <<made, hooked, wire>>,
             \A c \in Calls : dispatch'[c] = dispatch[c] \/ (dispatch[c] # "none" /\ dispatch'[c] # "none")
      PROVE  WireInOrder'
  <2>1. \A i \in 1 .. Len(wire) : wire[i].call \in Calls
    BY WireHolds
  <2> QED BY <1>1, <2>1 DEF WireInOrder
<1>2. \A c \in Calls : dispatch[c] = "none" => answer[c] = "none" /\ work[c] = "none"
  BY DEF WorkAgrees
<1>3. ASSUME NEW c \in Calls, ReceiveConnect(c)
      PROVE  WireInOrder'
  <2>1. /\ wire # <<>> /\ wire' = Tail(wire) /\ Head(wire) = Message(Connect, c)
        /\ UNCHANGED <<made, hooked>>
        /\ \E d \in {"running", "done"} : dispatch' = [dispatch EXCEPT ![c] = d]
    BY <1>3 DEF ReceiveConnect, Arriving, pageVars
  <2>2. made[c] # Elsewhere
    BY <1>3, Received DEF ReceiveConnect
  <2>3. \A d \in Calls : dispatch'[d] # dispatch[d] =>
           made[d] # Elsewhere /\ Head(wire) = Message(Connect, d) /\ dispatch'[d] # "none"
    BY <2>1, <2>2 DEF CallTypes
  <2> QED BY <2>1, <2>3, WireInOrderShifts
<1>4. ASSUME NEW c \in Calls, ReceiveCancel(c)
      PROVE  WireInOrder'
  <2>1. /\ wire # <<>> /\ wire' = Tail(wire)
        /\ UNCHANGED <<made, hooked>>
        /\ \E S \in SUBSET Cancellable : Rejected(S)
    BY <1>4 DEF ReceiveCancel, Arriving, pageVars
  <2>2. \A d \in Calls : dispatch'[d] # dispatch[d] =>
           made[d] # Elsewhere /\ dispatch[d] # "none" /\ dispatch'[d] # "none"
    BY <2>1 DEF Rejected, Cancellable, WireInOrder
  <2> QED BY <2>1, <2>2, WireInOrderShifts
<1>5. ASSUME ReceiveStale \/ \E c \in Calls : ReceiveClose(c)
      PROVE  WireInOrder'
  <2>1. wire # <<>> /\ wire' = Tail(wire) /\ UNCHANGED <<made, hooked, dispatch>>
    BY <1>5 DEF ReceiveStale, ReceiveClose, Arriving, pageVars, callVars
  <2> QED BY <2>1, WireInOrderShifts
<1>6. ASSUME NEW c \in Calls, AppConnects(c)
      PROVE  WireInOrder'
  <2>1. /\ document # Elsewhere /\ made[c] = Elsewhere /\ made'[c] = document
        /\ wire' = Append(wire, Message(Connect, c)) /\ UNCHANGED <<dispatch, hooked>>
    BY <1>6 DEF AppConnects, DocumentsAgree, PageTypes, callVars
  <2>2. \A d \in Calls : made[d] # Elsewhere => made'[d] = made[d]
    BY <1>6, MadeKept
  <2> QED BY <2>1, <2>2, WireInOrderGrows, Connect # Cancel DEF Connect, Cancel
<1>7. ASSUME NEW c \in Calls, AppAborts(c) \/ PortWaitExpires(c)
      PROVE  WireInOrder'
  <2>1. made[c] = document /\ document # Elsewhere
    BY <1>7 DEF AppAborts, PortWaitExpires, DocumentsAgree, Here
  <2>2. CASE AppAborts(c)
    <3>1. /\ made' = made /\ wire' = Append(wire, Message(Cancel, c)) /\ UNCHANGED dispatch
          /\ hooked \subseteq hooked' /\ c \in hooked'
      BY <2>2 DEF AppAborts, callVars
    <3> QED BY <2>1, <3>1, WireInOrderGrows DEF Connect, Cancel
  <2>3. CASE PortWaitExpires(c)
    <3>1. made' = made /\ wire' = Append(wire, Message(Close, c)) /\ UNCHANGED <<dispatch, hooked>>
      BY <2>3 DEF PortWaitExpires, callVars
    <3> QED BY <2>1, <3>1, WireInOrderGrows DEF Connect, Cancel, Close
  <2> QED BY <1>7, <2>2, <2>3
<1>8. ASSUME NEW c \in Calls,
             \/ PageBudget(c) \/ ReplyArrives(c) \/ PortArrives(c)
             \/ UnclaimedExpires(c) \/ PortCloses(c)
      PROVE  WireInOrder'
  BY <1>1, <1>8 DEF PortCloses, PageBudget, ReplyArrives, PortArrives, UnclaimedExpires, callVars, pageVars
<1>9. CASE Reload \/ Leave
  BY <1>1, <1>9 DEF Reload, Leave, Unloads, callVars
<1>10. CASE Withdraw
  BY <1>1, <1>10 DEF Withdraw, Rejected, Cancellable, pageVars
<1>11. ASSUME NEW c \in Calls, Rejected({c}) \/ UNCHANGED dispatch, dispatch[c] # "none",
              UNCHANGED pageVars, UNCHANGED wire
       PROVE  WireInOrder'
  BY <1>1, <1>11 DEF Rejected, pageVars
<1>12. ASSUME NEW c \in Calls, Prepared(c) \/ Deadline(c) \/ \E t \in Tries : FailureSeen(c, t)
       PROVE  WireInOrder'
  <2>1. Rejected({c}) \/ UNCHANGED dispatch
    BY <1>12 DEF Prepared, Deadline, FailureSeen, callVars
  <2>2. dispatch[c] = "none" => ~ \E t \in Tries : FailureSeen(c, t) /\ race[c] = "open"
    BY <1>2 DEF RaceAgrees
  <2>3. dispatch[c] # "none" \/ UNCHANGED dispatch
    BY <1>2, <1>12, <2>2 DEF Prepared, Deadline, FailureSeen, callVars, RaceAgrees
  <2>4. UNCHANGED pageVars /\ UNCHANGED wire
    BY <1>12 DEF Prepared, Deadline, FailureSeen
  <2>5. CASE UNCHANGED dispatch
    BY <1>1, <2>4, <2>5 DEF pageVars
  <2> QED BY <1>11, <2>1, <2>3, <2>4, <2>5
<1>13. ASSUME NEW c \in Calls, Closed(c)
       PROVE  WireInOrder'
  BY <1>11, <1>13 DEF Closed
<1>14. ASSUME NEW c \in Calls, Acquire(c) \/ Delivers(c)
       PROVE  WireInOrder'
  <2>1. dispatch[c] # "none" /\ UNCHANGED pageVars /\ UNCHANGED wire
    BY <1>2, <1>14 DEF Acquire, Delivers
  <2>2. Rejected({c}) \/ \E d \in {"returned", "closing", "done"} : dispatch' = [dispatch EXCEPT ![c] = d]
    BY <1>14 DEF Acquire, Delivers, Posted, ClosesInstead
  <2>3. CASE Rejected({c})
    BY <1>11, <2>1, <2>3
  <2>4. PICK d \in {"returned", "closing", "done", "none"} :
           Rejected({c}) \/ (d # "none" /\ dispatch' = [dispatch EXCEPT ![c] = d])
    BY <2>2
  <2>5. CASE dispatch' = [dispatch EXCEPT ![c] = d] /\ d # "none"
    BY <1>1, <2>1, <2>5 DEF CallTypes, pageVars
  <2> QED BY <2>3, <2>4, <2>5
<1>15. ASSUME NEW c \in Calls, Budget(c) \/ Stagger(c)
                                \/ \E t \in Tries : Connects(c, t) \/ Fails(c, t) \/ Arrives(c, t)
       PROVE  WireInOrder'
  BY <1>1, <1>15 DEF Budget, Stagger, Connects, Fails, Arrives, callVars, pageVars
<1>16. CASE UNCHANGED vars
  BY <1>1, <1>16 DEF vars, callVars, pageVars
<1>17. CASE Broker
  BY <1>3, <1>4, <1>5, <1>8, <1>12, <1>13, <1>14, <1>15, <1>17 DEF Broker
<1>18. CASE Page
  BY <1>6, <1>7, <1>8, <1>18 DEF Page
<1> QED
  BY <1>5, <1>9, <1>10, <1>16, <1>17, <1>18, Steps

-----------------------------------------------------------------------------
(* What the broker keeps of a call *)

\* A call goes on as it is, or its dispatch ends and its entry with it.
LEMMA WorkAdvances ==
    ASSUME PageTypes, DocumentsAgree, WireInOrder, WorkAgrees, [Next]_vars,
           \A i \in Ids : pending'[i] \in {pending[i], None},
           late \subseteq late',
           \A c \in Calls :
              /\ c \in signal' => c \in signal \/ dispatch[c] # "none"
              /\ handle'[c] = "live" => handle[c] = "live"
              /\ \/ /\ dispatch'[c] = dispatch[c] /\ answer'[c] = answer[c]
                    /\ \/ work'[c] = work[c]
                       \/ /\ work[c] \in {"preparing", "dialling"}
                          /\ work'[c] \in {"dialling", "dialled", "ended"}
                 \/ /\ dispatch[c] # "none" /\ dispatch'[c] = "done"
                    /\ work'[c] \in {work[c], "ended"}
                    /\ \A i \in Ids : pending'[i] # c
    PROVE  WorkAgrees'
<1> SUFFICES ASSUME NEW c \in Calls
             PROVE  /\ dispatch'[c] = "none" <=> work'[c] = "none"
                    /\ dispatch'[c] = "none" => answer'[c] = "none" /\ c \notin signal'
                    /\ work'[c] \in {"preparing", "dialling", "dialled"} => dispatch'[c] \in {"running", "done"}
                    /\ dispatch'[c] \in {"running", "returned", "closing"} => answer'[c] = "none" \/ c \in late'
                    /\ handle'[c] = "live" => work'[c] = "ended" /\ dispatch'[c] \in {"returned", "done"}
                    /\ \A i \in Ids : pending'[i] = c =>
                          id'[c] = i /\ answer'[c] = "none" /\ dispatch'[c] \in {"running", "returned", "closing"}
  BY DEF WorkAgrees
<1>1. \A i \in Ids : pending'[i] = c => pending[i] = c
  BY DialAssumption
<1>2. dispatch[c] # "none" => id'[c] = id[c]
  BY MadeKept DEF WireInOrder
<1>3. /\ dispatch[c] = "none" <=> work[c] = "none"
      /\ dispatch[c] = "none" => answer[c] = "none" /\ c \notin signal
      /\ work[c] \in {"preparing", "dialling", "dialled"} => dispatch[c] \in {"running", "done"}
      /\ dispatch[c] \in {"running", "returned", "closing"} => answer[c] = "none" \/ c \in late
      /\ handle[c] = "live" => work[c] = "ended" /\ dispatch[c] \in {"returned", "done"}
      /\ \A i \in Ids : pending[i] = c =>
            id[c] = i /\ answer[c] = "none" /\ dispatch[c] \in {"running", "returned", "closing"}
  BY DEF WorkAgrees
<1>4. CASE /\ dispatch'[c] = dispatch[c] /\ answer'[c] = answer[c]
           /\ \/ work'[c] = work[c]
              \/ /\ work[c] \in {"preparing", "dialling"}
                 /\ work'[c] \in {"dialling", "dialled", "ended"}
  BY <1>1, <1>2, <1>3, <1>4
<1>5. CASE /\ dispatch[c] # "none" /\ dispatch'[c] = "done"
           /\ work'[c] \in {work[c], "ended"}
           /\ \A i \in Ids : pending'[i] # c
  BY <1>3, <1>5
<1> QED
  BY <1>4, <1>5

LEMMA WorkAgreesKept ==
    ASSUME PageTypes, WireTypes, CallTypes, DialTypes, RaceAgrees,
           DocumentsAgree, WireInOrder, WorkAgrees, [Next]_vars
    PROVE  WorkAgrees'
<1>1. \A i \in Ids : pending[i] \in Calls \cup {None}
  BY DEF CallTypes
<1>2. ASSUME NEW S \in SUBSET Calls, Rejected(S)
      PROVE  /\ \A i \in Ids : pending'[i] \in {pending[i], None}
             /\ \A c \in Calls \ S : dispatch'[c] = dispatch[c] /\ answer'[c] = answer[c]
             /\ \A c \in S : dispatch'[c] = "done" /\ \A i \in Ids : pending'[i] # c
  BY <1>2, DialAssumption DEF Rejected, Answered, Forgotten
<1>3. ASSUME NEW S \in SUBSET Calls, Rejected(S), UNCHANGED late,
             \A c \in S : dispatch[c] # "none",
             \A c \in Calls :
                /\ c \in signal' => c \in signal \/ dispatch[c] # "none"
                /\ handle'[c] = "live" => handle[c] = "live"
                /\ IF c \in S THEN work'[c] \in {work[c], "ended"} ELSE work'[c] = work[c]
      PROVE  WorkAgrees'
  BY <1>2, <1>3, WorkAdvances
<1>4. ASSUME UNCHANGED <<pending, signal, dispatch, answer>>, late \subseteq late',
             \A c \in Calls :
                /\ handle'[c] = "live" => handle[c] = "live"
                /\ \/ work'[c] = work[c]
                   \/ /\ work[c] \in {"preparing", "dialling"}
                      /\ work'[c] \in {"dialling", "dialled", "ended"}
      PROVE  WorkAgrees'
  BY <1>4, WorkAdvances
<1>5. \A c \in Calls :
         /\ dispatch[c] = "none" <=> work[c] = "none"
         /\ race[c] = "open" <=> work[c] = "dialling"
  BY DEF WorkAgrees, RaceAgrees
<1>6. ASSUME NEW S \in SUBSET Calls, Halted(S)
      PROVE  \A c \in Calls : IF c \in S THEN work'[c] \in {work[c], "ended"} ELSE work'[c] = work[c]
  BY <1>6 DEF Halted
<1>7. ASSUME NEW c \in Calls, ReceiveConnect(c)
      PROVE  WorkAgrees'
  <2>1. dispatch[c] = "none" /\ made[c] # Elsewhere /\ UNCHANGED <<id, signal, late, handle>>
    BY <1>7, Received DEF ReceiveConnect, pageVars
  <2>2. id[c] \in Ids /\ answer[c] = "none" /\ work[c] = "none" /\ handle[c] # "live" /\ c \notin signal
    BY <2>1 DEF DocumentsAgree, WorkAgrees
  <2>3. \A i \in Ids : pending[i] # c
    BY <2>1 DEF WorkAgrees
  <2>4. PICK p \in {c, None}, d \in {"running", "done"}, a \in {"none", "error"}, w \in {"preparing", "ended"} :
           /\ pending' = [pending EXCEPT ![id[c]] = p]
           /\ dispatch' = [dispatch EXCEPT ![c] = d]
           /\ answer' = [answer EXCEPT ![c] = a]
           /\ work' = [work EXCEPT ![c] = w]
           /\ p = c => d = "running" /\ a = "none"
           /\ d = "running" => a = "none"
    <3>1. answer' = answer => answer' = [answer EXCEPT ![c] = "none"]
      BY <2>2 DEF CallTypes
    <3> QED BY <1>7, <3>1, DialAssumption DEF ReceiveConnect
  <2>5. /\ \A e \in Calls \ {c} : dispatch'[e] = dispatch[e] /\ answer'[e] = answer[e] /\ work'[e] = work[e]
        /\ \A i \in Ids \ {id[c]} : pending'[i] = pending[i]
        /\ dispatch'[c] = d /\ answer'[c] = a /\ work'[c] = w /\ pending'[id[c]] = p
    BY <2>2, <2>4 DEF CallTypes, DialTypes
  <2>6. \A e \in Calls \ {c} : \A i \in Ids : pending'[i] = e => pending[i] = e
    BY <2>5, DialAssumption
  <2> QED BY <2>1, <2>2, <2>3, <2>4, <2>5, <2>6 DEF WorkAgrees
<1>8. ASSUME NEW c \in Calls, ReceiveCancel(c)
      PROVE  WorkAgrees'
  <2> DEFINE found == {pending[id[c]]} \ {None}
             cut == found \cap Cancellable
  <2>1. /\ signal' = signal \cup found /\ Rejected(cut) /\ Halted(cut)
        /\ UNCHANGED <<late, handle>>
    BY <1>8 DEF ReceiveCancel
  <2>2. id[c] \in Ids
    BY <1>8, Received DEF ReceiveCancel, DocumentsAgree
  <2>3. \A d \in Calls : d \in found => dispatch[d] # "none"
    BY <2>2 DEF WorkAgrees
  <2>4. cut \in SUBSET Calls /\ \A d \in cut : dispatch[d] # "none"
    BY DEF Cancellable
  <2> HIDE DEF found, cut
  <2>5. \A d \in Calls : d \in signal' => d \in signal \/ dispatch[d] # "none"
    BY <2>1, <2>3
  <2> QED BY <1>3, <1>6, <2>1, <2>4, <2>5
<1>9. CASE Withdraw
  <2>1. /\ Rejected(Cancellable) /\ Halted(Cancellable) /\ UNCHANGED <<signal, late>>
        /\ \A c \in Calls : handle'[c] = "live" => handle[c] = "live"
    BY <1>9 DEF Withdraw
  <2>2. Cancellable \in SUBSET Calls /\ \A c \in Cancellable : dispatch[c] # "none"
    BY DEF Cancellable
  <2> QED BY <1>3, <1>6, <2>1, <2>2
<1>10. ASSUME NEW c \in Calls, Rejected({c}), dispatch[c] # "none", UNCHANGED <<late, signal, handle>>,
              work' = work \/ work' = [work EXCEPT ![c] = "ended"]
       PROVE  WorkAgrees'
  <2>1. \A d \in Calls : IF d \in {c} THEN work'[d] \in {work[d], "ended"} ELSE work'[d] = work[d]
    BY <1>10 DEF DialTypes
  <2> QED BY <1>3, <1>10, <2>1
<1>11. ASSUME NEW c \in Calls, Prepared(c)
       PROVE  WorkAgrees'
  <2>1. CASE Rejected({c}) /\ work' = [work EXCEPT ![c] = "ended"] /\ UNCHANGED signal
    BY <1>5, <1>10, <1>11, <2>1 DEF Prepared
  <2>2. CASE work' = [work EXCEPT ![c] = "dialling"] /\ UNCHANGED callVars
    BY <1>4, <1>11, <2>2 DEF Prepared, callVars, DialTypes
  <2> QED BY <1>11, <2>1, <2>2 DEF Prepared
<1>12. ASSUME NEW c \in Calls, Deadline(c) \/ Closed(c)
       PROVE  WorkAgrees'
  BY <1>5, <1>10, <1>12 DEF Deadline, Closed, dialVars
<1>13. ASSUME NEW c \in Calls, NEW t \in Tries, FailureSeen(c, t)
       PROVE  WorkAgrees'
  <2>1. CASE race[c] = "open" /\ Rejected({c})
    BY <1>5, <1>10, <1>13, <2>1 DEF FailureSeen, callVars
  <2>2. CASE UNCHANGED <<race, work, callVars>>
    BY <1>4, <1>13, <2>2 DEF FailureSeen, callVars
  <2> QED BY <1>13, <2>1, <2>2 DEF FailureSeen
<1>14. ASSUME NEW c \in Calls, Acquire(c)
       PROVE  WorkAgrees'
  <2>1. CASE Rejected({c}) /\ UNCHANGED handle
    <3>1. /\ dispatch[c] # "none" /\ UNCHANGED <<late, signal, handle>>
          /\ work' = [work EXCEPT ![c] = "ended"]
      BY <1>5, <1>14, <2>1 DEF Acquire
    <3> QED BY <1>10, <2>1, <3>1
  <2>2. CASE /\ ~Aborted(c) /\ handle' = [handle EXCEPT ![c] = "live"]
             /\ dispatch' = [dispatch EXCEPT ![c] = "returned"] /\ UNCHANGED <<answer, pending>>
    <3>1. work' = [work EXCEPT ![c] = "ended"] /\ UNCHANGED <<signal, late, id>>
      BY <1>14 DEF Acquire, pageVars
    <3>2. dispatch[c] = "running"
      BY <1>14, <2>2 DEF Acquire, Aborted, WorkAgrees
    <3>3. /\ \A d \in Calls \ {c} : work'[d] = work[d] /\ dispatch'[d] = dispatch[d] /\ handle'[d] = handle[d]
          /\ work'[c] = "ended" /\ dispatch'[c] = "returned"
      BY <2>2, <3>1 DEF CallTypes, DialTypes
    <3> QED BY <2>2, <3>1, <3>2, <3>3 DEF WorkAgrees
  <2> QED BY <1>14, <2>1, <2>2 DEF Acquire
<1>15. ASSUME NEW c \in Calls, Delivers(c)
       PROVE  WorkAgrees'
  <2>1. dispatch[c] = "returned" /\ UNCHANGED <<id, signal, late, work>>
    BY <1>15 DEF Delivers, pageVars
  <2>2. CASE Posted(c)
    <3>1. /\ \A d \in Calls \ {c} : dispatch'[d] = dispatch[d] /\ answer'[d] = answer[d]
          /\ dispatch'[c] = "done" /\ handle' = handle
          /\ \A i \in Ids : pending'[i] # c /\ pending'[i] \in {pending[i], None}
      BY <2>2, DialAssumption DEF Posted, Answered, Forgotten, CallTypes
    <3> QED BY <2>1, <3>1, WorkAdvances
  <2>3. CASE ClosesInstead(c)
    <3>1. /\ \A d \in Calls \ {c} : dispatch'[d] = dispatch[d] /\ handle'[d] = handle[d]
          /\ dispatch'[c] = "closing" /\ handle'[c] = "gone" /\ UNCHANGED <<answer, pending>>
      BY <2>3 DEF ClosesInstead, CallTypes, DialTypes
    <3>2. work[c] \notin {"none", "preparing", "dialling", "dialled"}
      BY <2>1 DEF WorkAgrees
    <3> QED BY <2>1, <3>1, <3>2 DEF WorkAgrees
  <2> QED BY <1>15, <2>2, <2>3 DEF Delivers
<1>16. ASSUME NEW c \in Calls, Budget(c)
       PROVE  WorkAgrees'
  <2>1. /\ answer' = [d \in Calls |-> IF d = c /\ answer[d] = "none" THEN "error" ELSE answer[d]]
        /\ late' = late \cup {c} /\ UNCHANGED <<id, signal, dispatch, work, handle>>
        /\ dispatch[c] # "none"
    BY <1>16 DEF Budget, Answered, dialVars, pageVars
  <2>2. \A i \in Ids : pending'[i] # c /\ pending'[i] \in {pending[i], None}
    BY <1>16, DialAssumption DEF Budget, Answered, Forgotten
  <2>3. \A d \in Calls \ {c} : answer'[d] = answer[d] /\ \A i \in Ids : pending'[i] = d => pending[i] = d
    BY <2>1, <2>2, DialAssumption
  <2> QED BY <2>1, <2>2, <2>3 DEF WorkAgrees
<1>17. ASSUME NEW c \in Calls, NEW t \in Tries, Arrives(c, t)
       PROVE  WorkAgrees'
  BY <1>4, <1>5, <1>17 DEF Arrives, callVars, DialTypes
<1>18. ASSUME NEW c \in Calls, ReceiveClose(c)
       PROVE  WorkAgrees'
  BY <1>4, <1>18 DEF ReceiveClose, callVars, DialTypes
<1>19. ASSUME UNCHANGED <<callVars, work, handle>>, late \subseteq late'
       PROVE  WorkAgrees'
  BY <1>4, <1>19 DEF callVars
<1>20. CASE Broker
  <2>1. ASSUME NEW c \in Calls, \/ Stagger(c) \/ PortCloses(c)
                                \/ \E t \in Tries : Connects(c, t) \/ Fails(c, t)
        PROVE  WorkAgrees'
    BY <1>19, <2>1 DEF Stagger, PortCloses, Connects, Fails
  <2> QED BY <1>7, <1>8, <1>11, <1>12, <1>13, <1>14, <1>15, <1>16, <1>17, <1>18, <1>20, <2>1 DEF Broker
<1>21. CASE Page
  BY <1>19, <1>21 DEF Page, AppConnects, AppAborts, PageBudget, ReplyArrives, PortArrives,
                      PortWaitExpires, UnclaimedExpires, dialVars
<1>22. CASE ReceiveStale \/ Reload \/ Leave \/ UNCHANGED vars
  BY <1>19, <1>22 DEF ReceiveStale, Reload, Leave, Unloads, dialVars, vars
<1> QED
  BY <1>9, <1>20, <1>21, <1>22, Steps

-----------------------------------------------------------------------------
(* What the page has heard *)

\* An answer is given once, and a timer that gave up gave up for good.
LEMMA AnswerKept ==
    ASSUME WireTypes, CallTypes, WireInOrder, WorkAgrees, [Next]_vars
    PROVE  /\ \A c \in Calls : answer[c] # "none" => answer'[c] = answer[c]
           /\ late \subseteq late'
<1>1. ASSUME NEW S, NEW a, Answered(S, a)
      PROVE  \A c \in Calls : answer[c] # "none" => answer'[c] = answer[c]
  BY <1>1 DEF Answered
<1>2. ASSUME NEW S, Rejected(S)
      PROVE  \A c \in Calls : answer[c] # "none" => answer'[c] = answer[c]
  BY <1>1, <1>2 DEF Rejected
<1>3. ASSUME NEW c \in Calls, ReceiveConnect(c)
      PROVE  (\A d \in Calls : answer[d] # "none" => answer'[d] = answer[d]) /\ late' = late
  <2>1. answer[c] = "none"
    BY <1>3, Received DEF ReceiveConnect, WorkAgrees
  <2>2. late' = late /\ (answer' = answer \/ answer' = [answer EXCEPT ![c] = "error"])
    BY <1>3 DEF ReceiveConnect
  <2> QED BY <2>1, <2>2 DEF CallTypes
<1>4. ASSUME NEW c \in Calls, ReceiveCancel(c)
      PROVE  (\A d \in Calls : answer[d] # "none" => answer'[d] = answer[d]) /\ late' = late
  <2>1. late' = late /\ \E S : Rejected(S)
    BY <1>4 DEF ReceiveCancel
  <2> QED BY <1>2, <2>1
<1>5. ASSUME NEW c \in Calls,
             \/ Budget(c) \/ Prepared(c) \/ Deadline(c) \/ Closed(c) \/ Acquire(c) \/ Delivers(c)
             \/ \E t \in Tries : FailureSeen(c, t)
      PROVE  (\A d \in Calls : answer[d] # "none" => answer'[d] = answer[d]) /\ late \subseteq late'
  <2>1. UNCHANGED answer \/ Rejected({c}) \/ Answered({c}, "error") \/ Answered({c}, "ok")
    BY <1>5 DEF Budget, Prepared, Deadline, Closed, Acquire, Delivers, Posted, ClosesInstead,
                FailureSeen, callVars
  <2>2. late \subseteq late'
    BY <1>5 DEF Budget, Prepared, Deadline, Closed, Acquire, Delivers, FailureSeen
  <2> QED BY <1>1, <1>2, <2>1, <2>2
<1>6. CASE Withdraw
  BY <1>2, <1>6 DEF Withdraw
<1>7. CASE Broker
  BY <1>3, <1>4, <1>5, <1>7
  DEF Broker, ReceiveClose, Stagger, Connects, Fails, Arrives, PortCloses, callVars
<1>8. CASE Page
  BY <1>8 DEF Page, AppConnects, AppAborts, PageBudget, ReplyArrives, PortArrives,
              PortWaitExpires, UnclaimedExpires, callVars
<1>9. CASE ReceiveStale \/ Reload \/ Leave \/ UNCHANGED vars
  BY <1>9 DEF ReceiveStale, Reload, Leave, Unloads, callVars, vars
<1> QED
  BY <1>6, <1>7, <1>8, <1>9, Steps

\* How the page's view of a call moves.
LEMMA PageMoves ==
    ASSUME PageTypes, CallTypes, DocumentsAgree, RepliesAgree, [Next]_vars, NEW c \in Calls
    PROVE  \/ page'[c] = page[c]
           \/ page[c] = "idle" /\ page'[c] = "asked"
           \/ page[c] = "asked" /\ page'[c] = "failed" /\ (c \in late' \/ answer[c] = "error")
           \/ page[c] = "asked" /\ page'[c] \in {"awaiting", "open"} /\ answer[c] = "ok"
           \/ page[c] = "awaiting" /\ page'[c] = "open"
           \/ /\ page[c] = "awaiting" /\ page'[c] = "failed"
              /\ wire' = Append(wire, Message(Close, c))
           \/ page'[c] = "gone" /\ made[c] # document' /\ UNCHANGED made
<1>1. CASE UNCHANGED page
  BY <1>1
<1>2. ASSUME NEW d \in Calls, AppConnects(d) \/ PageBudget(d) \/ PortArrives(d) \/ PortWaitExpires(d)
      PROVE  \/ page'[c] = page[c]
             \/ page[c] = "idle" /\ page'[c] = "asked"
             \/ page[c] = "asked" /\ page'[c] = "failed" /\ c \in late'
             \/ page[c] = "awaiting" /\ page'[c] = "open"
             \/ /\ page[c] = "awaiting" /\ page'[c] = "failed"
                /\ wire' = Append(wire, Message(Close, c))
  BY <1>2 DEF AppConnects, PageBudget, PortArrives, PortWaitExpires, PageTypes
<1>3. ASSUME NEW d \in Calls, ReplyArrives(d)
      PROVE  \/ page'[c] = page[c]
             \/ page[c] = "asked" /\ page'[c] = "failed" /\ answer[c] = "error"
             \/ page[c] = "asked" /\ page'[c] \in {"awaiting", "open"} /\ answer[c] = "ok"
  BY <1>3 DEF ReplyArrives, PageTypes, CallTypes
<1>4. CASE Reload \/ Leave
  <2>1. /\ page' = [d \in Calls |-> IF Here(d) THEN "gone" ELSE page[d]]
        /\ document # Elsewhere /\ document' \in {Elsewhere, document + 1} /\ UNCHANGED made
    BY <1>4 DEF Reload, Leave, Unloads
  <2>2. document \in Nat
    BY DEF PageTypes
  <2> QED BY <2>1, <2>2 DEF Here, Elsewhere
<1>5. CASE Page
  <2>1. PICK d \in Calls : \/ AppConnects(d) \/ AppAborts(d) \/ PageBudget(d) \/ ReplyArrives(d)
                           \/ PortArrives(d) \/ PortWaitExpires(d) \/ UnclaimedExpires(d)
    BY <1>5 DEF Page
  <2>2. CASE AppAborts(d) \/ UnclaimedExpires(d)
    BY <1>1, <2>2 DEF AppAborts, UnclaimedExpires, pageVars
  <2> QED BY <1>2, <1>3, <2>1, <2>2
<1> QED
  BY <1>1, <1>4, <1>5, Steps, PageUntouched DEF pageVars

\* How a port moves.
LEMMA PortMoves ==
    ASSUME PortTypes, DocumentsAgree, WireInOrder, RepliesAgree, [Next]_vars, NEW c \in Calls
    PROVE  \/ port'[c] = port[c] /\ portTo'[c] = portTo[c]
           \/ /\ dispatch[c] = "returned" /\ port'[c] = "posted" /\ portTo'[c] = document
              /\ document # Elsewhere /\ UNCHANGED <<document, made>>
           \/ /\ port[c] \notin {"none", "closed"} /\ port'[c] \in {"arrived", "closing", "closed"}
              /\ portTo'[c] = portTo[c]
           \/ /\ port[c] \notin {"none", "closed"} /\ port'[c] = "claimed"
              /\ portTo'[c] = portTo[c]
              /\ page[c] \in {"asked", "awaiting"} /\ UNCHANGED <<document, made>>
<1>1. CASE UNCHANGED portVars
  BY <1>1 DEF portVars
<1>2. ASSUME NEW d \in Calls, Delivers(d)
      PROVE  \/ port'[c] = port[c] /\ portTo'[c] = portTo[c]
             \/ /\ dispatch[c] = "returned" /\ port'[c] = "posted" /\ portTo'[c] = document
                /\ document # Elsewhere /\ UNCHANGED <<document, made>>
  <2>1. CASE Posted(d)
    BY <1>2, <2>1 DEF Delivers, Posted, ClosesInstead, PortTypes, pageVars
  <2>2. CASE ClosesInstead(d)
    BY <2>2 DEF ClosesInstead
  <2> QED BY <1>2, <2>1, <2>2 DEF Delivers
<1>3. ASSUME NEW d \in Calls,
             ReplyArrives(d) \/ PortArrives(d) \/ UnclaimedExpires(d) \/ PortCloses(d)
      PROVE  \/ port'[c] = port[c] /\ portTo'[c] = portTo[c]
             \/ /\ port[c] \notin {"none", "closed"} /\ port'[c] \in {"arrived", "closing", "closed"}
                /\ portTo'[c] = portTo[c]
             \/ /\ port[c] \notin {"none", "closed"} /\ port'[c] = "claimed"
                /\ portTo'[c] = portTo[c]
                /\ page[c] \in {"asked", "awaiting"} /\ UNCHANGED <<document, made>>
  BY <1>3 DEF ReplyArrives, PortArrives, UnclaimedExpires, PortCloses, PortTypes
<1>4. CASE Reload \/ Leave
  <2>1. /\ port'[c] = port[c] \/ (port[c] \notin {"none", "closed"} /\ port'[c] = "closing")
        /\ portTo' = portTo
    BY <1>4 DEF Reload, Leave, Unloads
  <2> QED BY <2>1
<1>5. CASE Broker
  BY <1>1, <1>2, <1>3, <1>5
  DEF Broker, ReceiveConnect, ReceiveCancel, ReceiveClose, Budget, Prepared, Stagger, Connects,
      Fails, Arrives, FailureSeen, Deadline, Acquire, Closed
<1>6. CASE Page
  BY <1>1, <1>3, <1>6 DEF Page, AppConnects, AppAborts, PageBudget, PortWaitExpires
<1> QED
  BY <1>1, <1>4, <1>5, <1>6, Steps DEF ReceiveStale, Withdraw, vars

LEMMA RepliesAgreeKept ==
    ASSUME PageTypes, WireTypes, CallTypes, PortTypes,
           DocumentsAgree, WireInOrder, WorkAgrees, RepliesAgree, [Next]_vars,
           DocumentsAgree'
    PROVE  RepliesAgree'
<1> SUFFICES ASSUME NEW c \in Calls
             PROVE  /\ page'[c] \in {"awaiting", "open"} => answer'[c] = "ok"
                    /\ made'[c] # Elsewhere =>
                          page'[c] = "asked" \/ c \in late' \/ made'[c] # document' \/ answer'[c] # "none"
                    /\ port'[c] # "none" =>
                          /\ portTo'[c] # Elsewhere /\ made'[c] # Elsewhere /\ made'[c] <= portTo'[c]
                          /\ document' # Elsewhere => portTo'[c] <= document'
  BY DEF RepliesAgree, Here
<1>1. /\ answer[c] # "none" => answer'[c] = answer[c]
      /\ late \subseteq late'
      /\ made[c] # Elsewhere => made'[c] = made[c]
      /\ made[c] # Elsewhere /\ made[c] # document => made'[c] # document'
  BY AnswerKept, MadeKept DEF Here
<1>2. page'[c] \in {"awaiting", "open"} => answer'[c] = "ok"
  BY <1>1, PageMoves DEF RepliesAgree
<1>3. made'[c] # Elsewhere =>
        page'[c] = "asked" \/ c \in late' \/ made'[c] # document' \/ answer'[c] # "none"
  <2>1. CASE made[c] = Elsewhere
    <3>1. page[c] = "idle" /\ (made'[c] # Elsewhere => page'[c] # "idle")
      BY <2>1 DEF DocumentsAgree
    <3> QED BY <2>1, <3>1, PageMoves
  <2>2. CASE made[c] # Elsewhere
    <3>1. page[c] = "asked" \/ c \in late \/ made[c] # document \/ answer[c] # "none"
      BY <2>2 DEF RepliesAgree, Here
    <3> QED BY <1>1, <2>2, <3>1, PageMoves
  <2> QED BY <2>1, <2>2
<1>4. document \in Nat /\ (document' = document \/ document' = Elsewhere \/ document' = document + 1)
  <2>1. ASSUME Page \/ Broker \/ ReceiveStale \/ Withdraw \/ UNCHANGED vars
        PROVE  document' = document
    BY <2>1, PageUntouched DEF Page, AppConnects, AppAborts, PageBudget, ReplyArrives,
                               PortArrives, PortWaitExpires, UnclaimedExpires, pageVars
  <2>2. ASSUME Reload \/ Leave
        PROVE  document' = Elsewhere \/ document' = document + 1
    BY <2>2 DEF Reload, Leave, Unloads
  <2> QED BY <2>1, <2>2, Steps DEF PageTypes
<1>5. port'[c] # "none" =>
        /\ portTo'[c] # Elsewhere /\ made'[c] # Elsewhere /\ made'[c] <= portTo'[c]
        /\ document' # Elsewhere => portTo'[c] <= document'
  <2>1. CASE port[c] # "none" /\ portTo'[c] = portTo[c]
    <3>1. /\ portTo[c] # Elsewhere /\ made[c] # Elsewhere /\ made[c] <= portTo[c]
          /\ document # Elsewhere => portTo[c] <= document
          /\ portTo[c] \in Nat
      BY <2>1 DEF RepliesAgree, PortTypes
    <3>2. document = Elsewhere => document' = Elsewhere
      <4>1. ASSUME Reload \/ Leave
            PROVE  document # Elsewhere
        BY <4>1 DEF Reload, Leave, Unloads
      <4>2. ASSUME Page \/ Broker \/ ReceiveStale \/ Withdraw \/ UNCHANGED vars
            PROVE  document' = document
        BY <4>2, PageUntouched DEF Page, AppConnects, AppAborts, PageBudget, ReplyArrives,
                                   PortArrives, PortWaitExpires, UnclaimedExpires, pageVars
      <4> QED BY <4>1, <4>2, Steps
    <3> QED BY <1>1, <1>4, <2>1, <3>1, <3>2
  <2>2. CASE /\ dispatch[c] = "returned" /\ portTo'[c] = document
             /\ document # Elsewhere /\ UNCHANGED <<document, made>>
    <3>1. made[c] # Elsewhere /\ made[c] <= document
      BY <2>2 DEF WireInOrder, DocumentsAgree
    <3> QED BY <1>4, <2>2, <3>1
  <2> QED BY <2>1, <2>2, PortMoves
<1> QED
  BY <1>2, <1>3, <1>5

-----------------------------------------------------------------------------
(* Sockets have owners *)

LEMMA NoStraySocketKept ==
    ASSUME WireTypes, DialTypes, RaceAgrees, WireInOrder, WorkAgrees, NoStraySocket, [Next]_vars
    PROVE  NoStraySocket'
<1> SUFFICES ASSUME NEW c \in Calls, NEW t \in Tries
             PROVE  /\ attempt'[c][t] = "connecting" => race'[c] = "open"
                    /\ attempt'[c][t] = "won" => work'[c] = "dialled" \/ handle'[c] = "live"
  BY DEF NoStraySocket
<1> DEFINE Owned ==
       /\ attempt'[c][t] = "connecting" => race'[c] = "open"
       /\ attempt'[c][t] = "won" => work'[c] = "dialled" \/ handle'[c] = "live"
<1>1. /\ attempt[c][t] = "connecting" => race[c] = "open"
      /\ attempt[c][t] = "won" => work[c] = "dialled" \/ handle[c] = "live"
      /\ race[c] = "open" <=> work[c] = "dialling"
      /\ handle[c] = "live" => work[c] = "ended"
      /\ dispatch[c] = "none" <=> work[c] = "none"
  BY DEF NoStraySocket, RaceAgrees, WorkAgrees
<1>2. CASE /\ attempt'[c] = attempt[c] /\ race'[c] = race[c]
           /\ work'[c] = work[c] /\ handle'[c] = handle[c]
  BY <1>1, <1>2
<1>3. attempt[c] \in [Tries -> {"untried", "connecting", "connected", "failed", "won", "over"}]
  BY DEF DialTypes
<1>4. /\ Abandoned(c)[t] # "connecting" /\ (Abandoned(c)[t] = "won" => attempt[c][t] = "won")
      /\ Destroyed(attempt[c])[t] # "won"
      /\ Destroyed(attempt[c])[t] = "connecting" => attempt[c][t] = "connecting"
      /\ Started(attempt[c], c)[t] \in {attempt[c][t], "connecting"}
  BY <1>3, AbandonedFacts, DestroyedFacts, StartedFacts
<1>5. ASSUME NEW d \in Calls, ReceiveConnect(d)
      PROVE  Owned
  <2>1. UNCHANGED <<attempt, race, handle>> /\ dispatch[d] = "none"
    BY <1>5, Received DEF ReceiveConnect
  <2>2. d # c => work'[c] = work[c]
    BY <1>5 DEF ReceiveConnect, DialTypes
  <2> QED BY <1>1, <1>2, <2>1, <2>2
<1>6. ASSUME NEW S \in SUBSET Calls, Halted(S)
      PROVE  /\ race'[c] = "open" => race[c] = "open"
             /\ c \notin S => race'[c] = race[c] /\ work'[c] = work[c]
             /\ work[c] = "dialled" => work'[c] = "dialled"
  BY <1>1, <1>6 DEF Halted
<1>7. ASSUME NEW d \in Calls, ReceiveCancel(d)
      PROVE  Owned
  <2> DEFINE cut == ({pending[id[d]]} \ {None}) \cap Cancellable
  <2>1. /\ Halted(cut) /\ handle' = handle
        /\ attempt'[c] = IF c \in cut THEN Abandoned(c) ELSE attempt[c]
    BY <1>7 DEF ReceiveCancel
  <2>2. cut \in SUBSET Calls
    BY DEF Cancellable
  <2> HIDE DEF cut
  <2> QED BY <1>1, <1>4, <1>6, <2>1, <2>2
<1>8. CASE Withdraw
  <2>1. /\ Halted(Cancellable)
        /\ handle'[c] = IF handle[c] = "live" THEN "gone" ELSE handle[c]
        /\ attempt'[c] = IF c \in Live THEN Destroyed(attempt[c])
                         ELSE IF c \in Cancellable THEN Abandoned(c) ELSE attempt[c]
    BY <1>8 DEF Withdraw
  <2>2. Cancellable \in SUBSET Calls /\ (c \in Live <=> handle[c] = "live")
    BY DEF Cancellable, Live
  <2> QED BY <1>1, <1>4, <1>6, <2>1, <2>2
<1>9. ASSUME attempt'[c] = attempt[c] \/ attempt'[c] = Destroyed(attempt[c]),
             race'[c] = race[c], work'[c] = work[c],
             handle'[c] = handle[c] \/ (handle[c] = "live" => attempt'[c] = Destroyed(attempt[c]))
      PROVE  Owned
  BY <1>1, <1>4, <1>9
<1>10. ASSUME NEW d \in Calls, ReceiveClose(d)
       PROVE  Owned
  <2>1. UNCHANGED <<race, work>>
    BY <1>10 DEF ReceiveClose
  <2>2. CASE d = c /\ Registered(c)
    <3>1. attempt'[c] = Destroyed(attempt[c])
      BY <1>10, <2>2 DEF ReceiveClose, DialTypes
    <3> QED BY <1>9, <2>1, <3>1
  <2>3. CASE d # c \/ ~Registered(c)
    <3>1. attempt'[c] = attempt[c] /\ handle'[c] = handle[c]
      BY <1>10, <2>3 DEF ReceiveClose, DialTypes
    <3> QED BY <1>2, <2>1, <3>1
  <2> QED BY <2>2, <2>3
<1>11. ASSUME NEW d \in Calls, Prepared(d)
       PROVE  Owned
  <2>1. CASE d # c
    BY <1>2, <1>11, <2>1 DEF Prepared, DialTypes
  <2>2. CASE d = c
    <3>1. /\ work[c] = "preparing" /\ handle' = handle
          /\ \/ race'[c] = "open" /\ attempt'[c] = Started(attempt[c], c)
             \/ race' = race /\ attempt' = attempt
      BY <1>11, <2>2 DEF Prepared, DialTypes
    <3> QED BY <1>1, <1>4, <3>1
  <2> QED BY <2>1, <2>2
<1>12. ASSUME NEW d \in Calls, Stagger(d)
       PROVE  Owned
  <2>1. UNCHANGED <<race, work, handle>>
    BY <1>12 DEF Stagger
  <2>2. CASE d # c
    BY <1>2, <1>12, <2>1, <2>2 DEF Stagger, DialTypes
  <2>3. CASE d = c
    <3>1. attempt'[c] = Started(attempt[c], c) /\ race[c] = "open"
      BY <1>12, <2>3 DEF Stagger, DialTypes
    <3> QED BY <1>1, <1>4, <2>1, <3>1
  <2> QED BY <2>2, <2>3
<1>13. ASSUME NEW d \in Calls, NEW u \in Tries, Connects(d, u) \/ Fails(d, u)
       PROVE  Owned
  <2>1. /\ UNCHANGED <<race, work, handle>>
        /\ attempt'[c][t] \in {attempt[c][t], "connected", "failed"}
    BY <1>13 DEF Connects, Fails, DialTypes
  <2> QED BY <1>1, <2>1
<1>14. ASSUME NEW d \in Calls, NEW u \in Tries, Arrives(d, u)
       PROVE  Owned
  <2>1. CASE d # c
    BY <1>2, <1>14, <2>1 DEF Arrives, DialTypes
  <2>2. CASE d = c /\ race[c] = "open"
    <3>1. work'[c] = "dialled" /\ attempt'[c] = [Abandoned(c) EXCEPT ![u] = "won"]
      BY <1>14, <2>2 DEF Arrives, DialTypes
    <3>2. Abandoned(c) \in [Tries -> {"untried", "connecting", "connected", "failed", "won", "over"}]
      BY AbandonedFacts
    <3>3. attempt'[c][t] # "connecting"
      BY <1>4, <3>1, <3>2
    <3> QED BY <3>1, <3>3
  <2>3. CASE d = c /\ race[c] # "open"
    <3>1. UNCHANGED <<race, work, handle>> /\ attempt'[c][t] \in {attempt[c][t], "over"}
      BY <1>14, <2>3 DEF Arrives, DialTypes
    <3> QED BY <1>1, <3>1
  <2> QED BY <2>1, <2>2, <2>3
<1>15. ASSUME NEW d \in Calls, NEW u \in Tries, FailureSeen(d, u)
       PROVE  Owned
  <2> DEFINE over == [attempt[d] EXCEPT ![u] = "over"]
  <2>1. CASE d # c
    BY <1>2, <1>15, <2>1 DEF FailureSeen, DialTypes
  <2>2. CASE d = c
    <3>1. over \in [Tries -> {"untried", "connecting", "connected", "failed", "won", "over"}]
          /\ over[t] \in {attempt[c][t], "over"}
      BY <1>3, <2>2
    <3>2. Started(over, c)[t] \in {over[t], "connecting"}
      BY <3>1, StartedFacts
    <3>3. CASE race[c] = "open" /\ Untried(c) = {} /\ Running(c) = {u}
      <4>1. attempt'[c] = over /\ work[c] = "dialling" /\ handle' = handle
        BY <1>1, <1>15, <2>2, <3>3 DEF FailureSeen, DialTypes
      <4>2. attempt[c][t] = "connecting" => t = u
        BY <3>3 DEF Running
      <4>3. attempt'[c][t] # "connecting"
        <5>1. t = u => over[t] = "over"
          BY <1>3, <2>2
        <5> QED BY <3>1, <4>1, <4>2, <5>1
      <4> QED BY <1>1, <3>1, <4>1, <4>3
    <3>4. CASE ~(race[c] = "open" /\ Untried(c) = {} /\ Running(c) = {u})
      <4>1. /\ UNCHANGED <<race, work, handle>>
            /\ attempt'[c] = IF race[c] = "open" THEN Started(over, c) ELSE over
        BY <1>15, <2>2, <3>4 DEF FailureSeen, DialTypes
      <4> HIDE DEF over
      <4> QED BY <1>1, <3>1, <3>2, <4>1
    <3> QED BY <3>3, <3>4
  <2> QED BY <2>1, <2>2
<1>16. ASSUME NEW d \in Calls, Deadline(d)
       PROVE  Owned
  <2>1. CASE d # c
    BY <1>2, <1>16, <2>1 DEF Deadline, DialTypes
  <2>2. CASE d = c
    <3>1. attempt'[c] = Abandoned(c) /\ race[c] = "open" /\ handle' = handle
      BY <1>16, <2>2 DEF Deadline, DialTypes
    <3> QED BY <1>1, <1>4, <3>1
  <2> QED BY <2>1, <2>2
<1>17. ASSUME NEW d \in Calls, Acquire(d)
       PROVE  Owned
  <2>1. race' = race
    BY <1>17 DEF Acquire
  <2>2. CASE d # c
    BY <1>2, <1>17, <2>2 DEF Acquire, DialTypes
  <2>3. CASE d = c
    <3>1. \/ attempt'[c] = Destroyed(attempt[c])
          \/ handle'[c] = "live" /\ attempt' = attempt
      BY <1>17, <2>3 DEF Acquire, DialTypes
    <3> QED BY <1>1, <1>4, <2>1, <3>1
  <2> QED BY <2>2, <2>3
<1>18. ASSUME NEW d \in Calls, Delivers(d)
       PROVE  Owned
  <2>1. UNCHANGED <<race, work>>
    BY <1>18 DEF Delivers
  <2>2. CASE UNCHANGED <<handle, attempt>>
    BY <1>2, <2>1, <2>2
  <2>3. CASE ClosesInstead(d)
    <3>1. CASE d = c
      BY <1>9, <2>1, <2>3, <3>1 DEF ClosesInstead, DialTypes
    <3>2. CASE d # c
      BY <1>2, <2>1, <2>3, <3>2 DEF ClosesInstead, DialTypes
    <3> QED BY <3>1, <3>2
  <2> QED BY <1>18, <2>2, <2>3 DEF Delivers, Posted
<1>19. ASSUME NEW d \in Calls, PortCloses(d)
       PROVE  Owned
  BY <1>9, <1>19 DEF PortCloses, DialTypes
<1>21. CASE UNCHANGED dialVars
  BY <1>2, <1>21 DEF dialVars
<1>22. CASE Broker
  <2>1. ASSUME NEW d \in Calls, Budget(d) \/ Closed(d)
        PROVE  UNCHANGED dialVars
    BY <2>1 DEF Budget, Closed
  <2> QED BY <1>5, <1>7, <1>10, <1>11, <1>12, <1>13, <1>14, <1>15, <1>16, <1>17, <1>18, <1>19, <1>21,
           <1>22, <2>1
          DEF Broker
<1>23. CASE Page
  BY <1>21, <1>23 DEF Page, AppConnects, AppAborts, PageBudget, ReplyArrives, PortArrives,
                      PortWaitExpires, UnclaimedExpires
<1> QED
  BY <1>8, <1>21, <1>22, <1>23, Steps DEF ReceiveStale, Reload, Leave, Unloads, vars

-----------------------------------------------------------------------------
(* Cancels *)

\* A call is answered with a socket by its delivery alone, which looks at the signal.
LEMMA AnswerMoves ==
    ASSUME CallTypes, [Next]_vars, NEW c \in Calls, answer'[c] = "ok", answer[c] # "ok"
    PROVE  Delivers(c) /\ Posted(c) /\ c \notin signal /\ signal' = signal
<1>1. ASSUME NEW S, NEW a, Answered(S, a), a # "ok" \/ c \notin S
      PROVE  FALSE
  BY <1>1 DEF Answered
<1>2. ASSUME NEW S, Rejected(S)
      PROVE  FALSE
  BY <1>1, <1>2 DEF Rejected
<1>3. ~UNCHANGED answer
  OBVIOUS
<1>4. ASSUME NEW d \in Calls, ReceiveConnect(d)
      PROVE  FALSE
  BY <1>4 DEF ReceiveConnect, CallTypes
<1>5. ASSUME NEW d \in Calls, ReceiveCancel(d)
      PROVE  FALSE
  <2>1. \E S : Rejected(S)
    BY <1>5 DEF ReceiveCancel
  <2> QED BY <1>2, <2>1
<1>6. ASSUME NEW d \in Calls,
             \/ Budget(d) \/ Prepared(d) \/ Deadline(d) \/ Closed(d) \/ Acquire(d)
             \/ \E t \in Tries : FailureSeen(d, t)
      PROVE  FALSE
  <2>1. UNCHANGED answer \/ Rejected({d}) \/ Answered({d}, "error")
    BY <1>6 DEF Budget, Prepared, Deadline, Closed, Acquire, FailureSeen, callVars
  <2> QED BY <1>1, <1>2, <1>3, <2>1
<1>7. ASSUME NEW d \in Calls, Delivers(d)
      PROVE  Delivers(c) /\ Posted(c) /\ c \notin signal /\ signal' = signal
  <2>1. ~ClosesInstead(d)
    BY <1>3 DEF ClosesInstead
  <2>2. Posted(d) /\ d \notin signal /\ signal' = signal
    BY <1>7, <2>1 DEF Delivers
  <2>3. d = c
    BY <1>1, <2>2 DEF Posted
  <2> QED BY <1>7, <2>2, <2>3
<1>8. CASE Withdraw
  BY <1>2, <1>8 DEF Withdraw
<1>9. CASE Broker
  BY <1>3, <1>4, <1>5, <1>6, <1>7, <1>9
  DEF Broker, ReceiveClose, Stagger, Connects, Fails, Arrives, PortCloses, callVars
<1>10. ~Page
  BY <1>3 DEF Page, AppConnects, AppAborts, PageBudget, ReplyArrives, PortArrives,
              PortWaitExpires, UnclaimedExpires, callVars
<1>11. ~(ReceiveStale \/ Reload \/ Leave \/ UNCHANGED vars)
  BY <1>3 DEF ReceiveStale, Reload, Leave, Unloads, callVars, vars
<1> QED
  BY <1>8, <1>9, <1>10, <1>11, Steps

\* A cancel that arrives finds what is filed under its id.
LEMMA SignalMoves ==
    ASSUME WireTypes, DocumentsAgree, WireInOrder, WorkAgrees, [Next]_vars,
           NEW c \in Calls, c \in signal', c \notin signal
    PROVE  /\ dispatch[c] # "none" /\ answer[c] = "none" /\ UNCHANGED pageVars
           /\ handle[c] = "live" => dispatch[c] = "returned"
           /\ \E e \in Calls : e \in hooked /\ id[c] = id[e] /\ made[c] <= made[e] /\ document # Elsewhere
<1>1. ~UNCHANGED signal
  OBVIOUS
<1>2. \E e \in Calls : ReceiveCancel(e)
  <2>1. CASE Broker
    BY <1>1, <2>1 DEF Broker, ReceiveConnect, ReceiveClose, Budget, Prepared, Stagger, Connects, Fails,
                      Arrives, FailureSeen, Deadline, Acquire, Delivers, Closed, PortCloses, callVars
  <2>2. ~Page
    BY <1>1 DEF Page, AppConnects, AppAborts, PageBudget, ReplyArrives, PortArrives,
                PortWaitExpires, UnclaimedExpires, callVars
  <2>3. ~(ReceiveStale \/ Withdraw \/ Reload \/ Leave \/ UNCHANGED vars)
    BY <1>1 DEF ReceiveStale, Withdraw, Reload, Leave, Unloads, callVars, vars
  <2> QED BY <2>1, <2>2, <2>3, Steps
<1>3. PICK e \in Calls : ReceiveCancel(e)
  BY <1>2
<1>4. /\ made[e] # Elsewhere /\ e \in hooked
      /\ \A d \in Calls : dispatch[d] # "none" => made[d] # Elsewhere /\ made[d] <= made[e]
  BY <1>3, Received DEF ReceiveCancel
<1>5. pending[id[e]] = c /\ document # Elsewhere /\ UNCHANGED pageVars
  BY <1>3 DEF ReceiveCancel
<1>6. id[e] \in Ids
  BY <1>4 DEF DocumentsAgree
<1>7. /\ id[c] = id[e] /\ answer[c] = "none" /\ dispatch[c] \in {"running", "returned", "closing"}
      /\ handle[c] = "live" => dispatch[c] \in {"returned", "done"}
  BY <1>5, <1>6 DEF WorkAgrees
<1> QED
  BY <1>4, <1>5, <1>7

\* A live handle is made when run returns, and passes its delivery.
LEMMA HandleMoves ==
    ASSUME WireTypes, CallTypes, DialTypes, RaceAgrees, WireInOrder, WorkAgrees, [Next]_vars,
           NEW c \in Calls, handle'[c] = "live"
    PROVE  \/ handle[c] = "live" /\ dispatch'[c] = dispatch[c]
           \/ dispatch'[c] = "returned"
           \/ handle[c] = "live" /\ Delivers(c) /\ Posted(c)
<1>1. /\ handle[c] = "live" => work[c] = "ended" /\ dispatch[c] \in {"returned", "done"}
      /\ race[c] = "open" <=> work[c] = "dialling"
  BY DEF WorkAgrees, RaceAgrees
<1>2. ASSUME NEW S \in SUBSET Cancellable, Rejected(S)
      PROVE  handle[c] = "live" => dispatch'[c] = dispatch[c]
  BY <1>1, <1>2 DEF Rejected, Cancellable
<1>3. ASSUME NEW d \in Calls, Rejected({d}), d # c \/ handle[c] # "live"
      PROVE  handle[c] = "live" => dispatch'[c] = dispatch[c]
  BY <1>3 DEF Rejected
<1>4. ASSUME NEW d \in Calls, ReceiveConnect(d)
      PROVE  handle[c] = "live" /\ dispatch'[c] = dispatch[c]
  <2>1. dispatch[d] = "none" /\ handle' = handle
    BY <1>4, Received DEF ReceiveConnect
  <2>2. d # c
    BY <1>1, <2>1
  <2> QED BY <1>4, <2>1, <2>2 DEF ReceiveConnect, CallTypes
<1>5. ASSUME NEW d \in Calls, ReceiveCancel(d)
      PROVE  handle[c] = "live" /\ dispatch'[c] = dispatch[c]
  <2>1. handle' = handle /\ \E S \in SUBSET Cancellable : Rejected(S)
    BY <1>5 DEF ReceiveCancel
  <2> QED BY <1>2, <2>1
<1>6. ASSUME NEW d \in Calls,
             \/ Prepared(d) \/ Deadline(d) \/ Closed(d) \/ \E t \in Tries : FailureSeen(d, t)
      PROVE  handle[c] = "live" /\ dispatch'[c] = dispatch[c]
  <2>1. handle' = handle
    BY <1>6 DEF Prepared, Deadline, Closed, FailureSeen, dialVars
  <2>2. UNCHANGED dispatch \/ (Rejected({d}) /\ (work[d] = "preparing" \/ race[d] = "open" \/ dispatch[d] = "closing"))
    BY <1>6 DEF Prepared, Deadline, Closed, FailureSeen, callVars
  <2> QED BY <1>1, <1>3, <2>1, <2>2
<1>7. ASSUME NEW d \in Calls, Acquire(d)
      PROVE  (handle[c] = "live" /\ dispatch'[c] = dispatch[c]) \/ dispatch'[c] = "returned"
  <2>1. work[d] = "dialled"
    BY <1>7 DEF Acquire
  <2>2. CASE Rejected({d}) /\ UNCHANGED handle
    BY <1>1, <1>3, <2>1, <2>2
  <2>3. CASE handle' = [handle EXCEPT ![d] = "live"] /\ dispatch' = [dispatch EXCEPT ![d] = "returned"]
    BY <2>3 DEF CallTypes, DialTypes
  <2> QED BY <1>7, <2>2, <2>3 DEF Acquire
<1>8. ASSUME NEW d \in Calls, Delivers(d)
      PROVE  \/ handle[c] = "live" /\ dispatch'[c] = dispatch[c]
             \/ handle[c] = "live" /\ Delivers(c) /\ Posted(c)
  <2>1. CASE Posted(d)
    BY <1>8, <2>1 DEF Posted, CallTypes
  <2>2. CASE ClosesInstead(d)
    BY <2>2 DEF ClosesInstead, CallTypes, DialTypes
  <2> QED BY <1>8, <2>1, <2>2 DEF Delivers
<1>9. CASE Withdraw
  BY <1>2, <1>9 DEF Withdraw
<1>10. CASE Broker
  <2>1. ASSUME NEW d \in Calls, \/ Budget(d) \/ Stagger(d) \/ PortCloses(d)
                                \/ \E t \in Tries : Connects(d, t) \/ Fails(d, t) \/ Arrives(d, t)
        PROVE  handle[c] = "live" /\ dispatch'[c] = dispatch[c]
    BY <2>1 DEF Budget, Stagger, PortCloses, Connects, Fails, Arrives, callVars, dialVars
  <2>2. ASSUME NEW d \in Calls, ReceiveClose(d)
        PROVE  handle[c] = "live" /\ dispatch'[c] = dispatch[c]
    BY <2>2 DEF ReceiveClose, callVars, DialTypes
  <2> QED BY <1>4, <1>5, <1>6, <1>7, <1>8, <1>10, <2>1, <2>2 DEF Broker
<1>11. CASE Page
  BY <1>11 DEF Page, AppConnects, AppAborts, PageBudget, ReplyArrives, PortArrives,
               PortWaitExpires, UnclaimedExpires, callVars, dialVars
<1>12. CASE ReceiveStale \/ Reload \/ Leave \/ UNCHANGED vars
  BY <1>12 DEF ReceiveStale, Reload, Leave, Unloads, callVars, dialVars, vars
<1> QED
  BY <1>9, <1>10, <1>11, <1>12, Steps

LEMMA CancelWinsKept ==
    ASSUME PageTypes, WireTypes, CallTypes, DialTypes, RaceAgrees,
           DocumentsAgree, WireInOrder, WorkAgrees, RepliesAgree, CancelWins, [Next]_vars
    PROVE  CancelWins'
<1> SUFFICES ASSUME NEW c \in Calls, c \in signal'
             PROVE  /\ page'[c] \notin {"awaiting", "open"} /\ answer'[c] # "ok"
                    /\ handle'[c] = "live" => dispatch'[c] = "returned"
  <2>1. signal' \subseteq Calls
    BY CallTyped DEF CallTypes
  <2> QED BY <2>1 DEF CancelWins
<1>1. /\ page[c] \notin {"awaiting", "open"} /\ answer[c] # "ok"
      /\ handle[c] = "live" => dispatch[c] = "returned"
  <2>1. CASE c \in signal
    BY <2>1 DEF CancelWins
  <2>2. CASE c \notin signal
    BY <2>2, SignalMoves DEF RepliesAgree
  <2> QED BY <2>1, <2>2
<1>2. answer'[c] # "ok"
  BY <1>1, AnswerMoves
<1>3. page'[c] \notin {"awaiting", "open"}
  BY <1>1, PageMoves
<1>4. handle'[c] = "live" => dispatch'[c] = "returned"
  <2>1. ~(Delivers(c) /\ Posted(c))
    <3>1. CASE c \in signal
      <4>1. ASSUME Delivers(c)
            PROVE  ~Posted(c)
        <5>1. ClosesInstead(c)
          BY <3>1, <4>1 DEF Delivers
        <5> QED BY <5>1 DEF ClosesInstead, Posted, CallTypes
      <4> QED BY <4>1
    <3>2. CASE c \notin signal
      BY <3>2 DEF Delivers
    <3> QED BY <3>1, <3>2
  <2> QED BY <1>1, <2>1, HandleMoves
<1> QED
  BY <1>2, <1>3, <1>4

\* An entry goes when its call is answered, or when a newer call takes it over.
LEMMA PendingMoves ==
    ASSUME WireTypes, CallTypes, DialTypes, RaceAgrees, WireInOrder, WorkAgrees, [Next]_vars,
           NEW c \in Calls, dispatch'[c] # "none", answer'[c] = "none"
    PROVE  \/ dispatch[c] # "none" /\ answer[c] = "none"
             /\ \A i \in Ids : pending[i] = c => pending'[i] = c
           \/ ReceiveConnect(c) /\ (id[c] \in Ids => pending'[id[c]] = c)
           \/ /\ dispatch[c] # "none" /\ answer[c] = "none"
              /\ \E e \in Calls :
                    /\ ReceiveConnect(e)
                    /\ \A i \in Ids : pending[i] = c /\ i # id[e] => pending'[i] = c
<1>1. ASSUME NEW S, NEW a \in {"ok", "error"}, Answered(S, a)
      PROVE  answer[c] = "none" /\ \A i \in Ids : pending[i] = c => pending'[i] = c
  BY <1>1 DEF Answered, Forgotten
<1>2. ASSUME NEW S, Rejected(S)
      PROVE  answer[c] = "none" /\ \A i \in Ids : pending[i] = c => pending'[i] = c
  BY <1>1, <1>2 DEF Rejected
<1>3. ASSUME UNCHANGED callVars
      PROVE  dispatch[c] # "none" /\ answer[c] = "none" /\ \A i \in Ids : pending[i] = c => pending'[i] = c
  BY <1>3 DEF callVars
<1>4. \A d \in Calls : work[d] # "none" \/ race[d] = "open" => dispatch[d] # "none"
  BY DEF WorkAgrees, RaceAgrees
<1>5. ASSUME NEW d \in Calls, ReceiveConnect(d)
      PROVE  \/ d = c /\ (id[c] \in Ids => pending'[id[c]] = c)
             \/ /\ dispatch[c] # "none" /\ answer[c] = "none"
                /\ \A i \in Ids : pending[i] = c /\ i # id[d] => pending'[i] = c
  BY <1>5 DEF ReceiveConnect, CallTypes
<1>6. ASSUME NEW d \in Calls, ReceiveCancel(d)
      PROVE  dispatch[c] # "none" /\ answer[c] = "none" /\ \A i \in Ids : pending[i] = c => pending'[i] = c
  <2>1. PICK S \in SUBSET Cancellable : Rejected(S)
    BY <1>6 DEF ReceiveCancel
  <2>2. dispatch[c] # "none"
    BY <2>1 DEF Rejected, Cancellable
  <2> QED BY <1>2, <2>1, <2>2
<1>7. ASSUME NEW d \in Calls, \/ Budget(d) \/ Prepared(d) \/ Deadline(d) \/ Closed(d) \/ Acquire(d) \/ Delivers(d)
                              \/ \E t \in Tries : FailureSeen(d, t)
      PROVE  dispatch[c] # "none" /\ answer[c] = "none" /\ \A i \in Ids : pending[i] = c => pending'[i] = c
  <2>1. \/ UNCHANGED callVars \/ UNCHANGED <<answer, pending>>
        \/ Rejected({d}) \/ Answered({d}, "error") \/ Answered({d}, "ok")
    BY <1>7 DEF Budget, Prepared, Deadline, Closed, Acquire, Delivers, Posted, ClosesInstead, FailureSeen
  <2>2. answer[c] = "none" /\ \A i \in Ids : pending[i] = c => pending'[i] = c
    BY <1>1, <1>2, <1>3, <2>1
  <2>3. CASE d = c
    <3>1. UNCHANGED callVars \/ work[d] # "none" \/ race[d] = "open" \/ dispatch[d] # "none"
      BY <1>7 DEF Budget, Prepared, Deadline, Closed, Acquire, Delivers, FailureSeen
    <3> QED BY <1>3, <1>4, <2>2, <2>3, <3>1
  <2>4. CASE d # c
    <3>1. dispatch'[c] = dispatch[c]
      <4>1. \/ UNCHANGED dispatch \/ Rejected({d})
            \/ \E x \in {"returned", "closing", "done"} : dispatch' = [dispatch EXCEPT ![d] = x]
        BY <1>7 DEF Budget, Prepared, Deadline, Closed, Acquire, Delivers, Posted, ClosesInstead,
                    FailureSeen, callVars
      <4> QED BY <2>4, <4>1 DEF Rejected, CallTypes
    <3> QED BY <2>2, <3>1
  <2> QED BY <2>3, <2>4
<1>8. CASE Withdraw
  <2>1. Rejected(Cancellable)
    BY <1>8 DEF Withdraw
  <2>2. dispatch[c] # "none"
    BY <2>1 DEF Rejected, Cancellable
  <2> QED BY <1>2, <2>1, <2>2
<1>9. CASE Broker
  <2>1. ASSUME NEW d \in Calls, \/ ReceiveClose(d) \/ Stagger(d) \/ PortCloses(d)
                                \/ \E t \in Tries : Connects(d, t) \/ Fails(d, t) \/ Arrives(d, t)
        PROVE  UNCHANGED callVars
    BY <2>1 DEF ReceiveClose, Stagger, PortCloses, Connects, Fails, Arrives
  <2>2. PICK d \in Calls :
           \/ ReceiveConnect(d) \/ ReceiveCancel(d) \/ ReceiveClose(d) \/ Budget(d) \/ Prepared(d)
           \/ Stagger(d) \/ Deadline(d) \/ Acquire(d) \/ Delivers(d) \/ Closed(d) \/ PortCloses(d)
           \/ \E t \in Tries : Connects(d, t) \/ Fails(d, t) \/ Arrives(d, t) \/ FailureSeen(d, t)
    BY <1>9 DEF Broker
  <2>3. CASE ReceiveConnect(d)
    BY <1>5, <2>3
  <2>4. CASE ~ReceiveConnect(d)
    BY <1>3, <1>6, <1>7, <2>1, <2>2, <2>4
  <2> QED BY <2>3, <2>4
<1>10. ASSUME Page
       PROVE  UNCHANGED callVars
  BY <1>10 DEF Page, AppConnects, AppAborts, PageBudget, ReplyArrives, PortArrives,
               PortWaitExpires, UnclaimedExpires
<1>11. ASSUME ReceiveStale \/ Reload \/ Leave \/ UNCHANGED vars
       PROVE  UNCHANGED callVars
  BY <1>11 DEF ReceiveStale, Reload, Leave, Unloads, vars
<1> QED
  BY <1>3, <1>8, <1>9, <1>10, <1>11, Steps

LEMMA CancelFindsItsCallKept ==
    ASSUME PageTypes, WireTypes, CallTypes, DialTypes, RaceAgrees,
           DocumentsAgree, WireInOrder, WorkAgrees, CancelFindsItsCall, [Next]_vars
    PROVE  CancelFindsItsCall'
<1>1. ASSUME NEW c \in Calls, c \in signal'
      PROVE  c \in hooked' \/ made'[c] # document'
  <2>1. CASE c \in signal
    <3>1. made[c] # Elsewhere
      BY <2>1 DEF WorkAgrees, WireInOrder
    <3>2. c \in hooked \/ made[c] # document
      BY <2>1 DEF CancelFindsItsCall, Here
    <3> QED BY <3>1, <3>2, MadeKept DEF Here
  <2>2. CASE c \notin signal
    <3>1. /\ dispatch[c] # "none" /\ UNCHANGED pageVars /\ document # Elsewhere
          /\ \E e \in Calls : e \in hooked /\ id[c] = id[e] /\ made[c] <= made[e]
      BY <1>1, <2>2, SignalMoves
    <3>2. PICK e \in Calls : e \in hooked /\ id[c] = id[e] /\ made[c] <= made[e]
      BY <3>1
    <3>3. made[c] # Elsewhere /\ made[e] <= document
      BY <3>1 DEF WireInOrder, DocumentsAgree
    <3>4. CASE made[c] = made[e]
      <4>1. c = e
        BY <3>2, <3>3, <3>4 DEF DocumentsAgree
      <4> QED BY <3>1, <3>2, <4>1 DEF pageVars
    <3>5. CASE made[c] # made[e]
      BY <3>1, <3>2, <3>3, <3>5 DEF pageVars, PageTypes
    <3> QED BY <3>4, <3>5
  <2> QED BY <2>1, <2>2
<1>2. ASSUME NEW c \in Calls, dispatch'[c] # "none", answer'[c] = "none"
      PROVE  pending'[id'[c]] = c \/ \E d \in Calls : id'[d] = id'[c] /\ made'[d] > made'[c]
  <2>1. CASE dispatch[c] # "none" /\ answer[c] = "none"
    <3>1. /\ made[c] # Elsewhere /\ made'[c] = made[c] /\ id'[c] = id[c] /\ id[c] \in Ids
      BY <2>1, MadeKept DEF WireInOrder, DocumentsAgree
    <3>2. CASE pending[id[c]] # c
      <4>1. PICK d \in Calls : id[d] = id[c] /\ made[d] > made[c]
        BY <2>1, <3>2 DEF CancelFindsItsCall
      <4>2. made[d] # Elsewhere
        BY <3>1, <4>1 DEF PageTypes, Elsewhere
      <4>3. made'[d] = made[d] /\ id'[d] = id[d]
        BY <4>2, MadeKept
      <4> QED BY <3>1, <4>1, <4>3
    <3>3. CASE pending[id[c]] = c
      <4>1. CASE \A i \in Ids : pending[i] = c => pending'[i] = c
        BY <3>1, <3>3, <4>1
      <4>2. ASSUME NEW e \in Calls, ReceiveConnect(e),
                   \A i \in Ids : pending[i] = c /\ i # id[e] => pending'[i] = c
            PROVE  pending'[id'[c]] = c \/ \E d \in Calls : id'[d] = id'[c] /\ made'[d] > made'[c]
        <5>1. /\ made[e] # Elsewhere /\ dispatch[e] = "none" /\ made[c] <= made[e]
              /\ UNCHANGED <<made, id>>
          BY <2>1, <4>2, Received DEF ReceiveConnect, pageVars
        <5>2. CASE id[e] # id[c]
          BY <3>1, <3>3, <4>2, <5>2
        <5>3. CASE id[e] = id[c]
          <6>1. made[e] # made[c]
            BY <2>1, <3>1, <5>1, <5>3 DEF DocumentsAgree
          <6>2. made[e] > made[c]
            BY <5>1, <6>1 DEF PageTypes
          <6> QED BY <5>1, <5>3, <6>2
        <5> QED BY <5>2, <5>3
      <4>3. CASE ReceiveConnect(c)
        BY <2>1, <4>3, Received DEF ReceiveConnect
      <4> QED BY <1>2, <4>1, <4>2, <4>3, PendingMoves
    <3> QED BY <3>2, <3>3
  <2>2. CASE ReceiveConnect(c) /\ (id[c] \in Ids => pending'[id[c]] = c)
    <3>1. id[c] \in Ids /\ id' = id
      BY <2>2, Received DEF ReceiveConnect, DocumentsAgree, pageVars
    <3> QED BY <2>2, <3>1
  <2> QED BY <1>2, <2>1, <2>2, PendingMoves
<1>3. signal' \subseteq Calls
  BY CallTyped DEF CallTypes
<1> QED
  BY <1>1, <1>2, <1>3 DEF CancelFindsItsCall, Here

-----------------------------------------------------------------------------
(* Live handles *)

\* A message stays on the wire until it is received or found stale.
LEMMA WireMoves ==
    ASSUME WireTypes, [Next]_vars, NEW c \in Calls,
           NEW i \in 1 .. Len(wire), wire[i] = Message(Close, c)
    PROVE  \/ \E j \in 1 .. Len(wire') : wire'[j] = Message(Close, c)
           \/ ReceiveClose(c)
           \/ ReceiveStale /\ made[c] # document
<1>1. CASE UNCHANGED wire
  BY <1>1
<1>2. CASE wire # <<>> /\ wire' = Tail(wire)
  <2>1. /\ Len(wire) \in Nat /\ Len(wire') = Len(wire) - 1 /\ Head(wire) = wire[1]
        /\ \A j \in 1 .. Len(wire') : wire'[j] = wire[j + 1]
    BY <1>2, WireShifts
  <2>2. CASE i # 1
    <3>1. i - 1 \in 1 .. Len(wire') /\ (i - 1) + 1 = i
      BY <2>1, <2>2
    <3> QED BY <2>1, <3>1
  <2>3. CASE Head(wire) = Message(Close, c)
    <3>1. Head(wire).call = c /\ Head(wire).kind = Close
      BY <2>3 DEF Message
    <3>2. ASSUME NEW d \in Calls, ReceiveConnect(d) \/ ReceiveCancel(d)
          PROVE  FALSE
      <4>1. Head(wire).kind = Connect \/ Head(wire).kind = Cancel
        BY <3>2 DEF ReceiveConnect, ReceiveCancel, Arriving, Message
      <4> QED BY <3>1, <4>1 DEF Connect, Cancel, Close
    <3>3. ASSUME NEW d \in Calls, ReceiveClose(d)
          PROVE  d = c
      BY <3>1, <3>3 DEF ReceiveClose, Arriving, Message
    <3>4. ReceiveStale => made[c] # document
      BY <3>1 DEF ReceiveStale
    <3>5. ~UNCHANGED wire
      BY <2>1
    <3>6. CASE Broker
      BY <3>2, <3>3, <3>5, <3>6
      DEF Broker, Budget, Prepared, Stagger, Connects, Fails, Arrives, FailureSeen, Deadline,
          Acquire, Delivers, Closed, PortCloses
    <3>7. ~Page
      <4>1. ASSUME NEW k \in {Connect, Cancel, Close}, NEW d \in Calls,
                   wire' = Append(wire, Message(k, d))
            PROVE  FALSE
        <5>1. Len(wire') = Len(wire) + 1
          BY <4>1, WireGrows
        <5> QED BY <2>1, <5>1
      <4> QED BY <3>5, <4>1 DEF Page, AppConnects, AppAborts, PageBudget, ReplyArrives, PortArrives,
                                PortWaitExpires, UnclaimedExpires
    <3> QED BY <3>4, <3>5, <3>6, <3>7, Steps DEF Withdraw, Reload, Leave, Unloads, vars
  <2> QED BY <2>1, <2>2, <2>3
<1>3. ASSUME NEW k \in {Connect, Cancel, Close}, NEW d \in Calls,
             wire' = Append(wire, Message(k, d))
      PROVE  \E j \in 1 .. Len(wire') : wire'[j] = Message(Close, c)
  <2>1. /\ Len(wire) \in Nat /\ Len(wire') = Len(wire) + 1
        /\ \A j \in 1 .. Len(wire) : wire'[j] = wire[j]
    BY <1>3, WireGrows
  <2> QED BY <2>1
<1>4. CASE Broker
  BY <1>1, <1>2, <1>4
  DEF Broker, ReceiveConnect, ReceiveCancel, ReceiveClose, Arriving, Budget, Prepared, Stagger,
      Connects, Fails, Arrives, FailureSeen, Deadline, Acquire, Delivers, Closed, PortCloses
<1>5. CASE Page
  BY <1>1, <1>3, <1>5 DEF Page, AppConnects, AppAborts, PageBudget, ReplyArrives, PortArrives,
                          PortWaitExpires, UnclaimedExpires
<1> QED
  BY <1>1, <1>2, <1>4, <1>5, Steps DEF ReceiveStale, Withdraw, Reload, Leave, Unloads, vars

LEMMA LiveHasPortKept ==
    ASSUME WireTypes, CallTypes, DialTypes, RaceAgrees, PortTypes,
           DocumentsAgree, WireInOrder, WorkAgrees, RepliesAgree, LiveHasPort, [Next]_vars
    PROVE  LiveHasPort'
<1> SUFFICES ASSUME NEW c \in Calls, handle'[c] = "live", dispatch'[c] = "done"
             PROVE  port'[c] # "none"
  BY DEF LiveHasPort
<1>1. CASE handle[c] = "live" /\ dispatch[c] = "done"
  BY <1>1, PortMoves DEF LiveHasPort
<1>2. CASE Delivers(c) /\ Posted(c)
  BY <1>2 DEF Posted, PortTypes
<1> QED
  BY <1>1, <1>2, HandleMoves

LEMMA HandleIsKnownKept ==
    ASSUME PageTypes, WireTypes, CallTypes, DialTypes, RaceAgrees, PortTypes,
           DocumentsAgree, WireInOrder, WorkAgrees, RepliesAgree, LiveHasPort, HandleIsKnown,
           [Next]_vars,
           RepliesAgree'
    PROVE  HandleIsKnown'
<1> DEFINE Known(c) == \/ answer'[c] = "ok" /\ page'[c] \in {"asked", "awaiting", "open"}
                       \/ \E i \in 1 .. Len(wire') : wire'[i] = Message(Close, c)
                       \/ c \in late' \/ made'[c] # document' \/ port'[c] = "closed"
<1>1. ASSUME NEW c \in Calls, handle'[c] = "live", dispatch'[c] = "done"
      PROVE  Known(c)
  <2>1. CASE handle[c] = "live" /\ dispatch[c] = "done"
    <3>1. /\ made[c] # Elsewhere
          /\ answer[c] # "none" => answer'[c] = answer[c]
          /\ late \subseteq late'
          /\ made[c] # document => made'[c] # document'
      BY <2>1, AnswerKept, MadeKept DEF WireInOrder, Here
    <3>a. port[c] # "none" /\ (port[c] = "closed" => port'[c] = "closed")
      BY <2>1, PortMoves DEF LiveHasPort
    <3>2. CASE answer[c] = "ok" /\ page[c] \in {"asked", "awaiting", "open"}
      <4>1. CASE wire' = Append(wire, Message(Close, c))
        <5>1. Len(wire) + 1 \in 1 .. Len(wire') /\ wire'[Len(wire) + 1] = Message(Close, c)
          BY <4>1, WireGrows DEF Close
        <5> QED BY <5>1
      <4>2. CASE wire' # Append(wire, Message(Close, c))
        BY <3>1, <3>2, <4>2, PageMoves
      <4> QED BY <4>1, <4>2
    <3>3. CASE \E i \in 1 .. Len(wire) : wire[i] = Message(Close, c)
      <4>1. CASE ReceiveClose(c)
        <5>1. ~Registered(c)
          BY <1>1, <4>1 DEF ReceiveClose, DialTypes
        <5> QED BY <2>1, <3>a, <5>1 DEF Registered, PortTypes
      <4>2. CASE ReceiveStale /\ made[c] # document
        BY <3>1, <4>2
      <4> QED BY <3>3, <4>1, <4>2, WireMoves
    <3>4. CASE c \in late \/ made[c] # document \/ port[c] = "closed"
      BY <3>1, <3>a, <3>4
    <3> QED BY <2>1, <3>2, <3>3, <3>4 DEF HandleIsKnown, Here
  <2>2. CASE handle[c] = "live" /\ Delivers(c) /\ Posted(c)
    <3>1. /\ dispatch[c] = "returned" /\ UNCHANGED <<document, page, made, late>>
          /\ answer[c] = "none" => answer'[c] = "ok"
      BY <2>2 DEF Delivers, Posted, Answered, pageVars
    <3>2. CASE answer[c] = "none"
      <4>1. page[c] = "asked" \/ c \in late \/ made[c] # document
        BY <3>1, <3>2 DEF WireInOrder, RepliesAgree, Here
      <4> QED BY <3>1, <3>2, <4>1
    <3>3. CASE answer[c] # "none"
      BY <3>1, <3>3 DEF WorkAgrees
    <3> QED BY <3>2, <3>3
  <2> QED BY <1>1, <2>1, <2>2, HandleMoves
<1>2. ASSUME NEW c \in Calls, port'[c] = "claimed"
      PROVE  portTo'[c] = made'[c]
  <2>1. CASE port[c] = "claimed" /\ portTo'[c] = portTo[c]
    BY <2>1, MadeKept DEF HandleIsKnown, RepliesAgree
  <2>2. CASE /\ port[c] # "none" /\ portTo'[c] = portTo[c]
             /\ page[c] \in {"asked", "awaiting"} /\ UNCHANGED <<document, made>>
    <3>1. made[c] = document /\ made[c] # Elsewhere /\ made[c] <= portTo[c] /\ portTo[c] <= document
      BY <2>2 DEF DocumentsAgree, RepliesAgree, Here
    <3> QED BY <2>2, <3>1 DEF PageTypes, PortTypes
  <2> QED BY <1>2, <2>1, <2>2, PortMoves
<1>3. \A c \in Calls : port'[c] # "none" => portTo'[c] # Elsewhere
  BY DEF RepliesAgree
<1> QED
  BY <1>1, <1>2, <1>3 DEF HandleIsKnown, Here

-----------------------------------------------------------------------------
(* The theorems *)

LEMMA Initially ==
    ASSUME Init
    PROVE  IInv
<1>1. TypeOK
  <2>1. PageTypes
    <3>1. Cardinality(Calls) \in Nat
      BY DialAssumption, FS_CardinalityType
    <3>2. 0 \in 0 .. Cardinality(Calls) /\ 0 \in 0 .. Documents /\ 1 \in 0 .. Documents
      BY <3>1, DialAssumption
    <3> QED BY <3>2 DEF Init, PageTypes, Elsewhere
  <2>2. WireTypes /\ CallTypes /\ DialTypes /\ RaceAgrees
    BY DEF Init, WireTypes, CallTypes, DialTypes, RaceAgrees
  <2>3. PortTypes
    BY DialAssumption DEF Init, PortTypes, Elsewhere
  <2> QED BY <2>1, <2>2, <2>3, TypeGroups
<1>2. wire = <<>> /\ Len(wire) = 0
  BY DEF Init
<1>3. DocumentsAgree /\ WireInOrder /\ WorkAgrees /\ RepliesAgree
  <2>1. DocumentsAgree
    BY DEF Init, DocumentsAgree, Elsewhere, Here
  <2>2. WireInOrder
    BY <1>2 DEF Init, WireInOrder
  <2>3. WorkAgrees
    BY DialAssumption DEF Init, WorkAgrees
  <2>4. RepliesAgree
    BY DEF Init, RepliesAgree
  <2> QED BY <2>1, <2>2, <2>3, <2>4
<1>4. NoStraySocket /\ CancelWins /\ CancelFindsItsCall /\ HandleIsKnown
  BY DEF Init, NoStraySocket, CancelWins, CancelFindsItsCall, HandleIsKnown
<1> QED
  BY <1>1, <1>3, <1>4 DEF IInv, Init, LiveHasPort

LEMMA Inductively ==
    ASSUME IInv, [Next]_vars
    PROVE  IInv'
<1>1. /\ PageTypes /\ WireTypes /\ CallTypes /\ DialTypes /\ RaceAgrees /\ PortTypes
      /\ DocumentsAgree /\ WireInOrder /\ WorkAgrees /\ RepliesAgree
      /\ NoStraySocket /\ CancelWins /\ CancelFindsItsCall /\ LiveHasPort /\ HandleIsKnown
  BY TypeGroups DEF IInv
<1>2. TypeOK'
  <2>1. PageTypes' /\ WireTypes' /\ CallTypes' /\ PortTypes'
    BY <1>1, PageTyped, WireTyped, CallTyped, PortTyped
  <2>2. DialTypes' /\ RaceAgrees'
    BY <1>1, DialTyped
  <2> QED BY <2>1, <2>2, TypeGroups, PTL
<1>3. DocumentsAgree' /\ WireInOrder' /\ WorkAgrees'
  BY <1>1, DocumentsAgreeKept, WireInOrderKept, WorkAgreesKept
<1>4. RepliesAgree'
  BY <1>1, <1>3, RepliesAgreeKept
<1>5. NoStraySocket' /\ CancelWins' /\ CancelFindsItsCall'
  BY <1>1, NoStraySocketKept, CancelWinsKept, CancelFindsItsCallKept
<1>6. LiveHasPort' /\ HandleIsKnown'
  BY <1>1, <1>4, LiveHasPortKept, HandleIsKnownKept
<1> QED
  BY <1>2, <1>3, <1>4, <1>5, <1>6 DEF IInv

\* The inductive invariant of a dial and its cancel.
THEOREM Invariant == Spec => []IInv
<1>1. Init => IInv
  BY Initially
<1>2. IInv /\ [Next]_vars => IInv'
  BY Inductively
<1> QED
  BY <1>1, <1>2, PTL DEF Spec

\* Types, and a race is open exactly while its dial runs (raceAddresses).
THEOREM TypeCorrect == Spec => []TypeOK
<1>1. IInv => TypeOK
  BY DEF IInv
<1> QED
  BY <1>1, Invariant, PTL

\* However many calls race over however many addresses, no socket is left without an
\* owner (staggered-dial.ts, net.ts, dispatch/net.ts).
THEOREM NoSocketIsStray == Spec => []NoStraySocket
<1>1. IInv => NoStraySocket
  BY DEF IInv
<1> QED
  BY <1>1, Invariant, PTL

\* A call cancelled in time never becomes a socket of the page, and a cancel reaches
\* its own call or one whose document is gone, however often the app is loaded again
\* (refuseIfAbandoned, pending-dials.ts).
THEOREM CancelStaysExact == Spec => []CancelIsExact
<1>1. IInv => CancelIsExact
  BY DEF IInv, CancelIsExact
<1> QED
  BY <1>1, Invariant, PTL

\* A live handle is known to its page unless a timer gave up on it, its document is gone
\* or nobody claimed its port in time, and a port is used by the document that asked
\* (deliverPort, netConnectBridge, the registry that net.close looks in).
THEOREM HandleIsAlwaysKnown == Spec => []HandleIsKnown
<1>1. IInv => HandleIsKnown
  BY DEF IInv
<1> QED
  BY <1>1, Invariant, PTL

=============================================================================
