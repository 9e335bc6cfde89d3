-------------------------------- MODULE Dial --------------------------------
(***************************************************************************)
(* A page's net.connect from the call to the socket: the request and its   *)
(* cancel on the control channel (src/broker/transport), the dial and its  *)
(* race over addresses (capabilities/net.ts, adapters/staggered-dial.ts),  *)
(* the handle, the reply and the port that reach the page over two         *)
(* channels in either order (src/preload).  One origin, one frame, which   *)
(* may load the app again or go elsewhere at any time.                     *)
(*                                                                         *)
(* A step is one turn of a process.  The chain of promises from a socket   *)
(* that connected to its delivery is cut at the awaits after which the     *)
(* code looks at a signal again.                                           *)
(*                                                                         *)
(* Left out: connectSecure and dials through a route, which share all but  *)
(* the attempt; the order in which families are interleaved; the wait for  *)
(* a slot (InFlight) and the indexes of the handle table (HandleTable):    *)
(* a revocation and a session's end reach every call under run and every   *)
(* live handle, which is what HandleTable shows.                           *)
(***************************************************************************)
EXTENDS Integers, Sequences, FiniteSets

CONSTANTS
    Calls,           \* calls of net.connect
    None,            \* no call
    Addresses,       \* how many addresses a host has
    SocketLimit,     \* the origin's socket allowance
    Documents,       \* bound of the model: documents of the app the frame loads
    Withdrawals      \* bound of the model: revocations and ends of the session

ASSUME DialAssumption ==
    /\ IsFiniteSet(Calls) /\ None \notin Calls
    /\ {Addresses, SocketLimit, Documents} \subseteq Nat \ {0}
    /\ Withdrawals \in Nat

VARIABLES
    document,        \* the document in the frame, Elsewhere when it is not the app's
    page,            \* what the page knows of a call
    made,            \* the document that made the call, and its request's id there
    id,
    hooked,          \* the calls whose signal the page has aborted
    wire,            \* requests on the control channel
    pending,         \* pending-dials.ts: the call filed under a request id
    signal,          \* the calls whose pending dial was cancelled
    dispatch,        \* handleControlRequest and dispatchNet
    answer,          \* the reply to the page
    late,            \* the calls given up on by a timer, the broker's or the page's
    work,            \* what net.connect runs under HandleTable.run
    race,            \* raceAddresses: its outcome
    attempt,         \* and its attempts, one by address
    handle,          \* the HandleTable's record of the socket
    port,            \* the port: closing when only the page's end has closed
    portTo,          \* the document it was posted to
    withdrawals

pageVars == <<document, page, made, id, hooked>>
callVars == <<pending, signal, dispatch, answer>>
dialVars == <<work, race, attempt, handle>>
portVars == <<port, portTo>>
vars == <<pageVars, wire, callVars, late, dialVars, portVars, withdrawals>>

Elsewhere == 0
Tries == 1 .. Addresses
Ids == 1 .. Cardinality(Calls)

Connect == "connect"
Cancel == "cancel"
Close == "close"
Message(kind, c) == [kind |-> kind, call |-> c]

Init ==
    /\ document = 1
    /\ page = [c \in Calls |-> "idle"]
    /\ made = [c \in Calls |-> Elsewhere]
    /\ id = [c \in Calls |-> 0]
    /\ hooked = {}
    /\ wire = <<>>
    /\ pending = [i \in Ids |-> None]
    /\ signal = {}
    /\ dispatch = [c \in Calls |-> "none"]
    /\ answer = [c \in Calls |-> "none"]
    /\ late = {}
    /\ work = [c \in Calls |-> "none"]
    /\ race = [c \in Calls |-> "none"]
    /\ attempt = [c \in Calls |-> [t \in Tries |-> "untried"]]
    /\ handle = [c \in Calls |-> "none"]
    /\ port = [c \in Calls |-> "none"]
    /\ portTo = [c \in Calls |-> Elsewhere]
    /\ withdrawals = 0

-----------------------------------------------------------------------------
(* The race of raceAddresses. *)

Untried(c) == {t \in Tries : attempt[c][t] = "untried"}
Running(c) == {t \in Tries : attempt[c][t] \in {"connecting", "connected", "failed"}}

\* finish(): every attempt still connecting is destroyed.  One that connected has
\* dropped its abort listener already, and comes back to be discarded.
Abandoned(c) ==
    [t \in Tries |-> IF attempt[c][t] = "connecting" THEN "over" ELSE attempt[c][t]]

\* Addresses are tried in order.
FirstUntried(c) == CHOOSE t \in Untried(c) : \A u \in Untried(c) : t <= u

\* startNext, from a list of attempts in which t is over.
Started(attempts, c) ==
    IF Untried(c) = {} THEN attempts ELSE [attempts EXCEPT ![FirstUntried(c)] = "connecting"]

\* The stagger timer, armed while there is an address left.
Stagger(c) ==
    /\ race[c] = "open" /\ Untried(c) # {}
    /\ attempt' = [attempt EXCEPT ![c] = Started(@, c)]
    /\ UNCHANGED <<pageVars, wire, callVars, late, work, race, handle, portVars, withdrawals>>

\* The socket's 'connect' and 'error' events.
Connects(c, t) ==
    /\ attempt[c][t] = "connecting"
    /\ attempt' = [attempt EXCEPT ![c][t] = "connected"]
    /\ UNCHANGED <<pageVars, wire, callVars, late, work, race, handle, portVars, withdrawals>>

Fails(c, t) ==
    /\ attempt[c][t] = "connecting"
    /\ attempt' = [attempt EXCEPT ![c][t] = "failed"]
    /\ UNCHANGED <<pageVars, wire, callVars, late, work, race, handle, portVars, withdrawals>>

\* A mutant: one that comes when the race is settled is dropped as it is.
ArrivesUndiscarded(c, t) ==
    /\ attempt[c][t] = "connected"
    /\ IF race[c] = "open"
       THEN /\ race' = [race EXCEPT ![c] = "won"]
            /\ work' = [work EXCEPT ![c] = "dialled"]
            /\ attempt' = [attempt EXCEPT ![c] = [Abandoned(c) EXCEPT ![t] = "won"]]
       ELSE /\ attempt' = [attempt EXCEPT ![c][t] = "won"]
            /\ UNCHANGED <<race, work>>
    /\ UNCHANGED <<pageVars, wire, callVars, late, handle, portVars, withdrawals>>

\* The first to connect wins; one that comes when the race is settled is discarded.
Arrives(c, t) ==
    /\ attempt[c][t] = "connected"
    /\ IF race[c] = "open"
       THEN /\ race' = [race EXCEPT ![c] = "won"]
            /\ work' = [work EXCEPT ![c] = "dialled"]
            /\ attempt' = [attempt EXCEPT ![c] = [Abandoned(c) EXCEPT ![t] = "won"]]
       ELSE /\ attempt' = [attempt EXCEPT ![c][t] = "over"]
            /\ UNCHANGED <<race, work>>
    /\ UNCHANGED <<pageVars, wire, callVars, late, handle, portVars, withdrawals>>

-----------------------------------------------------------------------------
(* The broker's side of a call. *)

\* A mutant: end() deletes what is filed under the id, whoever filed it.
ForgottenById(S) == [i \in Ids |-> IF \E c \in S : id[c] = i THEN None ELSE pending[i]]

\* end() in the finally of handleControlRequest: an entry that a newer call has
\* taken over stays.
Forgotten(S) == [i \in Ids |-> IF pending[i] \in S THEN None ELSE pending[i]]

\* The reply, unless the budget of withTimeout ran out before.
Answered(S, a) ==
    /\ answer' = [c \in Calls |-> IF c \in S /\ answer[c] = "none" THEN a ELSE answer[c]]
    /\ pending' = Forgotten(S)

\* run rejects, and with it the dispatch of every call of S.
Rejected(S) ==
    /\ Answered(S, "error")
    /\ dispatch' = [c \in Calls |-> IF c \in S THEN "done" ELSE dispatch[c]]

\* The signal of the work of a call: aborted when run was rejected over it.
Aborted(c) == dispatch[c] = "done"

\* A mutant: a cancelled race is settled and its dial is not told.
HaltedAlone(S) ==
    /\ race' = [c \in Calls |-> IF c \in S /\ race[c] = "open" THEN "revoked" ELSE race[c]]
    /\ UNCHANGED work

\* A run that has not settled is rejected by whoever cancels it; its race sees the
\* signal in the same turn.
Cancellable == {c \in Calls : dispatch[c] = "running"}
Halted(S) ==
    LET racing == {c \in S : race[c] = "open"}
    IN  /\ race' = [c \in Calls |-> IF c \in racing THEN "revoked" ELSE race[c]]
        /\ work' = [c \in Calls |-> IF c \in racing THEN "ended" ELSE work[c]]

Live == {c \in Calls : handle[c] = "live"}

\* What a handle that leaves the table does to its socket.
Destroyed(attempts) == [t \in Tries |-> IF attempts[t] = "won" THEN "over" ELSE attempts[t]]

Arriving(kind, c) == wire # <<>> /\ Head(wire) = Message(kind, c) /\ wire' = Tail(wire)

\* begin() files the call; the rate limit may refuse it; run may have no slot for it.
ReceiveConnect(c) ==
    /\ Arriving(Connect, c) /\ document # Elsewhere
    /\ \/ /\ pending' = [pending EXCEPT ![id[c]] = c]
          /\ dispatch' = [dispatch EXCEPT ![c] = "running"]
          /\ work' = [work EXCEPT ![c] = "preparing"]
          /\ UNCHANGED answer
       \/ /\ pending' = [pending EXCEPT ![id[c]] = None]
          /\ dispatch' = [dispatch EXCEPT ![c] = "done"]
          /\ answer' = [answer EXCEPT ![c] = "error"]
          /\ work' = [work EXCEPT ![c] = "ended"]
    /\ UNCHANGED <<pageVars, signal, late, race, attempt, handle, portVars, withdrawals>>

\* The page's cancel finds whatever its frame and origin have pending under that id.
ReceiveCancel(c) ==
    /\ Arriving(Cancel, c) /\ document # Elsewhere
    /\ LET found == {pending[id[c]]} \ {None}
           cut == found \cap Cancellable
       IN  /\ signal' = signal \cup found
           /\ Rejected(cut)
           /\ Halted(cut)
           /\ attempt' = [d \in Calls |-> IF d \in cut THEN Abandoned(d) ELSE attempt[d]]
    /\ UNCHANGED <<pageVars, late, handle, portVars, withdrawals>>

\* The registry of the relays: a socket is found until its relay cleans up, as its
\* port closes or its handle ends.
Registered(c) ==
    handle[c] = "live" /\ port[c] \in {"posted", "arrived", "claimed", "closing"}

\* net.close looks in the registry; what is not there is nothing to close.
ReceiveClose(c) ==
    /\ Arriving(Close, c) /\ document # Elsewhere
    /\ handle' = [handle EXCEPT ![c] = IF Registered(c) THEN "gone" ELSE @]
    /\ attempt' = [attempt EXCEPT ![c] = IF Registered(c) THEN Destroyed(@) ELSE @]
    /\ UNCHANGED <<pageVars, callVars, late, work, race, portVars, withdrawals>>

\* A request of a document that is gone may find no frame: it is denied.
ReceiveStale ==
    /\ wire # <<>> /\ made[Head(wire).call] # document
    /\ wire' = Tail(wire)
    /\ UNCHANGED <<pageVars, callVars, late, dialVars, portVars, withdrawals>>

\* withTimeout: the caller is answered, the work goes on.
Budget(c) ==
    /\ dispatch[c] \in {"running", "returned", "closing"} /\ answer[c] = "none"
    /\ Answered({c}, "error")
    /\ late' = late \cup {c}
    /\ UNCHANGED <<pageVars, wire, signal, dispatch, dialVars, portVars, withdrawals>>

\* A slot, the policy, the resolver; then the signal, the room, the dial.
Prepared(c) ==
    /\ work[c] = "preparing"
    /\ \/ /\ ~Aborted(c) /\ Cardinality(Live) < SocketLimit
          /\ work' = [work EXCEPT ![c] = "dialling"]
          /\ race' = [race EXCEPT ![c] = "open"]
          /\ attempt' = [attempt EXCEPT ![c] = Started(@, c)]
          /\ UNCHANGED callVars
       \/ /\ work' = [work EXCEPT ![c] = "ended"]
          /\ Rejected({c})
          /\ UNCHANGED <<race, attempt, signal>>
    /\ UNCHANGED <<pageVars, wire, late, handle, portVars, withdrawals>>

\* An attempt that failed makes way for the next; the last one ends the race.
FailureSeen(c, t) ==
    /\ attempt[c][t] = "failed"
    /\ LET over == [attempt[c] EXCEPT ![t] = "over"]
       IN  IF race[c] = "open" /\ Untried(c) = {} /\ Running(c) = {t}
           THEN /\ attempt' = [attempt EXCEPT ![c] = over]
                /\ race' = [race EXCEPT ![c] = "unreachable"]
                /\ work' = [work EXCEPT ![c] = "ended"]
                /\ Rejected({c}) /\ UNCHANGED signal
           ELSE /\ attempt' = [attempt EXCEPT ![c] = IF race[c] = "open" THEN Started(over, c) ELSE over]
                /\ UNCHANGED <<race, work, callVars>>
    /\ UNCHANGED <<pageVars, wire, late, handle, portVars, withdrawals>>

\* A mutant: a dial lasts as long as its attempts.
NoDeadline(c) == FALSE

\* One deadline for the whole dial.
Deadline(c) ==
    /\ race[c] = "open"
    /\ race' = [race EXCEPT ![c] = "timeout"]
    /\ work' = [work EXCEPT ![c] = "ended"]
    /\ attempt' = [attempt EXCEPT ![c] = Abandoned(c)]
    /\ Rejected({c})
    /\ UNCHANGED <<pageVars, wire, signal, late, handle, portVars, withdrawals>>

\* The signal once more, then acquire, which destroys what it refuses.
Acquire(c) ==
    /\ work[c] = "dialled"
    /\ work' = [work EXCEPT ![c] = "ended"]
    /\ IF Aborted(c) \/ Cardinality(Live) >= SocketLimit
       THEN /\ Rejected({c})
            /\ attempt' = [attempt EXCEPT ![c] = Destroyed(@)]
            /\ UNCHANGED handle
       ELSE /\ handle' = [handle EXCEPT ![c] = "live"]
            /\ dispatch' = [dispatch EXCEPT ![c] = "returned"]
            /\ UNCHANGED <<attempt, answer, pending>>
    /\ UNCHANGED <<pageVars, wire, signal, late, race, portVars, withdrawals>>

\* A dial the page gave up in between, or a frame that is gone: close the socket,
\* and answer when it has closed.
ClosesInstead(c) ==
    /\ handle' = [handle EXCEPT ![c] = "gone"]
    /\ attempt' = [attempt EXCEPT ![c] = Destroyed(@)]
    /\ dispatch' = [dispatch EXCEPT ![c] = "closing"]
    /\ UNCHANGED <<answer, pending, port, portTo>>

Posted(c) ==
    /\ port' = [port EXCEPT ![c] = "posted"]
    /\ portTo' = [portTo EXCEPT ![c] = document]
    /\ dispatch' = [dispatch EXCEPT ![c] = "done"]
    /\ Answered({c}, "ok")
    /\ UNCHANGED <<handle, attempt>>

\* refuseIfAbandoned and deliverPort.  A frame that has loaded the app again is the
\* same frame, or none.
Delivers(c) ==
    /\ dispatch[c] = "returned"
    /\ \/ c \notin signal /\ document # Elsewhere /\ Posted(c)
       \/ (c \in signal \/ document # made[c]) /\ ClosesInstead(c)
    /\ UNCHANGED <<pageVars, wire, signal, late, work, race, withdrawals>>

Closed(c) ==
    /\ dispatch[c] = "closing"
    /\ Rejected({c})
    /\ UNCHANGED <<pageVars, wire, signal, late, dialVars, portVars, withdrawals>>

\* The broker's end of the port closes: the relay stops, and the socket is destroyed
\* with the pump's reader.  The handle's record stays.
PortCloses(c) ==
    /\ port[c] = "closing"
    /\ port' = [port EXCEPT ![c] = "closed"]
    /\ attempt' = [attempt EXCEPT ![c] = Destroyed(@)]
    /\ UNCHANGED <<pageVars, wire, callVars, late, work, race, handle, portTo, withdrawals>>

\* A revocation, or the end of the session: every run under way is rejected, every
\* live handle ends.
Withdraw ==
    /\ withdrawals < Withdrawals
    /\ withdrawals' = withdrawals + 1
    /\ Rejected(Cancellable)
    /\ Halted(Cancellable)
    /\ handle' = [c \in Calls |-> IF handle[c] = "live" THEN "gone" ELSE handle[c]]
    /\ attempt' = [c \in Calls |-> IF c \in Live THEN Destroyed(attempt[c])
                                  ELSE IF c \in Cancellable THEN Abandoned(c) ELSE attempt[c]]
    /\ UNCHANGED <<pageVars, wire, signal, late, portVars>>

-----------------------------------------------------------------------------
(* The page. *)

Here(c) == made[c] = document

\* Request ids count up from one in every document.
AppConnects(c) ==
    /\ document # Elsewhere /\ page[c] = "idle"
    /\ page' = [page EXCEPT ![c] = "asked"]
    /\ made' = [made EXCEPT ![c] = document]
    /\ id' = [id EXCEPT ![c] = 1 + Cardinality({d \in Calls : Here(d)})]
    /\ wire' = Append(wire, Message(Connect, c))
    /\ UNCHANGED <<document, hooked, callVars, late, dialVars, portVars, withdrawals>>

\* The app aborts its signal, which is watched until the call has settled.
AppAborts(c) ==
    /\ page[c] \in {"asked", "awaiting"} /\ c \notin hooked
    /\ hooked' = hooked \cup {c}
    /\ wire' = Append(wire, Message(Cancel, c))
    /\ UNCHANGED <<document, page, made, id, callVars, late, dialVars, portVars, withdrawals>>

\* raceTimeout: what arrives later is ignored.
PageBudget(c) ==
    /\ page[c] = "asked"
    /\ page' = [page EXCEPT ![c] = "failed"]
    /\ late' = late \cup {c}
    /\ UNCHANGED <<document, made, id, hooked, wire, callVars, dialVars, portVars, withdrawals>>

\* waitForPort finds a port that came first.
ReplyArrives(c) ==
    /\ page[c] = "asked" /\ answer[c] # "none"
    /\ LET claims == answer[c] = "ok" /\ port[c] = "arrived"
       IN  /\ page' = [page EXCEPT ![c] = IF claims THEN "open"
                                          ELSE IF answer[c] = "ok" THEN "awaiting" ELSE "failed"]
           /\ port' = [port EXCEPT ![c] = IF claims THEN "claimed" ELSE @]
    /\ UNCHANGED <<document, made, id, hooked, wire, callVars, late, dialVars, portTo, withdrawals>>

PortArrives(c) ==
    /\ port[c] = "posted"
    /\ LET claims == page[c] = "awaiting"
       IN  /\ page' = [page EXCEPT ![c] = IF claims THEN "open" ELSE @]
           /\ port' = [port EXCEPT ![c] = IF claims THEN "claimed" ELSE "arrived"]
    /\ UNCHANGED <<document, made, id, hooked, wire, callVars, late, dialVars, portTo, withdrawals>>

\* A mutant: nobody tells the broker.
PortWaitExpiresSilently(c) ==
    /\ page[c] = "awaiting"
    /\ page' = [page EXCEPT ![c] = "failed"]
    /\ UNCHANGED <<document, made, id, hooked, wire, callVars, late, dialVars, portVars, withdrawals>>

\* The waiter's timer; netConnectBridge then closes the socket it was told of.
PortWaitExpires(c) ==
    /\ page[c] = "awaiting"
    /\ page' = [page EXCEPT ![c] = "failed"]
    /\ wire' = Append(wire, Message(Close, c))
    /\ UNCHANGED <<document, made, id, hooked, callVars, late, dialVars, portVars, withdrawals>>

\* The timer of a port nobody claims closes it; the broker has yet to hear.
UnclaimedExpires(c) ==
    /\ port[c] = "arrived"
    /\ port' = [port EXCEPT ![c] = "closing"]
    /\ UNCHANGED <<pageVars, wire, callVars, late, dialVars, portTo, withdrawals>>

\* The document goes, its calls and its ports with it.
Unloads(next) ==
    /\ document # Elsewhere
    /\ document' = next
    /\ page' = [c \in Calls |-> IF Here(c) THEN "gone" ELSE page[c]]
    /\ LET left == {c \in Calls : portTo[c] = document /\ port[c] \in {"posted", "arrived", "claimed"}}
       IN  port' = [c \in Calls |-> IF c \in left THEN "closing" ELSE port[c]]
    /\ UNCHANGED <<made, id, hooked, wire, callVars, late, dialVars, portTo, withdrawals>>

Reload == document < Documents /\ Unloads(document + 1)
Leave == Unloads(Elsewhere)

-----------------------------------------------------------------------------
Receive(c) == ReceiveConnect(c) \/ ReceiveCancel(c) \/ ReceiveClose(c)
Attempts(c) == \E t \in Tries : Connects(c, t) \/ Fails(c, t)
Continues(c) ==
    \/ \E t \in Tries : Arrives(c, t) \/ FailureSeen(c, t)
    \/ Acquire(c) \/ Delivers(c) \/ Closed(c) \/ PortCloses(c)
PageHears(c) == ReplyArrives(c) \/ PortArrives(c) \/ PortWaitExpires(c) \/ UnclaimedExpires(c)

Next ==
    \/ \E c \in Calls :
          \/ Receive(c) \/ Budget(c) \/ Prepared(c) \/ Stagger(c) \/ Attempts(c) \/ Deadline(c)
          \/ Continues(c) \/ AppConnects(c) \/ AppAborts(c) \/ PageBudget(c) \/ PageHears(c)
    \/ ReceiveStale \/ Withdraw \/ Reload \/ Leave

Spec == Init /\ [][Next]_vars

\* Turns and messages come, the resolver answers, and the timers of the dial and of
\* the ports run out.  Nothing is assumed of the peers, the app and the user, and
\* nothing of the two budgets that answer a call without an end of its own.
Fairness ==
    /\ WF_vars(ReceiveStale)
    /\ \A c \in Calls :
          /\ WF_vars(Receive(c)) /\ WF_vars(Prepared(c)) /\ WF_vars(Deadline(c))
          /\ WF_vars(Continues(c)) /\ WF_vars(PageHears(c))

FairSpec == Spec /\ Fairness

-----------------------------------------------------------------------------
\* Types, and that the race is open exactly while the dial runs: a cancel, a
\* withdrawal and the deadline end both or neither.
TypeOK ==
    /\ document \in 0 .. Documents
    /\ page \in [Calls -> {"idle", "asked", "awaiting", "open", "failed", "gone"}]
    /\ made \in [Calls -> 0 .. Documents]
    /\ id \in [Calls -> 0 .. Cardinality(Calls)]
    /\ hooked \subseteq Calls
    /\ wire \in Seq([kind : {Connect, Cancel, Close}, call : Calls])
    /\ pending \in [Ids -> Calls \cup {None}]
    /\ signal \subseteq Calls
    /\ dispatch \in [Calls -> {"none", "running", "returned", "closing", "done"}]
    /\ answer \in [Calls -> {"none", "ok", "error"}]
    /\ late \subseteq Calls
    /\ work \in [Calls -> {"none", "preparing", "dialling", "dialled", "ended"}]
    /\ race \in [Calls -> {"none", "open", "won", "unreachable", "timeout", "revoked"}]
    /\ attempt \in [Calls -> [Tries -> {"untried", "connecting", "connected", "failed", "won", "over"}]]
    /\ handle \in [Calls -> {"none", "live", "gone"}]
    /\ port \in [Calls -> {"none", "posted", "arrived", "claimed", "closing", "closed"}]
    /\ portTo \in [Calls -> 0 .. Documents]
    /\ withdrawals \in 0 .. Withdrawals
    /\ \A c \in Calls : race[c] = "open" <=> work[c] = "dialling"

\* Every open socket has an owner: an attempt under way belongs to an open race, the
\* one socket that was kept to the dial that is about to look at its signal or to a
\* live handle.  (finish and discard in staggered-dial.ts:56-88, the signal after the
\* dial in net.ts, acquire's release of what it refuses, abandon in dispatch/net.ts.)
NoStraySocket ==
    \A c \in Calls : \A t \in Tries :
        /\ attempt[c][t] = "connecting" => race[c] = "open"
        /\ attempt[c][t] = "won" => work[c] = "dialled" \/ handle[c] = "live"

\* A call its page cancelled in time never becomes a socket of the page, and keeps
\* no handle past the step that looks.  (watchAbandon, refuseIfAbandoned.)
CancelWins ==
    \A c \in signal :
        /\ page[c] \notin {"awaiting", "open"} /\ answer[c] # "ok"
        /\ handle[c] = "live" => dispatch[c] = "returned"

\* A cancel reaches the call it was sent for, or one whose document is gone, though a
\* new document counts its requests from one again: a call that is not answered is
\* filed under its id until a later document's call takes it over.  (keyOf and end in
\* pending-dials.ts, and the order of the channel.)
CancelFindsItsCall ==
    /\ \A c \in signal : c \in hooked \/ ~Here(c)
    /\ \A c \in Calls :
          dispatch[c] # "none" /\ answer[c] = "none" =>
              pending[id[c]] = c \/ \E d \in Calls : id[d] = id[c] /\ made[d] > made[c]

\* A cancel ends its own call, and no other (net.cancel from the page to the dial).
CancelIsExact == CancelWins /\ CancelFindsItsCall

\* A live handle is one its page has or will have or is about to close, unless a
\* timer gave up on the call, the document is gone, or nobody claimed the port in
\* time: then the relay has left the registry, net.close finds nothing, and the record
\* stays.  And a port is posted to a document of the app and used by the one that
\* asked.  (deliverPort, abandon in dispatch/net.ts, the catch of netConnectBridge.)
HandleIsKnown ==
    \A c \in Calls :
        /\ handle[c] = "live" /\ dispatch[c] = "done" =>
              \/ answer[c] = "ok" /\ page[c] \in {"asked", "awaiting", "open"}
              \/ \E i \in 1 .. Len(wire) : wire[i] = Message(Close, c)
              \/ c \in late \/ ~Here(c) \/ port[c] = "closed"
        /\ port[c] # "none" => portTo[c] # Elsewhere
        /\ port[c] = "claimed" => portTo[c] = made[c]

\* A call is answered without the help of either budget, though its peers may never
\* say anything.  (The deadline of raceAddresses; dispatch/net.ts.)
CallIsAnswered == \A c \in Calls : page[c] = "asked" ~> page[c] # "asked"

=============================================================================
