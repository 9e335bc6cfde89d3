------------------------------ MODULE InFlight ------------------------------
(***************************************************************************)
(* The per-origin in-flight budget of the capability broker:               *)
(* src/broker/handles/in-flight.ts, and the part of HandleTable.run        *)
(* (src/broker/handles/handles.ts) that takes, waits for and gives back a  *)
(* slot.                                                                   *)
(*                                                                         *)
(* JavaScript runs one callback at a time, so a step of this model is one  *)
(* callback: the call itself up to its first await, the continuation of an *)
(* await, a timer, or the broker code that cancels an operation.  Between  *)
(* two steps any other callback may run; a promise that has settled only   *)
(* says that its continuation may now run (`wake'), not that it has run.   *)
(***************************************************************************)
EXTENDS Naturals, Sequences, FiniteSets

CONSTANTS
    Ops,          \* calls of HandleTable.run on one origin's table
    Cap,          \* LIMITS.inFlightOperations
    QueueLimit    \* IN_FLIGHT_QUEUE_LIMIT

ASSUME InFlightAssumption ==
    /\ Cap \in Nat \ {0}
    /\ QueueLimit \in Nat \ {0}
    /\ IsFiniteSet(Ops)

VARIABLES
    inFlight,     \* OriginTable.inFlight
    slotWaiters,  \* OriginTable.slotWaiters, oldest first
    admitted,     \* the calls whose SlotWaiter.admitted flag is set
    cancelled,    \* the calls whose `cancelled' promise has been rejected
    phase,        \* where each call is suspended
    wake,         \* how the race the call is suspended on has settled
    ticket,       \* history: when each call was accepted, 0 if it was not
    clock         \* history: the last ticket given out

vars == <<inFlight, slotWaiters, admitted, cancelled, phase, wake, ticket, clock>>

\* "idle":    run has not been called.
\* "waiting": suspended in waitForSlot, at the race of `admitted' and `cancelled'.
\* "running": suspended at the race of `work' and `cancelled'.
\* "settled": the promise run returned has settled, or the call was refused.
Phases == {"idle", "waiting", "running", "settled"}

\* "none": the race is open.  "go": the first of its promises to settle was
\* `admitted' (or `work').  "stop": it was `cancelled' or the timer's `expire'.
Wakes == {"none", "go", "stop"}

Queued == {slotWaiters[i] : i \in DOMAIN slotWaiters}

\* The calls that own one of the slots counted by inFlight: admit() hands the
\* slot over before the waiter's continuation has run.
Holders == {o \in Ops : phase[o] = "running" \/ (phase[o] = "waiting" /\ o \in admitted)}

Init ==
    /\ inFlight = 0
    /\ slotWaiters = <<>>
    /\ admitted = {}
    /\ cancelled = {}
    /\ phase = [o \in Ops |-> "idle"]
    /\ wake = [o \in Ops |-> "none"]
    /\ ticket = [o \in Ops |-> 0]
    /\ clock = 0

-----------------------------------------------------------------------------
(* in-flight.ts *)

queueFull == inFlight >= Cap /\ Len(slotWaiters) >= QueueLimit

\* indexOf and splice: the queue without the first occurrence of o.
unqueue(o) ==
    IF o \in Queued
    THEN LET at == CHOOSE i \in DOMAIN slotWaiters :
                      /\ slotWaiters[i] = o
                      /\ \A j \in 1 .. (i - 1) : slotWaiters[j] # o
         IN  [i \in 1 .. (Len(slotWaiters) - 1) |->
                 IF i < at THEN slotWaiters[i] ELSE slotWaiters[i + 1]]
    ELSE slotWaiters

\* tryTakeSlot's condition.
SlotIsFree == inFlight < Cap /\ slotWaiters = <<>>

\* Faulty variant: pop instead of shift, the youngest waiter first.
releaseSlotToYoungest(q) ==
    IF q = <<>>
    THEN /\ inFlight' = inFlight - 1
         /\ slotWaiters' = q
         /\ UNCHANGED <<admitted, wake>>
    ELSE /\ slotWaiters' = SubSeq(q, 1, Len(q) - 1)
         /\ admitted' = admitted \cup {q[Len(q)]}
         /\ wake' = [wake EXCEPT ![q[Len(q)]] = IF @ = "none" THEN "go" ELSE @]
         /\ UNCHANGED inFlight

\* Faulty variant: the slot is handed over and counted as freed as well.
releaseSlotTwice(q) ==
    /\ inFlight' = inFlight - 1
    /\ IF q = <<>>
       THEN slotWaiters' = q /\ UNCHANGED <<admitted, wake>>
       ELSE /\ slotWaiters' = Tail(q)
            /\ admitted' = admitted \cup {Head(q)}
            /\ wake' = [wake EXCEPT ![Head(q)] = IF @ = "none" THEN "go" ELSE @]

\* Gives a slot back when the queue is q: straight to the oldest waiter, whose
\* race it settles unless a cancellation settled it first.
releaseSlot(q) ==
    IF q = <<>>
    THEN /\ inFlight' = inFlight - 1
         /\ slotWaiters' = q
         /\ UNCHANGED <<admitted, wake>>
    ELSE /\ slotWaiters' = Tail(q)
         /\ admitted' = admitted \cup {Head(q)}
         /\ wake' = [wake EXCEPT ![Head(q)] = IF @ = "none" THEN "go" ELSE @]
         /\ UNCHANGED inFlight

-----------------------------------------------------------------------------
(* HandleTable.run *)

\* Refused with 'limit' before anything is allocated.
CallRefused(o) ==
    /\ phase[o] = "idle"
    /\ queueFull
    /\ phase' = [phase EXCEPT ![o] = "settled"]
    /\ UNCHANGED <<inFlight, slotWaiters, admitted, cancelled, wake, ticket, clock>>

Accept(o, to) ==
    /\ phase[o] = "idle"
    /\ ~queueFull
    /\ phase' = [phase EXCEPT ![o] = to]
    /\ ticket' = [ticket EXCEPT ![o] = clock + 1]
    /\ clock' = clock + 1

\* tryTakeSlot succeeds: the work starts in the same turn.
CallStarts(o) ==
    /\ Accept(o, "running")
    /\ SlotIsFree
    /\ inFlight' = inFlight + 1
    /\ UNCHANGED <<slotWaiters, admitted, cancelled, wake>>

\* tryTakeSlot fails: waitForSlot queues the call and suspends it.
CallQueues(o) ==
    /\ Accept(o, "waiting")
    /\ ~SlotIsFree
    /\ slotWaiters' = Append(slotWaiters, o)
    /\ UNCHANGED <<inFlight, admitted, cancelled, wake>>

\* A revoke, a close, the end of the session or the app's own abandon signal
\* rejects `cancelled'.  The call stays where it is until its continuation runs.
Cancel(o) ==
    /\ phase[o] \in {"waiting", "running"}
    /\ o \notin cancelled
    /\ cancelled' = cancelled \cup {o}
    /\ wake' = [wake EXCEPT ![o] = IF @ = "none" THEN "stop" ELSE @]
    /\ UNCHANGED <<inFlight, slotWaiters, admitted, phase, ticket, clock>>

\* Faulty variant: the timer drops the waiter and does not reject its promise.
ExpireSilently(o) ==
    /\ phase[o] = "waiting"
    /\ wake[o] = "none"
    /\ o \notin admitted
    /\ slotWaiters' = unqueue(o)
    /\ UNCHANGED <<inFlight, admitted, cancelled, phase, wake, ticket, clock>>

\* The IN_FLIGHT_WAIT_MS timer.  It is a task of its own: a continuation that
\* is already due runs before it and clears it.
Expire(o) ==
    /\ phase[o] = "waiting"
    /\ wake[o] = "none"
    /\ o \notin admitted
    /\ slotWaiters' = unqueue(o)
    /\ wake' = [wake EXCEPT ![o] = "stop"]
    /\ UNCHANGED <<inFlight, admitted, cancelled, phase, ticket, clock>>

\* Faulty variant: the work is awaited alone, not raced against `cancelled'.
ResumeWithoutRace(o) ==
    /\ phase[o] = "waiting"
    /\ wake[o] = "go"
    /\ phase' = [phase EXCEPT ![o] = "running"]
    /\ wake' = [wake EXCEPT ![o] = "none"]
    /\ UNCHANGED <<inFlight, slotWaiters, admitted, cancelled, ticket, clock>>

\* waitForSlot resolves; run calls `work' and races it against `cancelled',
\* which may have been rejected after the slot was handed over.
ResumeAdmitted(o) ==
    /\ phase[o] = "waiting"
    /\ wake[o] = "go"
    /\ phase' = [phase EXCEPT ![o] = "running"]
    /\ wake' = [wake EXCEPT ![o] = IF o \in cancelled THEN "stop" ELSE "none"]
    /\ UNCHANGED <<inFlight, slotWaiters, admitted, cancelled, ticket, clock>>

\* Faulty variant: a slot handed over in the same turn is not given back.
ResumeKeepsSlot(o) ==
    /\ phase[o] = "waiting"
    /\ wake[o] = "stop"
    /\ phase' = [phase EXCEPT ![o] = "settled"]
    /\ slotWaiters' = unqueue(o)
    /\ UNCHANGED <<inFlight, admitted, cancelled, wake, ticket, clock>>

\* waitForSlot's catch: leave the queue, and give back a slot handed over in
\* the same turn.
ResumeRejected(o) ==
    /\ phase[o] = "waiting"
    /\ wake[o] = "stop"
    /\ phase' = [phase EXCEPT ![o] = "settled"]
    /\ IF o \in admitted
       THEN releaseSlot(unqueue(o))
       ELSE slotWaiters' = unqueue(o) /\ UNCHANGED <<inFlight, admitted, wake>>
    /\ UNCHANGED <<cancelled, ticket, clock>>

\* The injected work fulfils or rejects, if it ever does.
WorkSettles(o) ==
    /\ phase[o] = "running"
    /\ wake[o] = "none"
    /\ wake' = [wake EXCEPT ![o] = "go"]
    /\ UNCHANGED <<inFlight, slotWaiters, admitted, cancelled, phase, ticket, clock>>

\* run's inner finally.
Finish(o) ==
    /\ phase[o] = "running"
    /\ wake[o] # "none"
    /\ phase' = [phase EXCEPT ![o] = "settled"]
    /\ releaseSlot(slotWaiters)
    /\ UNCHANGED <<cancelled, ticket, clock>>

Step(o) ==
    \/ CallRefused(o)
    \/ CallStarts(o)
    \/ CallQueues(o)
    \/ Cancel(o)
    \/ Expire(o)
    \/ ResumeAdmitted(o)
    \/ ResumeRejected(o)
    \/ WorkSettles(o)
    \/ Finish(o)

Next == \E o \in Ops : Step(o)

Spec == Init /\ [][Next]_vars

\* The event loop runs every continuation that is due, and every timer.  It
\* promises nothing about when an app calls, when a user cancels, or whether
\* the work of an operation ever settles.
EventLoop(o) == ResumeAdmitted(o) \/ ResumeRejected(o) \/ Finish(o)

FairSpec ==
    /\ Spec
    /\ \A o \in Ops : WF_vars(EventLoop(o)) /\ WF_vars(Expire(o))

-----------------------------------------------------------------------------
(* Properties *)

\* The variables hold values of their types, and the budget's two bounds hold:
\* never more than Cap slots counted, never more than QueueLimit calls queued.
TypeOK ==
    /\ inFlight \in 0 .. Cap
    /\ slotWaiters \in Seq(Ops)
    /\ Len(slotWaiters) <= QueueLimit
    /\ admitted \subseteq Ops
    /\ cancelled \subseteq Ops
    /\ phase \in [Ops -> Phases]
    /\ wake \in [Ops -> Wakes]
    /\ ticket \in [Ops -> Nat]
    /\ clock \in Nat

\* A slot is neither lost nor invented: the counter releaseSlot and tryTakeSlot
\* keep is at every turn the number of calls that own a slot, whatever
\* cancellation, timer and hand-over met in the same turn.
SlotAccounting == inFlight = Cardinality(Holders)

\* Nobody waits beside a free slot: while a call is queued every slot is taken
\* (tryTakeSlot, releaseSlot).
NoIdleSlot == slotWaiters # <<>> => inFlight = Cap

\* The queue holds each suspended, unanswered waiter exactly once and nobody
\* else: a call that is still to be admitted or expired can be found by
\* releaseSlot, and releaseSlot finds no call that already left waitForSlot.
NobodyForgotten ==
    /\ \A i, j \in DOMAIN slotWaiters : slotWaiters[i] = slotWaiters[j] => i = j
    /\ \A o \in Queued : phase[o] = "waiting" /\ o \notin admitted
    /\ \A o \in Ops : phase[o] = "waiting" /\ wake[o] = "none" => o \in Queued

\* The queue is exactly those who must wait: nobody in it could have a slot, and
\* nobody who waits for one is missing from it (tryTakeSlot, waitForSlot, releaseSlot).
QueueIsExact == NoIdleSlot /\ NobodyForgotten

\* First come, first served: whoever owns a slot was accepted before everyone
\* still queued, and the queue is in the order of acceptance ("nothing can
\* overtake the queue", releaseSlot).
NoOvertaking ==
    /\ \A h \in Holders, q \in Queued : ticket[h] < ticket[q]
    /\ \A i, j \in DOMAIN slotWaiters : i < j => ticket[slotWaiters[i]] < ticket[slotWaiters[j]]

\* Every queued call is answered although no operation ever has to finish:
\* waitForSlot resolves or rejects (IN_FLIGHT_WAIT_MS).
QueuedCallAnswered ==
    \A o \in Ops : phase[o] = "waiting" ~> phase[o] \in {"running", "settled"}

\* A cancelled call returns, and so gives its slot back, even if its work
\* never settles (run's race against `cancelled').
CancelledCallReturns ==
    \A o \in Ops : o \in cancelled ~> phase[o] = "settled"

\* Nobody hangs in the budget: a call leaves its queue, and leaves altogether once it
\* is cancelled, whatever the work does (waitForSlot, run).
CallsReturn == QueuedCallAnswered /\ CancelledCallReturns

=============================================================================
