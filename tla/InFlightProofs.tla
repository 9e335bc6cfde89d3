--------------------------- MODULE InFlightProofs ---------------------------
(***************************************************************************)
(* For every number of calls, slots and places in the queue: the in-flight *)
(* budget of InFlight loses no slot, invents none, forgets no waiter and   *)
(* serves the queue in order.                                              *)
(***************************************************************************)
EXTENDS InFlight, FiniteSetTheorems, TLAPS

\* What the safety invariants leave out and the induction needs: a race won by
\* `admitted' belongs to a call whose flag is set, a call that was not made has
\* left no trace, and no ticket is from the future.
Bookkeeping ==
    /\ \A o \in Ops : phase[o] = "waiting" /\ wake[o] = "go" => o \in admitted
    /\ \A o \in Ops : phase[o] = "idle" => wake[o] = "none" /\ o \notin admitted
    /\ \A o \in Ops : ticket[o] <= clock

\* The inductive invariant.
IInv ==
    /\ TypeOK
    /\ SlotAccounting
    /\ NoIdleSlot
    /\ NobodyForgotten
    /\ NoOvertaking
    /\ Bookkeeping

-----------------------------------------------------------------------------
(* The queue *)

\* unqueue removes one call and keeps the others in their order (indexOf and
\* splice in in-flight.ts).
LEMMA UnqueueQueued ==
    ASSUME NEW o \in Ops, slotWaiters \in Seq(Ops), o \in Queued,
           \A i, j \in DOMAIN slotWaiters : slotWaiters[i] = slotWaiters[j] => i = j
    PROVE  /\ unqueue(o) \in Seq(Ops)
           /\ Len(unqueue(o)) = Len(slotWaiters) - 1
           /\ \E at \in DOMAIN slotWaiters :
                 /\ slotWaiters[at] = o
                 /\ \A i \in 1 .. (Len(slotWaiters) - 1) :
                       unqueue(o)[i] = slotWaiters[IF i < at THEN i ELSE i + 1]
<1> DEFINE P(i) == slotWaiters[i] = o /\ \A j \in 1 .. (i - 1) : slotWaiters[j] # o
           at == CHOOSE i \in DOMAIN slotWaiters : P(i)
           n == Len(slotWaiters) - 1
           u == [i \in 1 .. n |-> IF i < at THEN slotWaiters[i] ELSE slotWaiters[i + 1]]
<1>1. PICK k \in DOMAIN slotWaiters : slotWaiters[k] = o
  BY DEF Queued
<1>2. DOMAIN slotWaiters = 1 .. Len(slotWaiters) /\ Len(slotWaiters) \in Nat
  OBVIOUS
<1>3. P(k)
  BY <1>1, <1>2
<1>4. at \in DOMAIN slotWaiters /\ P(at)
  <2> HIDE DEF P
  <2> QED BY <1>1, <1>3
<1>5. unqueue(o) = u
  BY DEF unqueue
<1>6. n \in Nat
  BY <1>1, <1>2
<1>7. \A i \in 1 .. n : i \in DOMAIN slotWaiters /\ i + 1 \in DOMAIN slotWaiters
  BY <1>2, <1>6
<1> HIDE DEF at, n
<1>8. \A i \in 1 .. n : u[i] = slotWaiters[IF i < at THEN i ELSE i + 1] /\ u[i] \in Ops
  BY <1>7
<1>9. u \in Seq(Ops) /\ Len(u) = n
  BY <1>6, <1>8
<1> QED
  BY <1>4, <1>5, <1>8, <1>9 DEF n

\* The consequences of UnqueueQueued that the invariants are stated with, for a
\* queued call and, where nothing changes, for any other.
LEMMA UnqueueFacts ==
    ASSUME NEW o \in Ops, slotWaiters \in Seq(Ops),
           \A i, j \in DOMAIN slotWaiters : slotWaiters[i] = slotWaiters[j] => i = j
    PROVE  /\ unqueue(o) \in Seq(Ops)
           /\ Len(unqueue(o)) <= Len(slotWaiters)
           /\ \A i \in DOMAIN unqueue(o) : unqueue(o)[i] \in Queued \ {o}
           /\ \A p \in Queued \ {o} : \E i \in DOMAIN unqueue(o) : unqueue(o)[i] = p
           /\ \A i, j \in DOMAIN unqueue(o) : i < j =>
                 \E k, l \in DOMAIN slotWaiters :
                    k < l /\ unqueue(o)[i] = slotWaiters[k] /\ unqueue(o)[j] = slotWaiters[l]
<1> DEFINE u == unqueue(o)
<1>1. CASE o \notin Queued
  <2>1. u = slotWaiters
    BY <1>1 DEF unqueue
  <2> QED BY <1>1, <2>1 DEF Queued
<1>2. CASE o \in Queued
  <2>1. PICK at \in DOMAIN slotWaiters :
          /\ slotWaiters[at] = o
          /\ \A i \in 1 .. (Len(slotWaiters) - 1) : u[i] = slotWaiters[IF i < at THEN i ELSE i + 1]
    BY <1>2, UnqueueQueued
  <2>2. u \in Seq(Ops) /\ Len(u) = Len(slotWaiters) - 1
    BY <1>2, UnqueueQueued
  <2> HIDE DEF u
  <2>3. DOMAIN slotWaiters = 1 .. Len(slotWaiters) /\ Len(slotWaiters) \in Nat
    OBVIOUS
  <2>4. DOMAIN u = 1 .. (Len(slotWaiters) - 1)
    BY <2>2
  <2>5. \A i \in DOMAIN u : u[i] \in Queued \ {o}
    <3> TAKE i \in DOMAIN u
    <3>1. (IF i < at THEN i ELSE i + 1) \in DOMAIN slotWaiters \ {at}
      BY <2>3, <2>4
    <3> QED BY <2>1, <2>4, <3>1 DEF Queued
  <2>6. \A p \in Queued \ {o} : \E i \in DOMAIN u : u[i] = p
    <3> TAKE p \in Queued \ {o}
    <3>1. PICK k \in DOMAIN slotWaiters : slotWaiters[k] = p
      BY DEF Queued
    <3>2. k # at
      BY <2>1, <3>1
    <3>3. CASE k < at
      BY <2>1, <2>3, <2>4, <3>1, <3>3
    <3>4. CASE k > at
      <4>1. k - 1 \in DOMAIN u /\ ~(k - 1 < at) /\ (k - 1) + 1 = k
        BY <2>3, <2>4, <3>4
      <4> QED BY <2>1, <2>4, <3>1, <4>1
    <3> QED BY <2>3, <3>2, <3>3, <3>4
  <2>7. ASSUME NEW i \in DOMAIN u, NEW j \in DOMAIN u, i < j
        PROVE  \E k, l \in DOMAIN slotWaiters :
                  k < l /\ u[i] = slotWaiters[k] /\ u[j] = slotWaiters[l]
    <3> DEFINE k == IF i < at THEN i ELSE i + 1
               l == IF j < at THEN j ELSE j + 1
    <3>1. k \in DOMAIN slotWaiters /\ l \in DOMAIN slotWaiters /\ k < l
      BY <2>3, <2>4, <2>7
    <3>2. u[i] = slotWaiters[k] /\ u[j] = slotWaiters[l]
      BY <2>1, <2>4
    <3> QED BY <3>1, <3>2
  <2> QED BY <2>2, <2>3, <2>5, <2>6, <2>7 DEF u
<1> QED BY <1>1, <1>2

-----------------------------------------------------------------------------
(* Giving a slot back *)

\* A call that owns a slot gives it back with the queue as it stands: shared by
\* run's inner finally and waitForSlot's catch.
LEMMA ReleasePreserves ==
    ASSUME IInv, NEW o \in Ops, o \in Holders,
           phase' = [phase EXCEPT ![o] = "settled"],
           releaseSlot(slotWaiters),
           UNCHANGED <<cancelled, ticket, clock>>
    PROVE  IInv'
<1> USE InFlightAssumption
<1>1. o \notin Queued
  BY DEF IInv, NobodyForgotten, Holders
<1>2. IsFiniteSet(Holders) /\ Holders \subseteq Ops
  BY FS_Subset DEF Holders
<1>3. Cardinality(Holders) \in Nat /\ inFlight = Cardinality(Holders)
  BY <1>2, FS_CardinalityType DEF IInv, SlotAccounting
<1>4. /\ IsFiniteSet(Holders \ {o})
      /\ Cardinality(Holders \ {o}) = Cardinality(Holders) - 1
  BY <1>2, FS_RemoveElement
<1>5. IsFiniteSet(Holders \ {o}) => Cardinality(Holders \ {o}) \in Nat
  BY FS_CardinalityType
<1>6. CASE slotWaiters = <<>>
  <2>1. /\ inFlight' = inFlight - 1
        /\ UNCHANGED <<slotWaiters, admitted, wake>>
    BY <1>6 DEF releaseSlot
  <2>2. Holders' = Holders \ {o}
    BY <2>1 DEF Holders, IInv, TypeOK
  <2>3. TypeOK'
    BY <2>1, <1>3, <1>4, <1>5 DEF IInv, TypeOK, Phases
  <2>4. SlotAccounting'
    BY <2>1, <2>2, <1>3, <1>4 DEF SlotAccounting
  <2>5. NoIdleSlot'
    BY <2>1, <1>6 DEF NoIdleSlot
  <2>6. Queued' = {}
    BY <2>1, <1>6 DEF Queued
  <2>7. NobodyForgotten'
    BY <2>1, <2>6, <1>6 DEF IInv, TypeOK, NobodyForgotten, Queued
  <2>8. NoOvertaking'
    BY <2>1, <2>6, <1>6 DEF NoOvertaking
  <2>9. Bookkeeping'
    BY <2>1 DEF IInv, TypeOK, Bookkeeping
  <2> QED BY <2>3, <2>4, <2>5, <2>7, <2>8, <2>9 DEF IInv
<1>7. CASE slotWaiters # <<>>
  <2> DEFINE h == Head(slotWaiters)
  <2>1. /\ slotWaiters' = Tail(slotWaiters)
        /\ admitted' = admitted \cup {h}
        /\ wake' = [wake EXCEPT ![h] = IF @ = "none" THEN "go" ELSE @]
        /\ inFlight' = inFlight
    BY <1>7 DEF releaseSlot
  <2>2. /\ slotWaiters \in Seq(Ops)
        /\ Len(slotWaiters) \in Nat \ {0}
        /\ h = slotWaiters[1]
        /\ DOMAIN slotWaiters = 1 .. Len(slotWaiters)
    BY <1>7 DEF IInv, TypeOK
  <2>3. h \in Queued /\ h \in Ops /\ h # o
    BY <2>2, <1>1 DEF Queued
  <2>4. phase[h] = "waiting" /\ h \notin admitted
    BY <2>3 DEF IInv, NobodyForgotten
  <2>5. /\ Tail(slotWaiters) \in Seq(Ops)
        /\ Len(Tail(slotWaiters)) = Len(slotWaiters) - 1
        /\ DOMAIN Tail(slotWaiters) = 1 .. (Len(slotWaiters) - 1)
        /\ \A i \in DOMAIN Tail(slotWaiters) : Tail(slotWaiters)[i] = slotWaiters[i + 1]
    BY <2>2
  <2> HIDE DEF h
  <2>6. Holders' = (Holders \ {o}) \cup {h}
    BY <2>1, <2>3, <2>4 DEF Holders, IInv, TypeOK
  <2>7. h \notin Holders \ {o}
    BY <2>4 DEF Holders
  <2>8. Queued' = Queued \ {h}
    <3>1. Queued' = {Tail(slotWaiters)[i] : i \in DOMAIN Tail(slotWaiters)}
      BY <2>1 DEF Queued
    <3>2. ASSUME NEW q \in Queued, q # h PROVE q \in Queued'
      <4>1. PICK k \in DOMAIN slotWaiters : slotWaiters[k] = q
        BY DEF Queued
      <4>2. k - 1 \in DOMAIN Tail(slotWaiters) /\ (k - 1) + 1 = k
        BY <2>2, <2>5, <3>2, <4>1
      <4> QED BY <2>5, <3>1, <4>1, <4>2
    <3>3. ASSUME NEW i \in DOMAIN Tail(slotWaiters)
          PROVE  Tail(slotWaiters)[i] \in Queued \ {h}
      <4>1. i + 1 \in DOMAIN slotWaiters /\ 1 \in DOMAIN slotWaiters /\ i + 1 # 1
        BY <2>2, <2>5
      <4>2. slotWaiters[i + 1] # slotWaiters[1]
        BY <4>1 DEF IInv, NobodyForgotten
      <4> QED BY <2>2, <2>5, <4>1, <4>2 DEF Queued
    <3> QED BY <3>1, <3>2, <3>3
  <2>9. TypeOK'
    BY <2>1, <2>2, <2>3, <2>5 DEF IInv, TypeOK, Phases, Wakes
  <2>10. SlotAccounting'
    <3>1. Cardinality((Holders \ {o}) \cup {h}) = Cardinality(Holders \ {o}) + 1
      BY <1>4, <2>7, FS_AddElement
    <3> QED BY <1>3, <1>4, <2>1, <2>6, <3>1 DEF SlotAccounting
  <2>11. NoIdleSlot'
    BY <1>7, <2>1 DEF IInv, NoIdleSlot
  <2>12. NobodyForgotten'
    <3>1. \A i, j \in DOMAIN Tail(slotWaiters) : Tail(slotWaiters)[i] = Tail(slotWaiters)[j] => i = j
      <4> TAKE i, j \in DOMAIN Tail(slotWaiters)
      <4>1. i + 1 \in DOMAIN slotWaiters /\ j + 1 \in DOMAIN slotWaiters
        BY <2>2, <2>5
      <4>2. slotWaiters[i + 1] = slotWaiters[j + 1] => i + 1 = j + 1
        BY <4>1 DEF IInv, NobodyForgotten
      <4> QED BY <2>2, <2>5, <4>2
    <3>2. \A q \in Queued' : phase'[q] = "waiting" /\ q \notin admitted'
      BY <1>1, <2>1, <2>8 DEF IInv, TypeOK, NobodyForgotten
    <3>3. \A p \in Ops : phase'[p] = "waiting" /\ wake'[p] = "none" => p \in Queued'
      BY <2>1, <2>3, <2>8 DEF IInv, TypeOK, NobodyForgotten
    <3> QED BY <2>1, <3>1, <3>2, <3>3 DEF NobodyForgotten
  <2>13. NoOvertaking'
    <3>1. \A q \in Queued \ {h} : ticket[h] < ticket[q]
      <4> TAKE q \in Queued \ {h}
      <4>1. PICK k \in DOMAIN slotWaiters : slotWaiters[k] = q
        BY DEF Queued
      <4>2. 1 \in DOMAIN slotWaiters /\ 1 < k
        BY <2>2, <4>1
      <4> QED BY <2>2, <4>1, <4>2 DEF IInv, NoOvertaking
    <3>2. \A p \in Holders', q \in Queued' : ticket'[p] < ticket'[q]
      BY <2>6, <2>8, <3>1 DEF IInv, NoOvertaking
    <3>3. \A i, j \in DOMAIN Tail(slotWaiters) :
             i < j => ticket[Tail(slotWaiters)[i]] < ticket[Tail(slotWaiters)[j]]
      <4> TAKE i, j \in DOMAIN Tail(slotWaiters)
      <4>1. i + 1 \in DOMAIN slotWaiters /\ j + 1 \in DOMAIN slotWaiters
        BY <2>2, <2>5
      <4>2. i < j => i + 1 < j + 1
        BY <2>2, <2>5
      <4>3. i < j => ticket[slotWaiters[i + 1]] < ticket[slotWaiters[j + 1]]
        BY <4>1, <4>2 DEF IInv, NoOvertaking
      <4> QED BY <2>5, <4>3
    <3> QED BY <2>1, <3>2, <3>3 DEF NoOvertaking
  <2>14. Bookkeeping'
    BY <2>1, <2>3, <2>4 DEF IInv, TypeOK, Bookkeeping
  <2> QED BY <2>9, <2>10, <2>11, <2>12, <2>13, <2>14 DEF IInv
<1> QED BY <1>6, <1>7

-----------------------------------------------------------------------------
(* Leaving the queue *)

\* A waiter that owns no slot is taken out of the queue, by its timer or by
\* waitForSlot's catch, and either its promise is rejected or it settles.
LEMMA UnqueuePreserves ==
    ASSUME IInv, NEW o \in Ops, phase[o] = "waiting", o \notin admitted,
           slotWaiters' = unqueue(o),
           UNCHANGED <<inFlight, admitted, cancelled, ticket, clock>>,
           \/ phase' = phase /\ wake' = [wake EXCEPT ![o] = "stop"]
           \/ phase' = [phase EXCEPT ![o] = "settled"] /\ wake' = wake
    PROVE  IInv'
<1> USE InFlightAssumption
<1>1. /\ unqueue(o) \in Seq(Ops)
      /\ Len(unqueue(o)) <= Len(slotWaiters)
      /\ \A i \in DOMAIN unqueue(o) : unqueue(o)[i] \in Queued \ {o}
      /\ \A p \in Queued \ {o} : \E i \in DOMAIN unqueue(o) : unqueue(o)[i] = p
      /\ \A i, j \in DOMAIN unqueue(o) : i < j =>
            \E k, l \in DOMAIN slotWaiters :
               k < l /\ unqueue(o)[i] = slotWaiters[k] /\ unqueue(o)[j] = slotWaiters[l]
  BY UnqueueFacts DEF IInv, TypeOK, NobodyForgotten
<1> DEFINE u == unqueue(o)
<1> HIDE DEF u
<1>2. Queued' = Queued \ {o}
  <2>1. Queued' = {u[i] : i \in DOMAIN u}
    BY DEF Queued, u
  <2> QED BY <1>1, <2>1 DEF u
<1>3. Holders' = Holders
  BY DEF Holders, IInv, TypeOK
<1>4. slotWaiters \in Seq(Ops) /\ Len(slotWaiters) \in Nat /\ DOMAIN slotWaiters = 1 .. Len(slotWaiters)
  BY DEF IInv, TypeOK
<1>5. Len(u) \in Nat /\ DOMAIN u = 1 .. Len(u)
  BY <1>1 DEF u
<1>6. TypeOK'
  <2>1. slotWaiters' \in Seq(Ops) /\ Len(slotWaiters') <= QueueLimit
    <3>1. Len(u) <= Len(slotWaiters) /\ u \in Seq(Ops) /\ slotWaiters' = u
      BY <1>1 DEF u
    <3> QED BY <1>4, <1>5, <3>1 DEF IInv, TypeOK
  <2>2. phase' \in [Ops -> Phases] /\ wake' \in [Ops -> Wakes]
    BY DEF IInv, TypeOK, Phases, Wakes
  <2> QED BY <2>1, <2>2 DEF IInv, TypeOK
<1>7. SlotAccounting'
  BY <1>3 DEF IInv, SlotAccounting
<1>8. NoIdleSlot'
  <2>1. u # <<>> => slotWaiters # <<>>
    BY <1>1, <1>4, <1>5 DEF u
  <2> QED BY <2>1 DEF IInv, NoIdleSlot, u
<1>9. NobodyForgotten'
  <2>1. ASSUME NEW i \in DOMAIN u, NEW j \in DOMAIN u, i < j PROVE u[i] # u[j]
    <3>1. PICK k, l \in DOMAIN slotWaiters : k < l /\ u[i] = slotWaiters[k] /\ u[j] = slotWaiters[l]
      BY <1>1, <2>1 DEF u
    <3>2. k # l
      BY <1>4, <3>1
    <3>3. slotWaiters[k] # slotWaiters[l]
      BY <3>2 DEF IInv, NobodyForgotten
    <3> QED BY <3>1, <3>3
  <2>2. \A i, j \in DOMAIN u : u[i] = u[j] => i = j
    BY <1>5, <2>1
  <2>3. \A q \in Queued' : phase'[q] = "waiting" /\ q \notin admitted'
    <3>1. \A p \in Ops \ {o} : phase'[p] = phase[p]
      BY DEF IInv, TypeOK
    <3>2. Queued \subseteq Ops
      BY <1>4 DEF Queued
    <3> QED BY <1>2, <3>1, <3>2 DEF IInv, NobodyForgotten
  <2>4. \A p \in Ops : phase'[p] = "waiting" /\ wake'[p] = "none" => p \in Queued'
    BY <1>2 DEF IInv, TypeOK, NobodyForgotten
  <2> QED BY <2>2, <2>3, <2>4 DEF NobodyForgotten, u
<1>10. NoOvertaking'
  <2>1. \A h \in Holders', q \in Queued' : ticket'[h] < ticket'[q]
    BY <1>2, <1>3 DEF IInv, NoOvertaking
  <2>2. ASSUME NEW i \in DOMAIN u, NEW j \in DOMAIN u, i < j PROVE ticket[u[i]] < ticket[u[j]]
    <3>1. PICK k, l \in DOMAIN slotWaiters : k < l /\ u[i] = slotWaiters[k] /\ u[j] = slotWaiters[l]
      BY <1>1, <2>2 DEF u
    <3> QED BY <3>1 DEF IInv, NoOvertaking
  <2> QED BY <2>1, <2>2 DEF NoOvertaking, u
<1>11. Bookkeeping'
  BY DEF IInv, TypeOK, Bookkeeping
<1> QED BY <1>6, <1>7, <1>8, <1>9, <1>10, <1>11 DEF IInv

-----------------------------------------------------------------------------
(* Entering *)

\* tryTakeSlot counts the new call exactly when it becomes the owner of a slot.
LEMMA CallStartsPreserves ==
    ASSUME IInv, NEW o \in Ops, CallStarts(o)
    PROVE  IInv'
<1> USE InFlightAssumption DEF CallStarts, Accept, SlotIsFree
<1>1. o \notin Holders /\ o \notin Queued /\ o \notin admitted /\ wake[o] = "none"
  BY DEF IInv, Bookkeeping, NobodyForgotten, Holders
<1>2. Holders' = Holders \cup {o} /\ Queued' = {} /\ Queued = {}
  BY DEF Holders, Queued, IInv, TypeOK
<1>3. IsFiniteSet(Holders)
  BY FS_Subset DEF Holders
<1>4. Cardinality(Holders \cup {o}) = Cardinality(Holders) + 1
  BY <1>1, <1>3, FS_AddElement
<1>5. TypeOK'
  BY DEF IInv, TypeOK, Phases
<1>6. SlotAccounting'
  BY <1>2, <1>4 DEF IInv, SlotAccounting
<1>7. NoIdleSlot'
  BY DEF NoIdleSlot
<1>8. NobodyForgotten'
  BY <1>2 DEF IInv, TypeOK, NobodyForgotten
<1>9. NoOvertaking'
  BY <1>2 DEF NoOvertaking
<1>10. Bookkeeping'
  BY <1>1 DEF IInv, TypeOK, Bookkeeping
<1> QED BY <1>5, <1>6, <1>7, <1>8, <1>9, <1>10 DEF IInv

\* waitForSlot queues the new call behind everyone, and only when no slot is free.
LEMMA CallQueuesPreserves ==
    ASSUME IInv, NEW o \in Ops, CallQueues(o)
    PROVE  IInv'
<1> USE InFlightAssumption DEF CallQueues, Accept
<1>1. o \notin Holders /\ o \notin Queued /\ o \notin admitted /\ wake[o] = "none"
  BY DEF IInv, Bookkeeping, NobodyForgotten, Holders
<1> DEFINE q == Append(slotWaiters, o)
<1>2. /\ slotWaiters \in Seq(Ops)
      /\ Len(slotWaiters) \in Nat
      /\ DOMAIN slotWaiters = 1 .. Len(slotWaiters)
  BY DEF IInv, TypeOK
<1>3. /\ q \in Seq(Ops)
      /\ Len(q) = Len(slotWaiters) + 1
      /\ DOMAIN q = 1 .. (Len(slotWaiters) + 1)
      /\ \A i \in DOMAIN slotWaiters : q[i] = slotWaiters[i]
      /\ q[Len(slotWaiters) + 1] = o
  BY <1>2
<1> HIDE DEF q
<1>4. inFlight = Cap
  BY DEF SlotIsFree, IInv, TypeOK, NoIdleSlot
<1>5. Holders' = Holders
  BY <1>1 DEF Holders, IInv, TypeOK
<1>6. Queued' = Queued \cup {o}
  <2>1. Queued' = {q[i] : i \in DOMAIN q}
    BY DEF Queued, q
  <2>2. DOMAIN q = DOMAIN slotWaiters \cup {Len(slotWaiters) + 1}
    BY <1>2, <1>3
  <2>3. \A p \in Queued : p \in Queued'
    BY <1>3, <2>1, <2>2 DEF Queued
  <2>4. o \in Queued'
    BY <1>2, <1>3, <2>1, <2>2
  <2>5. ASSUME NEW i \in DOMAIN q PROVE q[i] \in Queued \cup {o}
    BY <1>3, <2>2 DEF Queued
  <2>6. \A p \in Queued' : p \in Queued \cup {o}
    BY <2>1, <2>5
  <2> QED BY <2>3, <2>4, <2>6
<1>7. TypeOK'
  BY <1>2, <1>3, <1>4 DEF IInv, TypeOK, Phases, queueFull, q
<1>8. SlotAccounting'
  BY <1>5 DEF IInv, SlotAccounting
<1>9. NoIdleSlot'
  BY <1>4 DEF NoIdleSlot
<1>10. \A i \in DOMAIN q : i \in DOMAIN slotWaiters \/ (i = Len(slotWaiters) + 1 /\ q[i] = o)
  BY <1>2, <1>3
<1>11. NobodyForgotten'
  <2>1. ASSUME NEW i \in DOMAIN q, NEW j \in DOMAIN q, q[i] = q[j] PROVE i = j
    <3>1. \A k \in DOMAIN slotWaiters : q[k] # o
      BY <1>1, <1>3 DEF Queued
    <3>2. CASE i \in DOMAIN slotWaiters /\ j \in DOMAIN slotWaiters
      <4>1. slotWaiters[i] = slotWaiters[j]
        BY <1>3, <2>1, <3>2
      <4> QED BY <3>2, <4>1 DEF IInv, NobodyForgotten
    <3> QED BY <1>10, <2>1, <3>1, <3>2
  <2>2. \A p \in Queued' : phase'[p] = "waiting" /\ p \notin admitted'
    BY <1>1, <1>6 DEF IInv, TypeOK, NobodyForgotten
  <2>3. \A p \in Ops : phase'[p] = "waiting" /\ wake'[p] = "none" => p \in Queued'
    BY <1>6 DEF IInv, TypeOK, NobodyForgotten
  <2> QED BY <2>1, <2>2, <2>3 DEF NobodyForgotten, q
<1>12. ticket'[o] = clock + 1 /\ \A p \in Ops \ {o} : ticket'[p] = ticket[p]
  BY DEF IInv, TypeOK
<1>13. \A p \in Ops : ticket[p] < clock + 1 /\ ticket[p] \in Nat /\ clock \in Nat
  BY DEF IInv, TypeOK, Bookkeeping
<1>14. NoOvertaking'
  <2>1. \A h \in Holders', p \in Queued' : ticket'[h] < ticket'[p]
    <3>1. Holders \subseteq Ops /\ Queued \subseteq Ops
      BY <1>2 DEF Holders, Queued
    <3> QED BY <1>1, <1>5, <1>6, <1>12, <1>13, <3>1 DEF IInv, NoOvertaking
  <2>2. ASSUME NEW i \in DOMAIN q, NEW j \in DOMAIN q, i < j PROVE ticket'[q[i]] < ticket'[q[j]]
    <3>1. i \in DOMAIN slotWaiters
      BY <1>2, <1>3, <2>2
    <3>2. slotWaiters[i] \in Queued /\ slotWaiters[i] \in Ops /\ slotWaiters[i] # o
      BY <1>1, <1>2, <3>1 DEF Queued
    <3>3. CASE j \in DOMAIN slotWaiters
      <4>1. slotWaiters[j] \in Ops /\ slotWaiters[j] # o
        BY <1>1, <1>2, <3>3 DEF Queued
      <4> QED BY <1>3, <1>12, <2>2, <3>1, <3>2, <3>3, <4>1 DEF IInv, NoOvertaking
    <3>4. CASE q[j] = o
      BY <1>3, <1>12, <1>13, <3>1, <3>2, <3>4
    <3> QED BY <1>10, <3>3, <3>4
  <2> QED BY <2>1, <2>2 DEF NoOvertaking, q
<1>15. Bookkeeping'
  BY <1>12, <1>13 DEF IInv, TypeOK, Bookkeeping
<1> QED BY <1>7, <1>8, <1>9, <1>11, <1>14, <1>15 DEF IInv

-----------------------------------------------------------------------------
(* The theorems *)

LEMMA InitEstablishes == Init => IInv
<1> SUFFICES ASSUME Init PROVE IInv
  OBVIOUS
<1> USE InFlightAssumption DEF Init
<1>1. Queued = {} /\ Holders = {}
  BY DEF Queued, Holders
<1>2. TypeOK
  BY DEF TypeOK, Phases, Wakes
<1>3. SlotAccounting
  BY <1>1, FS_EmptySet DEF SlotAccounting
<1>4. NoIdleSlot /\ NobodyForgotten /\ NoOvertaking /\ Bookkeeping
  BY <1>1 DEF NoIdleSlot, NobodyForgotten, NoOvertaking, Bookkeeping
<1> QED BY <1>2, <1>3, <1>4 DEF IInv

\* The steps that touch neither the queue nor the counter: what they change in
\* phase, wake and cancelled moves nobody in or out of Holders.
LEMMA QuietStepPreserves ==
    ASSUME IInv, NEW o \in Ops,
           CallRefused(o) \/ Cancel(o) \/ ResumeAdmitted(o) \/ WorkSettles(o)
    PROVE  IInv'
<1> USE InFlightAssumption DEF CallRefused, Cancel, ResumeAdmitted, WorkSettles
<1>1. UNCHANGED <<inFlight, slotWaiters, admitted, ticket, clock>>
  OBVIOUS
<1>2. Queued' = Queued
  BY <1>1 DEF Queued
<1>3. Holders' = Holders
  BY DEF Holders, IInv, TypeOK, Bookkeeping
<1>4. TypeOK'
  BY DEF IInv, TypeOK, Phases, Wakes
<1>5. SlotAccounting' /\ NoIdleSlot'
  BY <1>1, <1>3 DEF IInv, SlotAccounting, NoIdleSlot
<1>6. o \in Queued => phase'[o] = "waiting"
  BY DEF IInv, TypeOK, NobodyForgotten, Bookkeeping
<1>7. NobodyForgotten'
  <2>1. \A i, j \in DOMAIN slotWaiters' : slotWaiters'[i] = slotWaiters'[j] => i = j
    BY <1>1 DEF IInv, NobodyForgotten
  <2>2. \A p \in Ops \ {o} : phase'[p] = phase[p] /\ wake'[p] = wake[p]
    BY DEF IInv, TypeOK
  <2>3. phase'[o] = "waiting" /\ wake'[o] = "none" => phase[o] = "waiting" /\ wake[o] = "none"
    BY DEF IInv, TypeOK
  <2>4. Queued \subseteq Ops
    BY DEF Queued, IInv, TypeOK
  <2>5. \A q \in Queued : phase'[q] = "waiting" /\ q \notin admitted'
    BY <1>1, <1>6, <2>2, <2>4 DEF IInv, NobodyForgotten
  <2>6. \A p \in Ops : phase'[p] = "waiting" /\ wake'[p] = "none" => p \in Queued
    BY <2>2, <2>3 DEF IInv, NobodyForgotten
  <2> QED BY <1>2, <2>1, <2>5, <2>6 DEF NobodyForgotten
<1>8. NoOvertaking'
  BY <1>1, <1>2, <1>3 DEF IInv, NoOvertaking
<1>9. Bookkeeping'
  BY DEF IInv, TypeOK, Bookkeeping
<1> QED BY <1>4, <1>5, <1>7, <1>8, <1>9 DEF IInv

LEMMA NextPreserves == IInv /\ [Next]_vars => IInv'
<1> SUFFICES ASSUME IInv, [Next]_vars PROVE IInv'
  OBVIOUS
<1>1. CASE UNCHANGED vars
  BY <1>1 DEF vars, IInv, TypeOK, SlotAccounting, NoIdleSlot, NobodyForgotten,
              NoOvertaking, Bookkeeping, Holders, Queued
<1>2. ASSUME NEW o \in Ops, Step(o) PROVE IInv'
  <2>1. CASE CallRefused(o) \/ Cancel(o) \/ ResumeAdmitted(o) \/ WorkSettles(o)
    BY <2>1, QuietStepPreserves
  <2>2. CASE CallStarts(o)
    BY <2>2, CallStartsPreserves
  <2>3. CASE CallQueues(o)
    BY <2>3, CallQueuesPreserves
  <2>4. CASE Expire(o)
    BY <2>4, UnqueuePreserves DEF Expire
  <2>5. CASE ResumeRejected(o)
    <3>1. CASE o \in admitted
      <4>1. o \in Holders /\ o \notin Queued
        BY <2>5, <3>1 DEF ResumeRejected, Holders, IInv, NobodyForgotten
      <4>2. unqueue(o) = slotWaiters
        BY <4>1 DEF unqueue
      <4>3. releaseSlot(slotWaiters)
        BY <2>5, <3>1, <4>2 DEF ResumeRejected
      <4> QED BY <2>5, <4>1, <4>3, ReleasePreserves DEF ResumeRejected
    <3>2. CASE o \notin admitted
      BY <2>5, <3>2, UnqueuePreserves DEF ResumeRejected
    <3> QED BY <3>1, <3>2
  <2>6. CASE Finish(o)
    <3>1. o \in Holders
      BY <2>6 DEF Finish, Holders
    <3> QED BY <2>6, <3>1, ReleasePreserves DEF Finish
  <2> QED BY <1>2, <2>1, <2>2, <2>3, <2>4, <2>5, <2>6 DEF Step
<1> QED BY <1>1, <1>2 DEF Next

LEMMA Inductive == Spec => []IInv
BY InitEstablishes, NextPreserves, PTL DEF Spec

\* The two bounds of the budget hold in every reachable state: at most Cap
\* operations counted in flight, at most QueueLimit waiting.
THEOREM TypeCorrect == Spec => []TypeOK
<1>1. IInv => TypeOK
  BY DEF IInv
<1> QED BY <1>1, Inductive, PTL

\* No interleaving of cancellation, expiry, hand-over and completion loses a
\* slot or gives one out twice (releaseSlot, waitForSlot's catch).
THEOREM NoSlotLost == Spec => []SlotAccounting
<1>1. IInv => SlotAccounting
  BY DEF IInv
<1> QED BY <1>1, Inductive, PTL

\* A call never waits while a slot is free, and every unanswered waiter is in the
\* queue, once, and nobody else is (tryTakeSlot, waitForSlot, releaseSlot).
THEOREM QueueStaysExact == Spec => []QueueIsExact
<1>1. IInv => QueueIsExact
  BY DEF IInv, QueueIsExact
<1> QED BY <1>1, Inductive, PTL

\* Slots are given out in the order the calls were accepted.
THEOREM FirstComeFirstServed == Spec => []NoOvertaking
<1>1. IInv => NoOvertaking
  BY DEF IInv
<1> QED BY <1>1, Inductive, PTL

=============================================================================
