--------------------------- MODULE FsQuotaProofs ---------------------------
(***************************************************************************)
(* The invariants of FsQuota hold for every finite set of files and of     *)
(* calls, every largest size and every quota.                              *)
(*                                                                         *)
(* A sum of sizes is the cardinality of a set of bytes (Bytes, Total), so  *)
(* that no induction over files or calls is needed: a file that changes    *)
(* exchanges one column of the set for another (WeightUpdate).             *)
(*                                                                         *)
(* IInv adds to the checked invariants what is charged for each file and   *)
(* for each call (Covered, Balanced), that calls which meet on a file do   *)
(* not take bytes away (Apartness), that truncations of a handle take      *)
(* turns (LockHeld), and the state before the first measurement            *)
(* (Unmeasured).                                                           *)
(***************************************************************************)
EXTENDS FsQuota, FiniteSetTheorems, TLAPS

\* The sum of the sizes.
Weight(sizes) == Cardinality(Bytes(sizes))

Held(d) == [f \in Files |-> IF d[f] = Absent THEN 0 ELSE d[f]]

\* What a call charges and gives back.
Charge(j, s) == Larger(0, Growth(j, s))
Refund(j, s) == Larger(0, -Growth(j, s))

\* What of it is in the count and not on disk: the charge of a call that has not
\* landed, the refund of one that has.
Owing(stage, task, size) ==
    [c \in Calls |->
        IF stage[c] \in {"writing", "failed"} THEN Charge(task[c], size[c])
        ELSE IF stage[c] = "landed" THEN Refund(task[c], size[c]) ELSE 0]
Owes == Owing(pc, job, seen)

\* The calls that read a size and have not landed.
Ahead == {c \in Calls : pc[c] \in {"looked", "writing"}}

\* `kept' is what is charged for each file: its bytes, and those a call has read
\* and will not charge again.
Keeps(kept) ==
    /\ kept \in [Files -> Sizes]
    /\ \A f \in Files : SizeAt(f) <= kept[f]
    /\ \A c \in Ahead : seen[c] <= kept[Judged(job[c])]

CoveredBy(count) == \E kept \in [Files -> Sizes] : Keeps(kept) /\ Weight(kept) + Weight(Owes) <= count

Covered == done /\ blur <= OverCounted => CoveredBy(used)

Balanced ==
    blur = Exact =>
        /\ done => used = Total(disk) + Weight(Owes)
        /\ \A c \in Ahead : seen[c] = SizeAt(Judged(job[c]))

Meet(c, d) == c # d /\ Touched(job[c]) \cap Touched(job[d]) # {}

Apartness ==
    \A c, d \in Underway : Meet(c, d) =>
        /\ blur # Exact
        /\ blur <= OverCounted => ~Shrinks(job[c], seen[c])

LockHeld ==
    \A c, d \in Calls :
        /\ pc[c] \notin {"idle", "queued"} /\ pc[d] \notin {"idle", "queued"}
        /\ job[c].kind = "truncate" /\ job[d].kind = "truncate" /\ job[c].at = job[d].at
        => c = d

\* A call that has not looked.
Waiting ==
    \A c \in Calls :
        /\ pc[c] \in {"idle", "measuring", "queued", "looking"} => seen[c] = 0
        /\ pc[c] = "measuring" => ~OnHandle(job[c])

Unmeasured ==
    ~done /\ blur < Broken =>
        /\ used = 0 /\ opened = {}
        /\ \A c \in Calls : pc[c] \in {"idle", "measuring"}
        /\ Total(disk) <= allowance
        /\ walk = "walked" => walked = Total(disk)

\* The count itself stays within what may be used.
CountWithinAllowance ==
    /\ Quota <= allowance
    /\ done /\ blur <= OverCounted => used <= allowance

IInv ==
    /\ TypeOK
    /\ Covered
    /\ Balanced
    /\ Apartness
    /\ LockHeld
    /\ Waiting
    /\ Unmeasured
    /\ CountWithinAllowance

-----------------------------------------------------------------------------
(* Sums of sizes *)

LEMMA BytesFinite ==
    ASSUME NEW D, IsFiniteSet(D), NEW w \in [D -> Sizes]
    PROVE  IsFiniteSet(Bytes(w)) /\ Weight(w) \in Nat
<1>1. IsFiniteSet(1 .. MaxSize)
  BY FsQuotaAssumption, FS_Interval
<1>2. IsFiniteSet(D \X (1 .. MaxSize))
  BY <1>1, FS_Product
<1>3. Bytes(w) \in SUBSET (D \X (1 .. MaxSize))
  BY DEF Bytes
<1> QED BY <1>2, <1>3, FS_Subset, FS_CardinalityType DEF Weight

\* What the other files hold.
LEMMA Others ==
    ASSUME NEW D, IsFiniteSet(D), NEW w \in [D -> Sizes], NEW x \in D
    PROVE  /\ IsFiniteSet(Bytes(w) \ ({x} \X (1 .. MaxSize)))
           /\ Cardinality(Bytes(w) \ ({x} \X (1 .. MaxSize))) \in Nat
           /\ w[x] \in Nat
<1>1. IsFiniteSet(Bytes(w))
  BY BytesFinite
<1>2. IsFiniteSet(Bytes(w) \ ({x} \X (1 .. MaxSize)))
  BY <1>1, FS_Difference
<1> QED BY <1>2, FS_CardinalityType, FsQuotaAssumption DEF Sizes

\* The bytes of one file, apart from those of the others.
LEMMA Column ==
    ASSUME NEW D, IsFiniteSet(D), NEW w \in [D -> Sizes], NEW x \in D
    PROVE  Weight(w) = Cardinality(Bytes(w) \ ({x} \X (1 .. MaxSize))) + w[x]
<1> USE FsQuotaAssumption
<1> DEFINE rest == Bytes(w) \ ({x} \X (1 .. MaxSize))
           mine == {x} \X (1 .. w[x])
<1>0. w[x] \in Nat /\ w[x] <= MaxSize
  BY DEF Sizes
<1>1. IsFiniteSet(rest) /\ Cardinality(rest) \in Nat
  BY Others
<1>2. IsFiniteSet(1 .. w[x]) /\ Cardinality(1 .. w[x]) = w[x]
  BY <1>0, FS_Interval
<1>3. IsFiniteSet(mine) /\ Cardinality(mine) = w[x]
  <2>1. IsFiniteSet({x}) /\ Cardinality({x}) = 1
    BY FS_Singleton
  <2>2. IsFiniteSet(mine) /\ Cardinality(mine) = Cardinality({x}) * Cardinality(1 .. w[x])
    BY <1>2, <2>1, FS_Product
  <2>3. Cardinality(mine) = 1 * w[x]
    BY <1>2, <2>1, <2>2
  <2> QED BY <1>0, <2>2, <2>3
<1>4. Bytes(w) = rest \cup mine
  BY <1>0 DEF Bytes, Sizes
<1>5. rest \cap mine = {}
  BY <1>0
<1> HIDE DEF rest, mine
<1>6. Cardinality(rest \cap mine) = 0
  BY <1>5, FS_EmptySet
<1>7. Cardinality(rest \cup mine) = Cardinality(rest) + Cardinality(mine) - Cardinality(rest \cap mine)
  BY <1>1, <1>3, FS_Union
<1>8. Weight(w) = Cardinality(rest) + w[x]
  BY <1>0, <1>1, <1>3, <1>4, <1>6, <1>7 DEF Weight
<1> QED BY <1>8 DEF rest

LEMMA WeightUpdate ==
    ASSUME NEW D, IsFiniteSet(D), NEW w \in [D -> Sizes], NEW x \in D, NEW v \in Sizes
    PROVE  Weight([w EXCEPT ![x] = v]) = Weight(w) - w[x] + v
<1> USE FsQuotaAssumption
<1> DEFINE u == [w EXCEPT ![x] = v]
           rest(z) == Bytes(z) \ ({x} \X (1 .. MaxSize))
<1>1. u \in [D -> Sizes] /\ u[x] = v
  OBVIOUS
<1>2. rest(u) = rest(w)
  BY DEF Bytes, Sizes
<1>3. Weight(u) = Cardinality(rest(u)) + v /\ Weight(w) = Cardinality(rest(w)) + w[x]
  BY <1>1, Column
<1>4. Cardinality(rest(w)) \in Nat /\ w[x] \in Nat /\ v \in Nat
  <2>1. Cardinality(rest(w)) \in Nat /\ w[x] \in Nat
    BY Others
  <2> QED BY <2>1 DEF Sizes
<1> HIDE DEF rest
<1> QED BY <1>2, <1>3, <1>4

LEMMA WeightOfOne ==
    ASSUME NEW D, IsFiniteSet(D), NEW w \in [D -> Sizes], NEW x \in D
    PROVE  w[x] <= Weight(w)
<1>1. Cardinality(Bytes(w) \ ({x} \X (1 .. MaxSize))) \in Nat /\ w[x] \in Nat
  BY Others
<1>2. Weight(w) = Cardinality(Bytes(w) \ ({x} \X (1 .. MaxSize))) + w[x]
  BY Column
<1> QED BY <1>1, <1>2

LEMMA WeightMonotone ==
    ASSUME NEW D, IsFiniteSet(D), NEW w \in [D -> Sizes], NEW v \in [D -> Sizes],
           \A x \in D : w[x] <= v[x]
    PROVE  Weight(w) <= Weight(v)
<1>1. Bytes(w) \in SUBSET Bytes(v)
  BY FsQuotaAssumption DEF Bytes, Sizes
<1> QED BY <1>1, BytesFinite, FS_Subset DEF Weight

LEMMA WeightOfNothing ==
    ASSUME NEW D, NEW w \in [D -> Sizes], \A x \in D : w[x] = 0
    PROVE  Weight(w) = 0
<1>1. Bytes(w) = {}
  BY FsQuotaAssumption DEF Bytes
<1> QED BY <1>1, FS_EmptySet DEF Weight

-----------------------------------------------------------------------------
(* Jobs and what they charge *)

LEMMA JobFacts ==
    ASSUME NEW j \in Jobs
    PROVE  /\ j # None /\ j.at \in Files /\ j.len \in Sizes /\ Judged(j) \in Files
           /\ j.kind \in {"writeFile", "rm", "rename", "write", "truncate"}
           /\ IF j.kind = "rename" THEN j.to \in Files ELSE j.to = None
           /\ Judged(j) \in Touched(j) /\ j.at \in Touched(j) /\ Touched(j) \subseteq Files
           /\ OnHandle(j) => j.at \in Openable
<1>1. j # None
  BY FsQuotaAssumption
<1>2. \/ j \in [kind : {"writeFile"}, at : Files, to : {None}, len : Sizes]
      \/ j \in [kind : {"rm"}, at : Files, to : {None}, len : {0}]
      \/ j \in [kind : {"rename"}, at : Files, to : Files, len : {0}]
      \/ j \in [kind : {"write", "truncate"}, at : Openable, to : {None}, len : Sizes]
  BY DEF Jobs
<1>3. 0 \in Sizes /\ Openable \subseteq Files /\ None \notin Files
  BY FsQuotaAssumption DEF Sizes
<1>4. /\ j.at \in Files /\ j.len \in Sizes
      /\ j.kind \in {"writeFile", "rm", "rename", "write", "truncate"}
      /\ IF j.kind = "rename" THEN j.to \in Files ELSE j.to = None
      /\ OnHandle(j) => j.at \in Openable
  BY <1>2, <1>3 DEF OnHandle
<1> QED BY <1>1, <1>3, <1>4 DEF Judged, Touched

LEMMA GrowthFacts ==
    ASSUME NEW j \in Jobs, NEW s \in Sizes
    PROVE  /\ Growth(j, s) \in Int
           /\ Charge(j, s) \in Sizes /\ Refund(j, s) \in Sizes
           /\ Growth(j, s) >= 0 => Charge(j, s) = Growth(j, s) /\ Refund(j, s) = 0
           /\ Growth(j, s) <= 0 => Charge(j, s) = 0 /\ Refund(j, s) = -Growth(j, s)
<1>1. /\ j.len \in 0 .. MaxSize /\ s \in 0 .. MaxSize /\ MaxSize \in Nat
      /\ j.kind \in {"writeFile", "rm", "rename", "write", "truncate"}
  BY JobFacts, FsQuotaAssumption DEF Sizes
<1>2. Growth(j, s) \in -MaxSize .. MaxSize
  <2>1. CASE j.kind \in {"writeFile", "truncate"}
    BY <1>1, <2>1 DEF Growth
  <2>2. CASE j.kind = "write"
    BY <1>1, <2>2 DEF Growth, Larger
  <2>3. CASE j.kind \in {"rm", "rename"}
    BY <1>1, <2>3 DEF Growth
  <2> QED BY <1>1, <2>1, <2>2, <2>3
<1> DEFINE g == Growth(j, s)
<1>3. /\ Charge(j, s) = (IF 0 > g THEN 0 ELSE g)
      /\ Refund(j, s) = (IF 0 > -g THEN 0 ELSE -g)
  BY DEF Charge, Refund, Larger
<1> HIDE DEF g
<1>4. /\ g \in Int
      /\ Charge(j, s) \in 0 .. MaxSize /\ Refund(j, s) \in 0 .. MaxSize
      /\ g >= 0 => Charge(j, s) = g /\ Refund(j, s) = 0
      /\ g <= 0 => Charge(j, s) = 0 /\ Refund(j, s) = -g
  <2>1. g \in -MaxSize .. MaxSize
    BY <1>2 DEF g
  <2> QED BY <1>1, <1>3, <2>1
<1> QED BY <1>4 DEF g, Sizes

\* A call that was made has a job.
LEMMA CallFacts ==
    ASSUME TypeOK, NEW c \in Calls, pc[c] # "idle"
    PROVE  job[c] \in Jobs /\ seen[c] \in Sizes
BY DEF TypeOK

LEMMA DiskFacts ==
    ASSUME NEW d \in [Files -> Sizes \cup {Absent}]
    PROVE  /\ Held(d) \in [Files -> Sizes]
           /\ Total(d) = Weight(Held(d))
           /\ Total(d) \in Nat
           /\ \A f \in Files : Held(d)[f] = IF d[f] = Absent THEN 0 ELSE d[f]
<1>1. Held(d) \in [Files -> Sizes]
  BY FsQuotaAssumption DEF Held, Sizes
<1>2. Total(d) = Weight(Held(d))
  BY DEF Total, Weight, Held
<1>3. Weight(Held(d)) \in Nat
  BY <1>1, BytesFinite, FsQuotaAssumption
<1> QED BY <1>1, <1>2, <1>3 DEF Held

LEMMA OwingFacts ==
    ASSUME NEW p \in [Calls -> Stages], NEW j \in [Calls -> Jobs \cup {None}],
           NEW s \in [Calls -> Sizes], \A c \in Calls : p[c] = "idle" <=> j[c] = None
    PROVE  /\ Owing(p, j, s) \in [Calls -> Sizes]
           /\ Weight(Owing(p, j, s)) \in Nat
           /\ \A c \in Calls : /\ Owing(p, j, s)[c] \in Nat
                               /\ Owing(p, j, s)[c] <= Weight(Owing(p, j, s))
<1> DEFINE w == Owing(p, j, s)
<1>1. \A c \in Calls : w[c] \in Sizes
  <2> SUFFICES ASSUME NEW c \in Calls PROVE w[c] \in Sizes
    OBVIOUS
  <2>1. CASE p[c] \in {"writing", "failed", "landed"}
    <3>1. j[c] \in Jobs /\ s[c] \in Sizes
      BY <2>1
    <3>2. Charge(j[c], s[c]) \in Sizes /\ Refund(j[c], s[c]) \in Sizes
      BY <3>1, GrowthFacts
    <3> QED BY <2>1, <3>2 DEF Owing
  <2>2. CASE p[c] \notin {"writing", "failed", "landed"}
    BY <2>2, FsQuotaAssumption DEF Owing, Sizes
  <2> QED BY <2>1, <2>2
<1>2. w \in [Calls -> Sizes]
  BY <1>1 DEF Owing
<1> HIDE DEF w
<1>3. Weight(w) \in Nat
  BY <1>2, BytesFinite, FsQuotaAssumption
<1>4. \A c \in Calls : w[c] <= Weight(w)
  BY <1>2, WeightOfOne, FsQuotaAssumption
<1>5. \A c \in Calls : w[c] \in Nat
  BY <1>1, FsQuotaAssumption DEF Sizes
<1> QED BY <1>2, <1>3, <1>4, <1>5 DEF w

LEMMA OwesFacts ==
    ASSUME TypeOK
    PROVE  /\ Owes \in [Calls -> Sizes]
           /\ Weight(Owes) \in Nat
           /\ \A c \in Calls : Owes[c] \in Nat /\ Owes[c] <= Weight(Owes)
BY OwingFacts DEF TypeOK, Owes

LEMMA OwesFactsPrimed ==
    ASSUME TypeOK'
    PROVE  /\ Owes' \in [Calls -> Sizes]
           /\ Weight(Owes') \in Nat
           /\ \A c \in Calls : Owes'[c] \in Nat /\ Owes'[c] <= Weight(Owes')
<1>1. /\ pc' \in [Calls -> Stages] /\ job' \in [Calls -> Jobs \cup {None}]
      /\ seen' \in [Calls -> Sizes] /\ \A c \in Calls : pc'[c] = "idle" <=> job'[c] = None
  BY DEF TypeOK
<1> QED BY <1>1, OwingFacts DEF Owes

\* What is owed when one call takes a step.
LEMMA OneCallMoves ==
    ASSUME TypeOK, TypeOK', NEW c \in Calls,
           \A d \in Calls \ {c} : pc'[d] = pc[d] /\ job'[d] = job[d] /\ seen'[d] = seen[d]
    PROVE  Weight(Owes') = Weight(Owes) - Owes[c] + Owes'[c]
<1>1. Owes \in [Calls -> Sizes] /\ Owes' \in [Calls -> Sizes]
  BY OwesFacts, OwesFactsPrimed
<1>2. \A d \in Calls \ {c} : Owes'[d] = Owes[d]
  BY DEF Owes, Owing
<1>3. Owes' = [Owes EXCEPT ![c] = Owes'[c]]
  <2>1. Owes' = [d \in Calls |-> Owes'[d]] /\ Owes = [d \in Calls |-> Owes[d]]
    BY <1>1
  <2> QED BY <1>2, <2>1
<1>4. Owes'[c] \in Sizes
  BY <1>1
<1> HIDE DEF Owes
<1>5. Weight([Owes EXCEPT ![c] = Owes'[c]]) = Weight(Owes) - Owes[c] + Owes'[c]
  <2>1. \A w \in [Calls -> Sizes], v \in Sizes :
            Weight([w EXCEPT ![c] = v]) = Weight(w) - w[c] + v
    <3>1. IsFiniteSet(Calls)
      BY FsQuotaAssumption
    <3>2. SUFFICES ASSUME NEW w \in [Calls -> Sizes], NEW v \in Sizes
                   PROVE  Weight([w EXCEPT ![c] = v]) = Weight(w) - w[c] + v
      OBVIOUS
    <3> QED BY ONLY <3>1, <3>2, c \in Calls, WeightUpdate, Zenon
  <2> QED BY <1>1, <1>4, <2>1
<1> QED BY <1>3, <1>5

LEMMA SameCalls ==
    ASSUME pc' = pc, job' = job, seen' = seen
    PROVE  Owes' = Owes /\ Ahead' = Ahead /\ Underway' = Underway
BY DEF Owes, Owing, Ahead, Underway

-----------------------------------------------------------------------------
(* What a job does to the files *)

\* WeightUpdate for the files.
LEMMA FileUpdate ==
    ASSUME NEW w \in [Files -> Sizes], NEW x \in Files, NEW v \in Sizes
    PROVE  Weight([w EXCEPT ![x] = v]) = Weight(w) - w[x] + v
<1>1. IsFiniteSet(Files)
  BY FsQuotaAssumption
<1> QED BY ONLY <1>1, w \in [Files -> Sizes], x \in Files, v \in Sizes, WeightUpdate, Zenon

LEMMA FileWeight ==
    ASSUME NEW w \in [Files -> Sizes], NEW x \in Files
    PROVE  Weight(w) \in Nat /\ w[x] \in Nat /\ w[x] <= Weight(w)
<1>1. IsFiniteSet(Files)
  BY FsQuotaAssumption
<1>3. Weight(w) \in Nat /\ w[x] <= Weight(w)
  BY <1>1, BytesFinite, WeightOfOne
<1>4. w[x] \in Nat
  BY FsQuotaAssumption DEF Sizes
<1> QED BY <1>3, <1>4

\* The file a job other than a rename writes, and its size after it.
Left(j) ==
    CASE j.kind \in {"writeFile", "truncate"} -> j.len
      [] j.kind = "write" -> Larger(SizeAt(j.at), j.len)
      [] j.kind = "rm" -> 0

LEMMA LeftFacts ==
    ASSUME TypeOK, NEW j \in Jobs, j.kind # "rename"
    PROVE  /\ Left(j) \in Sizes
           /\ Done(j) \in [Files -> Sizes \cup {Absent}]
           /\ Held(Done(j)) = [Held(disk) EXCEPT ![j.at] = Left(j)]
<1>1. /\ j.at \in Files /\ j.len \in Sizes
      /\ j.kind \in {"writeFile", "rm", "write", "truncate"}
  BY JobFacts
<1>2. disk \in [Files -> Sizes \cup {Absent}] /\ SizeAt(j.at) \in Sizes
  BY <1>1, FsQuotaAssumption DEF TypeOK, SizeAt, Sizes
<1>3. Left(j) \in Sizes
  BY <1>1, <1>2, FsQuotaAssumption DEF Left, Larger, Sizes
<1>4. CASE j.kind = "rm"
  <2>1. Left(j) = 0 /\ Done(j) = [disk EXCEPT ![j.at] = Absent]
    BY <1>4 DEF Left, Done
  <2> QED BY <1>1, <1>2, <1>3, <2>1 DEF Held
<1>5. CASE j.kind # "rm"
  <2>1. Done(j) = [disk EXCEPT ![j.at] = Left(j)]
    BY <1>1, <1>5 DEF Left, Done
  <2>2. Left(j) # Absent
    BY <1>3, FsQuotaAssumption
  <2>3. /\ Done(j) \in [Files -> Sizes \cup {Absent}]
        /\ \A f \in Files : Done(j)[f] = IF f = j.at THEN Left(j) ELSE disk[f]
    BY <1>1, <1>2, <1>3, <2>1
  <2>4. \A f \in Files : Held(Done(j))[f] = IF f = j.at THEN Left(j) ELSE Held(disk)[f]
    BY <2>2, <2>3 DEF Held
  <2>5. Held(Done(j)) = [f \in Files |-> IF f = j.at THEN Left(j) ELSE Held(disk)[f]]
    BY <2>4 DEF Held
  <2>6. Held(disk) = [f \in Files |-> Held(disk)[f]]
    BY DEF Held
  <2> QED BY <1>1, <1>3, <2>3, <2>5, <2>6
<1> QED BY <1>4, <1>5

\* A rename that is not of a file to itself: what it leaves in two turns.
LEMMA RenameFacts ==
    ASSUME TypeOK, NEW j \in Jobs, j.kind = "rename", j.at # j.to
    PROVE  /\ j.at \in Files /\ j.to \in Files
           /\ Done(j) \in [Files -> Sizes \cup {Absent}]
           /\ Held(Done(j)) = [[Held(disk) EXCEPT ![j.to] = SizeAt(j.at)] EXCEPT ![j.at] = 0]
<1>1. j.at \in Files /\ j.to \in Files
  BY JobFacts
<1>2. disk \in [Files -> Sizes \cup {Absent}] /\ SizeAt(j.at) \in Sizes
  BY <1>1, FsQuotaAssumption DEF TypeOK, SizeAt, Sizes
<1>3. Done(j) = [disk EXCEPT ![j.to] = disk[j.at], ![j.at] = Absent]
  BY DEF Done
<1> QED BY <1>1, <1>2, <1>3 DEF Held, SizeAt

LEMMA SizeFacts ==
    ASSUME TypeOK
    PROVE  /\ Held(disk) \in [Files -> Sizes]
           /\ \A f \in Files : SizeAt(f) = Held(disk)[f] /\ SizeAt(f) \in Sizes
           /\ Total(disk) = Weight(Held(disk)) /\ Total(disk) \in Nat
<1>1. disk \in [Files -> Sizes \cup {Absent}]
  BY DEF TypeOK
<1> QED BY <1>1, DiskFacts DEF SizeAt

LEMMA DoneType ==
    ASSUME TypeOK, NEW j \in Jobs
    PROVE  Done(j) \in [Files -> Sizes \cup {Absent}]
<1>1. CASE j.kind # "rename"
  BY <1>1, LeftFacts
<1>2. CASE j.kind = "rename" /\ j.at # j.to
  BY <1>2, RenameFacts
<1>3. CASE j.kind = "rename" /\ j.at = j.to
  BY <1>3 DEF Done, TypeOK
<1> QED BY <1>1, <1>2, <1>3

\* The files grow by exactly what the job charges for the size they have.
LEMMA DoneGrows ==
    ASSUME TypeOK, NEW j \in Jobs
    PROVE  Total(Done(j)) = Total(disk) + Growth(j, SizeAt(Judged(j)))
<1> USE FsQuotaAssumption
<1>1. /\ Done(j) \in [Files -> Sizes \cup {Absent}]
      /\ Total(Done(j)) = Weight(Held(Done(j)))
  BY DoneType, DiskFacts
<1>2. /\ Held(disk) \in [Files -> Sizes] /\ Total(disk) = Weight(Held(disk))
      /\ \A f \in Files : SizeAt(f) = Held(disk)[f] /\ SizeAt(f) \in Nat
      /\ Weight(Held(disk)) \in Nat
  BY SizeFacts DEF Sizes
<1>3. j.at \in Files /\ j.len \in Nat /\ j.kind \in {"writeFile", "rm", "rename", "write", "truncate"}
  BY JobFacts DEF Sizes
<1>4. CASE j.kind # "rename"
  <2>1. Left(j) \in Sizes /\ Left(j) \in Nat /\ Held(Done(j)) = [Held(disk) EXCEPT ![j.at] = Left(j)]
    BY <1>4, LeftFacts DEF Sizes
  <2>2. Weight(Held(Done(j))) = Weight(Held(disk)) - SizeAt(j.at) + Left(j)
    <3>1. Weight([Held(disk) EXCEPT ![j.at] = Left(j)])
            = Weight(Held(disk)) - Held(disk)[j.at] + Left(j)
      BY ONLY <1>2, <1>3, <2>1, FileUpdate, Zenon
    <3> QED BY <1>2, <1>3, <2>1, <3>1
  <2>3. Judged(j) = j.at
    BY <1>4 DEF Judged
  <2>4. Left(j) - SizeAt(j.at) = Growth(j, SizeAt(j.at))
    BY <1>2, <1>3, <1>4 DEF Left, Growth, Larger
  <2>5. Growth(j, SizeAt(j.at)) \in Int
    BY <1>2, <1>3, <2>1, <2>4
  <2> QED BY <1>1, <1>2, <1>3, <2>1, <2>2, <2>3, <2>4, <2>5
<1>5. CASE j.kind = "rename" /\ j.at # j.to
  <2> DEFINE a == SizeAt(j.at)
             w == [Held(disk) EXCEPT ![j.to] = a]
  <2>1. j.to \in Files /\ Held(Done(j)) = [w EXCEPT ![j.at] = 0]
    BY <1>5, RenameFacts
  <2>2. a \in Sizes /\ 0 \in Sizes /\ a \in Nat
    BY <1>3, SizeFacts DEF Sizes
  <2>3. w \in [Files -> Sizes] /\ Weight(w) = Weight(Held(disk)) - Held(disk)[j.to] + a
    <3>1. w \in [Files -> Sizes]
      BY <1>2, <2>1, <2>2
    <3>2. Weight(w) = Weight(Held(disk)) - Held(disk)[j.to] + a
      <4>1. Held(disk) \in [Files -> Sizes] /\ j.to \in Files /\ a \in Sizes
        BY <1>2, <2>1, <2>2
      <4> HIDE DEF a
      <4> QED BY ONLY <4>1, FileUpdate, Zenon
    <3> QED BY <3>1, <3>2
  <2>4. w[j.at] = a
    BY <1>2, <1>3, <1>5
  <2>5. Weight([w EXCEPT ![j.at] = 0]) = Weight(w) - w[j.at] + 0
    BY ONLY <1>3, <2>2, <2>3, FileUpdate, Zenon
  <2>6. Growth(j, SizeAt(Judged(j))) = -SizeAt(j.to)
    BY <1>5 DEF Growth, Judged
  <2> HIDE DEF w, a
  <2>7. Held(disk)[j.to] \in Nat
    BY <1>2, <2>1
  <2> QED BY <1>1, <1>2, <2>1, <2>2, <2>3, <2>4, <2>5, <2>6, <2>7
<1>6. CASE j.kind = "rename" /\ j.at = j.to
  <2>1. Done(j) = disk /\ Growth(j, SizeAt(Judged(j))) = 0
    BY <1>6 DEF Done, Growth
  <2> QED BY <1>2, <2>1
<1> QED BY <1>4, <1>5, <1>6

-----------------------------------------------------------------------------
(* A job that lands.  It read the size s some turns ago; what is charged for its *)
(* file, kept, is no less than s and than what the file holds.                   *)

\* What is charged for the files once the job has landed.
KeptAfter(kept, j, s) ==
    IF j.kind \in {"writeFile", "truncate"} /\ j.len < s THEN [kept EXCEPT ![j.at] = j.len]
    ELSE IF j.kind \in {"writeFile", "truncate", "write"}
    THEN [kept EXCEPT ![j.at] = Larger(kept[j.at], j.len)]
    ELSE IF j.kind = "rm" /\ s > 0 THEN [kept EXCEPT ![j.at] = 0]
    ELSE IF j.kind = "rename" /\ j.at # j.to
    THEN [[kept EXCEPT ![j.to] = kept[j.at]] EXCEPT ![j.at] = 0]
    ELSE kept

LEMMA Lands ==
    ASSUME TypeOK, NEW j \in Jobs, NEW s \in Sizes, NEW kept \in [Files -> Sizes],
           \A f \in Files : SizeAt(f) <= kept[f], s <= kept[Judged(j)]
    PROVE  LET k == KeptAfter(kept, j, s) IN
           /\ k \in [Files -> Sizes]
           /\ Weight(k) + Refund(j, s) <= Weight(kept) + Charge(j, s)
           /\ \A f \in Files : Held(Done(j))[f] <= k[f]
           /\ \A f \in Files : ~Shrinks(j, s) \/ f \notin Touched(j) => kept[f] <= k[f]
<1> USE FsQuotaAssumption
<1> DEFINE k == KeptAfter(kept, j, s)
<1> SUFFICES /\ k \in [Files -> Sizes]
             /\ Weight(k) + Refund(j, s) <= Weight(kept) + Charge(j, s)
             /\ \A f \in Files : Held(Done(j))[f] <= k[f]
             /\ \A f \in Files : ~Shrinks(j, s) \/ f \notin Touched(j) => kept[f] <= k[f]
  OBVIOUS
<1> HIDE DEF k
<1>1. /\ j.at \in Files /\ j.len \in Nat /\ j.len \in Sizes
      /\ j.kind \in {"writeFile", "rm", "rename", "write", "truncate"}
      /\ s \in Nat /\ MaxSize \in Nat /\ 0 \in Sizes
  BY JobFacts DEF Sizes
<1>2. \A f \in Files : kept[f] \in Nat /\ kept[f] \in Sizes
  BY DEF Sizes
<1>3. /\ \A f \in Files : Held(disk)[f] = SizeAt(f) /\ SizeAt(f) \in Nat /\ SizeAt(f) \in Sizes
      /\ Held(disk) \in [Files -> Sizes]
  BY SizeFacts DEF Sizes
<1>4. Weight(kept) \in Nat
  BY <1>1, FileWeight
<1>5. \A x \in Files, v \in Sizes : Weight([kept EXCEPT ![x] = v]) = Weight(kept) - kept[x] + v
  <2> SUFFICES ASSUME NEW x \in Files, NEW v \in Sizes
               PROVE  Weight([kept EXCEPT ![x] = v]) = Weight(kept) - kept[x] + v
    OBVIOUS
  <2> QED BY ONLY x \in Files, v \in Sizes, kept \in [Files -> Sizes], FileUpdate, Zenon
<1>6. ASSUME NEW v \in Sizes, j.kind # "rename", k = [kept EXCEPT ![j.at] = v],
             Left(j) <= v,
             v + Refund(j, s) <= kept[j.at] + Charge(j, s),
             ~Shrinks(j, s) => kept[j.at] <= v
      PROVE  /\ k \in [Files -> Sizes]
             /\ Weight(k) + Refund(j, s) <= Weight(kept) + Charge(j, s)
             /\ \A f \in Files : Held(Done(j))[f] <= k[f]
             /\ \A f \in Files : ~Shrinks(j, s) \/ f \notin Touched(j) => kept[f] <= k[f]
  <2>1. k \in [Files -> Sizes] /\ k[j.at] = v /\ \A f \in Files : f # j.at => k[f] = kept[f]
    BY <1>1, <1>6
  <2>2. Weight(k) = Weight(kept) - kept[j.at] + v
    BY <1>1, <1>5, <1>6
  <2>3. /\ Refund(j, s) \in Nat /\ Charge(j, s) \in Nat /\ v \in Nat /\ kept[j.at] \in Nat
    BY <1>1, <1>2, GrowthFacts DEF Sizes
  <2>4. Weight(k) + Refund(j, s) <= Weight(kept) + Charge(j, s)
    BY <1>4, <1>6, <2>2, <2>3
  <2>5. \A f \in Files : Held(Done(j))[f] = IF f = j.at THEN Left(j) ELSE SizeAt(f)
    <3>1. Held(Done(j)) = [Held(disk) EXCEPT ![j.at] = Left(j)]
      BY <1>6, LeftFacts
    <3> QED BY <1>1, <1>3, <3>1
  <2>6. j.at \in Touched(j)
    BY JobFacts
  <2>7. \A f \in Files : Held(Done(j))[f] <= k[f]
    BY <1>6, <2>1, <2>5
  <2>8. \A f \in Files : ~Shrinks(j, s) \/ f \notin Touched(j) => kept[f] <= k[f]
    BY <1>2, <1>6, <2>1, <2>6
  <2> QED BY <2>1, <2>4, <2>7, <2>8
<1>7. Judged(j) = j.at \/ j.kind = "rename"
  BY DEF Judged
<1>8. CASE j.kind \in {"writeFile", "truncate"} /\ j.len < s
  <2>1. Growth(j, s) = j.len - s /\ Growth(j, s) < 0 /\ Left(j) = j.len
    BY <1>1, <1>8 DEF Growth, Left
  <2>2. Shrinks(j, s) /\ Charge(j, s) = 0 /\ Refund(j, s) = s - j.len
    BY <1>1, <2>1, GrowthFacts DEF Shrinks
  <2>3. k = [kept EXCEPT ![j.at] = j.len]
    BY <1>8 DEF k, KeptAfter
  <2>4. s <= kept[j.at] /\ j.kind # "rename"
    BY <1>7, <1>8
  <2>5. Left(j) <= j.len /\ j.len + Refund(j, s) <= kept[j.at] + Charge(j, s)
    BY <1>1, <1>2, <2>1, <2>2, <2>4
  <2> QED BY <1>1, <1>6, <2>2, <2>3, <2>4, <2>5
<1>9. CASE j.kind \in {"writeFile", "truncate", "write"} /\ ~(j.kind # "write" /\ j.len < s)
  <2> DEFINE v == Larger(kept[j.at], j.len)
  <2>1. Growth(j, s) >= 0 /\ Growth(j, s) = Larger(0, j.len - s) /\ Left(j) <= v
    <3>1. SizeAt(j.at) <= kept[j.at] /\ SizeAt(j.at) \in Nat /\ kept[j.at] \in Nat
      BY <1>1, <1>2, <1>3
    <3>2. CASE j.kind = "write"
      <4>1. Growth(j, s) = Larger(0, j.len - s) /\ Left(j) = Larger(SizeAt(j.at), j.len)
        BY <3>2 DEF Growth, Left
      <4> QED BY <1>1, <3>1, <4>1 DEF Larger
    <3>3. CASE j.kind \in {"writeFile", "truncate"} /\ s <= j.len
      <4>1. Growth(j, s) = j.len - s /\ Left(j) = j.len
        BY <3>3 DEF Growth, Left
      <4> QED BY <1>1, <3>1, <3>3, <4>1 DEF Larger
    <3> QED BY <1>1, <1>9, <3>2, <3>3
  <2>2. Charge(j, s) = Larger(0, j.len - s) /\ Refund(j, s) = 0
    BY <2>1, GrowthFacts
  <2>3. k = [kept EXCEPT ![j.at] = v]
    BY <1>9 DEF k, KeptAfter
  <2>4. s <= kept[j.at] /\ j.kind # "rename"
    BY <1>7, <1>9
  <2>5. v \in Sizes /\ kept[j.at] <= v /\ v + 0 <= kept[j.at] + Larger(0, j.len - s)
    BY <1>1, <1>2, <2>4 DEF Larger, Sizes
  <2> QED BY <1>6, <2>1, <2>2, <2>3, <2>4, <2>5
<1>10. CASE j.kind = "rm"
  <2>1. Growth(j, s) = -s /\ Left(j) = 0
    BY <1>10 DEF Growth, Left
  <2>2. Charge(j, s) = 0 /\ Refund(j, s) = s
    BY <1>1, <2>1, GrowthFacts
  <2>3. CASE s > 0
    <3>1. k = [kept EXCEPT ![j.at] = 0] /\ Shrinks(j, s)
      BY <1>1, <1>10, <2>1, <2>3 DEF k, KeptAfter, Shrinks
    <3>2. s <= kept[j.at]
      BY <1>7, <1>10
    <3>3. Left(j) <= 0 /\ 0 + Refund(j, s) <= kept[j.at] + Charge(j, s) /\ j.kind # "rename"
      BY <1>1, <1>2, <1>10, <2>1, <2>2, <3>2
    <3> QED BY <1>1, <1>6, <3>1, <3>3
  <2>4. CASE ~(s > 0)
    <3>1. s = 0 /\ k = [kept EXCEPT ![j.at] = kept[j.at]]
      BY <1>1, <1>10, <2>4 DEF k, KeptAfter
    <3>2. /\ Left(j) <= kept[j.at] /\ kept[j.at] + Refund(j, s) <= kept[j.at] + Charge(j, s)
          /\ j.kind # "rename" /\ kept[j.at] <= kept[j.at] /\ kept[j.at] \in Sizes
      BY <1>1, <1>2, <1>10, <2>1, <2>2, <3>1
    <3> QED BY <1>6, <3>1, <3>2
  <2> QED BY <2>3, <2>4
<1>11. CASE j.kind = "rename" /\ j.at # j.to
  <2> DEFINE w == [kept EXCEPT ![j.to] = kept[j.at]]
  <2>1. /\ j.to \in Files
        /\ Held(Done(j)) = [[Held(disk) EXCEPT ![j.to] = SizeAt(j.at)] EXCEPT ![j.at] = 0]
    BY <1>11, RenameFacts
  <2>2. k = [w EXCEPT ![j.at] = 0]
    BY <1>11 DEF k, KeptAfter
  <2>3. w \in [Files -> Sizes] /\ w[j.at] = kept[j.at] /\ k \in [Files -> Sizes]
    BY <1>1, <1>2, <1>11, <2>1, <2>2
  <2>4. Weight(w) = Weight(kept) - kept[j.to] + kept[j.at]
    BY <1>1, <1>2, <1>5, <2>1
  <2>5. Weight(k) = Weight(w) - w[j.at] + 0
    <3>1. j.at \in Files /\ 0 \in Sizes /\ w \in [Files -> Sizes]
      BY <1>1, <2>3
    <3> HIDE DEF w
    <3>2. Weight([w EXCEPT ![j.at] = 0]) = Weight(w) - w[j.at] + 0
      BY ONLY <3>1, FileUpdate, Zenon
    <3> QED BY <2>2, <3>2
  <2>6. Weight(k) = Weight(kept) - kept[j.to]
    BY <1>1, <1>2, <1>4, <2>1, <2>3, <2>4, <2>5
  <2>7. Growth(j, s) = -s /\ s <= kept[j.to]
    BY <1>11 DEF Growth, Judged
  <2>8. Charge(j, s) = 0 /\ Refund(j, s) = s /\ Shrinks(j, s)
    BY <1>1, <1>11, <2>7, GrowthFacts DEF Shrinks
  <2>9. Weight(k) + Refund(j, s) <= Weight(kept) + Charge(j, s)
    BY <1>1, <1>2, <1>4, <2>1, <2>6, <2>7, <2>8
  <2>10. \A f \in Files : Held(Done(j))[f] <= k[f]
    <3>1. \A f \in Files : k[f] = IF f = j.at THEN 0 ELSE IF f = j.to THEN kept[j.at] ELSE kept[f]
      BY <1>1, <2>1, <2>2
    <3>2. \A f \in Files : Held(Done(j))[f] =
                IF f = j.at THEN 0 ELSE IF f = j.to THEN SizeAt(j.at) ELSE SizeAt(f)
      BY <1>1, <1>3, <2>1
    <3> QED BY <1>1, <3>1, <3>2
  <2>11. \A f \in Files : f \notin Touched(j) => kept[f] <= k[f]
    <3>1. {j.at, j.to} \subseteq Touched(j)
      BY <1>1, <2>1 DEF Touched
    <3>2. \A f \in Files : f \notin {j.at, j.to} => k[f] = kept[f]
      BY <2>2
    <3> QED BY <1>2, <3>1, <3>2
  <2> QED BY <2>3, <2>8, <2>9, <2>10, <2>11
<1>12. CASE j.kind = "rename" /\ j.at = j.to
  <2>1. Growth(j, s) = 0 /\ Done(j) = disk /\ k = kept
    BY <1>12 DEF Growth, Done, k, KeptAfter
  <2>2. Charge(j, s) = 0 /\ Refund(j, s) = 0
    BY <2>1, GrowthFacts
  <2> QED BY <1>2, <1>3, <1>4, <2>1, <2>2
<1>13. \/ j.kind \in {"writeFile", "truncate"} /\ j.len < s
       \/ j.kind \in {"writeFile", "truncate", "write"} /\ ~(j.kind # "write" /\ j.len < s)
       \/ j.kind = "rm"
       \/ j.kind = "rename" /\ j.at # j.to
       \/ j.kind = "rename" /\ j.at = j.to
  BY <1>1
<1> QED BY <1>8, <1>9, <1>10, <1>11, <1>12, <1>13

-----------------------------------------------------------------------------
(* Types *)

LEMMA Numbers ==
    /\ Sizes \subseteq Nat /\ 0 \in Sizes
    /\ \A a, b \in Int : Larger(a, b) \in Int /\ Larger(a, b) >= a /\ Larger(a, b) >= b
    /\ \A a, b \in Nat : Larger(a, b) \in Nat
    /\ \A a, b \in Exact .. Broken : Larger(a, b) \in Exact .. Broken
    /\ \A a \in Nat, b \in Int : released(a, b) \in Nat
    /\ \A a, b \in Nat : b <= a => released(a, b) = a - b
BY FsQuotaAssumption DEF Sizes, Larger, released, Exact, Broken

LEMMA BlurFacts ==
    \A j, s : Blur(j, s) \in {Exact, OverCounted, Overlapped} /\ Blur(j, s) \in Exact .. Broken
BY DEF Blur, Exact, OverCounted, Overlapped, Broken

LEMMA InitTypes == Init => TypeOK
<1> SUFFICES ASSUME Init PROVE TypeOK
  OBVIOUS
<1>1. disk \in [Files -> Sizes \cup {Absent}]
  BY DEF Init
<1>2. Total(disk) \in Nat
  BY <1>1, DiskFacts
<1>3. allowance \in Nat
  BY <1>2, FsQuotaAssumption DEF Init, Larger
<1>4. \A c \in Calls : pc[c] = "idle" <=> job[c] = None
  BY DEF Init
<1>5. /\ pc \in [Calls -> Stages] /\ job \in [Calls -> Jobs \cup {None}]
      /\ seen \in [Calls -> Sizes]
  BY Numbers DEF Init, Stages
<1>6. /\ used \in Nat /\ walked \in Nat /\ blur \in Exact .. Broken
      /\ opened \subseteq Openable /\ done \in BOOLEAN /\ walk \in {"no", "walking", "walked"}
  <2>1. used = 0 /\ walked = 0 /\ opened = {} /\ done = FALSE /\ walk = "no" /\ blur = 0
    BY DEF Init, Exact
  <2>2. done \in BOOLEAN
    BY <2>1
  <2>3. used \in Nat /\ walked \in Nat /\ blur \in Exact .. Broken
    BY <2>1 DEF Exact, Broken
  <2>4. opened \subseteq Openable /\ walk \in {"no", "walking", "walked"}
    BY <2>1
  <2> QED BY <2>2, <2>3, <2>4
<1> QED BY <1>1, <1>3, <1>4, <1>5, <1>6 DEF TypeOK

LEMMA StageTypes ==
    ASSUME TypeOK, NEW c \in Calls, NEW stage \in Stages \ {"idle"}, pc[c] # "idle",
           pc' = [pc EXCEPT ![c] = stage], job' = job
    PROVE  /\ pc' \in [Calls -> Stages] /\ job' \in [Calls -> Jobs \cup {None}]
           /\ \A d \in Calls : pc'[d] = "idle" <=> job'[d] = None
BY DEF TypeOK

LEMMA OverTypes ==
    ASSUME TypeOK, NEW c \in Calls, Over(c)
    PROVE  /\ pc' \in [Calls -> Stages] /\ job' \in [Calls -> Jobs \cup {None}]
           /\ seen' \in [Calls -> Sizes]
           /\ \A d \in Calls : pc'[d] = "idle" <=> job'[d] = None
BY Numbers DEF TypeOK, Over, Stages

LEMMA MeasureTypes ==
    ASSUME TypeOK, Walk \/ Measured \/ MeasureFails \/ SyncFails \/ SyncTooLarge
    PROVE  TypeOK'
<1>1. Total(disk) \in Nat
  BY SizeFacts
<1>2. CASE Walk
  BY <1>1, <1>2 DEF Walk, TypeOK
<1>3. /\ Awaited \in [Calls -> Stages]
      /\ \A c \in Calls : Awaited[c] = "idle" <=> pc[c] = "idle"
  BY DEF TypeOK, Awaited, Stages
<1>4. CASE Measured
  BY <1>3, <1>4 DEF Measured, TypeOK
<1>5. CASE MeasureFails
  BY <1>3, <1>5 DEF MeasureFails, TypeOK, Exact, Broken
<1>6. CASE SyncFails
  BY <1>1, <1>6 DEF SyncFails, MeasureNow, countNow, TypeOK
<1>7. CASE SyncTooLarge
  BY <1>7 DEF SyncTooLarge, TypeOK
<1> QED BY <1>2, <1>4, <1>5, <1>6, <1>7

LEMMA HandleTypes ==
    ASSUME TypeOK, NEW f \in Openable, CloseFile(f) \/ \E cuts \in BOOLEAN : OpenFile(f, cuts)
    PROVE  TypeOK'
<1>1. CASE CloseFile(f)
  BY <1>1 DEF CloseFile, TypeOK
<1>2. ASSUME NEW cuts \in BOOLEAN, OpenFile(f, cuts) PROVE TypeOK'
  <2>1. f \in Files /\ SizeAt(f) \in Sizes
    BY SizeFacts, FsQuotaAssumption
  <2>2. disk' \in [Files -> Sizes \cup {Absent}]
    BY <1>2, <2>1, Numbers DEF OpenFile, TypeOK
  <2>3. blur' \in Exact .. Broken
    <3>1. blur' = blur \/ blur' = Larger(blur, OverCounted)
      BY <1>2 DEF OpenFile
    <3> QED BY <3>1 DEF TypeOK, Larger, Exact, OverCounted, Broken
  <2> QED BY <1>2, <2>2, <2>3 DEF OpenFile, TypeOK
<1> QED BY <1>1, <1>2

LEMMA SyncTypes ==
    ASSUME TypeOK, NEW j \in Jobs, NEW works \in BOOLEAN, SyncCall(j, works)
    PROVE  TypeOK'
<1> DEFINE bytes == Growth(j, SizeAt(Judged(j)))
<1>1. bytes \in Int
  BY JobFacts, SizeFacts, GrowthFacts
<1>2. countNow \in Nat /\ done' \in BOOLEAN
  BY SizeFacts DEF SyncCall, MeasureNow, countNow, TypeOK
<1>3. used' \in Nat
  <2>1. used' = IF bytes > 0 THEN countNow + bytes ELSE released(countNow, -bytes)
    BY DEF SyncCall
  <2> HIDE DEF bytes
  <2>2. CASE bytes > 0
    BY <1>1, <1>2, <2>1, <2>2
  <2>3. CASE ~(bytes > 0)
    <3>1. released(countNow, -bytes) \in Nat
      <4>1. \A a \in Nat, b \in Int : released(a, -b) \in Nat
        BY DEF released, Larger
      <4> QED BY <1>1, <1>2, <4>1
    <3> QED BY <2>1, <2>3, <3>1
  <2> QED BY <2>2, <2>3
<1>4. disk' \in [Files -> Sizes \cup {Absent}]
  BY DoneType DEF SyncCall
<1>5. blur' \in Exact .. Broken
  <2>1. blur' = Larger(blur, Blur(j, SizeAt(Judged(j)))) \/ blur' = Larger(blur, Broken)
    BY DEF SyncCall
  <2>2. Blur(j, SizeAt(Judged(j))) \in Exact .. Broken /\ Broken \in Exact .. Broken
    BY BlurFacts DEF Exact, Broken
  <2> QED BY <2>1, <2>2, Numbers DEF TypeOK
<1> QED BY <1>2, <1>3, <1>4, <1>5 DEF SyncCall, TypeOK

LEMMA StepTypes ==
    ASSUME TypeOK, NEW c \in Calls, Step(c)
    PROVE  TypeOK'
<1>1. ASSUME NEW j \in Jobs, Begin(c, j) PROVE TypeOK'
  <2>1. j # None
    BY JobFacts
  <2> QED BY <1>1, <2>1 DEF Begin, TypeOK, Stages
<1>2. ASSUME NEW j \in Jobs, BeginOnHandle(c, j) PROVE TypeOK'
  <2>1. j # None
    BY JobFacts
  <2> QED BY <1>2, <2>1 DEF BeginOnHandle, TypeOK, Stages
<1>3. CASE LockTaken(c)
  BY <1>3, StageTypes DEF LockTaken, TypeOK, Stages
<1>4. CASE Look(c)
  <2>1. job[c] \in Jobs
    BY <1>4, CallFacts DEF Look
  <2>2. SizeAt(Judged(job[c])) \in Sizes
    BY <2>1, JobFacts, SizeFacts
  <2>3. seen' \in [Calls -> Sizes]
    BY <1>4, <2>2 DEF Look, TypeOK
  <2>4. blur' \in Exact .. Broken
    BY <1>4, BlurFacts, Numbers DEF Look, TypeOK
  <2> QED BY <1>4, <2>3, <2>4, StageTypes DEF Look, TypeOK, Stages
<1>5. CASE LookFails(c)
  <2>1. CASE OnHandle(job[c])
    BY <1>5, <2>1, OverTypes DEF LookFails, TypeOK
  <2>2. CASE ~OnHandle(job[c])
    <3>1. blur' \in Exact .. Broken
      <4>1. OverCounted \in Exact .. Broken /\ Blur(job[c], 0) \in Exact .. Broken
            /\ blur \in Exact .. Broken
        BY BlurFacts DEF Exact, OverCounted, Broken, TypeOK
      <4>2. blur' = Larger(Larger(blur, Blur(job[c], 0)), OverCounted)
        BY <1>5, <2>2 DEF LookFails
      <4> QED BY <4>1, <4>2, Numbers
    <3> QED BY <1>5, <2>2, <3>1, StageTypes DEF LookFails, TypeOK, Stages
  <2> QED BY <2>1, <2>2
<1>6. CASE Reserve(c)
  <2>1. job[c] \in Jobs /\ seen[c] \in Sizes
    BY <1>6, CallFacts DEF Reserve
  <2>2. Larger(0, Growth(job[c], seen[c])) \in Nat
    BY <2>1, GrowthFacts, Numbers DEF Charge
  <2>3. used' \in Nat
    BY <1>6, <2>2 DEF Reserve, TypeOK
  <2>4. CASE Over(c)
    BY <1>6, <2>3, <2>4, OverTypes DEF Reserve, TypeOK
  <2>5. CASE ~Over(c)
    <3>1. /\ pc' = [pc EXCEPT ![c] = IF Closed(c) THEN "failed" ELSE "writing"]
          /\ job' = job /\ seen' = seen
      BY <1>6, <2>5 DEF Reserve
    <3> QED BY <1>6, <2>3, <3>1, StageTypes DEF Reserve, TypeOK, Stages
  <2> QED BY <2>4, <2>5
<1>7. CASE Land(c)
  <2>1. job[c] \in Jobs
    BY <1>7, CallFacts DEF Land
  <2>2. disk' \in [Files -> Sizes \cup {Absent}]
    BY <1>7, <2>1, DoneType DEF Land
  <2> QED BY <1>7, <2>2, StageTypes DEF Land, TypeOK, Stages
<1>8. ASSUME NEW n \in Sizes, FailPartly(c, n) PROVE TypeOK'
  <2>1. disk' \in [Files -> Sizes \cup {Absent}]
    BY <1>8 DEF FailPartly, TypeOK
  <2> QED BY <1>8, <2>1, StageTypes DEF FailPartly, TypeOK, Stages, Exact, Broken
<1>9. CASE GiveBack(c) \/ Settle(c)
  <2>1. job[c] \in Jobs /\ seen[c] \in Sizes
    BY <1>9, CallFacts DEF GiveBack, Settle
  <2>2. /\ Larger(0, Growth(job[c], seen[c])) \in Nat
        /\ Larger(0, -Growth(job[c], seen[c])) \in Nat
    BY <2>1, GrowthFacts, Numbers DEF Charge, Refund
  <2>3. used' \in Nat
    <3>1. \/ used' = released(used, Larger(0, Growth(job[c], seen[c])))
          \/ used' = released(used, Larger(0, -Growth(job[c], seen[c])))
      BY <1>9 DEF GiveBack, Settle
    <3>2. used \in Nat
      BY DEF TypeOK
    <3>3. \A a, b \in Nat : released(a, b) \in Nat
      BY DEF released, Larger
    <3> QED BY <2>2, <3>1, <3>2, <3>3
  <2>4. Over(c) /\ UNCHANGED <<disk, opened, done, walk, walked, blur, allowance>>
    BY <1>9 DEF GiveBack, Settle
  <2> QED BY <2>3, <2>4, OverTypes DEF TypeOK
<1>10. CASE CutOff(c)
  <2>1. blur' \in Exact .. Broken
    BY <1>10 DEF CutOff, TypeOK, Larger, Exact, OverCounted, Broken
  <2> QED BY <1>10, <2>1, OverTypes DEF CutOff, TypeOK
<1> QED BY <1>1, <1>2, <1>3, <1>4, <1>5, <1>6, <1>7, <1>8, <1>9, <1>10 DEF Step

LEMMA TypeStep == TypeOK /\ [Next]_vars => TypeOK'
<1> SUFFICES ASSUME TypeOK, [Next]_vars PROVE TypeOK'
  OBVIOUS
<1>1. CASE UNCHANGED vars
  BY <1>1 DEF vars, TypeOK
<1>2. CASE Next
  BY <1>2, MeasureTypes, HandleTypes, SyncTypes, StepTypes DEF Next
<1> QED BY <1>1, <1>2

\* Every variable keeps its shape.
THEOREM TypeCorrect == Spec => []TypeOK
<1> QED BY InitTypes, TypeStep, PTL DEF Spec

-----------------------------------------------------------------------------
(* What a step leaves as it was *)

LEMMA LockStays ==
    ASSUME LockHeld,
           \A c \in Calls : pc'[c] \notin {"idle", "queued"} /\ job'[c].kind = "truncate" =>
               pc[c] \notin {"idle", "queued"} /\ job'[c] = job[c]
    PROVE  LockHeld'
BY DEF LockHeld

LEMMA ApartStays ==
    ASSUME TypeOK, TypeOK', Apartness, blur <= blur',
           \A c \in Underway' : c \in Underway /\ job'[c] = job[c] /\ seen'[c] = seen[c]
    PROVE  Apartness'
<1> SUFFICES ASSUME NEW c \in Underway', NEW d \in Underway', Meet(c, d)'
             PROVE  blur' # Exact /\ (blur' <= OverCounted => ~Shrinks(job'[c], seen'[c]))
  BY DEF Apartness
<1>1. c \in Underway /\ d \in Underway /\ Meet(c, d)
  BY DEF Meet
<1>2. blur # Exact /\ (blur <= OverCounted => ~Shrinks(job[c], seen[c]))
  BY <1>1 DEF Apartness
<1>3. job'[c] = job[c] /\ seen'[c] = seen[c]
  OBVIOUS
<1> QED BY <1>2, <1>3 DEF TypeOK, Exact, OverCounted, Broken

LEMMA AwaitedSame ==
    ASSUME TypeOK, pc' = Awaited, job' = job, seen' = seen
    PROVE  Owes' = Owes /\ Ahead' = Ahead /\ Underway' = Underway
<1>1. \A c \in Calls : IF pc[c] = "measuring" THEN pc'[c] = "looking" ELSE pc'[c] = pc[c]
  BY DEF Awaited
<1> QED BY <1>1 DEF Owes, Owing, Ahead, Underway

LEMMA NothingOwed ==
    ASSUME TypeOK, \A c \in Calls : pc[c] \in {"idle", "measuring", "queued", "looking"}
    PROVE  Ahead = {} /\ Underway = {} /\ Weight(Owes) = 0
<1>1. Ahead = {} /\ Underway = {} /\ \A c \in Calls : Owes[c] = 0
  BY DEF Ahead, Underway, Owes, Owing
<1> QED BY <1>1, OwesFacts, WeightOfNothing

\* With nothing under way, the files themselves are what is charged.
LEMMA FilesCover ==
    ASSUME TypeOK, Ahead = {}, Weight(Owes) = 0
    PROVE  \A count \in Nat : Total(disk) <= count => CoveredBy(count)
<1> SUFFICES ASSUME NEW count \in Nat, Total(disk) <= count PROVE CoveredBy(count)
  OBVIOUS
<1>1. /\ Held(disk) \in [Files -> Sizes] /\ Total(disk) = Weight(Held(disk)) /\ Total(disk) \in Nat
      /\ \A f \in Files : SizeAt(f) = Held(disk)[f] /\ SizeAt(f) \in Nat
  BY SizeFacts, Numbers
<1>2. Keeps(Held(disk))
  BY <1>1 DEF Keeps
<1>3. Weight(Held(disk)) + Weight(Owes) <= count
  BY <1>1
<1> QED BY <1>1, <1>2, <1>3 DEF CoveredBy

\* No file grows, and who looks sees no more than there is.
LEMMA CoverStays ==
    ASSUME TypeOK, TypeOK', NEW count \in Nat, CoveredBy(count),
           \A f \in Files : SizeAt(f)' <= SizeAt(f),
           \A c \in Ahead' :
               \/ c \in Ahead /\ job'[c] = job[c] /\ seen'[c] = seen[c]
               \/ Judged(job'[c]) \in Files /\ seen'[c] <= SizeAt(Judged(job'[c])),
           count + Weight(Owes') <= used' + Weight(Owes)
    PROVE  CoveredBy(used)'
<1>1. PICK kept \in [Files -> Sizes] : Keeps(kept) /\ Weight(kept) + Weight(Owes) <= count
  BY DEF CoveredBy
<1>2. IsFiniteSet(Files)
  BY FsQuotaAssumption
<1>3. Weight(kept) \in Nat /\ Weight(Owes) \in Nat /\ Weight(Owes') \in Nat /\ used' \in Nat
  BY <1>2, BytesFinite, OwesFacts, OwesFactsPrimed DEF TypeOK
<1>4. Weight(kept) + Weight(Owes') <= used'
  BY <1>1, <1>3
<1>5. Keeps(kept)'
  <2>1. \A f \in Files : SizeAt(f) <= kept[f] /\ SizeAt(f) \in Nat /\ kept[f] \in Nat
    BY <1>1, SizeFacts, Numbers DEF Keeps
  <2>2. \A f \in Files : SizeAt(f)' \in Nat
    <3>1. disk' \in [Files -> Sizes \cup {Absent}]
      BY DEF TypeOK
    <3> QED BY <3>1, Numbers DEF SizeAt
  <2>3. \A f \in Files : SizeAt(f)' <= kept[f]
    BY <2>1, <2>2
  <2>4. \A c \in Ahead' : seen'[c] <= kept[Judged(job'[c])]
    <3> SUFFICES ASSUME NEW c \in Ahead' PROVE seen'[c] <= kept[Judged(job'[c])]
      OBVIOUS
    <3>1. CASE c \in Ahead /\ job'[c] = job[c] /\ seen'[c] = seen[c]
      BY <1>1, <3>1 DEF Keeps
    <3>2. CASE Judged(job'[c]) \in Files /\ seen'[c] <= SizeAt(Judged(job'[c]))
      <4>1. seen'[c] \in Nat
        BY Numbers DEF TypeOK, Ahead
      <4> QED BY <2>1, <3>2, <4>1
    <3> QED BY <3>1, <3>2
  <2> QED BY <2>3, <2>4 DEF Keeps
<1> QED BY <1>4, <1>5 DEF CoveredBy

\* A job lands.
LEMMA CoverLands ==
    ASSUME TypeOK, TypeOK', NEW count \in Nat, CoveredBy(count),
           NEW j \in Jobs, NEW s \in Sizes, disk' = Done(j),
           \A kept \in [Files -> Sizes] : Keeps(kept) => s <= kept[Judged(j)],
           \A c \in Ahead' :
               /\ c \in Ahead /\ job'[c] = job[c] /\ seen'[c] = seen[c] /\ Judged(job[c]) \in Files
               /\ Shrinks(j, s) => Judged(job[c]) \notin Touched(j),
           count + Weight(Owes') + Charge(j, s) <= used' + Weight(Owes) + Refund(j, s)
    PROVE  CoveredBy(used)'
<1>1. PICK kept \in [Files -> Sizes] : Keeps(kept) /\ Weight(kept) + Weight(Owes) <= count
  BY DEF CoveredBy
<1> DEFINE k == KeptAfter(kept, j, s)
<1>2. /\ \A f \in Files : SizeAt(f) <= kept[f]
      /\ s <= kept[Judged(j)]
      /\ \A c \in Ahead : seen[c] <= kept[Judged(job[c])]
  BY <1>1 DEF Keeps
<1>3. /\ k \in [Files -> Sizes]
      /\ Weight(k) + Refund(j, s) <= Weight(kept) + Charge(j, s)
      /\ \A f \in Files : Held(Done(j))[f] <= k[f]
      /\ \A f \in Files : ~Shrinks(j, s) \/ f \notin Touched(j) => kept[f] <= k[f]
  BY <1>2, Lands
<1> HIDE DEF k
<1>4. IsFiniteSet(Files)
  BY FsQuotaAssumption
<1>5. /\ Weight(kept) \in Nat /\ Weight(k) \in Nat /\ Weight(Owes) \in Nat /\ Weight(Owes') \in Nat
      /\ used' \in Nat /\ Charge(j, s) \in Nat /\ Refund(j, s) \in Nat
  <2>1. Weight(kept) \in Nat /\ Weight(k) \in Nat
    BY <1>3, <1>4, BytesFinite
  <2>2. Weight(Owes) \in Nat /\ Weight(Owes') \in Nat /\ used' \in Nat
    BY OwesFacts, OwesFactsPrimed DEF TypeOK
  <2>3. Charge(j, s) \in Nat /\ Refund(j, s) \in Nat
    BY GrowthFacts, Numbers
  <2> QED BY <2>1, <2>2, <2>3
<1>6. Weight(k) + Weight(Owes') <= used'
  BY <1>1, <1>3, <1>5
<1>7. Keeps(k)'
  <2>1. \A f \in Files : SizeAt(f)' <= k[f]
    <3>1. \A f \in Files : SizeAt(f)' = Held(Done(j))[f]
      BY DEF SizeAt, Held
    <3> QED BY <1>3, <3>1
  <2>2. \A c \in Ahead' : seen'[c] <= k[Judged(job'[c])]
    <3> SUFFICES ASSUME NEW c \in Ahead' PROVE seen'[c] <= k[Judged(job'[c])]
      OBVIOUS
    <3>1. /\ job'[c] = job[c] /\ seen'[c] = seen[c] /\ Judged(job[c]) \in Files
          /\ seen[c] <= kept[Judged(job[c])] /\ kept[Judged(job[c])] <= k[Judged(job[c])]
      BY <1>2, <1>3
    <3>2. seen[c] \in Nat /\ kept[Judged(job[c])] \in Nat /\ k[Judged(job[c])] \in Nat
      BY <1>3, <3>1, Numbers DEF TypeOK, Ahead
    <3> QED BY <3>1, <3>2
  <2> QED BY <1>3, <2>1, <2>2 DEF Keeps
<1> QED BY <1>3, <1>6, <1>7 DEF CoveredBy

-----------------------------------------------------------------------------
(* IInv, step by step *)

LEMMA InitEstablishes == Init => IInv
<1> SUFFICES ASSUME Init PROVE IInv
  OBVIOUS
<1>1. TypeOK
  BY InitTypes
<1>2. /\ done = FALSE /\ used = 0 /\ opened = {} /\ walk = "no" /\ blur = Exact
      /\ \A c \in Calls : pc[c] = "idle" /\ seen[c] = 0
  BY DEF Init
<1>3. Ahead = {} /\ Underway = {}
  BY <1>1, <1>2, NothingOwed
<1>4. Covered /\ Balanced /\ Apartness /\ LockHeld /\ Waiting
  BY <1>2, <1>3 DEF Covered, Balanced, Apartness, LockHeld, Waiting
<1>5. Quota <= allowance /\ Total(disk) <= allowance
  BY <1>1, SizeFacts, FsQuotaAssumption DEF Init, Larger
<1>6. Unmeasured /\ CountWithinAllowance
  BY <1>2, <1>5 DEF Unmeasured, CountWithinAllowance
<1> QED BY <1>1, <1>4, <1>6 DEF IInv

\* Before the first measurement nobody is further than waiting for it.
LEMMA Measuring ==
    ASSUME IInv, NEW c \in Calls, pc[c] \notin {"idle", "measuring"}
    PROVE  done \/ blur = Broken
BY DEF IInv, Unmeasured, TypeOK, Exact, Broken

LEMMA MeasureStep ==
    ASSUME IInv, TypeOK', Walk \/ Measured \/ MeasureFails \/ SyncFails \/ SyncTooLarge
    PROVE  IInv'
<1>1. CASE Walk \/ SyncTooLarge
  <2>1. /\ disk' = disk /\ opened' = opened /\ used' = used /\ done' = done /\ pc' = pc
        /\ job' = job /\ seen' = seen /\ blur' = blur /\ allowance' = allowance
        /\ walk' = "walked" => walked' = Total(disk)
    BY <1>1 DEF Walk, SyncTooLarge
  <2>2. Owes' = Owes /\ Ahead' = Ahead /\ Underway' = Underway
    BY <2>1, SameCalls
  <2>3. Covered' /\ Balanced' /\ Apartness'
    BY <2>1, <2>2 DEF IInv, Covered, CoveredBy, Keeps, SizeAt, Balanced, Total, Apartness, Meet
  <2>4. LockHeld' /\ Waiting' /\ Unmeasured' /\ CountWithinAllowance'
    BY <2>1 DEF IInv, LockHeld, Waiting, Unmeasured, Total, CountWithinAllowance
  <2> QED BY <2>3, <2>4 DEF IInv
<1>2. ASSUME disk' = disk, opened' = opened, job' = job, seen' = seen, blur' = blur,
             allowance' = allowance, pc' = pc \/ pc' = Awaited, done' = TRUE,
             done => used' = used, ~done /\ blur < Broken => used' = Total(disk)
      PROVE  IInv'
  <2>1. Owes' = Owes /\ Ahead' = Ahead /\ Underway' = Underway
    BY <1>2, SameCalls, AwaitedSame DEF IInv
  <2>2. LockHeld' /\ Waiting'
    <3>1. \A c \in Calls : pc'[c] = pc[c] \/ (pc[c] = "measuring" /\ pc'[c] = "looking")
      BY <1>2 DEF Awaited
    <3> QED BY <1>2, <3>1 DEF IInv, LockHeld, Waiting, OnHandle
  <2>3. Apartness' /\ Unmeasured'
    BY <1>2, <2>1 DEF IInv, Apartness, Meet, Unmeasured
  <2>4. CASE done
    <3>1. Covered' /\ Balanced' /\ CountWithinAllowance'
      BY <1>2, <2>1, <2>4 DEF IInv, Covered, CoveredBy, Keeps, SizeAt, Balanced, Total,
         CountWithinAllowance
    <3> QED BY <2>2, <2>3, <3>1 DEF IInv
  <2>5. CASE ~done /\ blur < Broken
    <3>1. /\ \A c \in Calls : pc[c] \in {"idle", "measuring"}
          /\ Total(disk) <= allowance /\ used' = Total(disk)
      BY <1>2, <2>5 DEF IInv, Unmeasured
    <3>2. Ahead = {} /\ Weight(Owes) = 0 /\ TypeOK
      BY <3>1, NothingOwed DEF IInv
    <3>3. Total(disk) \in Nat
      BY <3>2, SizeFacts
    <3>4. CoveredBy(Total(disk))
      BY <3>2, <3>3, FilesCover
    <3>5. CoveredBy(used)'
      BY <1>2, <2>1, <3>1, <3>4 DEF CoveredBy, Keeps, SizeAt
    <3>6. Covered' /\ Balanced' /\ CountWithinAllowance'
      BY <1>2, <2>1, <3>1, <3>2, <3>3, <3>5
         DEF IInv, Covered, Balanced, Total, CountWithinAllowance
    <3> QED BY <2>2, <2>3, <3>6 DEF IInv
  <2>6. CASE blur = Broken
    <3>1. Covered' /\ Balanced' /\ CountWithinAllowance'
      BY <1>2, <2>6 DEF IInv, Covered, Balanced, CountWithinAllowance, Broken, OverCounted, Exact
    <3> QED BY <2>2, <2>3, <3>1 DEF IInv
  <2> QED BY <2>4, <2>5, <2>6 DEF IInv, TypeOK, Exact, Broken
<1>3. CASE Measured
  <2>1. ~done /\ blur < Broken => used + walked = Total(disk)
    <3>1. ~done /\ blur < Broken => used = 0 /\ walked = Total(disk)
      BY <1>3 DEF Measured, IInv, Unmeasured
    <3> QED BY <3>1 DEF IInv, TypeOK
  <2> QED BY <1>2, <1>3, <2>1 DEF Measured
<1>4. CASE SyncFails
  <2>1. ~done /\ done' = TRUE /\ used' = used + Total(disk)
    BY <1>4 DEF SyncFails, MeasureNow, countNow
  <2>2. Total(disk) \in Nat
    BY SizeFacts DEF IInv
  <2>3. blur < Broken => used = 0
    BY <2>1 DEF IInv, Unmeasured
  <2> QED BY <1>2, <1>4, <2>1, <2>2, <2>3 DEF SyncFails
<1>5. CASE MeasureFails
  <2>1. /\ disk' = disk /\ opened' = opened /\ used' = used /\ done' = done /\ pc' = Awaited
        /\ job' = job /\ seen' = seen /\ allowance' = allowance
        /\ blur' = IF done THEN blur ELSE Broken
    BY <1>5 DEF MeasureFails
  <2>2. CASE done
    BY <1>2, <2>1, <2>2
  <2>3. CASE ~done
    <3>1. Owes' = Owes /\ Ahead' = Ahead /\ Underway' = Underway
      BY <2>1, AwaitedSame DEF IInv
    <3>2. LockHeld' /\ Waiting'
      <4>1. \A c \in Calls : pc'[c] = pc[c] \/ (pc[c] = "measuring" /\ pc'[c] = "looking")
        BY <2>1 DEF Awaited
      <4> QED BY <2>1, <4>1 DEF IInv, LockHeld, Waiting, OnHandle
    <3>3. blur' = Broken /\ done' = FALSE
      BY <2>1, <2>3
    <3>4. Covered' /\ Balanced' /\ CountWithinAllowance' /\ Unmeasured'
      BY <2>1, <3>3 DEF IInv, Covered, Balanced, CountWithinAllowance, Unmeasured, Broken, Exact
    <3>5. Apartness'
      BY <3>3 DEF Apartness, Broken, Exact, OverCounted
    <3> QED BY <3>2, <3>4, <3>5 DEF IInv
  <2> QED BY <2>2, <2>3
<1> QED BY <1>1, <1>3, <1>4, <1>5

LEMMA HandleStep ==
    ASSUME IInv, TypeOK', NEW f \in Openable,
           CloseFile(f) \/ \E cuts \in BOOLEAN : OpenFile(f, cuts)
    PROVE  IInv'
<1>0. f \in Files
  BY FsQuotaAssumption
<1>1. CASE CloseFile(f)
  <2>1. /\ disk' = disk /\ used' = used /\ done' = done /\ pc' = pc /\ walk' = walk
        /\ walked' = walked /\ opened' \subseteq opened
        /\ job' = job /\ seen' = seen /\ blur' = blur /\ allowance' = allowance
    BY <1>1 DEF CloseFile
  <2>2. Owes' = Owes /\ Ahead' = Ahead /\ Underway' = Underway
    BY <2>1, SameCalls
  <2>3. Covered' /\ Balanced' /\ Apartness'
    BY <2>1, <2>2 DEF IInv, Covered, CoveredBy, Keeps, SizeAt, Balanced, Total, Apartness, Meet
  <2>4. LockHeld' /\ Waiting' /\ Unmeasured' /\ CountWithinAllowance'
    BY <2>1 DEF IInv, LockHeld, Waiting, Unmeasured, Total, CountWithinAllowance
  <2> QED BY <2>3, <2>4 DEF IInv
<1>2. ASSUME NEW cuts \in BOOLEAN, OpenFile(f, cuts) PROVE IInv'
  <2>1. /\ used' = used /\ done' = done /\ pc' = pc /\ walk' = walk /\ walked' = walked
        /\ job' = job /\ seen' = seen /\ allowance' = allowance
        /\ done \/ blur = Broken
        /\ disk' = [disk EXCEPT ![f] = IF cuts THEN 0 ELSE SizeAt(f)]
        /\ blur' = IF cuts /\ SizeAt(f) > 0 THEN Larger(blur, OverCounted) ELSE blur
    BY <1>2 DEF OpenFile
  <2>2. Owes' = Owes /\ Ahead' = Ahead /\ Underway' = Underway
    BY <2>1, SameCalls
  <2>3. blur \in Exact .. Broken /\ TypeOK
    BY DEF IInv, TypeOK
  <2>4. blur' \in Exact .. Broken /\ blur <= blur' /\ (blur' = Exact => ~(cuts /\ SizeAt(f) > 0))
    BY <2>1, <2>3 DEF Larger, Exact, OverCounted, Broken
  <2>5. /\ \A x \in Files : SizeAt(x) \in Nat
        /\ \A x \in Files : SizeAt(x)' = IF x = f THEN IF cuts THEN 0 ELSE SizeAt(f) ELSE SizeAt(x)
    <3>1. \A x \in Files : SizeAt(x) \in Nat /\ SizeAt(x) \in Sizes
      BY <2>3, SizeFacts, Numbers
    <3>2. (IF cuts THEN 0 ELSE SizeAt(f)) # Absent
      BY <1>0, <3>1, Numbers, FsQuotaAssumption
    <3>3. \A x \in Files : disk'[x] = IF x = f THEN IF cuts THEN 0 ELSE SizeAt(f) ELSE disk[x]
      BY <2>1, <2>3 DEF TypeOK
    <3> QED BY <3>1, <3>2, <3>3 DEF SizeAt
  <2>6. Covered'
    <3> SUFFICES ASSUME done', blur' <= OverCounted PROVE CoveredBy(used)'
      BY DEF Covered
    <3>1. blur <= OverCounted
      BY <2>3, <2>4 DEF OverCounted, Exact, Broken
    <3>2. CoveredBy(used) /\ used \in Nat
      BY <2>1, <3>1 DEF IInv, Covered, TypeOK
    <3>3. \A x \in Files : SizeAt(x)' <= SizeAt(x)
      BY <2>5
    <3>4. used + Weight(Owes') <= used' + Weight(Owes)
      <4>1. Weight(Owes) \in Nat
        BY <2>3, OwesFacts
      <4> QED BY <2>1, <2>2, <3>2, <4>1
    <3>5. \A c \in Ahead' : c \in Ahead /\ job'[c] = job[c] /\ seen'[c] = seen[c]
      BY <2>1, <2>2
    <3> QED BY <2>3, <3>2, <3>3, <3>4, <3>5, CoverStays
  <2>7. Balanced'
    <3> SUFFICES ASSUME blur' = Exact PROVE Balanced'
      BY DEF Balanced
    <3>1. blur = Exact
      BY <2>3, <2>4 DEF Exact, Broken
    <3>2. \A x \in Files : SizeAt(x)' = SizeAt(x)
      BY <1>0, <2>4, <2>5
    <3>3. Held(disk') = Held(disk)
      BY <3>2 DEF Held, SizeAt
    <3>4. Total(disk)' = Total(disk)
      BY <3>3 DEF Total, Held
    <3>5. \A c \in Ahead : Judged(job[c]) \in Files
      BY <2>3, CallFacts, JobFacts DEF Ahead
    <3> QED BY <2>1, <2>2, <3>1, <3>2, <3>4, <3>5 DEF IInv, Balanced
  <2>8. Apartness'
    BY <2>1, <2>2, <2>3, <2>4, ApartStays DEF IInv
  <2>9. LockHeld' /\ Waiting'
    BY <2>1 DEF IInv, LockHeld, Waiting
  <2>10. Unmeasured' /\ CountWithinAllowance'
    BY <2>1, <2>3, <2>4 DEF IInv, Unmeasured, CountWithinAllowance, Exact, OverCounted, Broken
  <2> QED BY <2>6, <2>7, <2>8, <2>9, <2>10 DEF IInv
<1> QED BY <1>1, <1>2

Early == {"idle", "measuring", "queued", "looking"}

\* A call that moves between stages at which it owes nothing.
LEMMA EarlyMove ==
    ASSUME IInv, TypeOK', NEW c \in Calls,
           disk' = disk, opened' = opened, used' = used, done' = done, blur' = blur,
           allowance' = allowance, walked' = walked, walk' = "walked" => walk = "walked",
           pc[c] \in Early, pc'[c] \in Early, seen'[c] = 0,
           pc'[c] = "measuring" => ~OnHandle(job'[c]),
           \A d \in Calls \ {c} : pc'[d] = pc[d] /\ job'[d] = job[d] /\ seen'[d] = seen[d],
           done \/ blur = Broken \/ pc'[c] \in {"idle", "measuring"},
           LockHeld'
    PROVE  IInv'
<1>1. TypeOK
  BY DEF IInv
<1>2. Owes[c] = 0 /\ Owes'[c] = 0
  BY DEF Owes, Owing, Early
<1>3. Weight(Owes') = Weight(Owes)
  <2>1. Weight(Owes') = Weight(Owes) - Owes[c] + Owes'[c]
    BY <1>1, OneCallMoves
  <2>2. Weight(Owes) \in Nat
    BY <1>1, OwesFacts
  <2> QED BY <1>2, <2>1, <2>2
<1>4. /\ c \notin Ahead /\ c \notin Ahead' /\ c \notin Underway /\ c \notin Underway'
      /\ Ahead' = Ahead /\ Underway' = Underway
  BY DEF Ahead, Underway, Early
<1>5. Covered' /\ Balanced' /\ Apartness'
  <2>1. \A d \in Ahead \cup Underway : job'[d] = job[d] /\ seen'[d] = seen[d]
    BY <1>4 DEF Ahead, Underway
  <2>2. Covered'
    BY <1>3, <1>4, <2>1 DEF IInv, Covered, CoveredBy, Keeps, SizeAt
  <2>3. Balanced'
    BY <1>3, <1>4, <2>1 DEF IInv, Balanced, SizeAt, Total
  <2>4. Apartness'
    BY <1>4, <2>1 DEF IInv, Apartness, Meet
  <2> QED BY <2>2, <2>3, <2>4
<1>6. Waiting'
  BY DEF IInv, Waiting
<1>7. Unmeasured'
  <2>1. CASE done \/ blur = Broken
    BY <2>1 DEF Unmeasured, Broken
  <2>2. CASE pc'[c] \in {"idle", "measuring"}
    BY <2>2 DEF IInv, Unmeasured, Total
  <2> QED BY <2>1, <2>2
<1>8. CountWithinAllowance'
  BY DEF IInv, CountWithinAllowance
<1> QED BY <1>5, <1>6, <1>7, <1>8 DEF IInv

LEMMA EarlyStep ==
    ASSUME IInv, TypeOK', NEW c \in Calls,
           \/ \E j \in Jobs : Begin(c, j) \/ BeginOnHandle(c, j)
           \/ LockTaken(c)
           \/ LookFails(c) /\ OnHandle(job[c])
    PROVE  IInv'
<1>1. TypeOK /\ Waiting /\ LockHeld
  BY DEF IInv
<1>2. ASSUME NEW j \in Jobs, Begin(c, j) PROVE IInv'
  <2>1. /\ pc[c] = "idle" /\ ~OnHandle(j) /\ job' = [job EXCEPT ![c] = j]
        /\ pc' = [pc EXCEPT ![c] = IF done THEN "looking" ELSE "measuring"]
        /\ walk' = "walked" => walk = "walked"
        /\ UNCHANGED <<disk, opened, used, done, walked, seen, blur, allowance>>
    BY <1>2 DEF Begin
  <2>2. job'[c] = j /\ pc'[c] = IF done THEN "looking" ELSE "measuring"
    BY <1>1, <2>1 DEF TypeOK
  <2>3. \A d \in Calls \ {c} : pc'[d] = pc[d] /\ job'[d] = job[d] /\ seen'[d] = seen[d]
    BY <1>1, <2>1 DEF TypeOK
  <2>4. LockHeld'
    <3>1. j.kind # "truncate"
      BY <2>1 DEF OnHandle
    <3> QED BY <1>1, <2>2, <2>3, <3>1, LockStays
  <2>5. seen'[c] = 0
    BY <1>1, <2>1 DEF Waiting
  <2> QED BY <2>1, <2>2, <2>3, <2>4, <2>5, EarlyMove DEF Early
<1>3. ASSUME NEW j \in Jobs, BeginOnHandle(c, j) PROVE IInv'
  <2>1. /\ pc[c] = "idle" /\ OnHandle(j) /\ j.at \in opened /\ job' = [job EXCEPT ![c] = j]
        /\ pc' = [pc EXCEPT ![c] = IF j.kind = "truncate" THEN "queued" ELSE "looking"]
        /\ UNCHANGED <<disk, opened, used, done, walk, walked, seen, blur, allowance>>
    BY <1>3 DEF BeginOnHandle
  <2>2. job'[c] = j /\ pc'[c] = IF j.kind = "truncate" THEN "queued" ELSE "looking"
    BY <1>1, <2>1 DEF TypeOK
  <2>3. \A d \in Calls \ {c} : pc'[d] = pc[d] /\ job'[d] = job[d] /\ seen'[d] = seen[d]
    BY <1>1, <2>1 DEF TypeOK
  <2>4. LockHeld'
    BY <1>1, <2>2, <2>3, LockStays
  <2>5. seen'[c] = 0
    BY <1>1, <2>1 DEF Waiting
  <2>6. done \/ blur = Broken
    BY <2>1 DEF IInv, Unmeasured, TypeOK, Exact, Broken
  <2> QED BY <2>1, <2>2, <2>3, <2>4, <2>5, <2>6, EarlyMove DEF Early
<1>4. CASE LockTaken(c)
  <2>1. /\ pc[c] = "queued" /\ pc' = [pc EXCEPT ![c] = "looking"]
        /\ UNCHANGED <<disk, opened, used, done, walk, walked, job, seen, blur, allowance>>
        /\ ~ \E x \in Calls \ {c} :
                /\ pc[x] \notin {"idle", "queued"}
                /\ job[x].kind = "truncate" /\ job[x].at = job[c].at
    BY <1>4 DEF LockTaken
  <2>2. pc'[c] = "looking" /\ \A d \in Calls \ {c} : pc'[d] = pc[d]
    BY <1>1, <2>1 DEF TypeOK
  <2>3. LockHeld'
    BY <1>1, <2>1, <2>2 DEF LockHeld
  <2>4. seen'[c] = 0
    BY <1>1, <2>1 DEF Waiting
  <2>5. done \/ blur = Broken
    BY <2>1, Measuring
  <2> QED BY <2>1, <2>2, <2>3, <2>4, <2>5, EarlyMove DEF Early
<1>5. CASE LookFails(c) /\ OnHandle(job[c])
  <2>1. /\ pc[c] = "looking" /\ Over(c)
        /\ UNCHANGED <<disk, opened, used, done, walk, walked, blur, allowance>>
    BY <1>5 DEF LookFails
  <2>2. /\ pc'[c] = "idle" /\ seen'[c] = 0
        /\ \A d \in Calls \ {c} : pc'[d] = pc[d] /\ job'[d] = job[d] /\ seen'[d] = seen[d]
    BY <1>1, <2>1 DEF Over, TypeOK
  <2>3. LockHeld'
    BY <1>1, <2>2, LockStays
  <2> QED BY <2>1, <2>2, <2>3, EarlyMove DEF Early
<1> QED BY <1>2, <1>3, <1>4, <1>5

\* A job that meets a call on its way is noted, and if either takes bytes, as such.
LEMMA MeetingBlurs ==
    ASSUME NEW j, NEW s, NEW d \in Underway, Touched(job[d]) \cap Touched(j) # {},
           {job[d].kind, j.kind} # {"truncate"}
    PROVE  /\ Blur(j, s) # Exact
           /\ Blur(j, s) <= OverCounted => ~Shrinks(j, s) /\ ~Shrinks(job[d], seen[d])
BY DEF Blur, Exact, OverCounted, Overlapped

LEMMA LookStep ==
    ASSUME IInv, TypeOK', NEW c \in Calls, Look(c) \/ (LookFails(c) /\ ~OnHandle(job[c]))
    PROVE  IInv'
<1> DEFINE j == job[c]
           s == seen'[c]
<1>1. TypeOK /\ Waiting /\ LockHeld /\ Apartness /\ blur \in Exact .. Broken /\ blur' \in Exact .. Broken
  BY DEF IInv, TypeOK
<1>2. /\ pc[c] = "looking" /\ pc' = [pc EXCEPT ![c] = "looked"] /\ job' = job
      /\ UNCHANGED <<disk, opened, used, done, walk, walked, allowance>>
      /\ \A d \in Calls \ {c} : seen'[d] = seen[d]
  BY <1>1 DEF Look, LookFails, TypeOK
<1>3. j \in Jobs /\ j # None /\ Judged(j) \in Files /\ s \in Sizes /\ SizeAt(Judged(j)) \in Nat
      /\ SizeAt(Judged(j)) \in Sizes
  <2>1. j \in Jobs
    BY <1>1, <1>2, CallFacts
  <2>2. Judged(j) \in Files /\ j # None
    BY <2>1, JobFacts
  <2> QED BY <1>1, <2>1, <2>2, SizeFacts, Numbers DEF TypeOK
<1>4. /\ s <= SizeAt(Judged(j)) /\ blur <= blur' /\ Blur(j, s) <= blur'
      /\ blur' = Exact => s = SizeAt(Judged(j))
  <2>1. CASE Look(c)
    <3>1. s = SizeAt(Judged(j)) /\ blur' = Larger(blur, Blur(j, s))
      BY <1>1, <2>1 DEF Look, TypeOK
    <3>2. blur \in Int /\ Blur(j, s) \in Int
      BY <1>1, BlurFacts DEF Exact, Broken
    <3> HIDE DEF j, s
    <3> QED BY <1>3, <3>1, <3>2, Numbers
  <2>2. CASE LookFails(c) /\ ~OnHandle(job[c])
    <3>1. s = 0
      BY <1>1, <1>2, <2>2 DEF LookFails, Waiting
    <3>2. blur' = Larger(Larger(blur, Blur(j, s)), OverCounted)
      BY <2>2, <3>1 DEF LookFails
    <3>3. blur \in Int /\ Blur(j, s) \in Int
      BY <1>1, BlurFacts DEF Exact, Broken
    <3> HIDE DEF j, s
    <3> QED BY <1>3, <3>1, <3>2, <3>3 DEF Larger, OverCounted, Exact
  <2> QED BY <2>1, <2>2
<1>5. Blur(j, s) \in Exact .. Broken
  BY BlurFacts
<1>6. /\ pc'[c] = "looked"
      /\ \A d \in Calls \ {c} : pc'[d] = pc[d] /\ job'[d] = job[d] /\ seen'[d] = seen[d]
  BY <1>1, <1>2 DEF TypeOK
<1>7. /\ Ahead' = Ahead \cup {c} /\ Underway' = Underway \cup {c} /\ c \notin Underway
      /\ Owes[c] = 0 /\ Owes'[c] = 0
  BY <1>2, <1>6 DEF Ahead, Underway, Owes, Owing
<1>8. Weight(Owes') = Weight(Owes) /\ Weight(Owes) \in Nat
  <2>1. Weight(Owes') = Weight(Owes) - Owes[c] + Owes'[c] /\ Weight(Owes) \in Nat
    BY <1>1, <1>6, OneCallMoves, OwesFacts
  <2> QED BY <1>7, <2>1
<1>9. Covered'
  <2> SUFFICES ASSUME done', blur' <= OverCounted PROVE CoveredBy(used)'
    BY DEF Covered
  <2>1. CoveredBy(used) /\ used \in Nat
    BY <1>1, <1>2, <1>4 DEF IInv, Covered, OverCounted, Exact, Broken, TypeOK
  <2>2. \A f \in Files : SizeAt(f)' <= SizeAt(f)
    <3>1. \A f \in Files : SizeAt(f)' = SizeAt(f) /\ SizeAt(f) \in Nat
      BY <1>1, <1>2, SizeFacts, Numbers DEF SizeAt
    <3> QED BY <3>1
  <2>3. \A d \in Ahead' :
            \/ d \in Ahead /\ job'[d] = job[d] /\ seen'[d] = seen[d]
            \/ Judged(job'[d]) \in Files /\ seen'[d] <= SizeAt(Judged(job'[d]))
    <3>1. \A d \in Ahead : d # c /\ d \in Calls
      BY <1>2 DEF Ahead
    <3> QED BY <1>2, <1>3, <1>4, <1>6, <1>7, <3>1
  <2>4. used + Weight(Owes') <= used' + Weight(Owes)
    BY <1>2, <1>8, <2>1
  <2> QED BY <1>1, <2>1, <2>2, <2>3, <2>4, CoverStays
<1>10. Balanced'
  <2> SUFFICES ASSUME blur' = Exact
               PROVE  /\ done' => used' = Total(disk)' + Weight(Owes')
                      /\ \A d \in Ahead' : seen'[d] = SizeAt(Judged(job[d]))'
    BY DEF Balanced
  <2>1. blur = Exact
    BY <1>1, <1>4 DEF Exact, Broken
  <2>2. done => used = Total(disk) + Weight(Owes)
    BY <2>1 DEF IInv, Balanced
  <2>3. \A d \in Ahead : d # c /\ d \in Calls /\ seen[d] = SizeAt(Judged(job[d]))
    BY <1>2, <2>1 DEF IInv, Balanced, Ahead
  <2>4. \A d \in Ahead' : seen'[d] = SizeAt(Judged(job[d]))'
    BY <1>2, <1>4, <1>6, <1>7, <2>3 DEF SizeAt
  <2> QED BY <1>2, <1>8, <2>2, <2>4 DEF Total
<1>11. Apartness'
  <2> SUFFICES ASSUME NEW a \in Underway', NEW b \in Underway', Meet(a, b)'
               PROVE  blur' # Exact /\ (blur' <= OverCounted => ~Shrinks(job'[a], seen'[a]))
    BY DEF Apartness
  <2>1. a # b /\ Touched(job[a]) \cap Touched(job[b]) # {}
    BY <1>2 DEF Meet
  <2>2. CASE a # c /\ b # c
    <3>1. a \in Underway /\ b \in Underway /\ Meet(a, b) /\ seen'[a] = seen[a]
      BY <1>6, <1>7, <2>1, <2>2 DEF Meet, Underway
    <3> QED BY <1>1, <1>2, <1>4, <3>1 DEF Apartness, Exact, OverCounted, Broken
  <2>3. ASSUME NEW d \in Underway, Touched(job[d]) \cap Touched(j) # {}
        PROVE  /\ blur' # Exact
               /\ blur' <= OverCounted =>
                    /\ ~Shrinks(j, s) /\ ~Shrinks(job[d], seen[d]) /\ seen'[d] = seen[d]
    <3>1. d \in Calls /\ d # c /\ pc[d] \notin {"idle", "queued"}
      BY <1>7 DEF Underway
    <3>2. {job[d].kind, j.kind} # {"truncate"}
      <4> SUFFICES ASSUME job[d].kind = "truncate", j.kind = "truncate" PROVE FALSE
        OBVIOUS
      <4>1. job[d] \in Jobs
        BY <1>1, <3>1, CallFacts
      <4>2. job[d].to = None /\ j.to = None
        BY <1>3, <4>1, JobFacts
      <4>3. job[d].at = j.at
        BY <2>3, <4>2 DEF Touched
      <4> QED BY <1>1, <1>2, <3>1, <4>3 DEF LockHeld
    <3>3. /\ Blur(j, s) # Exact
          /\ Blur(j, s) <= OverCounted => ~Shrinks(j, s) /\ ~Shrinks(job[d], seen[d])
      <4> HIDE DEF j, s
      <4> QED BY <2>3, <3>2, MeetingBlurs
    <3>4. blur' # Exact /\ (blur' <= OverCounted => Blur(j, s) <= OverCounted)
      BY <1>1, <1>4, <1>5, <3>3 DEF Exact, OverCounted, Broken
    <3> QED BY <1>6, <3>1, <3>3, <3>4
  <2>4. CASE a = c
    <3>1. b \in Underway
      BY <1>7, <2>1, <2>4
    <3> QED BY <1>2, <2>1, <2>3, <2>4, <3>1
  <2>5. CASE b = c
    <3>1. a \in Underway
      BY <1>7, <2>1, <2>5
    <3> QED BY <1>2, <2>1, <2>3, <2>5, <3>1
  <2> QED BY <2>2, <2>4, <2>5
<1>12. LockHeld'
  BY <1>1, <1>2, <1>6, LockStays
<1>13. Waiting'
  BY <1>1, <1>2, <1>6 DEF Waiting
<1>14. done \/ blur = Broken
  BY <1>2, Measuring
<1>15. Unmeasured' /\ CountWithinAllowance'
  BY <1>1, <1>2, <1>4, <1>14
     DEF IInv, Unmeasured, CountWithinAllowance, Exact, OverCounted, Broken
<1> QED BY <1>9, <1>10, <1>11, <1>12, <1>13, <1>15 DEF IInv

\* A call returns: what it owed leaves the count, or is noted as left in it.
LEMMA CallEnds ==
    ASSUME IInv, TypeOK', NEW c \in Calls, pc[c] \notin {"idle", "measuring"}, Over(c),
           UNCHANGED <<disk, opened, done, walk, walked, allowance>>, blur <= blur',
           used' = released(used, Owes[c]) \/ (used' = used /\ blur' # Exact)
    PROVE  IInv'
<1>1. /\ TypeOK /\ Waiting /\ LockHeld /\ Apartness /\ blur \in Exact .. Broken
      /\ blur' \in Exact .. Broken /\ used \in Nat /\ used' \in Nat
  BY DEF IInv, TypeOK
<1>2. /\ pc'[c] = "idle" /\ seen'[c] = 0 /\ job'[c] = None
      /\ \A d \in Calls \ {c} : pc'[d] = pc[d] /\ job'[d] = job[d] /\ seen'[d] = seen[d]
  BY <1>1 DEF Over, TypeOK
<1>3. /\ Ahead' = Ahead \ {c} /\ Underway' = Underway \ {c} /\ Owes'[c] = 0
  BY <1>2 DEF Ahead, Underway, Owes, Owing
<1>4. /\ Weight(Owes') = Weight(Owes) - Owes[c]
      /\ Weight(Owes) \in Nat /\ Weight(Owes') \in Nat /\ Owes[c] \in Nat /\ Owes[c] <= Weight(Owes)
  <2>1. Weight(Owes') = Weight(Owes) - Owes[c] + Owes'[c]
    BY <1>1, <1>2, OneCallMoves
  <2>2. Weight(Owes) \in Nat /\ Weight(Owes') \in Nat /\ Owes[c] \in Nat /\ Owes[c] <= Weight(Owes)
    BY <1>1, OwesFacts, OwesFactsPrimed
  <2> QED BY <1>3, <2>1, <2>2
<1>5. used' <= used /\ (Owes[c] <= used => used - Owes[c] <= used')
      /\ (Owes[c] <= used /\ blur' = Exact => used' = used - Owes[c])
  BY <1>1, <1>4 DEF released, Larger
<1>6. \A d \in Ahead' : d \in Ahead /\ job'[d] = job[d] /\ seen'[d] = seen[d]
  BY <1>2, <1>3 DEF Ahead
<1>7. Covered'
  <2> SUFFICES ASSUME done', blur' <= OverCounted PROVE CoveredBy(used)'
    BY DEF Covered
  <2>1. CoveredBy(used)
    BY <1>1 DEF IInv, Covered, OverCounted, Exact, Broken
  <2>2. Owes[c] <= used
    <3>1. PICK kept \in [Files -> Sizes] : Weight(kept) + Weight(Owes) <= used
      BY <2>1 DEF CoveredBy
    <3>2. Weight(kept) \in Nat
      BY <3>1, BytesFinite, FsQuotaAssumption
    <3> QED BY <1>1, <1>4, <3>1, <3>2
  <2>3. \A f \in Files : SizeAt(f)' <= SizeAt(f)
    <3>1. \A f \in Files : SizeAt(f)' = SizeAt(f) /\ SizeAt(f) \in Nat
      BY <1>1, SizeFacts, Numbers DEF SizeAt
    <3> QED BY <3>1
  <2>4. used + Weight(Owes') <= used' + Weight(Owes)
    BY <1>1, <1>4, <1>5, <2>2
  <2> QED BY <1>1, <1>6, <2>1, <2>3, <2>4, CoverStays
<1>8. Balanced'
  <2> SUFFICES ASSUME blur' = Exact
               PROVE  /\ done' => used' = Total(disk)' + Weight(Owes')
                      /\ \A d \in Ahead' : seen'[d] = SizeAt(Judged(job[d]))'
    BY DEF Balanced
  <2>1. blur = Exact
    BY <1>1 DEF Exact, Broken
  <2>2. done' => used' = Total(disk)' + Weight(Owes')
    <3> SUFFICES ASSUME done PROVE used' = Total(disk) + Weight(Owes')
      BY DEF Total
    <3>1. used = Total(disk) + Weight(Owes) /\ Total(disk) \in Nat
      BY <1>1, <2>1, SizeFacts DEF IInv, Balanced
    <3> QED BY <1>4, <1>5, <3>1
  <2>3. \A d \in Ahead' : seen'[d] = SizeAt(Judged(job[d]))' /\ job'[d] = job[d]
    BY <1>6, <2>1 DEF IInv, Balanced, SizeAt
  <2> QED BY <2>2, <2>3
<1>9. Apartness'
  <2>1. \A d \in Underway' : d \in Underway /\ job'[d] = job[d] /\ seen'[d] = seen[d]
    BY <1>2, <1>3 DEF Underway
  <2> QED BY <1>1, <2>1, ApartStays
<1>10. LockHeld' /\ Waiting'
  BY <1>1, <1>2 DEF LockHeld, Waiting
<1>11. done \/ blur = Broken
  BY Measuring
<1>12. Unmeasured' /\ CountWithinAllowance'
  <2>1. Unmeasured'
    BY <1>1, <1>11 DEF Unmeasured, Exact, Broken
  <2>2. CountWithinAllowance'
    BY <1>1, <1>5 DEF IInv, TypeOK, CountWithinAllowance, Exact, OverCounted, Broken
  <2> QED BY <2>1, <2>2
<1> QED BY <1>7, <1>8, <1>9, <1>10, <1>12 DEF IInv

LEMMA EndStep ==
    ASSUME IInv, TypeOK', NEW c \in Calls, GiveBack(c) \/ Settle(c) \/ CutOff(c)
    PROVE  IInv'
<1>1. blur \in Exact .. Broken
  BY DEF IInv, TypeOK
<1>2. CASE GiveBack(c)
  <2>1. /\ pc[c] \in {"writing", "failed"} /\ Over(c)
        /\ used' = released(used, Charge(job[c], seen[c]))
        /\ UNCHANGED <<disk, opened, done, walk, walked, blur, allowance>>
    BY <1>2 DEF GiveBack, Charge
  <2>2. Owes[c] = Charge(job[c], seen[c])
    BY <2>1 DEF Owes, Owing
  <2>3. blur <= blur'
    BY <1>1, <2>1 DEF Exact, Broken
  <2> QED BY <2>1, <2>2, <2>3, CallEnds
<1>3. CASE Settle(c)
  <2>1. /\ pc[c] = "landed" /\ Over(c)
        /\ used' = released(used, Refund(job[c], seen[c]))
        /\ UNCHANGED <<disk, opened, done, walk, walked, blur, allowance>>
    BY <1>3 DEF Settle, Refund
  <2>2. Owes[c] = Refund(job[c], seen[c])
    BY <2>1 DEF Owes, Owing
  <2>3. blur <= blur'
    BY <1>1, <2>1 DEF Exact, Broken
  <2> QED BY <2>1, <2>2, <2>3, CallEnds
<1>4. CASE CutOff(c)
  <2>1. /\ pc[c] = "landed" /\ Over(c) /\ blur' = Larger(blur, OverCounted)
        /\ UNCHANGED <<disk, opened, used, done, walk, walked, allowance>>
    BY <1>4 DEF CutOff
  <2>2. blur <= blur' /\ blur' # Exact
    BY <1>1, <2>1 DEF Larger, Exact, OverCounted, Broken
  <2> QED BY <2>1, <2>2, CallEnds
<1> QED BY <1>2, <1>3, <1>4

LEMMA ReserveStep ==
    ASSUME IInv, TypeOK', NEW c \in Calls, Reserve(c)
    PROVE  IInv'
<1> DEFINE bytes == Growth(job[c], seen[c])
<1>1. /\ TypeOK /\ Waiting /\ LockHeld /\ Apartness /\ blur \in Exact .. Broken
      /\ used \in Nat /\ used' \in Nat
  BY DEF IInv, TypeOK
<1>2. pc[c] = "looked" /\ Owes[c] = 0
  BY DEF Reserve, Owes, Owing
<1>3. /\ bytes \in Int /\ Charge(job[c], seen[c]) \in Nat
      /\ Charge(job[c], seen[c]) = IF bytes >= 0 THEN bytes ELSE 0
  <2>1. job[c] \in Jobs /\ seen[c] \in Sizes
    BY <1>1, <1>2, CallFacts
  <2>2. /\ bytes \in Int /\ Charge(job[c], seen[c]) \in Sizes
        /\ bytes >= 0 => Charge(job[c], seen[c]) = bytes
        /\ bytes <= 0 => Charge(job[c], seen[c]) = 0
    BY <2>1, GrowthFacts
  <2>3. Charge(job[c], seen[c]) \in Nat
    BY <2>2, Numbers
  <2> HIDE DEF bytes
  <2>4. CASE bytes >= 0
    BY <2>2, <2>3, <2>4
  <2>5. CASE ~(bytes >= 0)
    <3>1. bytes <= 0
      BY <2>2, <2>5
    <3> QED BY <2>2, <2>3, <2>5, <3>1
  <2> QED BY <2>4, <2>5
<1>4. CASE bytes > 0 /\ ~fits(used, bytes)
  <2>1. Over(c) /\ UNCHANGED <<used, disk, opened, done, walk, walked, blur, allowance>>
    BY <1>4 DEF Reserve
  <2>2. used' = released(used, Owes[c]) /\ blur <= blur'
    BY <1>1, <1>2, <2>1 DEF released, Larger, Exact, Broken
  <2> QED BY <1>2, <2>1, <2>2, CallEnds
<1>5. CASE ~(bytes > 0 /\ ~fits(used, bytes))
  <2>1. /\ pc' = [pc EXCEPT ![c] = IF Closed(c) THEN "failed" ELSE "writing"]
        /\ used' = used + Charge(job[c], seen[c])
        /\ UNCHANGED <<job, seen, disk, opened, done, walk, walked, blur, allowance>>
    BY <1>5 DEF Reserve, Charge
  <2>2. pc'[c] \in {"failed", "writing"} /\ \A d \in Calls \ {c} : pc'[d] = pc[d]
    BY <1>1, <2>1 DEF TypeOK
  <2>3. /\ \A d \in Ahead' : d \in Ahead /\ job'[d] = job[d] /\ seen'[d] = seen[d]
        /\ Underway' = Underway /\ Owes'[c] = Charge(job[c], seen[c])
    BY <1>2, <2>1, <2>2 DEF Ahead, Underway, Owes, Owing
  <2>4. Weight(Owes') = Weight(Owes) + Charge(job[c], seen[c]) /\ Weight(Owes) \in Nat
    <3>1. Weight(Owes') = Weight(Owes) - Owes[c] + Owes'[c] /\ Weight(Owes) \in Nat
      BY <1>1, <2>1, <2>2, OneCallMoves, OwesFacts
    <3> QED BY <1>2, <1>3, <2>3, <3>1
  <2>5. Covered'
    <3> SUFFICES ASSUME done', blur' <= OverCounted PROVE CoveredBy(used)'
      BY DEF Covered
    <3>1. CoveredBy(used)
      BY <2>1 DEF IInv, Covered
    <3>2. \A f \in Files : SizeAt(f)' <= SizeAt(f)
      <4>1. \A f \in Files : SizeAt(f)' = SizeAt(f) /\ SizeAt(f) \in Nat
        BY <1>1, <2>1, SizeFacts, Numbers DEF SizeAt
      <4> QED BY <4>1
    <3>3. used + Weight(Owes') <= used' + Weight(Owes)
      BY <1>1, <1>3, <2>1, <2>4
    <3> QED BY <1>1, <2>3, <3>1, <3>2, <3>3, CoverStays
  <2>6. Balanced'
    <3> SUFFICES ASSUME blur' = Exact
                 PROVE  /\ done' => used' = Total(disk)' + Weight(Owes')
                        /\ \A d \in Ahead' : seen'[d] = SizeAt(Judged(job[d]))'
      BY DEF Balanced
    <3>1. done => used = Total(disk) + Weight(Owes) /\ Total(disk) \in Nat
      BY <1>1, <2>1, SizeFacts DEF IInv, Balanced
    <3>2. done' => used' = Total(disk)' + Weight(Owes')
      <4>1. Total(disk)' = Total(disk)
        BY <2>1 DEF Total
      <4> QED BY <1>1, <1>3, <2>1, <2>4, <3>1, <4>1
    <3>3. \A d \in Ahead' : seen'[d] = SizeAt(Judged(job[d]))' /\ job'[d] = job[d]
      BY <2>1, <2>3 DEF IInv, Balanced, SizeAt
    <3> QED BY <3>2, <3>3
  <2>7. Apartness' /\ LockHeld' /\ Waiting'
    BY <1>1, <1>2, <2>1, <2>2, <2>3 DEF Apartness, Meet, LockHeld, Waiting
  <2>8. done \/ blur = Broken
    BY <1>2, Measuring
  <2>9. Unmeasured'
    BY <1>1, <2>1, <2>8 DEF Unmeasured, Exact, Broken
  <2>10. CountWithinAllowance'
    <3>1. bytes > 0 => used' <= Quota
      BY <1>3, <1>5, <2>1 DEF fits
    <3>2. ~(bytes > 0) => used' = used
      BY <1>1, <1>3, <2>1
    <3> QED BY <2>1, <3>1, <3>2, FsQuotaAssumption DEF IInv, CountWithinAllowance, TypeOK
  <2> QED BY <2>5, <2>6, <2>7, <2>9, <2>10 DEF IInv
<1> QED BY <1>4, <1>5

LEMMA Untouched ==
    ASSUME TypeOK, NEW j \in Jobs, NEW f \in Files, f \notin Touched(j)
    PROVE  Done(j)[f] = disk[f]
<1>1. /\ j.at \in Files /\ f # j.at /\ (j.kind = "rename" => j.to \in Files /\ f # j.to)
      /\ j.kind \in {"writeFile", "rm", "rename", "write", "truncate"}
  BY JobFacts, FsQuotaAssumption DEF Touched
<1>2. disk \in [Files -> Sizes \cup {Absent}]
  BY DEF TypeOK
<1> QED BY <1>1, <1>2 DEF Done

LEMMA LandStep ==
    ASSUME IInv, TypeOK', NEW c \in Calls, Land(c)
    PROVE  IInv'
<1> DEFINE j == job[c]
           s == seen[c]
<1>1. /\ TypeOK /\ Waiting /\ LockHeld /\ Apartness /\ blur \in Exact .. Broken
      /\ used \in Nat
  BY DEF IInv, TypeOK
<1>2. /\ pc[c] = "writing" /\ pc' = [pc EXCEPT ![c] = "landed"] /\ disk' = Done(j)
      /\ UNCHANGED <<opened, used, done, walk, walked, job, seen, blur, allowance>>
  BY DEF Land
<1>3. j \in Jobs /\ s \in Sizes
  BY <1>1, <1>2, CallFacts
<1>4. pc'[c] = "landed" /\ \A d \in Calls \ {c} : pc'[d] = pc[d]
  BY <1>1, <1>2 DEF TypeOK
<1>5. /\ c \in Ahead /\ c \in Underway /\ Ahead' = Ahead \ {c} /\ Underway' = Underway
      /\ Owes[c] = Charge(j, s) /\ Owes'[c] = Refund(j, s)
  BY <1>2, <1>4 DEF Ahead, Underway, Owes, Owing
<1>6. /\ Growth(j, s) \in Int /\ Charge(j, s) \in Nat /\ Refund(j, s) \in Nat
      /\ Growth(j, s) = Charge(j, s) - Refund(j, s)
  <2>1. /\ Growth(j, s) \in Int /\ Charge(j, s) \in Sizes /\ Refund(j, s) \in Sizes
        /\ Growth(j, s) >= 0 => Charge(j, s) = Growth(j, s) /\ Refund(j, s) = 0
        /\ Growth(j, s) <= 0 => Charge(j, s) = 0 /\ Refund(j, s) = -Growth(j, s)
    BY <1>3, GrowthFacts
  <2>2. Charge(j, s) \in Nat /\ Refund(j, s) \in Nat
    BY <2>1, Numbers
  <2> QED BY <2>1, <2>2
<1>7. Weight(Owes') = Weight(Owes) - Charge(j, s) + Refund(j, s) /\ Weight(Owes) \in Nat
  <2>1. Weight(Owes') = Weight(Owes) - Owes[c] + Owes'[c] /\ Weight(Owes) \in Nat
    BY <1>1, <1>2, <1>4, OneCallMoves, OwesFacts
  <2> QED BY <1>5, <2>1
<1>8. \A d \in Ahead' :
          /\ d \in Ahead /\ d \in Underway /\ d # c /\ Judged(job[d]) \in Files
          /\ Judged(job[d]) \in Touched(j) => Meet(c, d)
  <2> SUFFICES ASSUME NEW d \in Ahead'
               PROVE  /\ d \in Ahead /\ d \in Underway /\ d # c /\ Judged(job[d]) \in Files
                      /\ Judged(job[d]) \in Touched(j) => Meet(c, d)
    OBVIOUS
  <2>1. d \in Ahead /\ d \in Underway /\ d # c /\ d \in Calls /\ pc[d] # "idle"
    BY <1>5 DEF Ahead, Underway
  <2>2. job[d] \in Jobs
    BY <1>1, <2>1, CallFacts
  <2>3. Judged(job[d]) \in Files /\ Judged(job[d]) \in Touched(job[d])
    BY <2>2, JobFacts
  <2> QED BY <2>1, <2>3 DEF Meet
<1>9. Covered'
  <2> SUFFICES ASSUME done', blur' <= OverCounted PROVE CoveredBy(used)'
    BY DEF Covered
  <2>1. CoveredBy(used)
    BY <1>2 DEF IInv, Covered
  <2>2. \A kept \in [Files -> Sizes] : Keeps(kept) => s <= kept[Judged(j)]
    BY <1>5 DEF Keeps
  <2>3. \A d \in Ahead' :
            /\ d \in Ahead /\ job'[d] = job[d] /\ seen'[d] = seen[d] /\ Judged(job[d]) \in Files
            /\ Shrinks(j, s) => Judged(job[d]) \notin Touched(j)
    BY <1>1, <1>2, <1>5, <1>8 DEF Apartness
  <2>4. used + Weight(Owes') + Charge(j, s) <= used' + Weight(Owes) + Refund(j, s)
    BY <1>1, <1>2, <1>6, <1>7
  <2> HIDE DEF j, s
  <2> QED BY <1>1, <1>2, <1>3, <2>1, <2>2, <2>3, <2>4, CoverLands
<1>10. Balanced'
  <2> SUFFICES ASSUME blur' = Exact
               PROVE  /\ done' => used' = Total(disk)' + Weight(Owes')
                      /\ \A d \in Ahead' : seen'[d] = SizeAt(Judged(job[d]))'
    BY <1>2 DEF Balanced, SizeAt
  <2>1. blur = Exact /\ s = SizeAt(Judged(j))
    BY <1>2, <1>5 DEF IInv, Balanced
  <2>2. done' => used' = Total(disk)' + Weight(Owes')
    <3> SUFFICES ASSUME done PROVE used = Total(disk)' + Weight(Owes')
      BY <1>2
    <3>1. used = Total(disk) + Weight(Owes) /\ Total(disk) \in Nat
      BY <1>1, <2>1, SizeFacts DEF IInv, Balanced
    <3>2. Total(Done(j)) = Total(disk) + Growth(j, s)
      BY <1>1, <1>3, <2>1, DoneGrows
    <3>3. Total(disk)' = Total(Done(j))
      BY <1>2 DEF Total
    <3> HIDE DEF j, s
    <3> QED BY <1>6, <1>7, <3>1, <3>2, <3>3
  <2>3. ASSUME NEW d \in Ahead' PROVE seen'[d] = SizeAt(Judged(job[d]))'
    <3>1. ~Meet(c, d) /\ d \in Ahead /\ Judged(job[d]) \in Files
      BY <1>1, <1>5, <1>8, <2>1 DEF Apartness
    <3>2. Done(j)[Judged(job[d])] = disk[Judged(job[d])]
      BY <1>1, <1>3, <1>8, <3>1, Untouched
    <3>3. seen[d] = SizeAt(Judged(job[d]))
      BY <2>1, <3>1 DEF IInv, Balanced
    <3> QED BY <1>2, <3>2, <3>3 DEF SizeAt
  <2> QED BY <2>2, <2>3
<1>11. Apartness' /\ LockHeld' /\ Waiting'
  <2>1. Apartness'
    BY <1>1, <1>2, <1>5 DEF Apartness, Meet
  <2> QED BY <1>1, <1>2, <1>4, <2>1 DEF LockHeld, Waiting
<1>12. done \/ blur = Broken
  BY <1>2, Measuring
<1>13. Unmeasured' /\ CountWithinAllowance'
  BY <1>1, <1>2, <1>12 DEF IInv, Unmeasured, CountWithinAllowance, Exact, Broken
<1> QED BY <1>9, <1>10, <1>11, <1>13 DEF IInv

\* Half a write is left: nothing is claimed of the count from here on.
LEMMA FailPartlyStep ==
    ASSUME IInv, TypeOK', NEW c \in Calls, NEW n \in Sizes, FailPartly(c, n)
    PROVE  IInv'
<1>1. TypeOK /\ Waiting /\ LockHeld
  BY DEF IInv
<1>2. /\ pc[c] = "writing" /\ pc' = [pc EXCEPT ![c] = "failed"] /\ blur' = Broken
      /\ UNCHANGED <<opened, used, done, walk, walked, job, seen, allowance>>
  BY DEF FailPartly
<1>3. pc'[c] = "failed" /\ \A d \in Calls \ {c} : pc'[d] = pc[d]
  BY <1>1, <1>2 DEF TypeOK
<1>4. Covered' /\ Balanced' /\ Apartness' /\ Unmeasured' /\ CountWithinAllowance'
  BY <1>2 DEF IInv, Covered, Balanced, Apartness, Unmeasured, CountWithinAllowance, Exact,
     OverCounted, Broken
<1>5. LockHeld' /\ Waiting'
  BY <1>1, <1>2, <1>3 DEF LockHeld, Waiting
<1> QED BY <1>4, <1>5 DEF IInv

\* The count a synchronous call charges: what an earlier measurement found, or its own.
LEMMA CountedNow ==
    ASSUME IInv, TypeOK', done', blur <= OverCounted
    PROVE  /\ countNow \in Nat /\ countNow <= allowance /\ CoveredBy(countNow)
           /\ blur = Exact => countNow = Total(disk) + Weight(Owes)
<1>1. TypeOK /\ used \in Nat /\ allowance \in Nat /\ done \in BOOLEAN /\ blur < Broken
      /\ Total(disk) \in Nat
  BY SizeFacts DEF IInv, TypeOK, OverCounted, Exact, Broken
<1>2. CASE done
  <2>1. countNow = used
    BY <1>2 DEF countNow
  <2> QED BY <1>1, <1>2, <2>1 DEF IInv, Covered, Balanced, CountWithinAllowance
<1>3. CASE ~done
  <2>1. /\ used = 0 /\ Total(disk) <= allowance /\ \A c \in Calls : pc[c] \in {"idle", "measuring"}
    BY <1>1, <1>3 DEF IInv, Unmeasured
  <2>2. countNow = Total(disk)
    BY <1>1, <1>3, <2>1 DEF countNow
  <2>3. Ahead = {} /\ Weight(Owes) = 0
    BY <1>1, <2>1, NothingOwed
  <2>4. CoveredBy(Total(disk))
    BY <1>1, <2>3, FilesCover
  <2> QED BY <1>1, <2>1, <2>2, <2>3, <2>4
<1> QED BY <1>2, <1>3

LEMMA SyncStep ==
    ASSUME IInv, TypeOK', NEW j \in Jobs, NEW works \in BOOLEAN, SyncCall(j, works)
    PROVE  IInv'
<1> DEFINE s == SizeAt(Judged(j))
           bytes == Growth(j, s)
<1>1. /\ TypeOK /\ Waiting /\ LockHeld /\ Apartness /\ blur \in Exact .. Broken
      /\ blur' \in Exact .. Broken /\ done' \in BOOLEAN /\ used' \in Nat
      /\ Quota <= allowance /\ allowance \in Nat
  BY DEF IInv, TypeOK, CountWithinAllowance
<1>2. /\ ~OnHandle(j) /\ disk' = Done(j)
      /\ bytes > 0 => fits(countNow, bytes)
      /\ used' = IF bytes > 0 THEN countNow + bytes ELSE released(countNow, -bytes)
      /\ blur' = Larger(blur, IF done' THEN Blur(j, s) ELSE Broken)
      /\ UNCHANGED <<opened, walk, walked, pc, job, seen, allowance>>
  BY DEF SyncCall
<1>3. Owes' = Owes /\ Ahead' = Ahead /\ Underway' = Underway /\ Weight(Owes) \in Nat
  BY <1>1, <1>2, SameCalls, OwesFacts
<1>4. blur <= blur' /\ (~done' => blur' = Broken) /\ (done' => Blur(j, s) <= blur')
  BY <1>1, <1>2, BlurFacts DEF Larger, Exact, Broken
<1>5. LockHeld' /\ Waiting' /\ Apartness'
  <2>1. Apartness'
    BY <1>1, <1>2, <1>3, <1>4, ApartStays
  <2> QED BY <1>1, <1>2, <2>1 DEF LockHeld, Waiting
<1>6. CASE ~done'
  <2>1. Covered' /\ Balanced' /\ Unmeasured' /\ CountWithinAllowance'
    BY <1>1, <1>2, <1>4, <1>6
       DEF Covered, Balanced, Unmeasured, CountWithinAllowance, Exact, OverCounted, Broken
  <2> QED BY <1>5, <2>1 DEF IInv
<1>7. CASE done' /\ ~(blur' <= OverCounted)
  <2>1. Covered' /\ Balanced' /\ Unmeasured' /\ CountWithinAllowance'
    BY <1>1, <1>2, <1>7
       DEF Covered, Balanced, Unmeasured, CountWithinAllowance, Exact, OverCounted, Broken
  <2> QED BY <1>5, <2>1 DEF IInv
<1>8. CASE done' /\ blur' <= OverCounted
  <2>1. /\ blur <= OverCounted /\ Blur(j, s) <= OverCounted
        /\ blur' = Exact => blur = Exact /\ Blur(j, s) = Exact
    <3>1. Blur(j, s) \in Exact .. Broken
      BY BlurFacts
    <3> QED BY <1>1, <1>4, <1>8, <3>1 DEF Exact, OverCounted, Broken
  <2>2. /\ countNow \in Nat /\ countNow <= allowance /\ CoveredBy(countNow)
        /\ blur = Exact => countNow = Total(disk) + Weight(Owes)
    BY <1>8, <2>1, CountedNow
  <2>3. /\ Judged(j) \in Files /\ s \in Sizes
    BY <1>1, JobFacts, SizeFacts
  <2>4. /\ bytes \in Int /\ Charge(j, s) \in Nat /\ Refund(j, s) \in Nat
        /\ bytes = Charge(j, s) - Refund(j, s)
    <3>1. /\ bytes \in Int /\ Charge(j, s) \in Sizes /\ Refund(j, s) \in Sizes
          /\ bytes >= 0 => Charge(j, s) = bytes /\ Refund(j, s) = 0
          /\ bytes <= 0 => Charge(j, s) = 0 /\ Refund(j, s) = -bytes
      BY <2>3, GrowthFacts
    <3>2. Charge(j, s) \in Nat /\ Refund(j, s) \in Nat
      BY <3>1, Numbers
    <3> QED BY <3>1, <3>2
  <2>5. /\ countNow + bytes <= used'
        /\ countNow + bytes >= 0 => used' = countNow + bytes
    <3> HIDE DEF bytes
    <3> QED BY <1>2, <2>2, <2>4 DEF released, Larger
  <2>6. \A d \in Ahead : /\ Judged(job[d]) \in Files
                         /\ Judged(job[d]) \in Touched(j) =>
                                Blur(j, s) # Exact /\ ~Shrinks(j, s)
    <3> SUFFICES ASSUME NEW d \in Ahead
                 PROVE  /\ Judged(job[d]) \in Files
                        /\ Judged(job[d]) \in Touched(j) => Blur(j, s) # Exact /\ ~Shrinks(j, s)
      OBVIOUS
    <3>1. d \in Calls /\ pc[d] # "idle" /\ d \in Underway
      BY DEF Ahead, Underway
    <3>2. job[d] \in Jobs
      BY <1>1, <3>1, CallFacts
    <3>3. Judged(job[d]) \in Files /\ Judged(job[d]) \in Touched(job[d])
      BY <3>2, JobFacts
    <3>4. {job[d].kind, j.kind} # {"truncate"}
      BY <1>2 DEF OnHandle
    <3> HIDE DEF s
    <3> QED BY <2>1, <3>1, <3>3, <3>4, MeetingBlurs
  <2>7. Covered'
    <3>1. \A kept \in [Files -> Sizes] : Keeps(kept) => s <= kept[Judged(j)]
      BY <2>3 DEF Keeps
    <3>2. \A d \in Ahead' :
              /\ d \in Ahead /\ job'[d] = job[d] /\ seen'[d] = seen[d] /\ Judged(job[d]) \in Files
              /\ Shrinks(j, s) => Judged(job[d]) \notin Touched(j)
      BY <1>2, <1>3, <2>6
    <3>3. countNow + Weight(Owes') + Charge(j, s) <= used' + Weight(Owes) + Refund(j, s)
      <4> HIDE DEF bytes, s
      <4> QED BY <1>1, <1>3, <2>2, <2>4, <2>5
    <3>4. CoveredBy(used)'
      <4> HIDE DEF bytes, s
      <4> QED BY <1>1, <1>2, <2>2, <2>3, <3>1, <3>2, <3>3, CoverLands
    <3> QED BY <3>4 DEF Covered
  <2>8. Balanced'
    <3> SUFFICES ASSUME blur' = Exact
                 PROVE  /\ used' = Total(disk)' + Weight(Owes')
                        /\ \A d \in Ahead' : seen'[d] = SizeAt(Judged(job[d]))'
      BY <1>2 DEF Balanced, SizeAt
    <3>1. used' = Total(disk)' + Weight(Owes')
      <4>1. Total(Done(j)) = Total(disk) + bytes /\ Total(disk) \in Nat
        BY <1>1, DoneGrows, SizeFacts
      <4>2. Total(disk)' = Total(Done(j)) /\ Total(Done(j)) \in Nat
        BY <1>1, <1>2, DoneType, DiskFacts DEF Total
      <4> HIDE DEF bytes
      <4> QED BY <1>3, <2>1, <2>2, <2>4, <2>5, <4>1, <4>2
    <3>2. ASSUME NEW d \in Ahead' PROVE seen'[d] = SizeAt(Judged(job[d]))'
      <4>1. d \in Ahead /\ Judged(job[d]) \in Files /\ Judged(job[d]) \notin Touched(j)
        BY <1>3, <2>1, <2>6
      <4>2. Done(j)[Judged(job[d])] = disk[Judged(job[d])]
        BY <1>1, <4>1, Untouched
      <4>3. seen[d] = SizeAt(Judged(job[d]))
        BY <2>1, <4>1 DEF IInv, Balanced
      <4> QED BY <1>2, <4>2, <4>3 DEF SizeAt
    <3> QED BY <3>1, <3>2
  <2>9. CountWithinAllowance'
    <3>1. bytes > 0 => used' <= Quota
      BY <1>2 DEF fits
    <3>2. ~(bytes > 0) => used' <= countNow
      <4> HIDE DEF bytes
      <4> QED BY <1>2, <2>2, <2>4 DEF released, Larger
    <3>3. used' <= allowance
      <4> HIDE DEF bytes
      <4> QED BY <1>1, <2>2, <3>1, <3>2, FsQuotaAssumption
    <3> QED BY <1>1, <1>2, <3>3 DEF CountWithinAllowance
  <2>10. Unmeasured'
    BY <1>8 DEF Unmeasured
  <2> QED BY <1>5, <2>7, <2>8, <2>9, <2>10 DEF IInv
<1> QED BY <1>6, <1>7, <1>8

LEMMA Inductive == IInv /\ [Next]_vars => IInv'
<1> SUFFICES ASSUME IInv, [Next]_vars PROVE IInv'
  OBVIOUS
<1>1. TypeOK'
  BY TypeStep DEF IInv
<1>2. CASE UNCHANGED vars
  <2>1. /\ disk' = disk /\ opened' = opened /\ used' = used /\ done' = done /\ pc' = pc
        /\ walk' = walk /\ walked' = walked
        /\ job' = job /\ seen' = seen /\ blur' = blur /\ allowance' = allowance
    BY <1>2 DEF vars
  <2>2. Owes' = Owes /\ Ahead' = Ahead /\ Underway' = Underway
    BY <2>1, SameCalls
  <2>3. Covered' /\ Balanced' /\ Apartness'
    BY <2>1, <2>2 DEF IInv, Covered, CoveredBy, Keeps, SizeAt, Balanced, Total, Apartness, Meet
  <2>4. LockHeld' /\ Waiting' /\ Unmeasured' /\ CountWithinAllowance'
    BY <2>1 DEF IInv, LockHeld, Waiting, Unmeasured, Total, CountWithinAllowance
  <2> QED BY <1>1, <2>3, <2>4 DEF IInv
<1>3. CASE Walk \/ Measured \/ MeasureFails \/ SyncFails \/ SyncTooLarge
  BY <1>1, <1>3, MeasureStep
<1>4. ASSUME NEW c \in Calls, Step(c) PROVE IInv'
  BY <1>1, <1>4, EarlyStep, LookStep, ReserveStep, LandStep, FailPartlyStep, EndStep DEF Step
<1>5. ASSUME NEW f \in Openable, CloseFile(f) \/ \E cuts \in BOOLEAN : OpenFile(f, cuts)
      PROVE  IInv'
  BY <1>1, <1>5, HandleStep
<1>6. ASSUME NEW j \in Jobs, NEW works \in BOOLEAN, SyncCall(j, works) PROVE IInv'
  BY <1>1, <1>6, SyncStep
<1> QED BY <1>2, <1>3, <1>4, <1>5, <1>6 DEF Next

\* What is charged for every file and every call adds up, at every turn.
THEOREM Invariant == Spec => []IInv
<1> QED BY InitEstablishes, Inductive, PTL DEF Spec

LEMMA CountCovers == IInv => CountCoversDisk
<1> SUFFICES ASSUME IInv, done, blur <= OverCounted PROVE used >= Total(disk)
  BY DEF CountCoversDisk
<1>1. /\ Held(disk) \in [Files -> Sizes] /\ \A f \in Files : SizeAt(f) = Held(disk)[f]
      /\ Total(disk) = Weight(Held(disk)) /\ Total(disk) \in Nat
  BY SizeFacts DEF IInv
<1>2. PICK kept \in [Files -> Sizes] : Keeps(kept) /\ Weight(kept) + Weight(Owes) <= used
  BY DEF IInv, Covered, CoveredBy
<1>3. Weight(Held(disk)) <= Weight(kept)
  <2>1. \A f \in Files : Held(disk)[f] <= kept[f]
    BY <1>1, <1>2 DEF Keeps
  <2> QED BY <1>1, <2>1, WeightMonotone, FsQuotaAssumption
<1>4. Weight(kept) \in Nat /\ Weight(Owes) \in Nat /\ used \in Nat
  BY <1>2, BytesFinite, FsQuotaAssumption, OwesFacts DEF IInv, TypeOK
<1> QED BY <1>1, <1>2, <1>3, <1>4

\* A reservation comes before its write and a refund after, so the count of a
\* measured origin never falls below its files, unless a call that takes bytes away
\* overlapped another on its file, or a measurement or a write failed half way.
THEOREM CountAlwaysCoversDisk == Spec => []CountCoversDisk
<1> QED BY Invariant, CountCovers, PTL

\* Short of an overlap with a call that takes bytes away, and of a measurement or a
\* write that failed half way, the files hold at most fs.quotaBytes, or what they
\* held when the session began, between the checks and the writes of any number of
\* calls (reserve, writeFile, FileHandle.write).  Nothing is said past such an
\* overlap, where the code lets the files pass the quota.
THEOREM QuotaAlwaysHoldsOnDisk == Spec => []QuotaHoldsOnDisk
<1>1. IInv => QuotaHoldsOnDisk
  <2> SUFFICES ASSUME IInv, blur <= OverCounted PROVE Total(disk) <= allowance
    BY DEF QuotaHoldsOnDisk
  <2>1. used \in Nat /\ allowance \in Nat /\ Total(disk) \in Nat /\ blur < Broken
    BY SizeFacts DEF IInv, TypeOK, Exact, OverCounted, Broken
  <2>2. CASE done
    <3>1. used >= Total(disk) /\ used <= allowance
      BY <2>2, CountCovers DEF IInv, CountCoversDisk, CountWithinAllowance
    <3> QED BY <2>1, <3>1
  <2>3. CASE ~done
    BY <2>1, <2>3 DEF IInv, Unmeasured
  <2> QED BY <2>2, <2>3
<1> QED BY <1>1, Invariant, PTL

\* When no call is between its reading of a size and its last word, the count is
\* what the files hold: nothing drifts, as long as no two calls overlapped on one
\* file (truncations of its handle apart), every size was read, no flag of open cut
\* a file, no truncation lost its handle while it ran, and no measurement or write
\* failed half way.
THEOREM CountAlwaysExact == Spec => []CountIsExact
<1>1. IInv => CountIsExact
  <2> SUFFICES ASSUME IInv, done, blur = Exact, Underway = {} PROVE used = Total(disk)
    BY DEF CountIsExact
  <2>1. \A c \in Calls : Owes[c] = 0
    BY DEF Underway, Owes, Owing
  <2>2. Weight(Owes) = 0
    BY <2>1, OwesFacts, WeightOfNothing DEF IInv
  <2>3. used = Total(disk) + Weight(Owes) /\ Total(disk) \in Nat
    BY SizeFacts DEF IInv, Balanced
  <2> QED BY <2>2, <2>3
<1> QED BY <1>1, Invariant, PTL

=============================================================================
