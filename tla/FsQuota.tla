------------------------------ MODULE FsQuota ------------------------------
(***************************************************************************)
(* The byte quota of one origin's files: the count kept by                 *)
(* src/broker/grants/resource-limits.ts, charged and refunded by           *)
(* src/broker/capabilities/fs.ts and fs-handle-wrapper.ts around file      *)
(* operations that take several turns each.                                *)
(*                                                                         *)
(* A call reads the size of a file, charges in a later turn, writes, and   *)
(* gives back in a turn later still; the synchronous calls do all of it in *)
(* one turn, between any two turns of the others.                          *)
(*                                                                         *)
(* Left out: files outside the origin's tree (user-selected.ts charges     *)
(* their whole length and never gives it back); FileHandle.writable, which *)
(* no page reaches (a page writes through positional writes); handles that *)
(* append; a second handle on a file, and removing or renaming a file that *)
(* is open, whose bytes stay on disk uncounted (capabilities/README.md);   *)
(* forgetting an origin, which zeroes the count.  A revoked call does not  *)
(* stop: run only stops waiting for it.                                    *)
(***************************************************************************)
EXTENDS Integers, FiniteSets

CONSTANTS
    Files,           \* paths in the origin's tree
    Openable,        \* bound of the model: those the origin opens a handle on
    Calls,           \* asynchronous calls
    Kinds,           \* which operations the origin uses
    MaxSize,         \* bound of the model: the largest file
    Quota,           \* fs.quotaBytes of the manifest
    Absent,          \* no file at the path
    None

Sizes == 0 .. MaxSize

\* What a call asks for.  `len' is the length a whole-file write or a truncation
\* leaves; for a positional write it is the position its data end at.
Jobs ==
    {j \in [kind : {"writeFile"}, at : Files, to : {None}, len : Sizes]
           \cup [kind : {"rm"}, at : Files, to : {None}, len : {0}]
           \cup [kind : {"rename"}, at : Files, to : Files, len : {0}]
           \cup [kind : {"write", "truncate"}, at : Openable, to : {None}, len : Sizes] :
     j.kind \in Kinds}

ASSUME FsQuotaAssumption ==
    /\ IsFiniteSet(Files) /\ Openable \subseteq Files /\ IsFiniteSet(Calls)
    /\ Kinds \subseteq {"writeFile", "rm", "rename", "write", "truncate"}
    /\ MaxSize \in Nat /\ Quota \in Nat
    /\ Absent \notin Sizes /\ None \notin Files \cup Jobs

OnHandle(j) == j.kind \in {"write", "truncate"}

Moves(j) == j.kind \in {"rm", "rename"}

VARIABLES
    disk,            \* the size of the file at each path
    opened,          \* the files with an open handle, one each
    used,            \* OriginRecord.fsBytesUsed
    done,            \* measuredDone
    walk,            \* the pending measurement: "no", "walking" or "walked"
    walked,          \* what it found
    pc,              \* where each call is suspended
    job,             \* what it does
    seen,            \* the size it read
    blur,            \* history: what may have set the count off the disk
    allowance        \* history: the quota, or what the files held at the start

vars == <<disk, opened, used, done, walk, walked, pc, job, seen, blur, allowance>>

Stages == {"idle", "measuring", "queued", "looking", "looked", "writing", "landed", "failed"}

\* The worst that happened to the count.  0: nothing.  1: two calls had read the
\* size of one file at once and neither takes bytes away, or a size could not be
\* read, a truncation was cut off from its refund, or opening a file cut it.  2: two
\* calls had, and one takes some.  3: a measurement failed, or a failed write left a
\* piece of a file.
Exact == 0
OverCounted == 1
Overlapped == 2
Broken == 3

SizeAt(f) == IF disk[f] = Absent THEN 0 ELSE disk[f]

\* The bytes of files of these sizes, one for each place in a file.
Bytes(sizes) == {b \in (DOMAIN sizes) \X (1 .. MaxSize) : b[2] <= sizes[b[1]]}

\* diskUsage of the origin's root.
Total(d) == Cardinality(Bytes([f \in Files |-> IF d[f] = Absent THEN 0 ELSE d[f]]))

Larger(a, b) == IF a > b THEN a ELSE b

Init ==
    /\ disk \in [Files -> Sizes \cup {Absent}]
    /\ opened = {}
    /\ used = 0 /\ done = FALSE /\ walk = "no" /\ walked = 0
    /\ pc = [c \in Calls |-> "idle"]
    /\ job = [c \in Calls |-> None]
    /\ seen = [c \in Calls |-> 0]
    /\ blur = Exact
    /\ allowance = Larger(Quota, Total(disk))

-----------------------------------------------------------------------------
(* resource-limits.ts *)

\* Faulty variant: the bytes asked for are not in the comparison.
fitsBefore(count, bytes) == count <= Quota

\* reserveFsBytes' verdict.
fits(count, bytes) == count + bytes <= Quota

\* Faulty variant: a refund may take the count below zero.
releasedUnclamped(count, bytes) == count - bytes

\* releaseFsBytes.
released(count, bytes) == Larger(0, count - bytes)

-----------------------------------------------------------------------------
(* What a job reads, charges and does *)

\* The file whose size the job reads: the one a rename replaces.
Judged(j) == IF j.kind = "rename" THEN j.to ELSE j.at

\* Faulty variant: renaming a file to itself gives its bytes back.
GrowthOfAnyRename(j, s) ==
    CASE j.kind \in {"writeFile", "truncate"} -> j.len - s
      [] j.kind = "write" -> Larger(0, j.len - s)
      [] Moves(j) -> -s

\* The bytes to charge, or below zero to give back, when the file held s.
Growth(j, s) ==
    CASE j.kind \in {"writeFile", "truncate"} -> j.len - s
      [] j.kind = "write" -> Larger(0, j.len - s)
      [] j.kind = "rm" -> -s
      [] j.kind = "rename" -> IF j.at = j.to THEN 0 ELSE -s

\* The files after the job.
Done(j) ==
    CASE j.kind \in {"writeFile", "truncate"} -> [disk EXCEPT ![j.at] = j.len]
      [] j.kind = "write" -> [disk EXCEPT ![j.at] = Larger(SizeAt(j.at), j.len)]
      [] j.kind = "rm" -> [disk EXCEPT ![j.at] = Absent]
      [] j.kind = "rename" ->
            IF j.at = j.to THEN disk ELSE [disk EXCEPT ![j.to] = disk[j.at], ![j.at] = Absent]

Touched(j) == {j.at, j.to} \ {None}

\* Removing or renaming needs a file, writing makes one.
Possible(j) == Moves(j) => disk[j.at] # Absent

\* Bound of the model: no open file is removed, renamed or replaced.
Apart(j) == Moves(j) => Touched(j) \cap opened = {}

\* The calls between their reading of a size and their last word to the ledger.
Underway == {c \in Calls : pc[c] \in {"looked", "writing", "landed", "failed"}}

\* The call was made on a handle that has closed since.
Closed(c) == OnHandle(job[c]) /\ job[c].at \notin opened

\* A job that takes bytes from a path: a shrinking write, a removal, a move.
Shrinks(j, s) == Growth(j, s) < 0 \/ (j.kind = "rename" /\ j.at # j.to)

\* How a job that reads s now may blur the count: any two jobs on one file may,
\* except two truncations of its handle.
Blur(j, s) ==
    LET met == {c \in Underway : /\ Touched(job[c]) \cap Touched(j) # {}
                                 /\ {job[c].kind, j.kind} # {"truncate"}}
        takes == Shrinks(j, s) \/ \E c \in met : Shrinks(job[c], seen[c])
    IN  IF met = {} THEN Exact ELSE IF takes THEN Overlapped ELSE OverCounted

-----------------------------------------------------------------------------
(* ensureMeasured *)

\* The walk of the origin's tree ends; nothing in it was charged yet.
Walk ==
    /\ walk = "walking"
    /\ walk' = "walked"
    /\ walked' = Total(disk)
    /\ UNCHANGED <<disk, opened, used, done, pc, job, seen, blur, allowance>>

\* Everyone who waited for the measurement goes on, whatever became of it.
Awaited == [c \in Calls |-> IF pc[c] = "measuring" THEN "looking" ELSE pc[c]]

\* Faulty variant: that a synchronous call measured in the meantime is not seen.
MeasuredTwice ==
    /\ walk = "walked"
    /\ walk' = "no"
    /\ walked' = 0
    /\ used' = used + walked
    /\ done' = TRUE
    /\ pc' = Awaited
    /\ UNCHANGED <<disk, opened, job, seen, blur, allowance>>

\* A synchronous call may have measured in the meantime.
Measured ==
    /\ walk = "walked"
    /\ walk' = "no"
    /\ walked' = 0
    /\ used' = IF done THEN used ELSE used + walked
    /\ done' = TRUE
    /\ pc' = Awaited
    /\ UNCHANGED <<disk, opened, job, seen, blur, allowance>>

\* A failed measurement starts from zero and is retried by the next call.
MeasureFails ==
    /\ walk = "walking"
    /\ walk' = "no"
    /\ pc' = Awaited
    /\ blur' = IF done THEN blur ELSE Broken
    /\ UNCHANGED <<disk, opened, used, done, walked, job, seen, allowance>>

-----------------------------------------------------------------------------
(* Handles *)

\* fs.open: measured before, or tried to.  A flag that cuts the file gives nothing
\* back.  Bound of the model: one handle on a file.
OpenFile(f, cuts) ==
    /\ f \in Openable \ opened
    /\ done \/ blur = Broken
    /\ \A c \in Calls : job[c] # None /\ f \in Touched(job[c]) => job[c].kind = "writeFile"
    /\ opened' = opened \cup {f}
    /\ disk' = [disk EXCEPT ![f] = IF cuts THEN 0 ELSE SizeAt(f)]
    /\ blur' = IF cuts /\ SizeAt(f) > 0 THEN Larger(blur, OverCounted) ELSE blur
    /\ UNCHANGED <<used, done, walk, walked, pc, job, seen, allowance>>

\* The page closes it, or a revocation does.
CloseFile(f) ==
    /\ f \in opened
    /\ opened' = opened \ {f}
    /\ UNCHANGED <<disk, used, done, walk, walked, pc, job, seen, blur, allowance>>

-----------------------------------------------------------------------------
(* Asynchronous calls *)

\* The call has returned; the model uses its name for a later one.
Over(c) ==
    /\ pc' = [pc EXCEPT ![c] = "idle"]
    /\ job' = [job EXCEPT ![c] = None]
    /\ seen' = [seen EXCEPT ![c] = 0]

\* writeFile, rm and rename: measure first.
Begin(c, j) ==
    /\ pc[c] = "idle"
    /\ ~OnHandle(j) /\ Apart(j)
    /\ job' = [job EXCEPT ![c] = j]
    /\ pc' = [pc EXCEPT ![c] = IF done THEN "looking" ELSE "measuring"]
    /\ walk' = IF ~done /\ walk = "no" THEN "walking" ELSE walk
    /\ UNCHANGED <<disk, opened, used, done, walked, seen, blur, allowance>>

\* FileHandle.write and truncate.
BeginOnHandle(c, j) ==
    /\ pc[c] = "idle"
    /\ OnHandle(j) /\ j.at \in opened
    /\ job' = [job EXCEPT ![c] = j]
    /\ pc' = [pc EXCEPT ![c] = IF j.kind = "truncate" THEN "queued" ELSE "looking"]
    /\ UNCHANGED <<disk, opened, used, done, walk, walked, seen, blur, allowance>>

\* withTruncateLock: one truncation of a handle at a time.
LockTaken(c) ==
    /\ pc[c] = "queued"
    /\ ~ \E x \in Calls \ {c} :
            /\ pc[x] \notin {"idle", "queued"}
            /\ job[x].kind = "truncate" /\ job[x].at = job[c].at
    /\ pc' = [pc EXCEPT ![c] = "looking"]
    /\ UNCHANGED <<disk, opened, used, done, walk, walked, job, seen, blur, allowance>>

\* The size is read.
Look(c) ==
    LET s == SizeAt(Judged(job[c])) IN
    /\ pc[c] = "looking"
    /\ ~Closed(c)
    /\ pc' = [pc EXCEPT ![c] = "looked"]
    /\ seen' = [seen EXCEPT ![c] = s]
    /\ blur' = Larger(blur, Blur(job[c], s))
    /\ UNCHANGED <<disk, opened, used, done, walk, walked, job, allowance>>

\* It cannot be: on a path that counts as no file, on a handle it ends the call.
LookFails(c) ==
    /\ pc[c] = "looking"
    /\ IF OnHandle(job[c])
       THEN Over(c) /\ UNCHANGED blur
       ELSE /\ pc' = [pc EXCEPT ![c] = "looked"]
            /\ blur' = Larger(Larger(blur, Blur(job[c], 0)), OverCounted)
            /\ UNCHANGED <<job, seen>>
    /\ UNCHANGED <<disk, opened, used, done, walk, walked, allowance>>

\* The growth is checked and reserved in one turn, and the operation starts unless
\* the handle closed; or the call is refused with 'limit'.
Reserve(c) ==
    LET bytes == Growth(job[c], seen[c]) IN
    /\ pc[c] = "looked"
    /\ IF bytes > 0 /\ ~fits(used, bytes)
       THEN Over(c) /\ UNCHANGED used
       ELSE /\ pc' = [pc EXCEPT ![c] = IF Closed(c) THEN "failed" ELSE "writing"]
            /\ used' = used + Larger(0, bytes)
            /\ UNCHANGED <<job, seen>>
    /\ UNCHANGED <<disk, opened, done, walk, walked, blur, allowance>>

\* The operation takes effect.
Land(c) ==
    /\ pc[c] = "writing"
    /\ Possible(job[c]) /\ Apart(job[c])
    /\ disk' = Done(job[c])
    /\ pc' = [pc EXCEPT ![c] = "landed"]
    /\ UNCHANGED <<opened, used, done, walk, walked, job, seen, blur, allowance>>

\* A whole-file write truncates first and writes piece by piece: one that fails
\* on the way (a full disk) leaves any part of the file.
FailPartly(c, n) ==
    /\ pc[c] = "writing"
    /\ job[c].kind = "writeFile" /\ n <= job[c].len
    /\ disk' = [disk EXCEPT ![job[c].at] = n]
    /\ pc' = [pc EXCEPT ![c] = "failed"]
    /\ blur' = Broken
    /\ UNCHANGED <<opened, used, done, walk, walked, job, seen, allowance>>

\* The operation failed or never started: its charge is given back.
GiveBack(c) ==
    /\ pc[c] \in {"writing", "failed"}
    /\ Over(c)
    /\ used' = released(used, Larger(0, Growth(job[c], seen[c])))
    /\ UNCHANGED <<disk, opened, done, walk, walked, blur, allowance>>

\* It succeeded: what it freed is given back.
Settle(c) ==
    /\ pc[c] = "landed"
    /\ Over(c)
    /\ used' = released(used, Larger(0, -Growth(job[c], seen[c])))
    /\ UNCHANGED <<disk, opened, done, walk, walked, blur, allowance>>

\* A truncation whose handle closes while it runs rejects before its refund.
CutOff(c) ==
    /\ pc[c] = "landed"
    /\ job[c].kind = "truncate" /\ Closed(c)
    /\ Over(c)
    /\ blur' = Larger(blur, OverCounted)
    /\ UNCHANGED <<disk, opened, used, done, walk, walked, allowance>>

-----------------------------------------------------------------------------
(* The synchronous calls: measure, charge, write and refund in one turn *)

\* ensureMeasuredSync: its walk works, or fails and counts as nothing.
MeasureNow(works) ==
    /\ done => works
    /\ done' = (done \/ works)

countNow == IF done' /\ ~done THEN used + Total(disk) ELSE used

\* The call goes through.
SyncCall(j, works) ==
    LET s == SizeAt(Judged(j))
        bytes == Growth(j, s)
    IN  /\ ~OnHandle(j) /\ Apart(j) /\ Possible(j)
        /\ MeasureNow(works)
        /\ bytes > 0 => fits(countNow, bytes)
        /\ used' = IF bytes > 0 THEN countNow + bytes ELSE released(countNow, -bytes)
        /\ disk' = Done(j)
        /\ blur' = Larger(blur, IF done' THEN Blur(j, s) ELSE Broken)
        /\ UNCHANGED <<opened, walk, walked, pc, job, seen, allowance>>

\* It is refused or fails with nothing written: only the measurement remains.
SyncFails ==
    /\ ~done
    /\ MeasureNow(TRUE)
    /\ used' = countNow
    /\ UNCHANGED <<disk, opened, walk, walked, pc, job, seen, blur, allowance>>

\* The tree is too large to walk in one turn: refused, and measured behind.
SyncTooLarge ==
    /\ ~done
    /\ walk = "no"
    /\ walk' = "walking"
    /\ UNCHANGED <<disk, opened, used, done, walked, pc, job, seen, blur, allowance>>

-----------------------------------------------------------------------------

Step(c) ==
    \/ \E j \in Jobs : Begin(c, j) \/ BeginOnHandle(c, j)
    \/ LockTaken(c)
    \/ Look(c)
    \/ LookFails(c)
    \/ Reserve(c)
    \/ Land(c)
    \/ \E n \in Sizes : FailPartly(c, n)
    \/ GiveBack(c)
    \/ Settle(c)
    \/ CutOff(c)

Next ==
    \/ Walk \/ Measured \/ MeasureFails
    \/ \E c \in Calls : Step(c)
    \/ \E f \in Openable : CloseFile(f) \/ \E cuts \in BOOLEAN : OpenFile(f, cuts)
    \/ \E j \in Jobs, works \in BOOLEAN : SyncCall(j, works)
    \/ SyncFails \/ SyncTooLarge

Spec == Init /\ [][Next]_vars

-----------------------------------------------------------------------------
(* Properties *)

\* Every variable has its shape, and a call is idle exactly when it has no job.
TypeOK ==
    /\ disk \in [Files -> Sizes \cup {Absent}]
    /\ opened \subseteq Openable
    /\ used \in Nat /\ walked \in Nat
    /\ done \in BOOLEAN /\ walk \in {"no", "walking", "walked"}
    /\ pc \in [Calls -> Stages]
    /\ job \in [Calls -> Jobs \cup {None}]
    /\ seen \in [Calls -> Sizes]
    /\ blur \in Exact .. Broken /\ allowance \in Nat
    /\ \A c \in Calls : pc[c] = "idle" <=> job[c] = None

\* Once measured, the count is at no turn below what the files hold, unless a
\* call that takes bytes away overlapped another on its file or a measurement or
\* a write failed half way: reservations come before writes, refunds after.
CountCoversDisk ==
    done /\ blur <= OverCounted => used >= Total(disk)

\* The quota holds on disk, not only in the count: the files hold at most
\* fs.quotaBytes, or what they held when the session began, between the checks and
\* the writes of calls that grow files, on one path or on several - unless a call
\* that takes bytes away overlapped another on its file, or a measurement or a write
\* failed half way.  After such an overlap the count is below the disk and reserve
\* lets the files pass the quota, though manifest.ts calls it "ENFORCED, not
\* advisory": see OverlapOnlyOverCounts.
QuotaHoldsOnDisk ==
    blur <= OverCounted => Total(disk) <= allowance

\* Nothing drifts: when nothing is under way the count is exactly what the files
\* hold, however many calls were refused, failed with nothing written, gave back,
\* measured at once or truncated one handle together (capabilities/README.md, "the
\* quota counts what the files occupy") - as long as no two other calls overlapped
\* on one file, no size was unreadable, no flag of open cut a file, no truncation
\* lost its handle while it ran, and no measurement or write failed half way
\* (blur = Exact).
CountIsExact ==
    done /\ blur = Exact /\ Underway = {} => used = Total(disk)

\* fs.ts, writeFile: concurrent writes to one path each charge their own growth,
\* which can only over-count.
OverlapOnlyOverCounts ==
    done /\ blur <= Overlapped => used >= Total(disk)

=============================================================================
