--------------------------- MODULE ProbeRetention ---------------------------
(***************************************************************************)
(* The on-disk lifecycle of the Stage-0 probe's compressed cache entries:  *)
(* tools/stage0-probe/src/cache_retention.rs, together with the two users  *)
(* of it in main.rs, cache_load and cache_store.                           *)
(*                                                                         *)
(* Several probe processes share one cache directory.  A reader holds a    *)
(* shared flock while gzip decompresses an entry; a writer compresses into *)
(* a private temporary file without any lock and then publishes it under   *)
(* the exclusive flock, pruning the directory before and after the rename. *)
(* A process may be killed between any two steps; the kernel then drops    *)
(* its lock, its temporary file stays, and its pid may be given to a new   *)
(* process.  Every fallible file operation may fail.                       *)
(*                                                                         *)
(* Every process is assumed to run with the same limits: the variables     *)
(* MNCS_PROBE_CACHE_MAX_* of its environment are constants of the model.   *)
(* Time is counted in ticks.  A managed file name is a number, because the *)
(* order of the names breaks ties between equal modification times.        *)
(***************************************************************************)
EXTENDS Integers, FiniteSets

CONSTANTS Proc,        \* operating system process identifiers
          Key,         \* managed names: 64 hex digits and a known suffix
          MaxBytes,    \* Limits.bytes
          MaxEntries,  \* Limits.entries
          MaxAge,      \* Limits.age, in ticks
          MaxTime,     \* bound: the clock stops here
          MaxLen,      \* bound: largest compressed length
          MaxTmp       \* bound: temporary files in the directory at a time

ASSUME RetentionAssumption ==
  /\ Key \subseteq Nat \ {0}
  /\ IsFiniteSet(Key)
  /\ MaxBytes \in Nat
  /\ MaxEntries \in Nat
  /\ MaxAge \in Nat
  /\ MaxTime \in Nat
  /\ MaxLen \in Nat
  /\ MaxTmp \in Nat \ {0}

VARIABLES now,       \* the clock
          entry,     \* managed files of the directory: name -> length, mtime
          tmp,       \* names of the temporary files in the directory
          sharedBy,  \* holders of the shared flock on .retention.lock
          exclusiveBy, \* holders of the exclusive flock
          pc,        \* where each process is
          key,       \* the managed name its operation is about
          nanos,     \* the nanosecond part of its temporary file's name
          file,      \* length and mtime of the file it compressed or opened
          scan       \* the directory listing its prune still has to consider

vars == <<now, entry, tmp, sharedBy, exclusiveBy, pc, key, nanos, file, scan>>

Time == 0 .. MaxTime
File == [len : 0 .. MaxLen, used : Time]
TmpName == [key : Key, pid : Proc, nanos : 1 .. MaxTmp]
Listing == UNION {[S -> File] : S \in SUBSET Key}
NoKey == 0
NoFile == [len |-> 0, used |-> 0]
NoListing == [k \in {} |-> NoFile]

Waiting == {"load", "publish", "maintain"}
Reading == {"leased", "parsing"}
Pruning == {"scan1", "evict1", "rename", "scan2", "evict2", "scanM", "evictM"}
Writing == {"gzip", "publish", "scan1", "evict1", "rename"}
Phases == {"dead", "idle", "gzip", "discard"} \cup Waiting \cup Reading \cup Pruning

(***************************************************************************)
(* Directory helpers.                                                      *)
(***************************************************************************)
Put(f, k, v) == [x \in DOMAIN f \cup {k} |-> IF x = k THEN v ELSE f[x]]
Drop(f, k) == [x \in DOMAIN f \ {k} |-> f[x]]

\* The bytes of the files, each a name and a place, and how many there are.
ByteSet(f) == UNION {{<< k, i >> : i \in 1 .. f[k].len} : k \in DOMAIN f}
Bytes(f) == Cardinality(ByteSet(f))
Mine(p) == [key |-> key[p], pid |-> p, nanos |-> nanos[p]]

\* Seeded fault: the listing is sorted newest first.
NewestFirst(f, k) == \A j \in DOMAIN f : f[k].used >= f[j].used

\* Entries are sorted by (mtime, path, length); k comes first.
Oldest(f, k) ==
  \A j \in DOMAIN f : \/ f[k].used < f[j].used
                      \/ f[k].used = f[j].used /\ k <= j

\* Seeded fault: the byte limit is forgotten.
ExcessWithoutBytes(f, k) == now - f[k].used > MaxAge \/ Cardinality(DOMAIN f) > MaxEntries

TooLarge(f) == Bytes(f) > MaxBytes
TooMany(f) == Cardinality(DOMAIN f) > MaxEntries

\* The loop of prune goes on with the oldest entry k.
Excess(f, k) == now - f[k].used > MaxAge \/ TooMany(f) \/ TooLarge(f)

\* The prune of p may leave its loop.
WithinLimits(f) == f # NoListing => \E k \in DOMAIN f : Oldest(f, k) /\ ~Excess(f, k)

\* Seeded fault: every temporary file counts as abandoned.
AllTemporaries == tmp

\* Temporary files whose process is not in /proc.
Abandoned == {t \in tmp : pc[t.pid] = "dead"}

Init == /\ now = 0
        /\ entry = NoListing
        /\ tmp = {}
        /\ sharedBy = {}
        /\ exclusiveBy = {}
        /\ pc = [p \in Proc |-> "dead"]
        /\ key = [p \in Proc |-> NoKey]
        /\ nanos = [p \in Proc |-> 1]
        /\ file = [p \in Proc |-> NoFile]
        /\ scan = [p \in Proc |-> NoListing]

(***************************************************************************)
(* Steps shared by the operations.                                         *)
(***************************************************************************)

\* p's operation is over; its locals are forgotten.
Forget(p, phase) == /\ pc' = [pc EXCEPT ![p] = phase]
                    /\ key' = [key EXCEPT ![p] = NoKey]
                    /\ nanos' = [nanos EXCEPT ![p] = 1]
                    /\ file' = [file EXCEPT ![p] = NoFile]
                    /\ scan' = [scan EXCEPT ![p] = NoListing]

Goto(p, phase) == pc' = [pc EXCEPT ![p] = phase]

\* Seeded fault: an exclusive lock is kept.
UnlockShared(p) == /\ sharedBy' = sharedBy \ {p}
                   /\ UNCHANGED exclusiveBy

\* Dropping the lock file's handle releases whichever lock p holds.
Unlock(p) == /\ sharedBy' = sharedBy \ {p}
             /\ exclusiveBy' = exclusiveBy \ {p}

\* Seeded fault: a writer waits for other writers only.
LockFreeOfWriters == exclusiveBy = {}

\* flock grants the exclusive lock to one process at a time.
LockFree == sharedBy = {} /\ exclusiveBy = {}

\* Seeded fault: publish renames without pruning first.
RenameAtOnce(p) == IF pc[p] = "publish" THEN "rename" ELSE "scanM"

\* publish and maintain both prune as soon as they hold the lock.
AfterLock(p) == IF pc[p] = "publish" THEN "scan1" ELSE "scanM"

Touch(k) == entry' = [entry EXCEPT ![k].used = now]

Maintaining == {"maintain", "scanM", "evictM"}

\* publish_with_limits or maintain returns an error, or a publication did not
\* store its entry: the lock goes, and cache_store removes the temporary file.
GiveUp(p) ==
  /\ Unlock(p)
  /\ IF pc[p] \in Maintaining
       THEN Forget(p, "idle")
       ELSE /\ Goto(p, "discard")
            /\ scan' = [scan EXCEPT ![p] = NoListing]
            /\ UNCHANGED <<key, nanos, file>>

(***************************************************************************)
(* Processes come and go; the clock advances.                              *)
(***************************************************************************)
Start(p) == /\ pc[p] = "dead"
            /\ Goto(p, "idle")
            /\ UNCHANGED <<now, entry, tmp, sharedBy, exclusiveBy, key, nanos, file, scan>>

Crash(p) == /\ pc[p] # "dead"
            /\ Forget(p, "dead")
            /\ Unlock(p)
            /\ UNCHANGED <<now, entry, tmp>>

Tick == /\ now < MaxTime
        /\ now' = now + 1
        /\ UNCHANGED <<entry, tmp, sharedBy, exclusiveBy, pc, key, nanos, file, scan>>

(***************************************************************************)
(* cache_load: a shared lease around gzip -dc and the parse of its output. *)
(***************************************************************************)
BeginLoad(p, k) == /\ pc[p] = "idle"
                   /\ Goto(p, "load")
                   /\ key' = [key EXCEPT ![p] = k]
                   /\ UNCHANGED <<now, entry, tmp, sharedBy, exclusiveBy, nanos, file, scan>>

ReadLease(p) == /\ pc[p] = "load"
                /\ exclusiveBy = {}
                /\ sharedBy' = sharedBy \cup {p}
                /\ Goto(p, "leased")
                /\ UNCHANGED <<now, entry, tmp, exclusiveBy, key, nanos, file, scan>>

\* read_lease returns None: a miss.
ReadLeaseFails(p) == /\ pc[p] = "load"
                     /\ Forget(p, "idle")
                     /\ UNCHANGED <<now, entry, tmp, sharedBy, exclusiveBy>>

\* gzip opens the path; without the file it exits with an error, a miss.
OpenEntry(p) == /\ pc[p] = "leased"
                /\ \/ /\ key[p] \in DOMAIN entry
                      /\ file' = [file EXCEPT ![p] = entry[key[p]]]
                      /\ Goto(p, "parsing")
                      /\ UNCHANGED <<sharedBy, exclusiveBy, key, nanos, scan>>
                   \/ /\ key[p] \notin DOMAIN entry
                      /\ Forget(p, "idle")
                      /\ Unlock(p)
                /\ UNCHANGED <<now, entry, tmp>>

\* The parse rejects the entry, or accepts it and touches the path.
FinishLoad(p) == /\ pc[p] = "parsing"
                 /\ \/ entry' = entry
                    \/ /\ key[p] \in DOMAIN entry
                       /\ Touch(key[p])
                 /\ Forget(p, "idle")
                 /\ Unlock(p)
                 /\ UNCHANGED <<now, tmp>>

(***************************************************************************)
(* cache_store: compress into a temporary file, then publish it.           *)
(***************************************************************************)
BeginStore(p, k) ==
  /\ pc[p] = "idle"
  /\ Cardinality(tmp) < MaxTmp
  /\ \E n \in 1 .. MaxTmp :
       LET t == [key |-> k, pid |-> p, nanos |-> n] IN
       /\ t \notin tmp
       /\ \A m \in 1 .. (n - 1) : [t EXCEPT !.nanos = m] \in tmp
       /\ tmp' = tmp \cup {t}
       /\ nanos' = [nanos EXCEPT ![p] = n]
  /\ key' = [key EXCEPT ![p] = k]
  /\ Goto(p, "gzip")
  /\ UNCHANGED <<now, entry, sharedBy, exclusiveBy, file, scan>>

GzipSucceeds(p) == /\ pc[p] = "gzip"
                   /\ \E l \in 1 .. MaxLen :
                        file' = [file EXCEPT ![p] = [len |-> l, used |-> now]]
                   /\ Goto(p, "publish")
                   /\ UNCHANGED <<now, entry, tmp, sharedBy, exclusiveBy, key, nanos, scan>>

GzipFails(p) == /\ pc[p] = "gzip"
                /\ Goto(p, "discard")
                /\ UNCHANGED <<now, entry, tmp, sharedBy, exclusiveBy, key, nanos, file, scan>>

BeginMaintain(p) == /\ pc[p] = "idle"
                    /\ Goto(p, "maintain")
                    /\ UNCHANGED <<now, entry, tmp, sharedBy, exclusiveBy, key, nanos, file, scan>>

LockExclusive(p) == /\ pc[p] \in {"publish", "maintain"}
                    /\ LockFree
                    /\ exclusiveBy' = exclusiveBy \cup {p}
                    /\ Goto(p, AfterLock(p))
                    /\ UNCHANGED <<now, entry, tmp, sharedBy, key, nanos, file, scan>>

LockFails(p) == /\ pc[p] \in {"publish", "maintain"}
                /\ GiveUp(p)
                /\ UNCHANGED <<now, entry, tmp>>

\* The first loop of prune: abandoned temporary files go, entries are listed.
Scan(p) == /\ pc[p] \in {"scan1", "scan2", "scanM"}
           /\ tmp' = tmp \ Abandoned
           /\ scan' = [scan EXCEPT ![p] = entry]
           /\ Goto(p, CASE pc[p] = "scan1" -> "evict1"
                        [] pc[p] = "scan2" -> "evict2"
                        [] pc[p] = "scanM" -> "evictM")
           /\ UNCHANGED <<now, entry, sharedBy, exclusiveBy, key, nanos, file>>

ScanFails(p) == /\ pc[p] \in {"scan1", "scan2", "scanM"}
                /\ \E S \in SUBSET Abandoned : tmp' = tmp \ S
                /\ GiveUp(p)
                /\ UNCHANGED <<now, entry>>

\* One turn of the second loop of prune.
Evict(p) == /\ pc[p] \in {"evict1", "evict2", "evictM"}
            /\ \E k \in DOMAIN scan[p] :
                 /\ Oldest(scan[p], k)
                 /\ Excess(scan[p], k)
                 /\ k \in DOMAIN entry
                 /\ entry' = Drop(entry, k)
                 /\ scan' = [scan EXCEPT ![p] = Drop(scan[p], k)]
            /\ UNCHANGED <<now, tmp, sharedBy, exclusiveBy, pc, key, nanos, file>>

EvictFails(p) == /\ pc[p] \in {"evict1", "evict2", "evictM"}
                 /\ ~WithinLimits(scan[p])
                 /\ GiveUp(p)
                 /\ UNCHANGED <<now, entry, tmp>>

\* prune returns Ok: to the rename, or out of publish or maintain.
PruneDone(p) ==
  /\ WithinLimits(scan[p])
  /\ \/ /\ pc[p] = "evict1"
        /\ Goto(p, "rename")
        /\ scan' = [scan EXCEPT ![p] = NoListing]
        /\ UNCHANGED <<sharedBy, exclusiveBy, key, nanos, file>>
     \/ /\ \/ pc[p] = "evictM"
           \/ pc[p] = "evict2" /\ key[p] \in DOMAIN entry
        /\ Forget(p, "idle")
        /\ Unlock(p)
     \/ /\ pc[p] = "evict2" /\ key[p] \notin DOMAIN entry
        /\ GiveUp(p)
  /\ UNCHANGED <<now, entry, tmp>>

\* An entry that could never fit is not published at all.
Oversized(p) == MaxEntries = 0 \/ file[p].len > MaxBytes

Rename(p) == /\ pc[p] = "rename"
             /\ Mine(p) \in tmp
             /\ tmp' = tmp \ {Mine(p)}
             /\ \/ /\ Oversized(p)
                   /\ GiveUp(p)
                   /\ UNCHANGED entry
                \/ /\ ~Oversized(p)
                   /\ entry' = Put(entry, key[p], file[p])
                   /\ Goto(p, "scan2")
                   /\ UNCHANGED <<sharedBy, exclusiveBy, key, nanos, file, scan>>
             /\ UNCHANGED now

RenameFails(p) == /\ pc[p] = "rename"
                  /\ GiveUp(p)
                  /\ UNCHANGED <<now, entry, tmp>>

\* The error paths of cache_store remove the temporary file and ignore the result.
Discard(p) == /\ pc[p] = "discard"
              /\ \/ tmp' = tmp \ {Mine(p)}
                 \/ tmp' = tmp
              /\ Forget(p, "idle")
              /\ UNCHANGED <<now, entry, sharedBy, exclusiveBy>>

Load(p) == ReadLease(p) \/ ReadLeaseFails(p) \/ OpenEntry(p) \/ FinishLoad(p)
Compress(p) == GzipSucceeds(p) \/ GzipFails(p) \/ Discard(p)
Publish(p) == LockExclusive(p) \/ LockFails(p) \/ Rename(p) \/ RenameFails(p)
Prune(p) == Scan(p) \/ ScanFails(p) \/ Evict(p) \/ EvictFails(p) \/ PruneDone(p)

\* What a process does by itself once an operation has begun.
Step(p) == Load(p) \/ Compress(p) \/ Publish(p) \/ Prune(p)

Next == \/ Tick
        \/ \E p \in Proc : \/ Start(p) \/ Crash(p) \/ BeginMaintain(p) \/ Step(p)
                           \/ \E k \in Key : BeginLoad(p, k) \/ BeginStore(p, k)

Spec == Init /\ [][Next]_vars

\* A process that is running does go on with the operation it began.
FairSpec == Spec /\ \A p \in Proc : WF_vars(Step(p))

(***************************************************************************)
(* Properties.                                                             *)
(***************************************************************************)

\* Every variable has its type, and no file is newer than the clock.
TypeOK == /\ now \in Time
          /\ entry \in Listing
          /\ \A k \in DOMAIN entry : entry[k].used <= now
          /\ tmp \subseteq TmpName
          /\ sharedBy \subseteq Proc
          /\ exclusiveBy \subseteq Proc
          /\ pc \in [Proc -> Phases]
          /\ key \in [Proc -> Key \cup {NoKey}]
          /\ nanos \in [Proc -> 1 .. MaxTmp]
          /\ file \in [Proc -> File]
          /\ scan \in [Proc -> Listing]

\* Active cache readers finish before eviction (README.md): from the moment
\* gzip has opened an entry until cache_load returns, neither prune nor a
\* publication of the same name removes or replaces the file it decompresses.
ReadersKeepTheirEntry ==
  \A p \in Proc : pc[p] = "parsing" => /\ key[p] \in DOMAIN entry
                                       /\ entry[key[p]].len = file[p].len

\* prune never reaps the temporary file of a process that is still on its way
\* to renaming it, whatever other processes crash and prune meanwhile.
LiveTemporaryKept == \A p \in Proc : pc[p] \in Writing => Mine(p) \in tmp

\* Nobody loses a file in use: the entry a cache_load has opened stays, and so
\* does the temporary file a cache_store is still to rename, although gzip
\* reads the one under a shared lock only and writes the other under none.
FilesInUseAreKept == ReadersKeepTheirEntry /\ LiveTemporaryKept

\* The directory stays bounded through crashes and failed removals at any
\* step: publish prunes before it renames, so an unfinished second prune
\* leaves at most one entry, of at most MaxBytes, more than the limits.
EntriesBounded == Cardinality(DOMAIN entry) <= MaxEntries + 1
BytesBounded == Bytes(entry) <= 2 * MaxBytes
BoundedDespiteFailures == EntriesBounded /\ BytesBounded

\* publish reports success only when the entry is in the directory and the
\* directory is within both limits.
Published ==
  \A p \in Proc : pc[p] = "evict2" /\ pc'[p] = "idle"
                  => key[p] \in DOMAIN entry' /\ ~TooLarge(entry') /\ ~TooMany(entry')
PublishedWithinLimits == [][Published]_vars

\* Whatever step removes an entry, it was over a limit or expired at that
\* moment, and every entry that stays was used at least as recently: the
\* recency prune sorted by is not stale when it removes a file.
Justified ==
  \A k \in DOMAIN entry \ DOMAIN entry' :
    /\ Excess(entry, k)
    /\ \A j \in DOMAIN entry' : entry[k].used <= entry'[j].used
EvictionIsLeastRecent == [][Justified]_vars

\* A process that holds the retention lock lets go of it (or dies): the loop
\* of prune ends and every error path drops the lease.
LockIsReleased ==
  \A p \in Proc : (p \in exclusiveBy \cup sharedBy) ~> (p \notin exclusiveBy \cup sharedBy)
=============================================================================
