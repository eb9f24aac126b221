------------------------ MODULE ProbeRetentionProofs ------------------------
(***************************************************************************)
(* Proofs about ProbeRetention for every number of processes, names and    *)
(* every choice of the limits: its typing, the lock discipline, and the    *)
(* promises made to readers and to writers that are still compressing.     *)
(***************************************************************************)
EXTENDS ProbeRetention, FiniteSetTheorems, TLAPS

(***************************************************************************)
(* Listings.                                                               *)
(***************************************************************************)

\* A listing is a function from some managed names to files.
LEMMA ListingElim ==
  ASSUME NEW f \in Listing
  PROVE  /\ DOMAIN f \subseteq Key
         /\ \A k \in DOMAIN f : f[k] \in File
         /\ f = [k \in DOMAIN f |-> f[k]]
BY DEF Listing

\* Any such function is a listing.
LEMMA ListingIntro ==
  ASSUME NEW f, DOMAIN f \subseteq Key, \A k \in DOMAIN f : f[k] \in File,
         f = [k \in DOMAIN f |-> f[k]]
  PROVE  f \in Listing
<1>1. f \in [DOMAIN f -> File]
  OBVIOUS
<1> QED
  BY <1>1 DEF Listing

\* The empty directory is a listing.
LEMMA NoListingType == NoListing \in Listing /\ DOMAIN NoListing = {}
<1>1. DOMAIN NoListing = {}
  BY DEF NoListing
<1>2. NoListing \in [{} -> File]
  BY DEF NoListing
<1> QED
  BY <1>1, <1>2 DEF Listing

\* Renaming a compressed file over a managed name keeps a listing a listing.
LEMMA PutType ==
  ASSUME NEW f \in Listing, NEW k \in Key, NEW v \in File
  PROVE  /\ Put(f, k, v) \in Listing
         /\ DOMAIN Put(f, k, v) = DOMAIN f \cup {k}
         /\ Put(f, k, v)[k] = v
         /\ \A j \in DOMAIN f \ {k} : Put(f, k, v)[j] = f[j]
<1>1. DOMAIN f \subseteq Key /\ \A j \in DOMAIN f : f[j] \in File
  BY ListingElim
<1> QED
  BY <1>1, ListingIntro DEF Put

\* So does removing a managed name.
LEMMA DropType ==
  ASSUME NEW f \in Listing, NEW k
  PROVE  /\ Drop(f, k) \in Listing
         /\ DOMAIN Drop(f, k) = DOMAIN f \ {k}
         /\ \A j \in DOMAIN f \ {k} : Drop(f, k)[j] = f[j]
<1>1. DOMAIN f \subseteq Key /\ \A j \in DOMAIN f : f[j] \in File
  BY ListingElim
<1> QED
  BY <1>1, ListingIntro DEF Drop

(***************************************************************************)
(* Typing.  BusyHasKey is what the type of a temporary file's name needs.  *)
(***************************************************************************)

\* An operation that has begun, maintenance excepted, is about a managed name.
BusyHasKey == \A p \in Proc :
  pc[p] \in Reading \cup Writing \cup {"load", "scan2", "evict2"} => key[p] \in Key

\* A file that was compressed or opened is not newer than the clock.
NotNewer == \A p \in Proc : file[p].used <= now

Typed == TypeOK /\ BusyHasKey /\ NotNewer

\* Init establishes the types.
LEMMA TypedInit == Init => Typed
<1> SUFFICES ASSUME Init PROVE Typed
  OBVIOUS
<1>1. NoFile \in File /\ now \in Time
  BY RetentionAssumption DEF NoFile, File, Time, Init
<1>2. nanos \in [Proc -> 1 .. MaxTmp]
  BY RetentionAssumption DEF Init
<1> QED
  BY <1>1, <1>2, NoListingType DEF Init, Typed, TypeOK, BusyHasKey, NotNewer, Phases, Reading, Writing, NoKey, NoFile

\* The types of the next locals, for a step that may also move the clock.
LocalsTypedNext == /\ pc' \in [Proc -> Phases]
                   /\ key' \in [Proc -> Key \cup {NoKey}]
                   /\ nanos' \in [Proc -> 1 .. MaxTmp]
                   /\ file' \in [Proc -> File]
                   /\ scan' \in [Proc -> Listing]
                   /\ BusyHasKey'
                   /\ now' = now => NotNewer'

\* Forgetting or redirecting a process keeps the types of its locals.
LEMMA LocalTypes ==
  ASSUME Typed, NEW p \in Proc
  PROVE  /\ \A s \in Phases : Goto(p, s) => pc' \in [Proc -> Phases]
         /\ \A s \in {"dead", "idle"} :
              Forget(p, s) => LocalsTypedNext
         /\ GiveUp(p) => LocalsTypedNext
         /\ Unlock(p) => sharedBy' \subseteq Proc /\ exclusiveBy' \subseteq Proc
<1> USE DEF Typed, TypeOK, Phases, LocalsTypedNext
<1>1. NoFile \in File /\ 1 \in 1 .. MaxTmp
  BY RetentionAssumption DEF NoFile, File, Time
<1>2. ASSUME NEW s \in Phases, Goto(p, s) PROVE pc' \in [Proc -> Phases]
  BY <1>2 DEF Goto
<1>3. ASSUME NEW s \in {"dead", "idle"}, Forget(p, s)
      PROVE  LocalsTypedNext
  BY <1>1, <1>3, NoListingType DEF Forget, BusyHasKey, NotNewer, NoFile, Time, Reading, Writing
<1>4. ASSUME GiveUp(p)
      PROVE  LocalsTypedNext
  <2>1. CASE pc[p] \in Maintaining
    BY <1>3, <1>4, <2>1 DEF GiveUp
  <2>2. CASE pc[p] \notin Maintaining
    BY <1>4, <2>2, NoListingType DEF GiveUp, Goto, BusyHasKey, NotNewer, Reading, Writing
  <2> QED
    BY <2>1, <2>2
<1>5. Unlock(p) => sharedBy' \subseteq Proc /\ exclusiveBy' \subseteq Proc
  BY DEF Unlock
<1> QED
  BY <1>2, <1>3, <1>4, <1>5

\* Every step keeps the types.
LEMMA TypedNext == Typed /\ [Next]_vars => Typed'
<1> SUFFICES ASSUME Typed, [Next]_vars PROVE Typed'
  OBVIOUS
<1> USE DEF Typed, TypeOK, LocalsTypedNext
<1>0. /\ DOMAIN entry \subseteq Key
      /\ \A k \in DOMAIN entry : entry[k] \in File
  BY ListingElim
<1>1. CASE UNCHANGED vars
  BY <1>1 DEF vars, BusyHasKey, NotNewer
<1>2. CASE Tick
  BY <1>0, <1>2, RetentionAssumption DEF Tick, Time, File, BusyHasKey, NotNewer
<1>3. ASSUME NEW p \in Proc, Start(p) PROVE Typed'
  BY <1>3, LocalTypes DEF Start, Goto, BusyHasKey, NotNewer, Phases, Reading, Writing
<1>4. ASSUME NEW p \in Proc, Crash(p) PROVE Typed'
  BY <1>4, LocalTypes DEF Crash
<1>5. ASSUME NEW p \in Proc, BeginMaintain(p) PROVE Typed'
  BY <1>5, LocalTypes DEF BeginMaintain, Goto, BusyHasKey, NotNewer, Phases, Waiting, Reading, Writing
<1>6. ASSUME NEW p \in Proc, NEW k \in Key, BeginLoad(p, k) PROVE Typed'
  BY <1>6, LocalTypes DEF BeginLoad, Goto, BusyHasKey, NotNewer, Phases, Waiting, Reading, Writing
<1>7. ASSUME NEW p \in Proc, NEW k \in Key, BeginStore(p, k) PROVE Typed'
  <2> DEFINE t(n) == [key |-> k, pid |-> p, nanos |-> n]
  <2>1. PICK n \in 1 .. MaxTmp : /\ tmp' = tmp \cup {t(n)}
                                 /\ nanos' = [nanos EXCEPT ![p] = n]
    BY <1>7 DEF BeginStore
  <2>2. tmp' \subseteq TmpName
    BY <2>1 DEF TmpName
  <2>3. nanos' \in [Proc -> 1 .. MaxTmp]
    BY <2>1
  <2> QED
    BY <1>7, <2>2, <2>3 DEF BeginStore, Goto, BusyHasKey, NotNewer, Phases, Reading, Writing
<1>8. ASSUME NEW p \in Proc, Load(p) PROVE Typed'
  <2>1. CASE ReadLease(p)
    BY <2>1 DEF ReadLease, Goto, BusyHasKey, NotNewer, Phases, Reading, Writing
  <2>2. CASE ReadLeaseFails(p)
    BY <2>2, LocalTypes DEF ReadLeaseFails
  <2>3. CASE OpenEntry(p)
    <3>1. CASE key[p] \in DOMAIN entry
      BY <1>0, <2>3, <3>1 DEF OpenEntry, Goto, BusyHasKey, NotNewer, Phases, Reading, Writing
    <3>2. CASE key[p] \notin DOMAIN entry
      BY <2>3, <3>2, LocalTypes DEF OpenEntry
    <3> QED
      BY <3>1, <3>2
  <2>4. CASE FinishLoad(p)
    <3>1. ASSUME key[p] \in DOMAIN entry, Touch(key[p])
          PROVE  entry' \in Listing /\ \A k \in DOMAIN entry' : entry'[k].used <= now
      <4>1. DOMAIN entry' = DOMAIN entry /\ entry' = [k \in DOMAIN entry' |-> entry'[k]]
        BY <3>1 DEF Touch
      <4>2. \A k \in DOMAIN entry : entry'[k] = IF k = key[p] THEN [entry[k] EXCEPT !.used = now]
                                                            ELSE entry[k]
        BY <3>1 DEF Touch
      <4>3. \A k \in DOMAIN entry : entry'[k] \in File /\ entry'[k].used <= now
        <5> SUFFICES ASSUME NEW k \in DOMAIN entry
                     PROVE  entry'[k] \in File /\ entry'[k].used <= now
          OBVIOUS
        <5>1. CASE k = key[p]
          <6>1. entry'[k] = [entry[k] EXCEPT !.used = now] /\ entry[k] \in File
            BY <1>0, <4>2, <5>1
          <6>2. now \in Time /\ now <= now
            BY RetentionAssumption DEF Time
          <6>3. entry'[k] = [len |-> entry[k].len, used |-> now]
            BY <6>1 DEF File
          <6> QED
            BY <6>1, <6>2, <6>3 DEF File
        <5>2. CASE k # key[p]
          BY <1>0, <4>2, <5>2
        <5> QED
          BY <5>1, <5>2
      <4> QED
        BY <1>0, <4>1, <4>3, ListingIntro
    <3> QED
      BY <2>4, <3>1, LocalTypes DEF FinishLoad
  <2> QED
    BY <1>8, <2>1, <2>2, <2>3, <2>4 DEF Load
<1>9. ASSUME NEW p \in Proc, Compress(p) PROVE Typed'
  <2>1. CASE GzipSucceeds(p)
    <3>1. PICK l \in 1 .. MaxLen : file' = [file EXCEPT ![p] = [len |-> l, used |-> now]]
      BY <2>1 DEF GzipSucceeds
    <3>2. file' \in [Proc -> File]
      BY <3>1, RetentionAssumption DEF File
    <3>3. now <= now /\ now' = now
      BY <2>1, RetentionAssumption DEF Time, GzipSucceeds
    <3>4. NotNewer'
      BY <3>1, <3>3 DEF NotNewer
    <3> QED
      BY <2>1, <3>2, <3>4 DEF GzipSucceeds, Goto, BusyHasKey, Phases, Waiting, Reading, Writing
  <2>2. CASE GzipFails(p)
    BY <2>2 DEF GzipFails, Goto, BusyHasKey, NotNewer, Phases, Reading, Writing
  <2>3. CASE Discard(p)
    BY <2>3, LocalTypes DEF Discard
  <2> QED
    BY <1>9, <2>1, <2>2, <2>3 DEF Compress
<1>10. ASSUME NEW p \in Proc, Publish(p) PROVE Typed'
  <2>1. CASE LockExclusive(p)
    BY <2>1 DEF LockExclusive, AfterLock, Goto, BusyHasKey, NotNewer, Phases, Pruning, Reading, Writing
  <2>2. CASE LockFails(p)
    BY <2>2, LocalTypes DEF LockFails, GiveUp
  <2>3. CASE Rename(p)
    <3>1. CASE Oversized(p)
      BY <2>3, <3>1, LocalTypes DEF Rename, GiveUp
    <3>2. CASE ~Oversized(p)
      <4>1. key[p] \in Key /\ file[p] \in File
        BY <2>3 DEF Rename, BusyHasKey, NotNewer, Writing
      <4>2. entry' = Put(entry, key[p], file[p])
        BY <2>3, <3>2 DEF Rename
      <4>3. /\ entry' \in Listing
            /\ DOMAIN entry' = DOMAIN entry \cup {key[p]}
            /\ entry'[key[p]] = file[p]
            /\ \A j \in DOMAIN entry \ {key[p]} : entry'[j] = entry[j]
        <5> DEFINE k == key[p]
                   v == file[p]
        <5>1. entry \in Listing /\ k \in Key /\ v \in File
          BY <4>1
        <5> HIDE DEF k, v
        <5>2. /\ Put(entry, k, v) \in Listing
              /\ DOMAIN Put(entry, k, v) = DOMAIN entry \cup {k}
              /\ Put(entry, k, v)[k] = v
              /\ \A j \in DOMAIN entry \ {k} : Put(entry, k, v)[j] = entry[j]
          BY <5>1, PutType, ZenonT(60)
        <5> QED
          BY <4>2, <5>2 DEF k, v
      <4>4. \A k \in DOMAIN entry' : entry'[k].used <= now
        BY <4>3 DEF NotNewer
      <4> QED
        BY <2>3, <3>2, <4>1, <4>3, <4>4
        DEF Rename, Goto, BusyHasKey, NotNewer, Phases, Pruning, Reading, Writing
    <3> QED
      BY <3>1, <3>2
  <2>4. CASE RenameFails(p)
    BY <2>4, LocalTypes DEF RenameFails, GiveUp
  <2> QED
    BY <1>10, <2>1, <2>2, <2>3, <2>4 DEF Publish
<1>11. ASSUME NEW p \in Proc, Prune(p) PROVE Typed'
  <2>1. CASE Scan(p)
    BY <2>1 DEF Scan, Goto, BusyHasKey, NotNewer, Phases, Pruning, Reading, Writing
  <2>2. CASE ScanFails(p)
    BY <2>2, LocalTypes DEF ScanFails, GiveUp
  <2>3. CASE Evict(p)
    <3>1. PICK k \in DOMAIN scan[p] : /\ entry' = Drop(entry, k)
                                      /\ scan' = [scan EXCEPT ![p] = Drop(scan[p], k)]
      BY <2>3 DEF Evict
    <3>2. /\ entry' \in Listing
          /\ DOMAIN entry' = DOMAIN entry \ {k}
          /\ \A j \in DOMAIN entry' : entry'[j] = entry[j]
      BY <3>1, DropType
    <3>3. scan' \in [Proc -> Listing]
      BY <3>1, DropType
    <3> QED
      BY <2>3, <3>2, <3>3 DEF Evict, BusyHasKey, NotNewer
  <2>4. CASE EvictFails(p)
    BY <2>4, LocalTypes DEF EvictFails, GiveUp
  <2>5. CASE PruneDone(p)
    <3>1. CASE pc[p] = "evict1"
      BY <2>5, <3>1, NoListingType
      DEF PruneDone, Goto, BusyHasKey, NotNewer, Phases, Pruning, Reading, Writing
    <3>2. CASE pc[p] # "evict1"
      BY <2>5, <3>2, LocalTypes DEF PruneDone, GiveUp
    <3> QED
      BY <3>1, <3>2
  <2> QED
    BY <1>11, <2>1, <2>2, <2>3, <2>4, <2>5 DEF Prune
<1> QED
  BY <1>1, <1>2, <1>3, <1>4, <1>5, <1>6, <1>7, <1>8, <1>9, <1>10, <1>11 DEF Next, Step

\* Every variable of the retention model keeps its type, and no managed file
\* is ever newer than the clock, for all processes, names and limits.
THEOREM TypeCorrect == Spec => []TypeOK
<1>1. Typed => TypeOK
  BY DEF Typed
<1> QED
  BY <1>1, TypedInit, TypedNext, PTL DEF Spec
(***************************************************************************)
(* The flock discipline: who holds which lock is told by where it is, and  *)
(* an exclusive holder is alone.                                           *)
(***************************************************************************)
LockInv == /\ \A p \in Proc : p \in sharedBy <=> pc[p] \in Reading
           /\ \A p \in Proc : p \in exclusiveBy <=> pc[p] \in Pruning
           /\ \A p \in exclusiveBy : sharedBy = {} /\ exclusiveBy = {p}

\* No lock is held initially.
LEMMA LockInit == Init => LockInv
BY DEF Init, LockInv, Reading, Pruning

\* Every step keeps the discipline.
LEMMA LockNext == Typed /\ LockInv /\ [Next]_vars => LockInv'
<1> SUFFICES ASSUME Typed, LockInv, [Next]_vars PROVE LockInv'
  OBVIOUS
<1> USE DEF LockInv, Reading, Pruning
<1>0. pc \in [Proc -> Phases] /\ sharedBy \subseteq Proc /\ exclusiveBy \subseteq Proc
  BY DEF Typed, TypeOK
<1>1. CASE UNCHANGED vars \/ Tick
  BY <1>1 DEF vars, Tick
<1>2. ASSUME NEW p \in Proc, Start(p) PROVE LockInv'
  BY <1>0, <1>2 DEF Start, Goto, Forget, Unlock, GiveUp, Maintaining
<1>3. ASSUME NEW p \in Proc, Crash(p) PROVE LockInv'
  BY <1>0, <1>3 DEF Crash, Goto, Forget, Unlock, GiveUp, Maintaining
<1>4. ASSUME NEW p \in Proc, BeginMaintain(p) PROVE LockInv'
  BY <1>0, <1>4 DEF BeginMaintain, Goto, Forget, Unlock, GiveUp, Maintaining
<1>5. ASSUME NEW p \in Proc, ReadLease(p) PROVE LockInv'
  BY <1>0, <1>5 DEF ReadLease, Goto, Forget, Unlock, GiveUp, Maintaining
<1>6. ASSUME NEW p \in Proc, ReadLeaseFails(p) PROVE LockInv'
  BY <1>0, <1>6 DEF ReadLeaseFails, Goto, Forget, Unlock, GiveUp, Maintaining
<1>7. ASSUME NEW p \in Proc, OpenEntry(p) PROVE LockInv'
  BY <1>0, <1>7 DEF OpenEntry, Goto, Forget, Unlock, GiveUp, Maintaining
<1>8. ASSUME NEW p \in Proc, FinishLoad(p) PROVE LockInv'
  BY <1>0, <1>8 DEF FinishLoad, Goto, Forget, Unlock, GiveUp, Maintaining
<1>9. ASSUME NEW p \in Proc, GzipSucceeds(p) PROVE LockInv'
  BY <1>0, <1>9 DEF GzipSucceeds, Goto, Forget, Unlock, GiveUp, Maintaining
<1>10. ASSUME NEW p \in Proc, GzipFails(p) PROVE LockInv'
  BY <1>0, <1>10 DEF GzipFails, Goto, Forget, Unlock, GiveUp, Maintaining
<1>11. ASSUME NEW p \in Proc, Discard(p) PROVE LockInv'
  BY <1>0, <1>11 DEF Discard, Goto, Forget, Unlock, GiveUp, Maintaining
<1>12. ASSUME NEW p \in Proc, LockExclusive(p) PROVE LockInv'
  BY <1>0, <1>12 DEF LockExclusive, LockFree, AfterLock, Goto, Forget, Unlock, GiveUp, Maintaining
<1>13. ASSUME NEW p \in Proc, LockFails(p) PROVE LockInv'
  BY <1>0, <1>13 DEF LockFails, Goto, Forget, Unlock, GiveUp, Maintaining
<1>14. ASSUME NEW p \in Proc, Rename(p) PROVE LockInv'
  BY <1>0, <1>14 DEF Rename, Goto, Forget, Unlock, GiveUp, Maintaining
<1>15. ASSUME NEW p \in Proc, RenameFails(p) PROVE LockInv'
  BY <1>0, <1>15 DEF RenameFails, Goto, Forget, Unlock, GiveUp, Maintaining
<1>16. ASSUME NEW p \in Proc, Scan(p) PROVE LockInv'
  BY <1>0, <1>16 DEF Scan, Goto, Forget, Unlock, GiveUp, Maintaining
<1>17. ASSUME NEW p \in Proc, ScanFails(p) PROVE LockInv'
  BY <1>0, <1>17 DEF ScanFails, Goto, Forget, Unlock, GiveUp, Maintaining
<1>18. ASSUME NEW p \in Proc, Evict(p) PROVE LockInv'
  BY <1>0, <1>18 DEF Evict, Goto, Forget, Unlock, GiveUp, Maintaining
<1>19. ASSUME NEW p \in Proc, EvictFails(p) PROVE LockInv'
  BY <1>0, <1>19 DEF EvictFails, Goto, Forget, Unlock, GiveUp, Maintaining
<1>20. ASSUME NEW p \in Proc, PruneDone(p) PROVE LockInv'
  BY <1>0, <1>20 DEF PruneDone, Goto, Forget, Unlock, GiveUp, Maintaining
<1>21. ASSUME NEW p \in Proc, NEW k \in Key, BeginLoad(p, k) PROVE LockInv'
  BY <1>0, <1>21 DEF BeginLoad, Goto, Forget, Unlock, GiveUp, Maintaining
<1>22. ASSUME NEW p \in Proc, NEW k \in Key, BeginStore(p, k) PROVE LockInv'
  BY <1>0, <1>22 DEF BeginStore, Goto, Forget, Unlock, GiveUp, Maintaining
<1> QED
  BY <1>1, <1>2, <1>3, <1>4, <1>5, <1>6, <1>7, <1>8, <1>9, <1>10, <1>11,
     <1>12, <1>13, <1>14, <1>15, <1>16, <1>17, <1>18, <1>19, <1>20, <1>21,
     <1>22
  DEF Next, Step, Load, Compress, Publish, Prune
(***************************************************************************)
(* What the discipline buys.  Listed says that the listing a prune works   *)
(* from is still the directory when it removes a file.                     *)
(***************************************************************************)
Evicting == {"evict1", "evict2", "evictM"}
Listed == \A p \in Proc : pc[p] \in Evicting => scan[p] = entry

Safe == Typed /\ LockInv /\ ReadersKeepTheirEntry /\ LiveTemporaryKept /\ Listed

\* Nobody reads or prunes initially.
LEMMA SafeInit == Init => Safe
<1>1. Init => ReadersKeepTheirEntry /\ LiveTemporaryKept /\ Listed
  BY DEF Init, ReadersKeepTheirEntry, LiveTemporaryKept, Listed, Writing, Evicting
<1> QED
  BY <1>1, TypedInit, LockInit DEF Safe

\* An entry only changes under the exclusive lock, or by a touch.
LEMMA EntryChange ==
  ASSUME Safe, [Next]_vars
  PROVE  \/ entry' = entry
         \/ \E p \in Proc : FinishLoad(p) /\ key[p] \in DOMAIN entry /\ Touch(key[p])
         \/ \E p \in Proc : Evict(p) \/ Rename(p)
BY DEF Next, Step, Load, Compress, Publish, Prune, vars, Tick, Start, Crash, BeginMaintain,
  BeginLoad, BeginStore, ReadLease, ReadLeaseFails, OpenEntry, FinishLoad, GzipSucceeds,
  GzipFails, Discard, LockExclusive, LockFails, RenameFails, Scan, ScanFails, EvictFails,
  PruneDone

\* A process enters the parse from OpenEntry only, and keeps its locals there.
LEMMA ParsingStep ==
  ASSUME Typed, [Next]_vars, NEW q \in Proc, pc'[q] = "parsing"
  PROVE  \/ pc[q] = "parsing" /\ key'[q] = key[q] /\ file'[q] = file[q]
         \/ /\ OpenEntry(q) /\ pc[q] = "leased" /\ key[q] \in DOMAIN entry
            /\ key'[q] = key[q] /\ file'[q] = entry[key[q]]
<1> USE DEF Goto, Forget, Unlock, GiveUp, Maintaining
<1>0. /\ pc \in [Proc -> Phases] /\ key \in [Proc -> Key \cup {NoKey}]
      /\ file \in [Proc -> File]
  BY DEF Typed, TypeOK
<1> QED
  BY <1>0 DEF Next, Step, Load, Compress, Publish, Prune, vars, Tick, Start, Crash, BeginMaintain,
  BeginLoad, BeginStore, ReadLease, ReadLeaseFails, OpenEntry, FinishLoad, GzipSucceeds,
  GzipFails, Discard, LockExclusive, LockFails, Rename, RenameFails, Scan, ScanFails, Evict,
  EvictFails, PruneDone, AfterLock
\* Neither eviction nor a publication touches an entry that is being read.
LEMMA ReadersNext == Safe /\ [Next]_vars => ReadersKeepTheirEntry'
<1> SUFFICES ASSUME Safe, [Next]_vars, NEW q \in Proc, pc'[q] = "parsing"
             PROVE  key'[q] \in DOMAIN entry' /\ entry'[key'[q]].len = file'[q].len
  BY DEF ReadersKeepTheirEntry
<1>0. Typed
  BY DEF Safe
<1>1. /\ pc[q] \in Reading /\ key'[q] = key[q]
      /\ key[q] \in DOMAIN entry /\ entry[key[q]].len = file'[q].len
  BY <1>0, ParsingStep DEF Safe, ReadersKeepTheirEntry, Reading
<1>2. CASE entry' = entry
  BY <1>1, <1>2
<1>3. CASE \E p \in Proc : FinishLoad(p) /\ key[p] \in DOMAIN entry /\ Touch(key[p])
  <2>1. PICK p \in Proc : key[p] \in DOMAIN entry /\ Touch(key[p])
    BY <1>3
  <2>2. DOMAIN entry' = DOMAIN entry
    BY <2>1 DEF Touch
  <2>3. entry \in Listing /\ \A k \in DOMAIN entry : entry[k] \in File
    BY <1>0, ListingElim DEF Typed, TypeOK
  <2>4. \A k \in DOMAIN entry : entry'[k].len = entry[k].len
    BY <2>1, <2>3 DEF Touch, File
  <2> QED
    BY <1>1, <2>2, <2>4
<1>4. CASE \E p \in Proc : Evict(p) \/ Rename(p)
  <2>1. PICK p \in Proc : pc[p] \in Pruning
    BY <1>4 DEF Evict, Rename, Pruning
  <2>2. p \in exclusiveBy /\ q \in sharedBy
    BY <1>1, <2>1 DEF Safe, LockInv
  <2> QED
    BY <2>2 DEF Safe, LockInv
<1> QED
  BY <1>2, <1>3, <1>4, EntryChange

\* The temporary file of a live writer survives every step of the others.
LEMMA LiveNext == Safe /\ [Next]_vars => LiveTemporaryKept'
<1> SUFFICES ASSUME Safe, [Next]_vars, NEW q \in Proc, pc'[q] \in Writing
             PROVE  [key |-> key'[q], pid |-> q, nanos |-> nanos'[q]] \in tmp'
  BY DEF LiveTemporaryKept, Mine
<1>0. /\ pc \in [Proc -> Phases] /\ key \in [Proc -> Key \cup {NoKey}]
      /\ nanos \in [Proc -> 1 .. MaxTmp]
  BY DEF Safe, Typed, TypeOK
<1>1. pc[q] \in Writing => Mine(q) \in tmp
  BY DEF Safe, LiveTemporaryKept
<1> USE DEF Writing
<1>2. ASSUME NEW k \in Key, BeginStore(q, k)
      PROVE  [key |-> key'[q], pid |-> q, nanos |-> nanos'[q]] \in tmp'
  BY <1>0, <1>2 DEF BeginStore
<1>3. ASSUME \A k \in Key : ~BeginStore(q, k)
      PROVE  pc[q] \in Writing /\ key'[q] = key[q] /\ nanos'[q] = nanos[q]
  <2>1. ASSUME NEW p \in Proc, NEW k \in Key, BeginStore(p, k)
        PROVE  pc'[q] = pc[q] /\ key'[q] = key[q] /\ nanos'[q] = nanos[q]
    BY <1>0, <1>3, <2>1 DEF BeginStore, Goto
  <2> QED
    BY <1>0, <2>1 DEF Goto, Forget, Unlock, GiveUp, Maintaining,
     Next, Step, Load, Compress, Publish, Prune, vars, Tick, Start, Crash, BeginMaintain,
     BeginLoad, ReadLease, ReadLeaseFails, OpenEntry, FinishLoad, GzipSucceeds,
     GzipFails, Discard, LockExclusive, LockFails, Rename, RenameFails, Scan, ScanFails, Evict,
     EvictFails, PruneDone, AfterLock
<1>4. ASSUME pc[q] \in Writing PROVE Mine(q) \notin Abandoned
  BY <1>4 DEF Abandoned, Mine
<1>5. ASSUME NEW p \in Proc, p # q PROVE Mine(p) # Mine(q)
  BY <1>5 DEF Mine
<1>6. ASSUME pc[q] \in Writing, Rename(q) PROVE FALSE
  BY <1>0, <1>6 DEF Rename, GiveUp, Maintaining, Goto
<1>7. ASSUME pc[q] \in Writing, Discard(q) PROVE FALSE
  BY <1>7 DEF Discard
<1>8. ASSUME pc[q] \in Writing, Mine(q) \in tmp PROVE Mine(q) \in tmp'
  BY <1>4, <1>5, <1>6, <1>7, <1>8, ZenonT(60) DEF
     Next, Step, Load, Compress, Publish, Prune, vars, Tick, Start, Crash, BeginMaintain,
     BeginLoad, BeginStore, ReadLease, ReadLeaseFails, OpenEntry, FinishLoad, GzipSucceeds,
     GzipFails, Discard, LockExclusive, LockFails, Rename, RenameFails, Scan, ScanFails, Evict,
     EvictFails, PruneDone
<1> QED
  BY <1>1, <1>2, <1>3, <1>8 DEF Mine

\* While a prune removes files, its listing is the directory.
LEMMA ListedNext == Safe /\ [Next]_vars => Listed'
<1> SUFFICES ASSUME Safe, [Next]_vars, NEW q \in Proc, pc'[q] \in Evicting
             PROVE  scan'[q] = entry'
  BY DEF Listed
<1>0. /\ pc \in [Proc -> Phases] /\ scan \in [Proc -> Listing]
  BY DEF Safe, Typed, TypeOK
<1>1. pc[q] \in Evicting => scan[q] = entry
  BY DEF Safe, Listed
<1> USE DEF Evicting
<1>2. CASE Scan(q)
  BY <1>0, <1>2 DEF Scan
<1>3. CASE Evict(q)
  BY <1>0, <1>1, <1>3 DEF Evict
<1>4. CASE ~Scan(q) /\ ~Evict(q)
  <2>1. pc[q] \in Evicting /\ scan'[q] = scan[q]
    BY <1>0, <1>4 DEF Goto, Forget, Unlock, GiveUp, Maintaining,
     Next, Step, Load, Compress, Publish, Prune, vars, Tick, Start, Crash, BeginMaintain,
     BeginLoad, BeginStore, ReadLease, ReadLeaseFails, OpenEntry, FinishLoad, GzipSucceeds,
     GzipFails, Discard, LockExclusive, LockFails, Rename, RenameFails, Scan, ScanFails, Evict,
     EvictFails, PruneDone, AfterLock
  <2>2. q \in exclusiveBy
    BY <2>1 DEF Safe, LockInv, Pruning
  <2>3. ASSUME NEW p \in Proc, FinishLoad(p) PROVE FALSE
    <3>1. p \in sharedBy
      BY <2>3 DEF FinishLoad, Safe, LockInv, Reading
    <3> QED
      BY <2>2, <3>1 DEF Safe, LockInv
  <2>4. ASSUME NEW p \in Proc, Evict(p) \/ Rename(p) PROVE FALSE
    <3>1. p \in exclusiveBy
      BY <2>4 DEF Evict, Rename, Safe, LockInv, Pruning
    <3>2. p = q
      BY <2>2, <3>1 DEF Safe, LockInv
    <3> QED
      BY <1>4, <2>1, <2>4, <3>2 DEF Rename
  <2>5. entry' = entry
    BY <2>3, <2>4, EntryChange
  <2> QED
    BY <1>1, <2>1, <2>5
<1> QED
  BY <1>2, <1>3, <1>4

\* Safe is inductive.
LEMMA SafeNext == Safe /\ [Next]_vars => Safe'
BY TypedNext, LockNext, ReadersNext, LiveNext, ListedNext DEF Safe

\* Active cache readers finish before eviction: in every execution, an entry
\* that a cache_load has opened stays in place until the load returns.
THEOREM ReadersSafe == Spec => []ReadersKeepTheirEntry
<1>1. Safe => ReadersKeepTheirEntry
  BY DEF Safe
<1> QED
  BY <1>1, SafeInit, SafeNext, PTL DEF Spec

\* prune never reaps the temporary file of a writer that is still alive.
THEOREM TemporariesSafe == Spec => []LiveTemporaryKept
<1>1. Safe => LiveTemporaryKept
  BY DEF Safe
<1> QED
  BY <1>1, SafeInit, SafeNext, PTL DEF Spec

\* Whatever other probes publish, prune and leave behind, no process loses the
\* entry it reads or the temporary file it is to rename.
THEOREM FilesInUseSafe == Spec => []FilesInUseAreKept
<1>1. ReadersKeepTheirEntry /\ LiveTemporaryKept => FilesInUseAreKept
  BY DEF FilesInUseAreKept
<1> QED
  BY <1>1, ReadersSafe, TemporariesSafe, PTL

\* One step removes an entry only by evicting the least recently used one.
LEMMA JustifiedNext == Safe /\ [Next]_vars => Justified
<1> SUFFICES ASSUME Safe, [Next]_vars, NEW k \in DOMAIN entry \ DOMAIN entry'
             PROVE  /\ Excess(entry, k)
                    /\ \A j \in DOMAIN entry' : entry[k].used <= entry'[j].used
  BY DEF Justified
<1>0. entry \in Listing /\ \A j \in DOMAIN entry : j \in Key /\ entry[j] \in File
  BY ListingElim DEF Safe, Typed, TypeOK
<1>1. ASSUME NEW p \in Proc, Touch(key[p]) PROVE FALSE
  BY <1>1 DEF Touch
<1>2. ASSUME NEW p \in Proc, Rename(p) PROVE FALSE
  BY <1>2 DEF Rename, Put
<1>3. PICK p \in Proc : Evict(p)
  BY <1>1, <1>2, EntryChange
<1>4. scan[p] = entry
  BY <1>3 DEF Evict, Evicting, Safe, Listed
<1>5. PICK i \in DOMAIN entry : Oldest(entry, i) /\ Excess(entry, i) /\ entry' = Drop(entry, i)
  BY <1>3, <1>4 DEF Evict
<1>6. /\ DOMAIN entry' = DOMAIN entry \ {i}
      /\ \A j \in DOMAIN entry' : entry'[j] = entry[j]
  BY <1>0, <1>5, DropType
<1>7. i = k
  BY <1>6
<1>8. ASSUME NEW j \in DOMAIN entry' PROVE entry[k].used <= entry'[j].used
  <2>1. entry[k].used \in Int /\ entry[j].used \in Int
    BY <1>0, <1>6 DEF File, Time
  <2> QED
    BY <1>5, <1>6, <1>7, <2>1 DEF Oldest
<1> QED
  BY <1>5, <1>7, <1>8

\* In every execution the removed entry is expired or over a limit, and the
\* least recently used of the directory as it is when the file is removed.
THEOREM EvictionSafe == Spec => EvictionIsLeastRecent
<1>1. Safe /\ [Next]_vars => [Justified]_vars
  BY JustifiedNext
<1> QED
  BY <1>1, SafeInit, SafeNext, PTL DEF Spec, EvictionIsLeastRecent

(***************************************************************************)
(* The limits.  A prune ends where it does because its listing is within   *)
(* them; the listing is the directory, and stays so up to the rename.      *)
(***************************************************************************)

\* A prune that may end has left a directory within the limits.
LEMMA PrunedWithin ==
  ASSUME Safe, NEW p \in Proc, pc[p] \in Evicting, WithinLimits(scan[p])
  PROVE  entry = NoListing \/ (~TooLarge(entry) /\ ~TooMany(entry))
<1>1. scan[p] = entry
  BY DEF Safe, Listed
<1> QED
  BY <1>1 DEF WithinLimits, Excess

\* publish ends well by the end of its second prune only.
LEMMA PublishedStep ==
  ASSUME Typed, [Next]_vars, NEW p \in Proc, pc[p] = "evict2", pc'[p] = "idle"
  PROVE  WithinLimits(scan[p]) /\ key[p] \in DOMAIN entry /\ entry' = entry
<1>0. pc \in [Proc -> Phases]
  BY DEF Typed, TypeOK
<1> QED
  BY <1>0 DEF Goto, Forget, Unlock, GiveUp, Maintaining,
     Next, Step, Load, Compress, Publish, Prune, vars, Tick, Start, Crash, BeginMaintain,
     BeginLoad, BeginStore, ReadLease, ReadLeaseFails, OpenEntry, FinishLoad, GzipSucceeds,
     GzipFails, Discard, LockExclusive, LockFails, Rename, RenameFails, Scan, ScanFails, Evict,
     EvictFails, PruneDone, AfterLock

\* A step that reports success leaves the entry in a directory within the limits.
LEMMA PublishedNext == Safe /\ [Next]_vars => Published
<1> SUFFICES ASSUME Safe, [Next]_vars, NEW p \in Proc, pc[p] = "evict2", pc'[p] = "idle"
             PROVE  key[p] \in DOMAIN entry' /\ ~TooLarge(entry') /\ ~TooMany(entry')
  BY DEF Published
<1>1. WithinLimits(scan[p]) /\ key[p] \in DOMAIN entry /\ entry' = entry
  BY PublishedStep DEF Safe
<1>2. entry # NoListing
  BY <1>1, NoListingType
<1> QED
  BY <1>1, <1>2, PrunedWithin DEF Evicting

\* In every execution, when publish reports success its entry is in the
\* directory and the directory is within both limits.
THEOREM PublicationSafe == Spec => PublishedWithinLimits
<1>1. Safe /\ [Next]_vars => [Published]_vars
  BY PublishedNext
<1> QED
  BY <1>1, SafeInit, SafeNext, PTL DEF Spec, PublishedWithinLimits

\* A writer about to rename has made room, and nobody adds an entry before it.
RoomToRename == \A p \in Proc : pc[p] = "rename" => ~TooMany(entry) /\ ~TooLarge(entry)

Roomy == Safe /\ RoomToRename /\ BoundedDespiteFailures

\* A directory has finitely many entries.
LEMMA FiniteListing ==
  ASSUME NEW f \in Listing
  PROVE  IsFiniteSet(DOMAIN f) /\ Cardinality(DOMAIN f) \in Nat
BY ListingElim, RetentionAssumption, FS_Subset, FS_CardinalityType

\* A byte is at a name, at a place within the file.
LEMMA InByteSet ==
  ASSUME NEW f, NEW b
  PROVE  b \in ByteSet(f) <=> \E k \in DOMAIN f : \E i \in 1 .. f[k].len : b = << k, i >>
BY DEF ByteSet

\* The bytes of one file.
LEMMA FileBytes ==
  ASSUME NEW k, NEW n \in Nat
  PROVE  IsFiniteSet({k} \X (1 .. n)) /\ Cardinality({k} \X (1 .. n)) = n
<1>1. IsFiniteSet({k}) /\ Cardinality({k}) = 1
  BY FS_Singleton
<1>2. IsFiniteSet(1 .. n) /\ Cardinality(1 .. n) = n
  BY FS_Interval
<1>3. IsFiniteSet({k} \X (1 .. n)) /\ Cardinality({k} \X (1 .. n)) = Cardinality({k}) * Cardinality(1 .. n)
  BY <1>1, <1>2, FS_Product
<1> QED
  BY <1>1, <1>2, <1>3

\* A directory has finitely many bytes: there are so many names and so many
\* places.
LEMMA FiniteBytes ==
  ASSUME NEW f \in Listing
  PROVE  IsFiniteSet(ByteSet(f)) /\ Bytes(f) \in Nat
<1>1. ByteSet(f) \subseteq Key \X (1 .. MaxLen)
  <2> SUFFICES ASSUME NEW b \in ByteSet(f) PROVE b \in Key \X (1 .. MaxLen)
    OBVIOUS
  <2>1. PICK k \in DOMAIN f : \E i \in 1 .. f[k].len : b = << k, i >>
    BY InByteSet
  <2>2. k \in Key /\ f[k].len \in 0 .. MaxLen
    BY ListingElim DEF File
  <2> QED
    BY <2>1, <2>2, RetentionAssumption
<1>2. IsFiniteSet(Key \X (1 .. MaxLen))
  <2>1. IsFiniteSet(Key) /\ IsFiniteSet(1 .. MaxLen)
    BY RetentionAssumption, FS_Interval
  <2> QED
    BY <2>1, FS_Product
<1> QED
  BY <1>1, <1>2, FS_Subset, FS_CardinalityType DEF Bytes

\* An empty directory has room.
LEMMA NoListingFits ==
  ~TooMany(NoListing) /\ ~TooLarge(NoListing) /\ Cardinality(DOMAIN NoListing) = 0 /\ Bytes(NoListing) = 0
<1>1. Cardinality(DOMAIN NoListing) = 0
  BY NoListingType, FS_EmptySet
<1>2. ByteSet(NoListing) = {}
  BY NoListingType, InByteSet
<1>3. Bytes(NoListing) = 0
  BY <1>2, FS_EmptySet DEF Bytes
<1> QED
  BY <1>1, <1>3, RetentionAssumption DEF TooMany, TooLarge

\* There is room initially.
LEMMA RoomyInit == Init => Roomy
<1>1. Init => RoomToRename /\ BoundedDespiteFailures
  BY NoListingFits, RetentionAssumption DEF Init, RoomToRename, BoundedDespiteFailures, EntriesBounded, BytesBounded
<1> QED
  BY <1>1, SafeInit DEF Roomy

\* Nobody but the writer itself changes the directory while it may rename.
LEMMA RoomNext == Roomy /\ [Next]_vars => RoomToRename'
<1> SUFFICES ASSUME Roomy, [Next]_vars, NEW q \in Proc, pc'[q] = "rename"
             PROVE  ~TooMany(entry') /\ ~TooLarge(entry')
  BY DEF RoomToRename
<1>0. Safe /\ pc \in [Proc -> Phases]
  BY DEF Roomy, Safe, Typed, TypeOK
<1>1. CASE PruneDone(q)
  <2>1. pc[q] \in Evicting /\ WithinLimits(scan[q]) /\ entry' = entry
    BY <1>0, <1>1 DEF PruneDone, Evicting
  <2> QED
    BY <1>0, <2>1, PrunedWithin, NoListingFits
<1>2. CASE ~PruneDone(q)
  <2>1. pc[q] = "rename"
    BY <1>0, <1>2 DEF Goto, Forget, Unlock, GiveUp, Maintaining,
     Next, Step, Load, Compress, Publish, Prune, vars, Tick, Start, Crash, BeginMaintain,
     BeginLoad, BeginStore, ReadLease, ReadLeaseFails, OpenEntry, FinishLoad, GzipSucceeds,
     GzipFails, Discard, LockExclusive, LockFails, Rename, RenameFails, Scan, ScanFails, Evict,
     EvictFails, PruneDone, AfterLock
  <2>2. q \in exclusiveBy
    BY <1>0, <2>1 DEF Safe, LockInv, Pruning
  <2>3. ASSUME NEW p \in Proc, FinishLoad(p) PROVE FALSE
    <3>1. p \in sharedBy
      BY <1>0, <2>3 DEF FinishLoad, Safe, LockInv, Reading
    <3> QED
      BY <1>0, <2>2, <3>1 DEF Safe, LockInv
  <2>4. ASSUME NEW p \in Proc, Evict(p) \/ Rename(p), entry' # entry PROVE FALSE
    <3>1. p \in exclusiveBy
      BY <1>0, <2>4 DEF Evict, Rename, Safe, LockInv, Pruning
    <3>2. p = q
      BY <1>0, <2>2, <3>1 DEF Safe, LockInv
    <3>3. Rename(q)
      BY <2>1, <2>4, <3>2 DEF Evict
    <3>4. pc'[q] # "rename"
      BY <1>0, <2>1, <2>4, <3>3 DEF Rename, Goto, GiveUp
    <3> QED
      BY <3>4
  <2>5. entry' = entry
    BY <1>0, <2>3, <2>4, EntryChange
  <2> QED
    BY <2>1, <2>5 DEF Roomy, RoomToRename
<1> QED
  BY <1>1, <1>2

\* Only the rename adds an entry, and it adds one.
LEMMA EntriesNext == Roomy /\ [Next]_vars => EntriesBounded'
<1> SUFFICES ASSUME Roomy, [Next]_vars
             PROVE  Cardinality(DOMAIN entry') <= MaxEntries + 1
  BY DEF EntriesBounded
<1>0. Safe /\ entry \in Listing /\ IsFiniteSet(DOMAIN entry) /\ Cardinality(DOMAIN entry) \in Nat
  BY FiniteListing DEF Roomy, Safe, Typed, TypeOK
<1>1. Cardinality(DOMAIN entry) <= MaxEntries + 1
  BY DEF Roomy, BoundedDespiteFailures, EntriesBounded
<1>2. ASSUME NEW p \in Proc, Touch(key[p]) PROVE DOMAIN entry' = DOMAIN entry
  BY <1>2 DEF Touch
<1>3. ASSUME NEW p \in Proc, Evict(p) PROVE Cardinality(DOMAIN entry') <= MaxEntries + 1
  <2>1. PICK k \in DOMAIN entry : entry' = Drop(entry, k)
    BY <1>3 DEF Evict
  <2>2. DOMAIN entry' \subseteq DOMAIN entry
    BY <1>0, <2>1, DropType
  <2>3. Cardinality(DOMAIN entry') <= Cardinality(DOMAIN entry) /\ Cardinality(DOMAIN entry') \in Nat
    BY <1>0, <2>2, FS_Subset, FS_CardinalityType
  <2> QED
    BY <1>0, <1>1, <2>3, RetentionAssumption
<1>4. ASSUME NEW p \in Proc, Rename(p), entry' # entry PROVE Cardinality(DOMAIN entry') <= MaxEntries + 1
  <2>1. pc[p] = "rename" /\ entry' = Put(entry, key[p], file[p])
    BY <1>4 DEF Rename
  <2>2. DOMAIN entry' = DOMAIN entry \cup {key[p]}
    BY <2>1 DEF Put
  <2>3. Cardinality(DOMAIN entry) <= MaxEntries
    BY <1>0, <2>1, RetentionAssumption DEF Roomy, RoomToRename, TooMany
  <2>4. /\ Cardinality(DOMAIN entry') \in Nat
        /\ Cardinality(DOMAIN entry') = Cardinality(DOMAIN entry)
           \/ Cardinality(DOMAIN entry') = Cardinality(DOMAIN entry) + 1
    BY <1>0, <2>2, FS_AddElement, FS_CardinalityType
  <2> QED
    BY <1>0, <2>3, <2>4, RetentionAssumption
<1> QED
  BY <1>0, <1>1, <1>2, <1>3, <1>4, EntryChange

\* Evicting an entry takes bytes away, a touch none; a rename adds at most those
\* of the new file, which is no larger than the limit.
LEMMA BytesNext == Roomy /\ [Next]_vars => BytesBounded'
<1> SUFFICES ASSUME Roomy, [Next]_vars
             PROVE  Bytes(entry') <= 2 * MaxBytes
  BY DEF BytesBounded
<1>0. Safe /\ entry \in Listing /\ IsFiniteSet(ByteSet(entry)) /\ Bytes(entry) \in Nat
  BY FiniteBytes DEF Roomy, Safe, Typed, TypeOK
<1>1. Bytes(entry) <= 2 * MaxBytes
  BY DEF Roomy, BoundedDespiteFailures, BytesBounded
<1>2. ASSUME NEW k \in DOMAIN entry, Touch(k) PROVE Bytes(entry') = Bytes(entry)
  <2>1. DOMAIN entry' = DOMAIN entry /\ \A j \in DOMAIN entry : entry'[j].len = entry[j].len
    BY <1>0, <1>2, ListingElim DEF Touch, File
  <2>2. \A b : b \in ByteSet(entry') <=> b \in ByteSet(entry)
    BY <2>1, InByteSet
  <2>3. ByteSet(entry') = ByteSet(entry)
    BY <2>2
  <2> QED
    BY <2>3 DEF Bytes
<1>3. ASSUME NEW p \in Proc, Evict(p) PROVE Bytes(entry') <= 2 * MaxBytes
  <2>1. PICK k \in DOMAIN entry : entry' = Drop(entry, k)
    BY <1>3 DEF Evict
  <2>2. DOMAIN entry' \subseteq DOMAIN entry /\ \A j \in DOMAIN entry' : entry'[j] = entry[j]
    BY <1>0, <2>1, DropType
  <2>3. ByteSet(entry') \subseteq ByteSet(entry)
    BY <2>2, InByteSet
  <2>4. Bytes(entry') <= Bytes(entry) /\ Bytes(entry') \in Nat
    BY <1>0, <2>3, FS_Subset, FS_CardinalityType DEF Bytes
  <2> QED
    BY <1>0, <1>1, <2>4, RetentionAssumption
<1>4. ASSUME NEW p \in Proc, Rename(p), entry' # entry PROVE Bytes(entry') <= 2 * MaxBytes
  <2>1. pc[p] = "rename" /\ entry' = Put(entry, key[p], file[p]) /\ ~Oversized(p)
    BY <1>4 DEF Rename
  <2> DEFINE n == file[p].len
             B == {key[p]} \X (1 .. n)
  <2>2. n \in Nat /\ n <= MaxBytes
    <3>1. file[p] \in File
      BY <1>0 DEF Safe, Typed, TypeOK
    <3> QED
      BY <2>1, <3>1, RetentionAssumption DEF Oversized, File
  <2>3. ByteSet(entry') \subseteq ByteSet(entry) \cup B
    <3> SUFFICES ASSUME NEW b \in ByteSet(entry'), b \notin ByteSet(entry) PROVE b \in B
      OBVIOUS
    <3>1. PICK k \in DOMAIN entry' : \E i \in 1 .. entry'[k].len : b = << k, i >>
      BY InByteSet
    <3>2. k \in DOMAIN entry \cup {key[p]} /\ entry'[k] = IF k = key[p] THEN file[p] ELSE entry[k]
      BY <2>1, <3>1 DEF Put
    <3>3. k = key[p]
      BY <3>1, <3>2, InByteSet
    <3> QED
      BY <3>1, <3>2, <3>3
  <2>4. IsFiniteSet(B) /\ Cardinality(B) = n
    BY <2>2, FileBytes
  <2> HIDE DEF B, n
  <2>5. /\ IsFiniteSet(ByteSet(entry) \cup B)
        /\ Cardinality(ByteSet(entry) \cup B)
             = Cardinality(ByteSet(entry)) + Cardinality(B) - Cardinality(ByteSet(entry) \cap B)
    BY <1>0, <2>4, FS_Union
  <2>6. Cardinality(ByteSet(entry) \cap B) \in Nat
    BY <1>0, FS_Intersection, FS_CardinalityType
  <2>7. Bytes(entry') <= Cardinality(ByteSet(entry) \cup B) /\ Bytes(entry') \in Nat
    BY <2>3, <2>5, FS_Subset, FS_CardinalityType DEF Bytes
  <2>8. Bytes(entry) <= MaxBytes
    BY <1>0, <2>1, RetentionAssumption DEF Roomy, RoomToRename, TooLarge
  <2>9. Cardinality(ByteSet(entry) \cup B) <= MaxBytes + MaxBytes
    <3>1. Cardinality(ByteSet(entry) \cup B) = Bytes(entry) + n - Cardinality(ByteSet(entry) \cap B)
      BY <2>4, <2>5 DEF Bytes
    <3> QED
      BY <1>0, <2>2, <2>6, <2>8, <3>1, RetentionAssumption
  <2>10. Cardinality(ByteSet(entry) \cup B) \in Nat
    BY <2>5, FS_CardinalityType
  <2> QED
    BY <2>7, <2>9, <2>10, RetentionAssumption
<1>5. CASE entry' = entry
  BY <1>1, <1>5
<1>6. ASSUME NEW p \in Proc, key[p] \in DOMAIN entry, Touch(key[p]) PROVE Bytes(entry') <= 2 * MaxBytes
  BY <1>1, <1>2, <1>6
<1> QED
  BY <1>0, <1>3, <1>4, <1>5, <1>6, EntryChange

\* Roomy is inductive.
LEMMA RoomyNext == Roomy /\ [Next]_vars => Roomy'
BY SafeNext, RoomNext, EntriesNext, BytesNext DEF Roomy, BoundedDespiteFailures

\* The directory never holds more than one entry above the limit, nor more than
\* twice the limit of bytes, wherever prunes fail and writers are killed, for
\* any number of probes.
THEOREM DirectoryBounded == Spec => []BoundedDespiteFailures
<1>1. Roomy => BoundedDespiteFailures
  BY DEF Roomy
<1> QED
  BY <1>1, RoomyInit, RoomyNext, PTL DEF Spec
=============================================================================
