------------------------- MODULE LocalRegistryProofs -------------------------
(***************************************************************************)
(* Proofs about LocalRegistry, for any number of processes and packages.   *)
(* The inductive invariant says how the memory of a process, the two views *)
(* of the disk and the position of the process in its call hang together.  *)
(***************************************************************************)
EXTENDS LocalRegistry, TLAPS

OneEach(records) == \A r, s \in records : SameSemver(r, s) => r = s

Rec(p) == record_for_package(pkg[p].package)
Target(p) == Version(pkg[p].package)

\* A process in the middle of a call adds one record to what it loaded.
Working == {"lock"} \cup Locked
CallInv(p) ==
    /\ pkg[p] \in [package : Packages, call : {"publish", "cache", "repair"}]
    /\ previous[p] = checksum[p]
    /\ index[p] = checksum[p] \cup {Rec(p)}
    /\ pkg[p].call = "repair" => Rec(p) \in checksum[p]
    /\ pkg[p].call # "repair" => get_by_semver(checksum[p], pkg[p].package) = {}
    /\ pkg[p].call = "publish" =>
        \A v \in pkg[p].package.deps : get_exact_version(checksum[p], v) # {}

LocalInv(p) ==
    /\ OneEach(checksum[p])
    /\ pc[p] = "idle" => index[p] = checksum[p]
    /\ pc[p] \in Working => CallInv(p)

MemoryInv == \A p \in Procs : LocalInv(p)

\* Behind the lock and the checksum, the index file is what the process loaded.
IndexInv ==
    /\ OneEach(indexFile)
    /\ durableIndex \subseteq indexFile
    /\ \A package \in acknowledged : record_for_package(package) \in durableIndex
    /\ \A package \in published :
        \A v \in package.deps : get_exact_version(durableIndex, v) # {}
    /\ \A p \in Procs :
        /\ pc[p] \in {"operate", "sync_artifact", "index"} => checksum[p] = indexFile
        /\ pc[p] = "sync_index" => index[p] = indexFile

\* The artifact loads, and would load as the same package after a power loss.
Settled(v) ==
    /\ load_package(artifacts, v) # None
    /\ load_package(durableArtifacts, v) = load_package(artifacts, v)

ArtifactInv ==
    /\ \A v \in Versions :
        /\ artifacts[v] \in Packages => Version(artifacts[v]) = v
        /\ durableArtifacts[v] \in Packages => Version(durableArtifacts[v]) = v
    /\ \A r \in indexFile : r.version \notin damaged => Settled(r.version)
    /\ \A p \in Procs :
        /\ pc[p] = "sync_artifact" /\ Target(p) \notin damaged => artifacts[Target(p)] \in Packages
        /\ pc[p] = "index" /\ Target(p) \notin damaged => Settled(Target(p))

IInv == TypeOK /\ MemoryInv /\ IndexInv /\ ArtifactInv

----------------------------------------------------------------------------
\* A package's record carries its version, and versions are of packages.
LEMMA RecordFacts ==
    /\ \A q \in Packages : /\ record_for_package(q) \in Records
                           /\ record_for_package(q).version = Version(q)
                           /\ Version(q) \in Versions
    /\ \A r \in Records : r.version \in Versions
<1>1. ASSUME NEW q \in Packages
      PROVE  /\ record_for_package(q) \in Records
             /\ record_for_package(q).version = Version(q)
             /\ Version(q) \in Versions
  <2>1. record_for_package(q) \in Records
    BY DEF Records
  <2>2. record_for_package(q).version = Version(q)
    BY DEF record_for_package
  <2>3. Version(q) \in Versions
    BY DEF Versions
  <2> QED BY <2>1, <2>2, <2>3
<1>2. ASSUME NEW r \in Records PROVE r.version \in Versions
  <2>1. PICK q \in Packages : r = record_for_package(q)
    BY DEF Records
  <2> QED BY <1>1, <2>1
<1> QED BY <1>1, <1>2

\* What load_package returns is None or a package of the version asked for.
LEMMA LoadFacts ==
    ASSUME NEW files, NEW v
    PROVE  /\ load_package(files, v) # None =>
                load_package(files, v) \in Packages /\ Version(load_package(files, v)) = v
           /\ files[v] \in Packages /\ Version(files[v]) = v => load_package(files, v) = files[v]
BY NoneAssumption DEF load_package

\* Nobody else holds the lock while one process works under it.
LEMMA OneWorker ==
    ASSUME TypeOK, NEW p \in Procs, NEW q \in Procs, pc[p] \in Locked, pc[q] \in Locked
    PROVE  p = q
BY DEF TypeOK

\* Every initial state satisfies the invariant: legacy records load from legacy artifacts.
THEOREM InitIInv == Init => IInv
<1> SUFFICES ASSUME Init PROVE IInv
    OBVIOUS
<1>1. LegacyRecords \subseteq Records
  BY DEF LegacyRecords, Records
<1>2. TypeOK
  BY <1>1, NoneAssumption DEF Init, TypeOK, Locked
<1>3. MemoryInv
  BY DEF Init, MemoryInv, LocalInv, OneEach, Working, Locked
<1>4. IndexInv
  BY LegacyAssumption DEF Init, IndexInv, OneEach
<1>5. ASSUME NEW r \in indexFile PROVE load_package(artifacts, r.version) # None
  <2>1. PICK d \in DOMAIN Legacy : Legacy[d] \in Packages /\ r = record_for_package(Legacy[d])
    BY <1>5 DEF Init, LegacyRecords
  <2>2. r.version = Version(Legacy[d]) /\ r.version \in Versions /\ r.version.digest = d
    BY <2>1, RecordFacts, LegacyAssumption DEF Version
  <2>3. artifacts[r.version] = None
    BY <2>2 DEF Init
  <2> QED BY <2>1, <2>2, <2>3, NoneAssumption DEF load_package
<1>6. ArtifactInv
  BY <1>5, NoneAssumption DEF Init, ArtifactInv, Settled
<1> QED BY <1>2, <1>3, <1>4, <1>6 DEF IInv

----------------------------------------------------------------------------
USE DEF disk, lock, memory, history, Goto, Return

\* The operation under the lock writes the artifact, finds nothing to do or fails.
LEMMA OperateEffect ==
    ASSUME NEW p \in Procs, Operate(p)
    PROVE  /\ pc[p] = "operate"
           /\ UNCHANGED <<indexFile, durableIndex, durableArtifacts, lockExists, shared,
                          acknowledged, published, damaged, faults>>
           /\ \/ WriteArtifact(p, pkg[p].package)
              \/ Goto(p, "index") /\ UNCHANGED <<artifacts, index, previous, checksum, pkg, exclusive>>
              \/ Abort(p) /\ UNCHANGED artifacts
BY DEF Operate, WriteFromLegacyOrBytes

\* Every step keeps the types and the exclusion of the sidecar lock.
LEMMA TypeStep == IInv /\ [Next]_vars => TypeOK'
<1> SUFFICES ASSUME IInv, [Next]_vars PROVE TypeOK'
    OBVIOUS
<1> USE DEF IInv, TypeOK, Locked
<1>1. ASSUME NEW p \in Procs, LoadLock(p) PROVE TypeOK'
  BY <1>1 DEF LoadLock
<1>2. ASSUME NEW p \in Procs, LoadIndex(p) PROVE TypeOK'
  BY <1>2 DEF LoadIndex
<1>3. ASSUME NEW p \in Procs, NEW q \in Packages, Publish(p, q) PROVE TypeOK'
  BY <1>3, RecordFacts DEF Publish, Register
<1>4. ASSUME NEW p \in Procs, NEW q \in Packages, Cache(p, q) PROVE TypeOK'
  BY <1>4, RecordFacts DEF Cache, Register
<1>5. ASSUME NEW p \in Procs, NEW q \in Packages, CacheAgain(p, q) PROVE TypeOK'
  BY <1>5 DEF CacheAgain
<1>6. ASSUME NEW p \in Procs, TakeLock(p) PROVE TypeOK'
  BY <1>6, NoneAssumption DEF TakeLock, Abort
<1>7. ASSUME NEW p \in Procs, ValidateChecksum(p) PROVE TypeOK'
  BY <1>7, NoneAssumption DEF ValidateChecksum, Abort
<1>8. ASSUME NEW p \in Procs, Operate(p) PROVE TypeOK'
  <2>1. pc[p] = "operate"
    BY <1>8, OperateEffect
  <2>2. pkg[p].package \in Packages /\ Version(pkg[p].package) \in Versions
    BY <2>1, RecordFacts DEF MemoryInv, LocalInv, CallInv, Working
  <2>3. UNCHANGED <<indexFile, durableIndex, durableArtifacts, lockExists, shared,
                    acknowledged, published, damaged, faults>>
    BY <1>8, OperateEffect
  <2>4. CASE WriteArtifact(p, pkg[p].package)
    BY <2>1, <2>2, <2>3, <2>4 DEF WriteArtifact
  <2>5. CASE Goto(p, "index") /\ UNCHANGED <<artifacts, index, previous, checksum, pkg, exclusive>>
    BY <2>1, <2>3, <2>5
  <2>6. CASE Abort(p) /\ UNCHANGED artifacts
    BY <2>1, <2>3, <2>6, NoneAssumption DEF Abort
  <2> QED BY <1>8, <2>4, <2>5, <2>6, OperateEffect
<1>9. ASSUME NEW p \in Procs, SyncArtifactDir(p) PROVE TypeOK'
  BY <1>9 DEF SyncArtifactDir
<1>10. ASSUME NEW p \in Procs, WriteIndex(p) PROVE TypeOK'
  BY <1>10 DEF WriteIndex
<1>11. ASSUME NEW p \in Procs, SyncIndexDir(p) PROVE TypeOK'
  BY <1>11, NoneAssumption DEF SyncIndexDir, MemoryInv, LocalInv, CallInv, Working
<1>12. ASSUME NEW p \in Procs, WriteFails(p) PROVE TypeOK'
  BY <1>12, NoneAssumption DEF WriteFails, Abort
<1>13. ASSUME NEW p \in Procs, Crash(p) PROVE TypeOK'
  BY <1>13, NoneAssumption DEF Crash, Killed
<1>14. CASE PowerLoss
  BY <1>14, NoneAssumption DEF PowerLoss, Killed
<1>15. ASSUME NEW v \in Versions, Damage(v) PROVE TypeOK'
  BY <1>15 DEF Damage
<1>16. CASE UNCHANGED vars
  BY <1>16 DEF vars
<1> QED
  BY <1>1, <1>2, <1>3, <1>4, <1>5, <1>6, <1>7, <1>8, <1>9, <1>10, <1>11, <1>12, <1>13,
     <1>14, <1>15, <1>16 DEF Next, Call, Work

----------------------------------------------------------------------------
\* A record whose version nobody has joins without making a pair.
LEMMA JoinFacts ==
    ASSUME NEW records, OneEach(records), NEW q,
           get_by_semver(records, q) = {} \/ record_for_package(q) \in records
    PROVE  OneEach(records \cup {record_for_package(q)})
BY DEF OneEach, get_by_semver, SameSemver

\* A step that leaves a process's memory and position alone keeps its invariant.
LEMMA LocalFrame ==
    ASSUME NEW p, LocalInv(p), pc'[p] = pc[p], pkg'[p] = pkg[p], index'[p] = index[p],
           previous'[p] = previous[p], checksum'[p] = checksum[p]
    PROVE  LocalInv(p)'
BY DEF LocalInv, CallInv, Rec

\* So does one that moves it within the locked part of its call.
LEMMA LockedFrame ==
    ASSUME NEW p, LocalInv(p), pc[p] \in Working, pc'[p] \in Working, pkg'[p] = pkg[p],
           index'[p] = index[p], previous'[p] = previous[p], checksum'[p] = checksum[p]
    PROVE  LocalInv(p)'
BY DEF LocalInv, CallInv, Rec, Working, Locked

\* An aborted call leaves memory as it was loaded.
LEMMA AbortLocal ==
    ASSUME TypeOK, NEW p \in Procs, LocalInv(p), pc[p] \in Working, Abort(p)
    PROVE  LocalInv(p)'
<1>1. index'[p] = checksum[p] /\ checksum'[p] = checksum[p] /\ pc'[p] = "idle"
  BY DEF TypeOK, LocalInv, CallInv, Abort
<1> QED BY <1>1 DEF LocalInv, Working, Locked

\* Every step keeps what a process has in memory consistent with its place in the call.
LEMMA MemoryStep == IInv /\ [Next]_vars => MemoryInv'
<1> SUFFICES ASSUME IInv, [Next]_vars, NEW q \in Procs PROVE LocalInv(q)'
    BY DEF MemoryInv
<1>0. LocalInv(q) /\ TypeOK
  BY DEF IInv, MemoryInv
<1> USE DEF TypeOK
<1>1. ASSUME NEW p \in Procs, LoadLock(p) PROVE LocalInv(q)'
  <2>1. CASE q # p  BY <1>0, <1>1, <2>1, LocalFrame DEF LoadLock
  <2>2. CASE q = p  BY <1>0, <1>1, <2>2 DEF LoadLock, LocalInv, Working, Locked
  <2> QED BY <2>1, <2>2
<1>2. ASSUME NEW p \in Procs, LoadIndex(p) PROVE LocalInv(q)'
  <2>1. CASE q # p  BY <1>0, <1>2, <2>1, LocalFrame DEF LoadIndex
  <2>2. CASE q = p
    <3>1. checksum'[q] = indexFile /\ index'[q] = indexFile /\ pc'[q] = "idle"
      BY <1>0, <1>2, <2>2 DEF LoadIndex
    <3> QED BY <3>1 DEF LocalInv, Working, Locked, IInv, IndexInv
  <2> QED BY <2>1, <2>2
<1>3. ASSUME NEW p \in Procs, NEW k \in Packages, Publish(p, k) PROVE LocalInv(q)'
  <2>1. CASE q # p  BY <1>0, <1>3, <2>1, LocalFrame DEF Publish, Register
  <2>2. CASE q = p
    <3>1. /\ pkg'[q] = [package |-> k, call |-> "publish"]
          /\ index[q] = checksum[q] /\ previous'[q] = checksum[q] /\ checksum'[q] = checksum[q]
          /\ index'[q] = checksum[q] \cup {record_for_package(k)} /\ pc'[q] = "lock"
      BY <1>0, <1>3, <2>2, NoneAssumption DEF Publish, Register, LocalInv
    <3> QED BY <1>0, <1>3, <2>2, <3>1, ZenonT(40) DEF Publish, Register, LocalInv, CallInv, Rec
  <2> QED BY <2>1, <2>2
<1>4. ASSUME NEW p \in Procs, NEW k \in Packages, Cache(p, k) PROVE LocalInv(q)'
  <2>1. CASE q # p  BY <1>0, <1>4, <2>1, LocalFrame DEF Cache, Register
  <2>2. CASE q = p
    <3>1. /\ pkg'[q] = [package |-> k, call |-> "cache"]
          /\ index[q] = checksum[q] /\ previous'[q] = checksum[q] /\ checksum'[q] = checksum[q]
          /\ index'[q] = checksum[q] \cup {record_for_package(k)} /\ pc'[q] = "lock"
      BY <1>0, <1>4, <2>2, NoneAssumption DEF Cache, Register, LocalInv
    <3> QED BY <1>0, <1>4, <2>2, <3>1, ZenonT(40) DEF Cache, Register, LocalInv, CallInv, Rec
  <2> QED BY <2>1, <2>2
<1>5. ASSUME NEW p \in Procs, NEW k \in Packages, CacheAgain(p, k) PROVE LocalInv(q)'
  <2>1. CASE q # p  BY <1>0, <1>5, <2>1, LocalFrame DEF CacheAgain
  <2>2. CASE q = p
    <3>1. /\ pkg'[q] = [package |-> k, call |-> "repair"]
          /\ index[q] = checksum[q] /\ previous'[q] = checksum[q] /\ checksum'[q] = checksum[q]
          /\ index'[q] = checksum[q] /\ pc'[q] = "lock"
      BY <1>0, <1>5, <2>2, NoneAssumption DEF CacheAgain, LocalInv
    <3>2. record_for_package(k) \in checksum[q]
      BY <1>5, <2>2, <3>1 DEF CacheAgain, get_by_semver
    <3> QED BY <1>0, <3>1, <3>2 DEF LocalInv, CallInv, Rec
  <2> QED BY <2>1, <2>2
<1>6. ASSUME NEW p \in Procs, TakeLock(p) PROVE LocalInv(q)'
  <2>1. CASE q # p  BY <1>0, <1>6, <2>1, LocalFrame DEF TakeLock, Abort
  <2>2. CASE q = p  BY <1>0, <1>6, <2>2, AbortLocal, LockedFrame DEF TakeLock, Working, Locked
  <2> QED BY <2>1, <2>2
<1>7. ASSUME NEW p \in Procs, ValidateChecksum(p) PROVE LocalInv(q)'
  <2>1. CASE q # p  BY <1>0, <1>7, <2>1, LocalFrame DEF ValidateChecksum, Abort
  <2>2. CASE q = p
    BY <1>0, <1>7, <2>2, AbortLocal, LockedFrame DEF ValidateChecksum, Working, Locked
  <2> QED BY <2>1, <2>2
<1>8. ASSUME NEW p \in Procs, Operate(p) PROVE LocalInv(q)'
  <2>1. CASE q # p
    BY <1>0, <1>8, <2>1, LocalFrame DEF Operate, Abort, WriteArtifact, WriteFromLegacyOrBytes
  <2>2. CASE q = p
    BY <1>0, <1>8, <2>2, AbortLocal, LockedFrame
       DEF Operate, WriteArtifact, WriteFromLegacyOrBytes, Working, Locked
  <2> QED BY <2>1, <2>2
<1>9. ASSUME NEW p \in Procs, SyncArtifactDir(p) \/ WriteIndex(p) PROVE LocalInv(q)'
  <2>1. CASE q # p  BY <1>0, <1>9, <2>1, LocalFrame DEF SyncArtifactDir, WriteIndex
  <2>2. CASE q = p
    BY <1>0, <1>9, <2>2, LockedFrame DEF SyncArtifactDir, WriteIndex, Working, Locked
  <2> QED BY <2>1, <2>2
<1>11. ASSUME NEW p \in Procs, SyncIndexDir(p) PROVE LocalInv(q)'
  <2>1. CASE q # p  BY <1>0, <1>11, <2>1, LocalFrame DEF SyncIndexDir
  <2>2. CASE q = p
    <3>1. checksum'[q] = index[q] /\ index'[q] = index[q] /\ pc'[q] = "idle"
      BY <1>0, <1>11, <2>2 DEF SyncIndexDir
    <3>2. OneEach(checksum[q]) /\ CallInv(q)
      BY <1>0, <1>11, <2>2 DEF SyncIndexDir, LocalInv, Working, Locked
    <3>3. \/ get_by_semver(checksum[q], pkg[q].package) = {}
          \/ record_for_package(pkg[q].package) \in checksum[q]
      BY <3>2 DEF CallInv, Rec
    <3>4. OneEach(index[q])
      BY <3>2, <3>3, JoinFacts DEF CallInv, Rec
    <3> QED BY <3>1, <3>4 DEF LocalInv, Working, Locked
  <2> QED BY <2>1, <2>2
<1>12. ASSUME NEW p \in Procs, WriteFails(p) PROVE LocalInv(q)'
  <2>1. CASE q # p  BY <1>0, <1>12, <2>1, LocalFrame DEF WriteFails, Abort
  <2>2. CASE q = p  BY <1>0, <1>12, <2>2, AbortLocal DEF WriteFails, Working, Locked
  <2> QED BY <2>1, <2>2
<1>13. ASSUME NEW dead, Killed(dead) PROVE LocalInv(q)'
  <2>1. CASE q \notin dead  BY <1>0, <1>13, <2>1, LocalFrame DEF Killed
  <2>2. CASE q \in dead
    <3>1. checksum'[q] = {} /\ pc'[q] = "unloaded"
      BY <1>13, <2>2 DEF Killed
    <3> QED BY <3>1 DEF LocalInv, OneEach, Working, Locked
  <2> QED BY <2>1, <2>2
<1>15. ASSUME NEW v \in Versions, Damage(v) PROVE LocalInv(q)'
  BY <1>0, <1>15, LocalFrame DEF Damage
<1>16. CASE UNCHANGED vars
  BY <1>0, <1>16, LocalFrame DEF vars
<1> QED
  BY <1>1, <1>2, <1>3, <1>4, <1>5, <1>6, <1>7, <1>8, <1>9, <1>11, <1>12, <1>13, <1>15, <1>16
     DEF Next, Call, Work, Crash, PowerLoss

\* A version that some of the records have is one that all of them have.
LEMMA ExactVersionMonotone ==
    ASSUME NEW records, NEW all, records \subseteq all, NEW v, get_exact_version(records, v) # {}
    PROVE  get_exact_version(all, v) # {}
BY DEF get_exact_version

\* What a returning call has acknowledged is in the index file, and so are the
\* dependencies of what was published.
LEMMA AcknowledgedIsIndexed ==
    ASSUME IInv, NEW p \in Procs, SyncIndexDir(p)
    PROVE  /\ \A package \in acknowledged' : record_for_package(package) \in indexFile
           /\ \A package \in published' :
                \A v \in package.deps : get_exact_version(indexFile, v) # {}
<1>1. pc[p] = "sync_index"
  BY DEF SyncIndexDir
<1>2. CallInv(p)
  BY <1>1 DEF IInv, MemoryInv, LocalInv, Working, Locked
<1>3. index[p] = indexFile /\ durableIndex \subseteq indexFile
  BY <1>1 DEF IInv, IndexInv
<1>4. checksum[p] \subseteq indexFile /\ Rec(p) \in indexFile
  BY <1>2, <1>3 DEF CallInv
<1>5. /\ acknowledged' = acknowledged \cup {pkg[p].package}
      /\ published' = IF pkg[p].call = "publish" THEN published \cup {pkg[p].package} ELSE published
  BY DEF SyncIndexDir
<1>6. ASSUME NEW package \in acknowledged' PROVE record_for_package(package) \in indexFile
  <2>1. CASE package \in acknowledged
    BY <1>3, <2>1 DEF IInv, IndexInv
  <2>2. CASE package = pkg[p].package
    BY <1>4, <2>2 DEF Rec
  <2> QED BY <1>5, <1>6, <2>1, <2>2
<1>7. ASSUME NEW package \in published', NEW v \in package.deps
      PROVE  get_exact_version(indexFile, v) # {}
  <2>1. CASE package \in published
    <3>1. get_exact_version(durableIndex, v) # {}
      BY <1>7, <2>1 DEF IInv, IndexInv
    <3> QED BY <1>3, <3>1, ExactVersionMonotone
  <2>2. CASE package = pkg[p].package /\ pkg[p].call = "publish"
    <3>1. get_exact_version(checksum[p], v) # {}
      BY <1>2, <1>7, <2>2 DEF CallInv
    <3> QED BY <1>4, <3>1, ExactVersionMonotone
  <2> QED BY <1>5, <1>7, <2>1, <2>2
<1> QED BY <1>6, <1>7

\* The only process with the lock is the only one at the labels under it.
LEMMA OtherLabels ==
    ASSUME TypeOK, NEW p \in Procs, pc[p] \in Locked, NEW label, pc' = [pc EXCEPT ![p] = label],
           NEW q \in Procs, pc'[q] \in {"sync_artifact", "index"}
    PROVE  q = p /\ pc'[q] = label
<1>1. CASE q # p
  <2>1. pc'[q] = pc[q] /\ pc[q] \in Locked
    BY <1>1 DEF TypeOK, Locked
  <2> QED BY <1>1, <2>1, OneWorker
<1>2. CASE q = p
  BY <1>2 DEF TypeOK
<1> QED BY <1>1, <1>2

\* After a power loss the index file is still what it was, or what was durable.
LEMMA IndexAfterPowerLoss ==
    ASSUME IInv, PowerLoss
    PROVE  IndexInv'
<1>1. /\ indexFile' \in {indexFile, durableIndex} /\ durableIndex' = indexFile'
      /\ UNCHANGED <<acknowledged, published>>
      /\ \A p \in Procs : pc'[p] = "unloaded"
  BY DEF PowerLoss, Killed
<1>2. durableIndex \subseteq indexFile' /\ indexFile' \subseteq indexFile
  BY <1>1 DEF IInv, IndexInv
<1>3. OneEach(indexFile')
  BY <1>2 DEF IInv, IndexInv, OneEach
<1>4. \A package \in acknowledged' : record_for_package(package) \in durableIndex'
  BY <1>1, <1>2 DEF IInv, IndexInv
<1>5. ASSUME NEW package \in published', NEW v \in package.deps
      PROVE  get_exact_version(durableIndex', v) # {}
  <2>1. get_exact_version(durableIndex, v) # {}
    BY <1>1, <1>5 DEF IInv, IndexInv
  <2> QED BY <1>1, <1>2, <2>1, ExactVersionMonotone
<1> QED BY <1>1, <1>3, <1>4, <1>5 DEF IndexInv

\* Every step keeps the index file and its durable copy consistent.
LEMMA IndexStep == IInv /\ [Next]_vars => IndexInv'
<1> SUFFICES ASSUME IInv, [Next]_vars PROVE IndexInv'
    OBVIOUS
<1> USE DEF IInv, TypeOK, Locked, IndexInv
<1>1. ASSUME NEW p \in Procs, LoadLock(p) PROVE IndexInv'
  BY <1>1 DEF LoadLock
<1>2. ASSUME NEW p \in Procs, LoadIndex(p) PROVE IndexInv'
  BY <1>2 DEF LoadIndex
<1>3. ASSUME NEW p \in Procs, NEW q \in Packages, Publish(p, q) PROVE IndexInv'
  BY <1>3 DEF Publish, Register
<1>4. ASSUME NEW p \in Procs, NEW q \in Packages, Cache(p, q) PROVE IndexInv'
  BY <1>4 DEF Cache, Register
<1>5. ASSUME NEW p \in Procs, NEW q \in Packages, CacheAgain(p, q) PROVE IndexInv'
  BY <1>5 DEF CacheAgain
<1>6. ASSUME NEW p \in Procs, TakeLock(p) PROVE IndexInv'
  <2>1. UNCHANGED <<indexFile, durableIndex, acknowledged, published>>
    BY <1>6 DEF TakeLock
  <2>2. CASE Abort(p)
    BY <2>1, <2>2 DEF Abort
  <2>3. CASE Goto(p, "check") /\ UNCHANGED <<index, checksum>>
    BY <2>1, <2>3
  <2> QED BY <1>6, <2>2, <2>3 DEF TakeLock
<1>7. ASSUME NEW p \in Procs, ValidateChecksum(p) PROVE IndexInv'
  <2>1. UNCHANGED <<indexFile, durableIndex, acknowledged, published>>
    BY <1>7 DEF ValidateChecksum
  <2>2. CASE Abort(p)
    BY <2>1, <2>2 DEF Abort
  <2>3. CASE checksum[p] = indexFile /\ Goto(p, "operate") /\ UNCHANGED <<index, checksum>>
    BY <2>1, <2>3
  <2> QED BY <1>7, <2>2, <2>3 DEF ValidateChecksum
<1>8. ASSUME NEW p \in Procs, Operate(p) PROVE IndexInv'
  <2>1. pc[p] = "operate" /\ UNCHANGED <<indexFile, durableIndex, acknowledged, published>>
    BY <1>8, OperateEffect
  <2>2. CASE WriteArtifact(p, pkg[p].package)
    BY <2>1, <2>2 DEF WriteArtifact
  <2>3. CASE Goto(p, "index") /\ UNCHANGED <<artifacts, index, previous, checksum, pkg, exclusive>>
    BY <2>1, <2>3
  <2>4. CASE Abort(p) /\ UNCHANGED artifacts
    BY <2>1, <2>4 DEF Abort
  <2> QED BY <1>8, <2>2, <2>3, <2>4, OperateEffect
<1>9. ASSUME NEW p \in Procs, SyncArtifactDir(p) PROVE IndexInv'
  BY <1>9 DEF SyncArtifactDir
<1>10. ASSUME NEW p \in Procs, WriteIndex(p) PROVE IndexInv'
  <2>1. indexFile' = indexFile \cup {Rec(p)} /\ indexFile' = index[p]
    BY <1>10 DEF WriteIndex, MemoryInv, LocalInv, CallInv, Working
  <2>2. OneEach(indexFile \cup {Rec(p)})
    <3>1. \/ get_by_semver(indexFile, pkg[p].package) = {}
          \/ record_for_package(pkg[p].package) \in indexFile
      BY <1>10 DEF WriteIndex, MemoryInv, LocalInv, CallInv, Working, Rec
    <3> QED BY <3>1, JoinFacts DEF Rec
  <2>3. \A q \in Procs : pc[q] \in Locked => q = p
    BY <1>10, OneWorker DEF WriteIndex
  <2> QED BY <1>10, <2>1, <2>2, <2>3 DEF WriteIndex
<1>11. ASSUME NEW p \in Procs, SyncIndexDir(p) PROVE IndexInv'
  <2>1. durableIndex' = indexFile /\ index[p] = indexFile /\ durableIndex \subseteq indexFile
    BY <1>11 DEF SyncIndexDir
  <2>2. \A package \in acknowledged' : record_for_package(package) \in durableIndex'
    BY <1>11, <2>1, AcknowledgedIsIndexed, Zenon
  <2>3. \A package \in published' :
            \A v \in package.deps : get_exact_version(durableIndex', v) # {}
    BY <1>11, <2>1, AcknowledgedIsIndexed, Zenon
  <2>4. \A q \in Procs : pc[q] \in Locked => q = p
    BY <1>11, OneWorker DEF SyncIndexDir
  <2> QED BY <1>11, <2>1, <2>2, <2>3, <2>4 DEF SyncIndexDir
<1>12. ASSUME NEW p \in Procs, WriteFails(p) PROVE IndexInv'
  BY <1>12 DEF WriteFails, Abort
<1>13. ASSUME NEW p \in Procs, Crash(p) PROVE IndexInv'
  BY <1>13 DEF Crash, Killed
<1>14. CASE PowerLoss
  BY <1>14, IndexAfterPowerLoss, Zenon
<1>15. ASSUME NEW v \in Versions, Damage(v) PROVE IndexInv'
  BY <1>15 DEF Damage
<1>16. CASE UNCHANGED vars
  BY <1>16 DEF vars
<1> QED
  BY <1>1, <1>2, <1>3, <1>4, <1>5, <1>6, <1>7, <1>8, <1>9, <1>10, <1>11, <1>12, <1>13,
     <1>14, <1>15, <1>16 DEF Next, Call, Work

----------------------------------------------------------------------------
\* A step that leaves the disk alone and keeps positions on or moves them off
\* the two labels in question keeps the artifacts' invariant.
LEMMA ArtifactFrame ==
    ASSUME IInv, UNCHANGED <<artifacts, durableArtifacts, damaged>>, indexFile' \subseteq indexFile,
           \A p \in Procs : pc'[p] \in {"sync_artifact", "index"} =>
               pc'[p] = pc[p] /\ pkg'[p] = pkg[p]
    PROVE  ArtifactInv'
<1>1. \A v : load_package(artifacts, v)' = load_package(artifacts, v)
             /\ load_package(durableArtifacts, v)' = load_package(durableArtifacts, v)
  BY DEF load_package
<1>2. \A v : Settled(v)' <=> Settled(v)
  BY <1>1 DEF Settled
<1> QED BY <1>2 DEF IInv, ArtifactInv, Target

\* load_package reads one file.
LEMMA LoadLocal ==
    ASSUME NEW f, NEW g, NEW v, f[v] = g[v]
    PROVE  load_package(f, v) = load_package(g, v)
BY DEF load_package

\* Every step keeps the artifacts of the index loadable.
LEMMA ArtifactStep == IInv /\ [Next]_vars => ArtifactInv'
<1> SUFFICES ASSUME IInv, [Next]_vars PROVE ArtifactInv'
    OBVIOUS
<1>0. TypeOK
  BY DEF IInv
<1>1. ASSUME NEW p \in Procs, LoadLock(p) PROVE ArtifactInv'
  BY <1>0, <1>1, ArtifactFrame DEF LoadLock, TypeOK
<1>2. ASSUME NEW p \in Procs, LoadIndex(p) PROVE ArtifactInv'
  BY <1>0, <1>2, ArtifactFrame DEF LoadIndex, TypeOK
<1>3. ASSUME NEW p \in Procs, NEW q \in Packages, Publish(p, q) PROVE ArtifactInv'
  BY <1>0, <1>3, ArtifactFrame DEF Publish, TypeOK
<1>4. ASSUME NEW p \in Procs, NEW q \in Packages, Cache(p, q) PROVE ArtifactInv'
  BY <1>0, <1>4, ArtifactFrame DEF Cache, TypeOK
<1>5. ASSUME NEW p \in Procs, NEW q \in Packages, CacheAgain(p, q) PROVE ArtifactInv'
  BY <1>0, <1>5, ArtifactFrame DEF CacheAgain, TypeOK
<1>6. ASSUME NEW p \in Procs, TakeLock(p) PROVE ArtifactInv'
  <2>1. UNCHANGED <<indexFile, artifacts, durableArtifacts, damaged>>
    BY <1>6 DEF TakeLock
  <2>2. ASSUME NEW q \in Procs, pc'[q] \in {"sync_artifact", "index"}
        PROVE  pc'[q] = pc[q] /\ pkg'[q] = pkg[q]
    <3>1. CASE Abort(p)
      BY <1>0, <2>2, <3>1 DEF Abort, TypeOK
    <3>2. CASE Goto(p, "check") /\ UNCHANGED pkg
      BY <1>0, <2>2, <3>2 DEF TypeOK
    <3> QED BY <1>6, <3>1, <3>2 DEF TakeLock
  <2> QED BY <2>1, <2>2, ArtifactFrame
<1>7. ASSUME NEW p \in Procs, ValidateChecksum(p) PROVE ArtifactInv'
  <2>1. UNCHANGED <<indexFile, artifacts, durableArtifacts, damaged>>
    BY <1>7 DEF ValidateChecksum
  <2>2. ASSUME NEW q \in Procs, pc'[q] \in {"sync_artifact", "index"}
        PROVE  pc'[q] = pc[q] /\ pkg'[q] = pkg[q]
    <3>1. CASE Abort(p)
      BY <1>0, <2>2, <3>1 DEF Abort, TypeOK
    <3>2. CASE Goto(p, "operate") /\ UNCHANGED pkg
      BY <1>0, <2>2, <3>2 DEF TypeOK
    <3> QED BY <1>7, <3>1, <3>2 DEF ValidateChecksum
  <2> QED BY <2>1, <2>2, ArtifactFrame
<1>12. ASSUME NEW p \in Procs, WriteFails(p) PROVE ArtifactInv'
  BY <1>0, <1>12, ArtifactFrame DEF WriteFails, Abort, TypeOK
<1>13. ASSUME NEW p \in Procs, Crash(p) PROVE ArtifactInv'
  BY <1>0, <1>13, ArtifactFrame DEF Crash, Killed, TypeOK
<1>11. ASSUME NEW p \in Procs, SyncIndexDir(p) PROVE ArtifactInv'
  BY <1>0, <1>11, ArtifactFrame DEF SyncIndexDir, TypeOK
<1>16. CASE UNCHANGED vars
  BY <1>16, ArtifactFrame DEF vars
<1>8. ASSUME NEW p \in Procs, Operate(p) PROVE ArtifactInv'
  <2> DEFINE package == pkg[p].package
  <2> DEFINE v == Target(p)
  <2>1. /\ CallInv(p) /\ checksum[p] = indexFile /\ package \in Packages /\ v = Version(package)
        /\ v \in Versions /\ Rec(p).version = v
    BY <1>0, <1>8, RecordFacts
       DEF Operate, IInv, MemoryInv, LocalInv, IndexInv, Working, Locked, CallInv, Target, Rec
  <2>2. \A q \in Procs : pc[q] \in Locked => q = p
    BY <1>0, <1>8, OneWorker DEF Operate, Locked
  <2>3. CASE artifacts' = artifacts /\ pc'[p] # "sync_artifact" /\ pc'[p] # "index"
    BY <1>0, <1>8, <2>3, ArtifactFrame
       DEF Operate, TypeOK, Abort, WriteFromLegacyOrBytes, WriteArtifact
  <2>4. CASE pkg[p].call = "repair" /\ artifacts[v] = package /\ Goto(p, "index")
             /\ UNCHANGED <<artifacts, memory, pkg, exclusive>>
    <3>1. Rec(p) \in indexFile
      BY <2>1, <2>4 DEF CallInv
    <3>2. \A w : Settled(w)' <=> Settled(w)
      BY <1>8, <2>4 DEF Operate, Settled, load_package
    <3>3. v \notin damaged => Settled(v)
      BY <2>1, <3>1 DEF IInv, ArtifactInv
    <3>4. \A q \in Procs : pc'[q] \in {"sync_artifact", "index"} => q = p
      BY <1>0, <2>2, <2>4 DEF TypeOK, Locked
    <3>5. pc'[p] = "index" /\ Target(p)' = v
      BY <1>0, <2>4 DEF TypeOK, Target
    <3> QED BY <1>8, <2>4, <3>2, <3>3, <3>4, <3>5 DEF Operate, IInv, ArtifactInv
  <2>5. CASE /\ WriteArtifact(p, package)
             /\ pkg[p].call = "repair" /\ v \notin damaged =>
                  load_package(artifacts, v) = package /\ load_package(durableArtifacts, v) = package
    <3>1. /\ artifacts' = [artifacts EXCEPT ![v] = package] /\ Target(p)' = v
          /\ artifacts'[v] = package /\ \A w \in Versions \ {v} : artifacts'[w] = artifacts[w]
          /\ UNCHANGED <<indexFile, durableArtifacts, damaged>>
          /\ pc'[p] = "sync_artifact"
      BY <1>0, <1>8, <2>1, <2>5 DEF WriteArtifact, TypeOK, Operate, Target
    <3>2. \A q \in Procs : pc'[q] \in {"sync_artifact", "index"} => q = p
      BY <1>0, <2>2, <2>5 DEF TypeOK, Locked, WriteArtifact
    <3>3. ASSUME NEW r \in indexFile, r.version \notin damaged PROVE Settled(r.version)'
      <4>1. Settled(r.version) /\ r.version \in Versions
        BY <1>0, <3>3, RecordFacts DEF IInv, ArtifactInv, TypeOK
      <4>2. CASE r.version # v
        <5>1. load_package(artifacts', r.version) = load_package(artifacts, r.version)
          BY <3>1, <4>1, <4>2 DEF load_package
        <5> QED BY <3>1, <4>1, <5>1 DEF Settled
      <4>3. CASE r.version = v
        <5>1. pkg[p].call = "repair"
          BY <2>1, <4>3, <3>3 DEF CallInv, get_by_semver, SameSemver, Rec
        <5>2. load_package(artifacts', v) = package
          BY <2>1, <3>1, NoneAssumption DEF load_package
        <5> QED BY <2>1, <2>5, <3>1, <3>3, <4>3, <5>1, <5>2, NoneAssumption DEF Settled
      <4> QED BY <4>2, <4>3
    <3>4. \A w \in Versions : artifacts'[w] \in Packages => Version(artifacts'[w]) = w
      BY <2>1, <3>1 DEF IInv, ArtifactInv
    <3>5. \A w \in Versions :
              durableArtifacts'[w] \in Packages => Version(durableArtifacts'[w]) = w
      BY <3>1 DEF IInv, ArtifactInv
    <3>6. \A r \in indexFile' : r.version \notin damaged' => Settled(r.version)'
      BY <3>1, <3>3
    <3>7. ASSUME NEW q \in Procs
          PROVE  /\ pc'[q] = "sync_artifact" /\ Target(q)' \notin damaged'
                      => artifacts'[Target(q)'] \in Packages
                 /\ pc'[q] = "index" /\ Target(q)' \notin damaged' => Settled(Target(q))'
      <4>1. CASE q # p
        BY <3>2, <4>1
      <4>2. CASE q = p
        <5>1. pc'[q] # "index"
          BY <3>1, <4>2
        <5>2. artifacts'[Target(q)'] \in Packages
          BY <2>1, <3>1, <4>2
        <5> QED BY <5>1, <5>2
      <4> QED BY <4>1, <4>2
    <3> QED BY <3>4, <3>5, <3>6, <3>7 DEF ArtifactInv
  <2>6. CASE pkg[p].call = "repair" /\ artifacts[v] \in {None, Corrupt} /\ WriteArtifact(p, package)
             /\ ~(Legacy[package.digest] \in Packages /\ Version(Legacy[package.digest]) = v
                  /\ Legacy[package.digest] # package)
    <3>1. v \notin damaged => Settled(v)
      <4>1. Rec(p) \in indexFile /\ Rec(p).version = v
        BY <2>1, <2>6 DEF CallInv
      <4> HIDE DEF v
      <4> QED BY <4>1 DEF IInv, ArtifactInv
    <3>2. v.digest = package.digest
      <4>1. Version(package).digest = package.digest
        BY DEF Version
      <4>2. v = Version(package)
        BY <2>1
      <4> HIDE DEF v, package
      <4> QED BY <4>1, <4>2, Zenon
    <3>3. v \notin damaged =>
             load_package(artifacts, v) = package /\ load_package(durableArtifacts, v) = package
      BY <2>1, <2>6, <3>1, <3>2, NoneAssumption DEF Settled, load_package
    <3> QED BY <2>5, <2>6, <3>3
  <2> QED
    BY <1>0, <1>8, <2>1, <2>3, <2>4, <2>5, <2>6
       DEF Operate, WriteFromLegacyOrBytes, Abort, Target, TypeOK
<1>9. ASSUME NEW p \in Procs, SyncArtifactDir(p) PROVE ArtifactInv'
  <2>1. /\ durableArtifacts' = artifacts /\ artifacts' = artifacts /\ indexFile' = indexFile
        /\ damaged' = {v \in damaged : artifacts[v] \notin Packages} /\ pkg' = pkg
    BY <1>9 DEF SyncArtifactDir
  <2>2. CallInv(p) /\ Target(p) \in Versions
    BY <1>0, <1>9, RecordFacts
       DEF SyncArtifactDir, IInv, MemoryInv, LocalInv, Working, Locked, CallInv, Target
  <2>3. \A q \in Procs : pc'[q] \in {"sync_artifact", "index"} => q = p /\ pc'[q] = "index"
    <3>1. pc[p] \in Locked /\ pc' = [pc EXCEPT ![p] = "index"]
      BY <1>9 DEF SyncArtifactDir, Locked
    <3> QED BY <1>0, <3>1, OtherLabels
  <2>4. ASSUME NEW v \in Versions, artifacts[v] \in Packages PROVE Settled(v)'
    BY <2>1, <2>4, LoadFacts, NoneAssumption DEF Settled, IInv, ArtifactInv
  <2>5. ASSUME NEW v \in Versions, Settled(v) PROVE Settled(v)'
    BY <2>1, <2>5 DEF Settled
  <2>6. \A r \in indexFile' : r.version \notin damaged' => Settled(r.version)'
    BY <1>0, <2>1, <2>4, <2>5, RecordFacts DEF IInv, ArtifactInv, TypeOK
  <2>7. Target(p) \notin damaged' => Settled(Target(p))'
    BY <1>9, <2>1, <2>2, <2>4 DEF SyncArtifactDir, IInv, ArtifactInv, Target
  <2>8. Target(p)' = Target(p)
    BY <2>1 DEF Target
  <2> QED BY <2>1, <2>3, <2>6, <2>7, <2>8 DEF IInv, ArtifactInv
<1>10. ASSUME NEW p \in Procs, WriteIndex(p) PROVE ArtifactInv'
  <2>1. CallInv(p) /\ checksum[p] = indexFile
    BY <1>10 DEF WriteIndex, IInv, MemoryInv, LocalInv, IndexInv, Working, Locked
  <2>2. indexFile' = indexFile \cup {Rec(p)} /\ Rec(p).version = Target(p)
    BY <1>0, <1>10, <2>1, RecordFacts DEF WriteIndex, CallInv, Rec, Target
  <2>3. \A q \in Procs : pc'[q] \notin {"sync_artifact", "index"}
    <3>1. pc[p] \in Locked /\ pc' = [pc EXCEPT ![p] = "sync_index"]
      BY <1>10 DEF WriteIndex, Locked
    <3>2. ASSUME NEW q \in Procs, pc'[q] \in {"sync_artifact", "index"} PROVE FALSE
      <4>1. pc'[q] = "sync_index"
        BY <1>0, <3>1, <3>2, OtherLabels
      <4> QED BY <3>2, <4>1
    <3> QED BY <3>2
  <2>4. \A w : Settled(w)' <=> Settled(w)
    BY <1>10 DEF WriteIndex, Settled, load_package
  <2> QED BY <1>10, <2>2, <2>3, <2>4 DEF WriteIndex, IInv, ArtifactInv
<1>14. CASE PowerLoss
  <2>1. /\ durableArtifacts' = artifacts' /\ indexFile' \subseteq indexFile /\ damaged' = damaged
        /\ \A v \in Versions : artifacts'[v] \in {artifacts[v], durableArtifacts[v]}
    BY <1>14 DEF PowerLoss, IInv, IndexInv
  <2>2. \A q \in Procs : pc'[q] = "unloaded"
    BY <1>14 DEF PowerLoss, Killed
  <2>3. ASSUME NEW v \in Versions, Settled(v) PROVE Settled(v)'
    <3>1. durableArtifacts'[v] = artifacts'[v] /\ artifacts'[v] \in {artifacts[v], durableArtifacts[v]}
      BY <2>1
    <3>2. load_package(durableArtifacts', v) = load_package(artifacts', v)
      BY <3>1, LoadLocal
    <3>3. load_package(artifacts', v) \in {load_package(artifacts, v), load_package(durableArtifacts, v)}
      BY <3>1, LoadLocal
    <3> QED BY <2>3, <3>2, <3>3 DEF Settled
  <2>4. \A r \in indexFile' : r.version \notin damaged' => Settled(r.version)'
    BY <1>0, <2>1, <2>3, RecordFacts DEF IInv, ArtifactInv, TypeOK
  <2>5. \A v \in Versions : artifacts'[v] \in Packages => Version(artifacts'[v]) = v
    BY <2>1 DEF IInv, ArtifactInv
  <2> QED BY <2>1, <2>2, <2>4, <2>5 DEF ArtifactInv
<1>15. ASSUME NEW v \in Versions, Damage(v) PROVE ArtifactInv'
  <2>1. /\ durableArtifacts' = artifacts' /\ damaged' = damaged \cup {v}
        /\ UNCHANGED <<indexFile, pc, pkg>>
        /\ artifacts'[v] \in {None, Corrupt} /\ \A w \in Versions \ {v} : artifacts'[w] = artifacts[w]
    BY <1>0, <1>15 DEF Damage, TypeOK
  <2>2. ASSUME NEW w \in Versions \ {v}, Settled(w) PROVE Settled(w)'
    <3>1. artifacts'[w] = artifacts[w] /\ durableArtifacts'[w] = artifacts[w]
      BY <2>1
    <3>2. load_package(artifacts', w) = load_package(artifacts, w)
      BY <3>1, LoadLocal
    <3>3. load_package(durableArtifacts', w) = load_package(artifacts, w)
      BY <3>1, LoadLocal
    <3> QED BY <2>2, <3>1, <3>2, <3>3 DEF Settled
  <2>3. \A r \in indexFile' : r.version \notin damaged' => Settled(r.version)'
    BY <1>0, <2>1, <2>2, RecordFacts DEF IInv, ArtifactInv, TypeOK
  <2>4. \A w \in Versions : artifacts'[w] \in Packages => Version(artifacts'[w]) = w
    BY <2>1, NoneAssumption DEF IInv, ArtifactInv
  <2>5. ASSUME NEW q \in Procs, pc[q] \in {"sync_artifact", "index"}
        PROVE  Target(q)' = Target(q) /\ Target(q) \in Versions
    BY <1>0, <2>1, <2>5, RecordFacts
       DEF IInv, MemoryInv, LocalInv, Working, Locked, CallInv, Target
  <2> QED BY <2>1, <2>2, <2>3, <2>4, <2>5 DEF IInv, ArtifactInv
<1> QED
  BY <1>1, <1>2, <1>3, <1>4, <1>5, <1>6, <1>7, <1>8, <1>9, <1>10, <1>11, <1>12, <1>13,
     <1>14, <1>15, <1>16 DEF Next, Call, Work

----------------------------------------------------------------------------
\* The invariant holds throughout.
LEMMA Invariance == Spec => []IInv
BY InitIInv, TypeStep, MemoryStep, IndexStep, ArtifactStep, PTL DEF Spec, IInv

\* Whatever fails and however processes interleave, the index names only
\* artifacts that load: writing and syncing the artifact before the index, both
\* under the exclusive lock, is enough.
THEOREM IndexedIsLoadableHolds == Spec => []IndexedIsLoadable
<1>1. IInv => IndexedIsLoadable
  BY DEF IInv, ArtifactInv, Settled, IndexedIsLoadable
<1> QED BY <1>1, Invariance, PTL

\* A record reported as stored is never overwritten: comparing the index file
\* with what was loaded, under the lock, rules out lost updates.
THEOREM NothingLostHolds == Spec => []NothingLost
<1>1. IInv => NothingLost
  BY DEF IInv, IndexInv, NothingLost
<1> QED BY <1>1, Invariance, PTL

\* Two publishers never both get a record for one semantic version.
THEOREM OneRecordPerVersionHolds == Spec => []OneRecordPerVersion
<1>1. IInv => OneRecordPerVersion
  BY DEF IInv, IndexInv, OneEach, OneRecordPerVersion
<1> QED BY <1>1, Invariance, PTL

\* The dependency check, made before the lock is taken, still holds of the index
\* the record is written to.
THEOREM DependenciesIndexedHolds == Spec => []DependenciesIndexed
<1>1. IInv => DependenciesIndexed
  BY DEF IInv, IndexInv, DependenciesIndexed, get_exact_version
<1> QED BY <1>1, Invariance, PTL

\* An indexed version goes on loading as the package it first was: of the steps
\* that touch artifacts, a write under the lock agrees with the durable copy, a
\* power loss falls back on that copy, and damage is recorded as such.
THEOREM ArtifactsAreImmutableHolds == Spec => ArtifactsAreImmutable
<1> DEFINE Kept == \A r \in indexFile \cap indexFile' :
                     r.version \notin (damaged \cup damaged') =>
                       load_package(artifacts, r.version)' = load_package(artifacts, r.version)
<1>1. ASSUME IInv, IInv', [Next]_vars PROVE Kept
  <2> SUFFICES ASSUME NEW r \in indexFile \cap indexFile', r.version \notin (damaged \cup damaged')
               PROVE  load_package(artifacts, r.version)' = load_package(artifacts, r.version)
      OBVIOUS
  <2>1. r.version \in Versions /\ Settled(r.version) /\ Settled(r.version)'
    BY <1>1, RecordFacts DEF IInv, TypeOK, ArtifactInv
  <2>2. CASE artifacts' = artifacts
    BY <2>2 DEF load_package
  <2>3. CASE durableArtifacts' = durableArtifacts
    <3>1. load_package(durableArtifacts, r.version)' = load_package(durableArtifacts, r.version)
      BY <2>3 DEF load_package
    <3> QED BY <2>1, <3>1 DEF Settled
  <2>4. CASE PowerLoss
    <3>1. artifacts'[r.version] \in {artifacts[r.version], durableArtifacts[r.version]}
      BY <2>1, <2>4 DEF PowerLoss
    <3>2. load_package(artifacts', r.version) \in
            {load_package(artifacts, r.version), load_package(durableArtifacts, r.version)}
      BY <3>1 DEF load_package
    <3> QED BY <2>1, <3>2 DEF Settled
  <2>5. ASSUME NEW v \in Versions, Damage(v)
        PROVE  load_package(artifacts, r.version)' = load_package(artifacts, r.version)
    <3>1. artifacts'[r.version] = artifacts[r.version]
      BY <1>1, <2>1, <2>5 DEF Damage, IInv, TypeOK
    <3> QED BY <3>1 DEF load_package
  <2> QED
    BY <1>1, <2>2, <2>3, <2>4, <2>5, ZenonT(40)
       DEF Next, Call, Work, LoadLock, LoadIndex, Publish, Cache, CacheAgain, TakeLock,
           ValidateChecksum, Operate, SyncArtifactDir, WriteIndex, SyncIndexDir, WriteFails,
           Crash, vars
<1> QED BY <1>1, Invariance, PTL DEF Spec, ArtifactsAreImmutable
=============================================================================
