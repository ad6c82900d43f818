---------------------------- MODULE LocalRegistry ----------------------------
(***************************************************************************)
(* The local package registry of crates/package-registry-local: processes  *)
(* load the index, publish and cache packages, while writes fail,          *)
(* processes die, artifacts get damaged and the power goes.  A file is     *)
(* replaced by renaming a finished temporary file onto it: readers see the *)
(* old or the new contents, and the new ones survive a power loss once the *)
(* directory has been synced.                                              *)
(***************************************************************************)
EXTENDS Naturals, FiniteSets

CONSTANTS
    Procs,
    Packages,    \* records: name, semver, digest, deps, sections
    Legacy,      \* Legacy[d]: the package in the digest-only artifact of d, or None
    MaxFaults,   \* bound: crashes, failed writes and damaged files
    Corrupt,     \* bytes that do not decode
    None

Version(p) == [name |-> p.name, semver |-> p.semver, digest |-> p.digest]
record_for_package(p) == [version |-> Version(p), deps |-> p.deps]
Records == {record_for_package(p) : p \in Packages}
Versions == {Version(p) : p \in Packages}

\* Records of one semantic version of a package.
SameSemver(r, s) == r.version.name = s.version.name /\ r.version.semver = s.version.semver

LegacyRecords == {record_for_package(Legacy[d]) : d \in {e \in DOMAIN Legacy : Legacy[e] \in Packages}}

ASSUME NoneAssumption == {None, Corrupt} \cap (Packages \cup Procs) = {} /\ None # Corrupt
ASSUME LegacyAssumption ==
    /\ Legacy \in [{p.digest : p \in Packages} -> Packages \cup {None, Corrupt}]
    /\ \A d \in DOMAIN Legacy : Legacy[d] \in Packages => Legacy[d].digest = d
    /\ \A r, s \in LegacyRecords : SameSemver(r, s) => r = s
ASSUME FaultsAssumption == MaxFaults \in Nat

VARIABLES
    indexFile, durableIndex,   \* records of the index file: visible, and on the platter
    artifacts, durableArtifacts,
    lockExists, exclusive, shared,  \* the sidecar lock file and who holds it
    pc, pkg,                   \* what each process is doing, and with which package
    index,                     \* index[p]: the records in memory of process p
    previous,                  \* previous[p]: what a failed registration goes back to
    checksum,                  \* checksum[p]: the file contents the index came from
    acknowledged,              \* packages whose publish or cache call returned Ok
    published,                 \* those of them that were published
    damaged, faults            \* versions whose artifact was damaged, and faults so far

disk == <<indexFile, durableIndex, artifacts, durableArtifacts>>
lock == <<lockExists, exclusive, shared>>
memory == <<index, previous, checksum>>
history == <<acknowledged, published>>
vars == <<disk, lock, pc, pkg, memory, history, damaged, faults>>

get_by_semver(records, p) == {r \in records : SameSemver(r, record_for_package(p))}

get_exact_version(records, version) == {r \in records : r.version = version}

Locked == {"check", "operate", "sync_artifact", "index", "sync_index"}

Init ==
    /\ indexFile \in {{}, LegacyRecords}
    /\ durableIndex = indexFile
    /\ artifacts = [v \in Versions |-> None]
    /\ durableArtifacts = artifacts
    /\ lockExists = FALSE /\ exclusive = None /\ shared = {}
    /\ pc = [p \in Procs |-> "unloaded"]
    /\ pkg = [p \in Procs |-> None]
    /\ index = [p \in Procs |-> {}]
    /\ previous = [p \in Procs |-> {}]
    /\ checksum = [p \in Procs |-> {}]
    /\ acknowledged = {} /\ published = {}
    /\ damaged = {} /\ faults = 0

Goto(p, label) == pc' = [pc EXCEPT ![p] = label]

\* The locals of a call are gone when it returns.
Return(p) ==
    /\ Goto(p, "idle")
    /\ pkg' = [pkg EXCEPT ![p] = None]
    /\ previous' = [previous EXCEPT ![p] = {}]

----------------------------------------------------------------------------
\* load: a shared lock on the sidecar if there is one; a held one is an error.
LoadLock(p) ==
    /\ pc[p] = "unloaded"
    /\ exclusive = None
    /\ shared' = IF lockExists THEN shared \cup {p} ELSE shared
    /\ Goto(p, "load")
    /\ UNCHANGED <<disk, lockExists, exclusive, pkg, memory, history, damaged, faults>>

LoadIndex(p) ==
    /\ pc[p] = "load"
    /\ index' = [index EXCEPT ![p] = indexFile]
    /\ checksum' = [checksum EXCEPT ![p] = indexFile]
    /\ shared' = shared \ {p}
    /\ Goto(p, "idle")
    /\ UNCHANGED <<disk, lockExists, exclusive, pkg, previous, history, damaged, faults>>

\* Mutant: the version is not looked up first.
RegisterAnyway(p, package) ==
    /\ previous' = [previous EXCEPT ![p] = index[p]]
    /\ index' = [index EXCEPT ![p] = @ \cup {record_for_package(package)}]

\* register: the record joins the index in memory, unless its version is there.
Register(p, package) ==
    /\ get_by_semver(index[p], package) = {}
    /\ previous' = [previous EXCEPT ![p] = index[p]]
    /\ index' = [index EXCEPT ![p] = @ \cup {record_for_package(package)}]

\* Mutant: dependencies are not looked up.
PublishAlone(p, package) ==
    /\ pc[p] = "idle"
    /\ Register(p, package)
    /\ pkg' = [pkg EXCEPT ![p] = [package |-> package, call |-> "publish"]]
    /\ Goto(p, "lock")
    /\ UNCHANGED <<disk, lock, checksum, history, damaged, faults>>

\* publish_package_with_bytes, up to the lock.
Publish(p, package) ==
    /\ pc[p] = "idle"
    /\ \A v \in package.deps : get_exact_version(index[p], v) # {}
    /\ Register(p, package)
    /\ pkg' = [pkg EXCEPT ![p] = [package |-> package, call |-> "publish"]]
    /\ Goto(p, "lock")
    /\ UNCHANGED <<disk, lock, checksum, history, damaged, faults>>

\* cache_package_with_bytes of a version that is not indexed yet.
Cache(p, package) ==
    /\ pc[p] = "idle"
    /\ Register(p, package)
    /\ pkg' = [pkg EXCEPT ![p] = [package |-> package, call |-> "cache"]]
    /\ Goto(p, "lock")
    /\ UNCHANGED <<disk, lock, checksum, history, damaged, faults>>

\* cache_package_with_bytes of the very record that is indexed.
CacheAgain(p, package) ==
    /\ pc[p] = "idle"
    /\ get_by_semver(index[p], package) = {record_for_package(package)}
    /\ previous' = [previous EXCEPT ![p] = index[p]]
    /\ pkg' = [pkg EXCEPT ![p] = [package |-> package, call |-> "repair"]]
    /\ Goto(p, "lock")
    /\ UNCHANGED <<disk, lock, index, checksum, history, damaged, faults>>

----------------------------------------------------------------------------
\* Mutant: the record of a failed registration stays in memory.
AbortKeepingRecord(p) ==
    /\ exclusive' = IF exclusive = p THEN None ELSE exclusive
    /\ Return(p)
    /\ UNCHANGED <<index, checksum>>

\* An error of save_with_locked_operation: the lock file is closed and the
\* registration taken back.
Abort(p) ==
    /\ index' = [index EXCEPT ![p] = previous[p]]
    /\ exclusive' = IF exclusive = p THEN None ELSE exclusive
    /\ Return(p)
    /\ UNCHANGED checksum

\* The lock file is created if need be and locked, or the call fails at once.
TakeLock(p) ==
    /\ pc[p] = "lock"
    /\ lockExists' = TRUE
    /\ IF exclusive = None /\ shared = {}
         THEN exclusive' = p /\ Goto(p, "check") /\ UNCHANGED <<memory, pkg>>
         ELSE Abort(p)
    /\ UNCHANGED <<disk, shared, history, damaged, faults>>

\* Mutant: the checksum is not compared.
ValidateNothing(p) ==
    /\ pc[p] = "check"
    /\ Goto(p, "operate")
    /\ UNCHANGED <<memory, pkg, exclusive, disk, lockExists, shared, history, damaged, faults>>

\* WriteToStaleIndex unless the file still is what the index came from.
ValidateChecksum(p) ==
    /\ pc[p] = "check"
    /\ IF checksum[p] = indexFile
         THEN Goto(p, "operate") /\ UNCHANGED <<memory, pkg, exclusive>>
         ELSE Abort(p)
    /\ UNCHANGED <<disk, lockExists, shared, history, damaged, faults>>

WriteArtifact(p, package) ==
    /\ artifacts' = [artifacts EXCEPT ![Version(package)] = package]
    /\ Goto(p, "sync_artifact")
    /\ UNCHANGED <<memory, pkg, exclusive>>

\* Mutant: a legacy artifact that disagrees is shadowed by the new bytes.
WriteBytesAnyway(p, package) == WriteArtifact(p, package)

\* write_cache_artifact_from_legacy_or_bytes: a legacy artifact of the same
\* package is copied, one that disagrees is an error.
WriteFromLegacyOrBytes(p, package) ==
    LET old == Legacy[package.digest]
    IN  IF old \in Packages /\ Version(old) = Version(package) /\ old # package
          THEN Abort(p) /\ UNCHANGED artifacts
          ELSE WriteArtifact(p, package)

\* The operation under the lock: write the artifact, or check and repair it.
Operate(p) ==
    LET package == pkg[p].package
        existing == artifacts[Version(package)]
    IN  /\ pc[p] = "operate"
        /\ IF pkg[p].call # "repair" THEN WriteArtifact(p, package)
           ELSE IF existing \in {None, Corrupt} THEN WriteFromLegacyOrBytes(p, package)
           ELSE IF existing = package
             THEN Goto(p, "index") /\ UNCHANGED <<artifacts, memory, pkg, exclusive>>
           ELSE Abort(p) /\ UNCHANGED artifacts
        /\ UNCHANGED <<indexFile, durableIndex, durableArtifacts, lockExists, shared,
                       history, damaged, faults>>

SyncArtifactDir(p) ==
    /\ pc[p] = "sync_artifact"
    /\ durableArtifacts' = artifacts
    /\ damaged' = {v \in damaged : artifacts[v] \notin Packages}
    /\ Goto(p, "index")
    /\ UNCHANGED <<indexFile, durableIndex, artifacts, lock, pkg, memory, history, faults>>

WriteIndex(p) ==
    /\ pc[p] = "index"
    /\ indexFile' = index[p]
    /\ Goto(p, "sync_index")
    /\ UNCHANGED <<durableIndex, artifacts, durableArtifacts, lock, pkg, memory, history,
                   damaged, faults>>

\* The directory is synced, the checksum is updated and the call returns Ok.
SyncIndexDir(p) ==
    /\ pc[p] = "sync_index"
    /\ durableIndex' = indexFile
    /\ checksum' = [checksum EXCEPT ![p] = index[p]]
    /\ exclusive' = None
    /\ acknowledged' = acknowledged \cup {pkg[p].package}
    /\ published' = IF pkg[p].call = "publish" THEN published \cup {pkg[p].package} ELSE published
    /\ Return(p)
    /\ UNCHANGED <<indexFile, artifacts, durableArtifacts, lockExists, shared, index,
                   damaged, faults>>

----------------------------------------------------------------------------
(* Faults                                                                  *)

Fault == faults < MaxFaults /\ faults' = faults + 1

\* Writing a temporary file or renaming it fails: nothing is replaced, and the
\* temporary file is removed (one left by a crash counts as such a failure).
WriteFails(p) ==
    /\ Fault
    /\ pc[p] \in {"operate", "index"}
    /\ Abort(p)
    /\ UNCHANGED <<disk, lockExists, shared, history, damaged>>

\* A process dies: its memory and its locks are gone.
Killed(dead) ==
    /\ pc' = [p \in Procs |-> IF p \in dead THEN "unloaded" ELSE pc[p]]
    /\ index' = [p \in Procs |-> IF p \in dead THEN {} ELSE index[p]]
    /\ previous' = [p \in Procs |-> IF p \in dead THEN {} ELSE previous[p]]
    /\ checksum' = [p \in Procs |-> IF p \in dead THEN {} ELSE checksum[p]]
    /\ pkg' = [p \in Procs |-> IF p \in dead THEN None ELSE pkg[p]]
    /\ exclusive' = IF exclusive \in dead THEN None ELSE exclusive
    /\ shared' = shared \ dead
    /\ UNCHANGED <<lockExists, history>>

Crash(p) ==
    /\ Fault
    /\ pc[p] # "unloaded"
    /\ Killed({p})
    /\ UNCHANGED <<disk, damaged>>

\* Every process dies, and renames that were not synced may be undone.
PowerLoss ==
    /\ Fault
    /\ Killed(Procs)
    /\ \E undone \in SUBSET Versions :
        artifacts' = [v \in Versions |-> IF v \in undone THEN durableArtifacts[v] ELSE artifacts[v]]
    /\ durableArtifacts' = artifacts'
    /\ indexFile' \in {indexFile, durableIndex}
    /\ durableIndex' = indexFile'
    /\ UNCHANGED damaged

\* Somebody deletes an artifact or overwrites it with garbage.
Damage(v) ==
    /\ Fault
    /\ artifacts[v] \in Packages
    /\ \E garbage \in {None, Corrupt} : artifacts' = [artifacts EXCEPT ![v] = garbage]
    /\ durableArtifacts' = artifacts'
    /\ damaged' = damaged \cup {v}
    /\ UNCHANGED <<indexFile, durableIndex, lock, pc, pkg, memory, history>>

----------------------------------------------------------------------------
Call(p) ==
    \/ LoadLock(p)
    \/ \E package \in Packages :
        Publish(p, package) \/ Cache(p, package) \/ CacheAgain(p, package)

Work(p) ==
    \/ LoadIndex(p) \/ TakeLock(p) \/ ValidateChecksum(p) \/ Operate(p)
    \/ SyncArtifactDir(p) \/ WriteIndex(p) \/ SyncIndexDir(p)

Next ==
    \/ \E p \in Procs : Call(p) \/ Work(p) \/ WriteFails(p) \/ Crash(p)
    \/ PowerLoss
    \/ \E v \in Versions : Damage(v)

Spec == Init /\ [][Next]_vars

----------------------------------------------------------------------------
\* load_package: the artifact of the version, or the legacy one of its digest.
load_package(files, version) ==
    LET file == IF files[version] # None THEN files[version] ELSE Legacy[version.digest]
    IN  IF file \in Packages /\ Version(file) = version THEN file ELSE None

\* Files, memory and locks have the shapes the code gives them, and the sidecar
\* lock excludes a writer from everybody else.
TypeOK ==
    /\ indexFile \subseteq Records /\ durableIndex \subseteq Records
    /\ {artifacts, durableArtifacts} \subseteq [Versions -> Packages \cup {None, Corrupt}]
    /\ pc \in [Procs -> {"unloaded", "load", "idle", "lock"} \cup Locked]
    /\ pkg \in [Procs -> {None} \cup [package : Packages, call : {"publish", "cache", "repair"}]]
    /\ {index, previous, checksum} \subseteq [Procs -> SUBSET Records]
    /\ published \subseteq acknowledged /\ acknowledged \subseteq Packages
    /\ damaged \subseteq Versions
    /\ exclusive \in Procs \cup {None}
    /\ shared \subseteq Procs
    /\ \A p \in Procs : pc[p] \in Locked <=> exclusive = p
    /\ exclusive # None => shared = {}

\* The index never names an artifact that cannot be loaded: not when a call
\* fails half-way, not when its process dies or the power goes between the two
\* files, and not because of another publisher.  (Damaged files are excepted
\* until they have been written again.)
IndexedIsLoadable ==
    \A r \in indexFile : r.version \notin damaged => load_package(artifacts, r.version) # None

\* What a publish or cache call reported as stored stays in the index, whoever
\* else publishes and whatever fails or crashes later.
NothingLost ==
    \A package \in acknowledged : record_for_package(package) \in indexFile

\* A semantic version has one canonical record, whoever publishes it first.
OneRecordPerVersion ==
    \A r, s \in indexFile : SameSemver(r, s) => r = s

\* The dependencies of a published package are all in the index with it.
DependenciesIndexed ==
    \A package \in published :
        \A v \in package.deps : get_exact_version(indexFile, v) # {}

\* Once indexed, a version loads as the same package for ever: neither a second
\* publisher nor a repair replaces its artifact by another one.
ArtifactsAreImmutable ==
    [][\A r \in indexFile \cap indexFile' :
         r.version \notin (damaged \cup damaged') =>
             load_package(artifacts, r.version)' = load_package(artifacts, r.version)]_vars
=============================================================================
