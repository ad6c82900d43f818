--------------------------- MODULE SnapshotForest ---------------------------
(***************************************************************************)
(* What a forest of sparse Merkle trees with history promises: of every    *)
(* lineage it keeps whole trees, the latest one and up to MaxVersions      *)
(* earlier ones, each under the version that it was committed with.        *)
(***************************************************************************)
EXTENDS Integers, Sequences

CONSTANTS
    Lineages,
    Trees,
    Versions,     \* version numbers
    MaxVersions   \* max_history_versions: how many earlier trees a lineage keeps

VARIABLE snapshots   \* lineage |-> its trees with their versions, the latest at the end

Latest(s) == s[Len(s)]
Keep(s) == IF Len(s) > MaxVersions + 1 THEN Tail(s) ELSE s

\* The number of the newest snapshot that is not newer than a version, if there is one.
NewestUpTo(s, version) ==
    CHOOSE i \in 1 .. Len(s) :
        /\ s[i].version <= version
        /\ \A j \in i + 1 .. Len(s) : s[j].version > version

Known(s, version) == s[1].version <= version /\ version <= Latest(s).version
At(s, version) == s[NewestUpTo(s, version)].tree

Init == snapshots = <<>>

\* Every lineage of a batch gets a new tree under the same version, or keeps its
\* latest tree, version included, if the batch does not change it.
Commit ==
    \E version \in Versions :
        /\ DOMAIN snapshots \subseteq DOMAIN snapshots'
        /\ \A l \in DOMAIN snapshots' :
            LET new == Latest(snapshots'[l])
            IN  \/ /\ l \in DOMAIN snapshots
                   /\ snapshots'[l] = snapshots[l]
                \/ /\ l \in Lineages \ DOMAIN snapshots
                   /\ new \in [version : {version}, tree : Trees]
                   /\ snapshots'[l] = <<new>>
                \/ /\ l \in DOMAIN snapshots
                   /\ new \in [version : {version}, tree : Trees]
                   /\ new.version > Latest(snapshots[l]).version
                   /\ new.tree # Latest(snapshots[l]).tree
                   /\ snapshots'[l] = Keep(Append(snapshots[l], new))

\* What is needed for queries from a version on stays.
Cut(s, version) ==
    IF s[1].version > version THEN s ELSE SubSeq(s, NewestUpTo(s, version), Len(s))
Truncate ==
    \E version \in Versions : snapshots' = [l \in DOMAIN snapshots |-> Cut(snapshots[l], version)]

\* The past does not survive a restart.
Restart == snapshots' = [l \in DOMAIN snapshots |-> <<Latest(snapshots[l])>>]

Next == Commit \/ Truncate \/ Restart
Spec == Init /\ [][Next]_snapshots
=============================================================================
