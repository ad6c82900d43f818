-------------------------- MODULE MCLocalRegistry --------------------------
(***************************************************************************)
(* An instance of LocalRegistry: a library, the same library with other    *)
(* debug sections, another build of the same version, and a dependent.     *)
(***************************************************************************)
EXTENDS LocalRegistry, TLC

Package(name, digest, deps, sections) ==
    [name |-> name, semver |-> 1, digest |-> digest, deps |-> deps, sections |-> sections]

Lib == Package("lib", "d1", {}, "none")
LibWithDebug == Package("lib", "d1", {}, "debug")
OtherLib == Package("lib", "d2", {}, "none")
App == Package("app", "d1", {Version(Lib)}, "none")

SamplePackages == {Lib, LibWithDebug, OtherLib, App}
SampleLegacy == [d \in {"d1", "d2"} |-> IF d = "d1" THEN Lib ELSE None]
ProcSymmetry == Permutations(Procs)
=============================================================================
