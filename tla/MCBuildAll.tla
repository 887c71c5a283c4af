------------------------------ MODULE MCBuildAll ------------------------------
(***************************************************************************)
(* BuildAll on three invocations and two versions of the sources.          *)
(***************************************************************************)
EXTENDS BuildAll

CommandLine(type, clean, mode, target) ==
  [type |-> type, clean |-> clean, mode |-> mode, target |-> target]

\* Each build type, with --clean and without, with each target or in each other mode.  mm_load
\* alone and everything build the same.
Types == {"Debug", "Release", "debug"}

AllOptions ==
  {CommandLine(t, c, "build", g) : t \in Types, c \in BOOLEAN, g \in {"all", "mm_dump"}}
  \cup {CommandLine(t, c, m, "all") :
     t \in Types, c \in BOOLEAN, m \in {"create-seeds", "verify-only"}}

\* Without --clean, the two kinds of build that do not build what they verify, and one that does.
StaleOptions ==
  {CommandLine("Release", FALSE, "build", "mm_dump"), CommandLine("debug", FALSE, "build", "all"),
   CommandLine("Release", FALSE, "build", "all")}

\* A tree with nothing built; the repository as committed, where a build got no further than
\* one of make's two jobs; a tree built before in both types.
Nothing     == [d \in Dirs |-> [b \in Binaries |-> Absent]]
Committed   == [Nothing EXCEPT !["release"]["mm_load_test"] = 1]
BuiltBefore == [d \in Dirs |-> [b \in Binaries |-> 1]]

AnyBin    == {Nothing, Committed, BuiltBefore}
BothBuilt == {BuiltBefore}

=============================================================================
