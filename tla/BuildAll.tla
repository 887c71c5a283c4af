------------------------------- MODULE BuildAll -------------------------------
(***************************************************************************)
(* scripts/build_all.sh and the Makefile targets it runs: invocations one  *)
(* after another over one tree, with a developer who edits the sources at  *)
(* any time and may interrupt the script.  It is under set -e.  A binary   *)
(* is the version of the sources it was compiled from.  The compiler is    *)
(* external: it may be missing, and a compilation may fail.  The targets   *)
(* other than mm_load have no harness and no tests, so they build nothing. *)
(***************************************************************************)
EXTENDS Integers, FiniteSets

CONSTANTS
  Options,        \* the command lines, with BUILD_TYPE, the script may be given
  Parallel,       \* PARALLEL_JOBS
  AflInstalled,   \* whether afl-clang-fast is on the PATH
  BinAtStart,     \* what bin/ may hold at first
  MaxVersion,     \* bound on the versions of the sources
  MaxRuns         \* bound on the invocations

VARIABLES
  version,    \* of the sources
  bin,        \* bin/: the version each binary was compiled from, per directory
  seedDir,    \* whether corpus/mm_load is there
  pc,         \* what the script does next
  option,     \* of this invocation
  began,      \* the version when it began
  job,        \* per required binary: how far make is with it
  read,       \* the version its compiler reads
  told,       \* the count in "N binaries missing or not executable"
  runs        \* invocations so far

buildVars == <<version, bin, seedDir, pc, option, began, job, read, told, runs>>
making == <<job, read>>

Required == {"mm_load_fuzzer", "mm_load_test"}
Binaries == Required \cup {"mm_load_afl"}
Dirs     == {"debug", "release"}
Absent   == 0
Untold   == -1

\* BUILD_TYPE is one of the documented two, or as run_fuzzing.sh documents it, in lower case.
Option ==
  [type : {"Debug", "Release", "debug"}, clean : BOOLEAN,
   mode : {"build", "create-seeds", "verify-only"}, target : {"all", "mm_load", "mm_dump", "mm_peek"}]

ASSUME BuildAssumption ==
  /\ Options \subseteq Option /\ Options # {}
  /\ Parallel \in Nat \ {0} /\ AflInstalled \in BOOLEAN
  /\ MaxVersion \in Nat \ {0} /\ MaxRuns \in Nat
  /\ BinAtStart \subseteq [Dirs -> [Binaries -> {Absent, 1}]]

\* How an invocation is over.
Ended == {"idle", "success", "verified", "missing", "seeds_failed", "stopped"}

Goto(l) == pc' = l

Init ==
  /\ version = 1 /\ bin \in BinAtStart /\ seedDir = FALSE
  /\ pc = "idle" /\ option \in Options /\ began = 1
  /\ job = [b \in Required |-> "none"] /\ read = [b \in Required |-> Absent]
  /\ told = Untold /\ runs = 0

-----------------------------------------------------------------------------
(* Directories. *)

\* The Makefile knows one type by its name, and takes whatever else it is given for the other.
MakeDir(type) == IF type = "Debug" THEN "debug" ELSE "release"

\* The script looks in bin/${BUILD_TYPE,,}, the type in lower case.
VerifyDir(type) == IF type \in {"Debug", "debug"} THEN "debug" ELSE "release"

\* A list of binaries that has the optional one as well.
Missing_WithAfl == {b \in Binaries : bin[VerifyDir(option.type)][b] = Absent}

Missing == {b \in Required : bin[VerifyDir(option.type)][b] = Absent}

\* A compilation that fails leaves the old output, or none.
Left(d, b) == {bin[d][b], Absent}

-----------------------------------------------------------------------------
(* main, up to the build. *)

Dispatch(o) ==
  CASE o.mode = "create-seeds" -> "seeds"
    [] o.mode = "verify-only"  -> "verify"
    [] o.mode = "build"        -> "check_compiler"

Start ==
  /\ pc \in Ended /\ runs < MaxRuns
  /\ \E o \in Options :
       /\ option' = o
       /\ Goto(IF o.clean THEN "clean" ELSE Dispatch(o))
  /\ began' = version /\ runs' = runs + 1 /\ told' = Untold
  /\ job' = [b \in Required |-> "none"] /\ read' = [b \in Required |-> Absent]
  /\ UNCHANGED <<version, bin, seedDir>>

\* make clean alone, which only knows the directory of its own build type.
CleanBuild_MakeOnly ==
  /\ pc = "clean"
  /\ bin' = [bin EXCEPT ![MakeDir(option.type)] = [b \in Binaries |-> Absent]]
  /\ Goto(Dispatch(option))
  /\ UNCHANGED <<version, seedDir, option, began, making, told, runs>>

\* make clean of the type make takes when it is told none.
CleanBuild_DefaultType ==
  /\ pc = "clean"
  /\ bin' = [bin EXCEPT !["release"] = [b \in Binaries |-> Absent]]
  /\ Goto(Dispatch(option))
  /\ UNCHANGED <<version, seedDir, option, began, making, told, runs>>

\* rm -rf bin/; the make clean after it finds nothing left to remove.
CleanBuild ==
  /\ pc = "clean"
  /\ bin' = [d \in Dirs |-> [b \in Binaries |-> Absent]]
  /\ Goto(Dispatch(option))
  /\ UNCHANGED <<version, seedDir, option, began, making, told, runs>>

\* The recipe makes the directory and fails at its first seed.
CreateSeeds ==
  /\ pc = "seeds"
  /\ seedDir' = TRUE
  /\ Goto("seeds_failed")
  /\ UNCHANGED <<version, bin, option, began, making, told, runs>>

CheckCompiler ==
  /\ pc = "check_compiler"
  /\ Goto("common_libs") \/ Goto("stopped")
  /\ UNCHANGED <<version, bin, seedDir, option, began, making, told, runs>>

\* The syntax check of utils.c.
BuildCommonLibs ==
  /\ pc = "common_libs"
  /\ Goto("target") \/ Goto("stopped")
  /\ UNCHANGED <<version, bin, seedDir, option, began, making, told, runs>>

\* Every other target, and the tests, are skipped for want of a Makefile.
HasMakefile(target) == target \in {"all", "mm_load"}

BuildTarget ==
  /\ pc = "target"
  /\ \/ /\ HasMakefile(option.target)
        /\ job' = [b \in Required |-> "waiting"]
        /\ Goto("make")
     \/ /\ ~HasMakefile(option.target)
        /\ Goto("verify") /\ UNCHANGED job
  /\ UNCHANGED <<version, bin, seedDir, option, began, read, told, runs>>

-----------------------------------------------------------------------------
(* make -j all: fuzzer and standalone, and then make afl. *)

InState(s) == {b \in Required : job[b] = s}

\* After a failure make starts nothing more.
StartJob(b) ==
  /\ pc = "make" /\ job[b] = "waiting"
  /\ InState("failed") = {} /\ Cardinality(InState("running")) < Parallel
  /\ job' = [job EXCEPT ![b] = "running"]
  /\ read' = [read EXCEPT ![b] = version]
  /\ UNCHANGED <<version, bin, seedDir, pc, option, began, told, runs>>

FinishJob(b) ==
  LET d == MakeDir(option.type)
  IN  /\ pc = "make" /\ job[b] = "running"
      /\ \/ /\ job' = [job EXCEPT ![b] = "made"]
            /\ bin' = [bin EXCEPT ![d][b] = read[b]]
         \/ /\ job' = [job EXCEPT ![b] = "failed"]
            /\ \E v \in Left(d, b) : bin' = [bin EXCEPT ![d][b] = v]
      /\ UNCHANGED <<version, seedDir, pc, option, began, read, told, runs>>

\* A make whose result is not looked at.
MakeReturns_Ignored ==
  /\ pc = "make" /\ InState("running") = {}
  /\ InState("failed") # {} \/ InState("waiting") = {}
  /\ Goto("make_afl")
  /\ UNCHANGED <<version, bin, seedDir, option, began, making, told, runs>>

MakeReturns ==
  /\ pc = "make" /\ InState("running") = {}
  /\ \/ InState("waiting") = {} /\ InState("failed") = {} /\ Goto("make_afl")
     \/ InState("failed") # {} /\ Goto("stopped")
  /\ UNCHANGED <<version, bin, seedDir, option, began, making, told, runs>>

\* The recipe ends in echo, so a compilation that fails goes unnoticed.
MakeAfl ==
  LET d == MakeDir(option.type)
  IN  /\ pc = "make_afl"
      /\ \E v \in IF AflInstalled THEN {version} \cup Left(d, "mm_load_afl")
                                  ELSE {bin[d]["mm_load_afl"]} :
           bin' = [bin EXCEPT ![d]["mm_load_afl"] = v]
      /\ Goto("verify")
      /\ UNCHANGED <<version, seedDir, option, began, making, told, runs>>

-----------------------------------------------------------------------------
(* verify_builds, and the end. *)

\* Called bare, under set -e: ((missing_count++)) of a count of 0 fails, and ends the
\* script at the first binary that is missing.  Called from an if it goes on to the tally.
VerifyBuilds ==
  /\ pc = "verify"
  /\ \/ Missing = {} /\ Goto(IF option.mode = "build" THEN "success" ELSE "verified")
        /\ UNCHANGED told
     \/ Missing # {} /\ Goto("missing")
        /\ told' = IF option.mode = "build" THEN Cardinality(Missing) ELSE Untold
  /\ UNCHANGED <<version, bin, seedDir, option, began, making, runs>>

\* ^C, which compilers in the middle of their work get as well.
Interrupt ==
  LET d == MakeDir(option.type)
      Compiling == InState("running")
                     \cup IF pc = "make_afl" /\ AflInstalled THEN {"mm_load_afl"} ELSE {}
  IN  /\ pc \notin Ended
      /\ \E gone \in SUBSET Compiling :
           bin' = [bin EXCEPT ![d] = [b \in Binaries |-> IF b \in gone THEN Absent ELSE @[b]]]
      /\ Goto("stopped")
      /\ UNCHANGED <<version, seedDir, option, began, making, told, runs>>

Edit ==
  /\ version < MaxVersion
  /\ version' = version + 1
  /\ UNCHANGED <<bin, seedDir, pc, option, began, making, told, runs>>

\* What goes on by itself once the script has been started.
Progress ==
  \/ CleanBuild \/ CreateSeeds \/ CheckCompiler \/ BuildCommonLibs \/ BuildTarget
  \/ \E b \in Required : StartJob(b) \/ FinishJob(b)
  \/ MakeReturns \/ MakeAfl \/ VerifyBuilds

Next == Start \/ Progress \/ Interrupt \/ Edit

Spec == Init /\ [][Next]_buildVars

-----------------------------------------------------------------------------
(* Properties. *)

\* Types; a tally counts required binaries only, and no binary is newer than the sources.
TypeOK ==
  /\ version \in 1 .. MaxVersion /\ began \in 1 .. version
  /\ bin \in [Dirs -> [Binaries -> 0 .. version]]
  /\ seedDir \in BOOLEAN /\ option \in Options
  /\ pc \in Ended \cup {"clean", "seeds", "check_compiler", "common_libs", "target",
                        "make", "make_afl", "verify"}
  /\ job \in [Required -> {"none", "waiting", "running", "made", "failed"}]
  /\ read \in [Required -> 0 .. version]
  /\ told \in {Untold} \cup 1 .. Cardinality(Required)
  /\ runs \in 0 .. MaxRuns

\* What an invocation builds is what it verifies: there is something to build, and the
\* Makefile and the script name the same directory.
BuildsWhatItVerifies(o) == HasMakefile(o.target) /\ MakeDir(o.type) = VerifyDir(o.type)

\* "Build completed successfully!": both binaries that were looked for were compiled from
\* sources no older than the invocation, whatever an earlier one, an edit during the build or
\* a compilation that failed left in bin/, when they are what the invocation builds.
SuccessIsFresh ==
  pc = "success" /\ BuildsWhatItVerifies(option) =>
    \A b \in Required : bin[VerifyDir(option.type)][b] >= began

\* After --clean and success nothing in bin/ is older than the invocation: neither the other
\* build type nor the AFL binary, whose compilation may have failed unnoticed.
CleanLeavesNothingOld ==
  pc = "success" /\ option.clean =>
    \A d \in Dirs, b \in Binaries : bin[d][b] # Absent => bin[d][b] >= began

\* A target that builds nothing, and a build type whose binaries make puts where the script
\* does not look, are verified all the same, on whatever is in bin/; but not after --clean:
\* then their success is never announced, whatever either directory held.
CleanSuccessIsBuilt == pc = "success" /\ option.clean => BuildsWhatItVerifies(option)

\* A build that ends with binaries missing is one that never built them, or built them where
\* the script does not look: once make has returned, in whatever order its jobs ended and
\* whatever the AFL build did, nothing it was to build is missing.
OnlyUnbuiltMissing ==
  pc = "missing" /\ option.mode = "build" => ~BuildsWhatItVerifies(option)

-----------------------------------------------------------------------------
(* What the source says of the verification. *)

\* "All required binaries built successfully", of a build: they were built by it, or at least
\* are not older than it.
AnnouncedIsBuilt ==
  pc = "success" => \A b \in Required : bin[VerifyDir(option.type)][b] >= began

\* "N binaries missing or not executable": a verification that fails says how many.
MissingAreCounted == pc = "missing" => told = Cardinality(Missing)

=============================================================================
