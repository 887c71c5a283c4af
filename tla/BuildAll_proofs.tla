--------------------------- MODULE BuildAll_proofs ---------------------------
(***************************************************************************)
(* What build_all.sh announces is what it built: proofs about BuildAll for *)
(* every set of command lines, number of jobs and content of bin/.         *)
(***************************************************************************)
EXTENDS BuildAll, FiniteSetTheorems, TLAPS

-----------------------------------------------------------------------------
(* The inductive invariant. *)

\* The types the argument needs; no version is ahead of the sources.
BuildTypes ==
  /\ version \in Nat /\ began \in Nat \ {0} /\ began <= version
  /\ bin \in [Dirs -> [Binaries -> Nat]]
  /\ option \in Option
  /\ job \in [Required -> {"none", "waiting", "running", "made", "failed"}]
  /\ read \in [Required -> Nat]

\* The binaries make was to build are new.
AllFresh == \A b \in Required : bin[MakeDir(option.type)][b] >= began

\* While make is at work: what it reads is new, and what it has made.
JobsFresh ==
  pc = "make" =>
    /\ HasMakefile(option.target)
    /\ \A b \in Required :
         /\ job[b] # "none"
         /\ job[b] = "running" => read[b] >= began
         /\ job[b] = "made" => bin[MakeDir(option.type)][b] >= began

\* After make, on the way of an invocation that builds to its announcement, or to its complaint.
BuiltFresh ==
  /\ pc = "make_afl" => HasMakefile(option.target) /\ AllFresh
  /\ pc = "verify" /\ option.mode = "build" /\ HasMakefile(option.target) => AllFresh
  /\ pc = "success" /\ HasMakefile(option.target) => AllFresh
  /\ pc = "missing" /\ option.mode = "build" => ~BuildsWhatItVerifies(option)

\* From the removal of bin/ on, whatever is in it again is new.
CleanSoFar ==
  option.clean /\ pc \notin {"clean", "idle", "verified", "missing", "seeds_failed", "stopped"} =>
    \A d \in Dirs, b \in Binaries : bin[d][b] # Absent => bin[d][b] >= began

\* From the removal of bin/ on, nothing is where make does not put it, or anywhere when it is
\* never called; so what does not build what it verifies gets no further than the verification.
ElsewhereEmpty ==
  option.clean =>
    /\ pc = "success" => BuildsWhatItVerifies(option)
    /\ pc \in {"check_compiler", "common_libs", "target", "make", "make_afl", "verify"} =>
         \A d \in Dirs : d # MakeDir(option.type) \/ ~HasMakefile(option.target) =>
           \A b \in Binaries : bin[d][b] = Absent

BInv == BuildTypes /\ JobsFresh /\ BuiltFresh /\ CleanSoFar /\ ElsewhereEmpty

-----------------------------------------------------------------------------

\* The Makefile and the script each name one of the two directories.
LEMMA NamedDirs ==
  ASSUME NEW type PROVE MakeDir(type) \in Dirs /\ VerifyDir(type) \in Dirs
BY DEF MakeDir, VerifyDir, Dirs

\* Only --verify-only goes to the verification without a build, and no invocation starts in
\* the middle.
LEMMA DispatchTo ==
  ASSUME NEW o \in Option
  PROVE  /\ Dispatch(o) \in {"seeds", "verify", "check_compiler"}
         /\ Dispatch(o) = "verify" => o.mode = "verify-only"
BY DEF Dispatch, Option

LEMMA BInit == Init => BInv
<1> SUFFICES ASSUME Init PROVE BInv
  OBVIOUS
<1>1. option \in Option /\ bin \in [Dirs -> [Binaries -> Nat]]
  BY BuildAssumption DEF Init, Absent
<1>2. BuildTypes
  BY <1>1 DEF Init, BuildTypes, Absent
<1>3. JobsFresh /\ BuiltFresh /\ CleanSoFar /\ ElsewhereEmpty
  BY DEF Init, JobsFresh, BuiltFresh, CleanSoFar, ElsewhereEmpty
<1> QED
  BY <1>2, <1>3 DEF BInv

LEMMA StartBInv == BInv /\ Start => BInv'
<1> SUFFICES ASSUME BInv, Start PROVE BInv'
  OBVIOUS
<1>1. PICK o \in Options : option' = o /\ pc' = IF o.clean THEN "clean" ELSE Dispatch(o)
  BY DEF Start, Goto
<1>2. o \in Option
  BY BuildAssumption
<1>3. BuildTypes'
  BY <1>1, <1>2 DEF BInv, BuildTypes, Start, Absent
<1>4. pc' \in {"clean", "seeds", "verify", "check_compiler"}
      /\ (pc' = "verify" => option'.mode = "verify-only")
      /\ (option'.clean => pc' = "clean")
  BY <1>1, <1>2, DispatchTo
<1>5. JobsFresh' /\ BuiltFresh' /\ CleanSoFar' /\ ElsewhereEmpty'
  BY <1>4 DEF JobsFresh, BuiltFresh, CleanSoFar, ElsewhereEmpty
<1> QED
  BY <1>3, <1>5 DEF BInv

LEMMA CleanBInv == BInv /\ CleanBuild => BInv'
<1> SUFFICES ASSUME BInv, CleanBuild PROVE BInv'
  OBVIOUS
<1>1. pc' \in {"seeds", "verify", "check_compiler"} /\ (pc' = "verify" => option'.mode = "verify-only")
  BY DispatchTo DEF BInv, BuildTypes, CleanBuild, Goto
<1>2. BuildTypes'
  BY DEF BInv, BuildTypes, CleanBuild, making, Absent
<1>3. \A d \in Dirs, b \in Binaries : bin'[d][b] = Absent
  BY DEF CleanBuild
<1>4. JobsFresh' /\ BuiltFresh' /\ CleanSoFar' /\ ElsewhereEmpty'
  BY <1>1, <1>3 DEF ElsewhereEmpty, JobsFresh, BuiltFresh, CleanSoFar
<1> QED
  BY <1>2, <1>4 DEF BInv

\* The steps that leave bin/ and make's bookkeeping alone, and are not after make.
LEMMA QuietBInv ==
  BInv /\ (CreateSeeds \/ CheckCompiler \/ BuildCommonLibs) => BInv'
<1> SUFFICES ASSUME BInv, CreateSeeds \/ CheckCompiler \/ BuildCommonLibs PROVE BInv'
  OBVIOUS
<1>1. UNCHANGED <<version, bin, option, began, job, read>>
  BY DEF CreateSeeds, CheckCompiler, BuildCommonLibs, making
<1>2. pc \in {"seeds", "check_compiler", "common_libs"}
      /\ pc' \in {"seeds_failed", "common_libs", "target", "stopped"}
      /\ (pc = "seeds" => pc' = "seeds_failed")
  BY DEF CreateSeeds, CheckCompiler, BuildCommonLibs, Goto
<1>3. ElsewhereEmpty'
  BY <1>1, <1>2 DEF BInv, ElsewhereEmpty
<1> QED
  BY <1>1, <1>2, <1>3 DEF BInv, BuildTypes, JobsFresh, BuiltFresh, CleanSoFar

LEMMA BuildTargetBInv == BInv /\ BuildTarget => BInv'
<1> SUFFICES ASSUME BInv, BuildTarget PROVE BInv'
  OBVIOUS
<1>1. CASE HasMakefile(option.target)
  <2>1. pc' = "make" /\ job' = [b \in Required |-> "waiting"] /\ pc = "target"
    BY <1>1 DEF BuildTarget, Goto
  <2> QED
    BY <1>1, <2>1 DEF BInv, BuildTypes, JobsFresh, BuiltFresh, CleanSoFar, ElsewhereEmpty, BuildTarget
<1>2. CASE ~HasMakefile(option.target)
  <2>1. pc' = "verify" /\ job' = job /\ pc = "target"
    BY <1>2 DEF BuildTarget, Goto
  <2> QED
    BY <1>2, <2>1
    DEF BInv, BuildTypes, JobsFresh, BuiltFresh, CleanSoFar, ElsewhereEmpty, BuildTarget, HasMakefile
<1> QED
  BY <1>1, <1>2

LEMMA StartJobBInv == ASSUME NEW b \in Required, BInv, StartJob(b) PROVE BInv'
<1>1. BuildTypes'
  BY DEF BInv, BuildTypes, StartJob
<1>2. JobsFresh'
  BY DEF BInv, BuildTypes, JobsFresh, StartJob
<1>3. BuiltFresh' /\ CleanSoFar' /\ ElsewhereEmpty'
  BY DEF BInv, BuiltFresh, CleanSoFar, ElsewhereEmpty, StartJob
<1> QED
  BY <1>1, <1>2, <1>3 DEF BInv

\* A compilation that ends well leaves a binary of the version it read, which is new; one
\* that fails leaves what was there, or nothing.
LEMMA FinishJobBInv == ASSUME NEW b \in Required, BInv, FinishJob(b) PROVE BInv'
<1> DEFINE d == MakeDir(option.type)
<1>1. d \in Dirs /\ b \in Binaries
  BY NamedDirs DEF Binaries
<1>2. PICK v \in Nat :
        /\ bin' = [bin EXCEPT ![d][b] = v]
        /\ \/ job' = [job EXCEPT ![b] = "made"] /\ v = read[b]
           \/ job' = [job EXCEPT ![b] = "failed"] /\ v \in {bin[d][b], Absent}
  <2>1. read[b] \in Nat /\ bin[d][b] \in Nat /\ Absent \in Nat
    BY <1>1 DEF BInv, BuildTypes, Absent
  <2>2. CASE job' = [job EXCEPT ![b] = "made"] /\ bin' = [bin EXCEPT ![d][b] = read[b]]
    BY <2>1, <2>2
  <2>3. CASE job' = [job EXCEPT ![b] = "failed"]
             /\ \E v \in Left(d, b) : bin' = [bin EXCEPT ![d][b] = v]
    BY <2>1, <2>3 DEF Left
  <2> QED
    BY <2>2, <2>3 DEF FinishJob
<1>3. pc = "make" /\ pc' = pc /\ read[b] >= began
      /\ UNCHANGED <<version, option, began, read>>
  BY DEF FinishJob, BInv, JobsFresh
<1>4. BuildTypes'
  BY <1>1, <1>2, <1>3 DEF BInv, BuildTypes
<1>5. \A e \in Dirs, c \in Binaries : bin'[e][c] = IF e = d /\ c = b THEN v ELSE bin[e][c]
  BY <1>1, <1>2 DEF BInv, BuildTypes
<1>6. JobsFresh'
  <2>0. HasMakefile(option.target)
    BY <1>3 DEF BInv, JobsFresh
  <2> SUFFICES ASSUME NEW c \in Required
               PROVE  /\ job'[c] # "none"
                      /\ job'[c] = "running" => read[c] >= began
                      /\ job'[c] = "made" => bin'[d][c] >= began
    BY <1>1, <1>3, <2>0 DEF JobsFresh
  <2>1. CASE c = b
    BY <1>1, <1>2, <1>3, <1>5, <2>1 DEF BInv, BuildTypes
  <2>2. CASE c # b
    <3>1. job'[c] = job[c] /\ bin'[d][c] = bin[d][c]
      BY <1>1, <1>2, <1>5, <2>2 DEF BInv, BuildTypes, Binaries
    <3> QED
      BY <1>1, <1>3, <3>1 DEF BInv, JobsFresh
  <2> QED
    BY <2>1, <2>2
<1>7. BuiltFresh' /\ ElsewhereEmpty'
  <2>1. \A e \in Dirs \ {d}, c \in Binaries : bin'[e][c] = bin[e][c]
    BY <1>5
  <2>2. HasMakefile(option.target)
    BY <1>3 DEF BInv, JobsFresh
  <2> QED
    BY <1>3, <2>1, <2>2 DEF BInv, BuiltFresh, ElsewhereEmpty
<1>8. CleanSoFar'
  <2> SUFFICES ASSUME option.clean, NEW e \in Dirs, NEW c \in Binaries, bin'[e][c] # Absent
               PROVE  bin'[e][c] >= began
    BY <1>3 DEF CleanSoFar
  <2>1. bin[e][c] # Absent => bin[e][c] >= began
    BY <1>3 DEF BInv, CleanSoFar
  <2> QED
    BY <1>2, <1>3, <1>5, <2>1
<1> QED
  BY <1>4, <1>6, <1>7, <1>8 DEF BInv

\* make succeeds only when every job is made.
LEMMA MakeReturnsBInv == BInv /\ MakeReturns => BInv'
<1> SUFFICES ASSUME BInv, MakeReturns PROVE BInv'
  OBVIOUS
<1>1. pc = "make" /\ UNCHANGED <<version, bin, option, began, job, read>>
  BY DEF MakeReturns, making
<1>2. CASE pc' = "stopped"
  BY <1>1, <1>2 DEF BInv, BuildTypes, JobsFresh, BuiltFresh, CleanSoFar, ElsewhereEmpty
<1>3. CASE pc' = "make_afl" /\ InState("running") = {} /\ InState("waiting") = {}
           /\ InState("failed") = {}
  <2>1. \A b \in Required : job[b] = "made"
    BY <1>1, <1>3 DEF InState, BInv, BuildTypes, JobsFresh
  <2>2. AllFresh'
    BY <1>1, <2>1 DEF BInv, JobsFresh, AllFresh
  <2> QED
    BY <1>1, <1>3, <2>2 DEF BInv, BuildTypes, JobsFresh, BuiltFresh, CleanSoFar, ElsewhereEmpty
<1> QED
  BY <1>2, <1>3 DEF MakeReturns, Goto

\* The AFL binary is none of those required.
LEMMA MakeAflBInv == BInv /\ MakeAfl => BInv'
<1> SUFFICES ASSUME BInv, MakeAfl PROVE BInv'
  OBVIOUS
<1> DEFINE d == MakeDir(option.type)
<1>1. d \in Dirs /\ "mm_load_afl" \in Binaries
  BY NamedDirs DEF Binaries
<1>2. PICK v \in Nat : /\ bin' = [bin EXCEPT ![d]["mm_load_afl"] = v]
                       /\ v \in {version, bin[d]["mm_load_afl"], Absent}
  <2>1. version \in Nat /\ bin[d]["mm_load_afl"] \in Nat /\ Absent \in Nat
    BY <1>1 DEF BInv, BuildTypes, Absent
  <2>2. PICK v \in IF AflInstalled THEN {version} \cup Left(d, "mm_load_afl")
                                  ELSE {bin[d]["mm_load_afl"]} :
          bin' = [bin EXCEPT ![d]["mm_load_afl"] = v]
    BY DEF MakeAfl
  <2>3. v \in {version, bin[d]["mm_load_afl"], Absent}
    BY DEF Left
  <2> QED
    BY <2>1, <2>2, <2>3
<1>3. pc = "make_afl" /\ pc' = "verify" /\ UNCHANGED <<version, option, began, job, read>>
  BY DEF MakeAfl, Goto, making
<1>4. BuildTypes'
  BY <1>1, <1>2, <1>3 DEF BInv, BuildTypes
<1>5. \A e \in Dirs, c \in Binaries :
        bin'[e][c] = IF e = d /\ c = "mm_load_afl" THEN v ELSE bin[e][c]
  BY <1>1, <1>2 DEF BInv, BuildTypes
<1>6. AllFresh'
  BY <1>1, <1>3, <1>5 DEF BInv, BuiltFresh, AllFresh, Required, Binaries
<1>7. CleanSoFar'
  <2> SUFFICES ASSUME option.clean, NEW e \in Dirs, NEW c \in Binaries, bin'[e][c] # Absent
               PROVE  bin'[e][c] >= began
    BY <1>3 DEF CleanSoFar
  <2>1. bin[e][c] # Absent => bin[e][c] >= began
    BY <1>3 DEF BInv, CleanSoFar
  <2>2. version >= began
    BY DEF BInv, BuildTypes
  <2> QED
    BY <1>2, <1>5, <2>1, <2>2
<1>8. ElsewhereEmpty'
  <2>1. HasMakefile(option.target)
    BY <1>3 DEF BInv, BuiltFresh
  <2> QED
    BY <1>3, <1>5, <2>1 DEF BInv, ElsewhereEmpty
<1> QED
  BY <1>3, <1>4, <1>6, <1>7, <1>8 DEF BInv, JobsFresh, BuiltFresh

\* What make was to build is there, so only where it built nothing is anything missing; and
\* after --clean only what it built is there.
LEMMA VerifyBInv == BInv /\ VerifyBuilds => BInv'
<1> SUFFICES ASSUME BInv, VerifyBuilds PROVE BInv'
  OBVIOUS
<1>1. pc = "verify" /\ UNCHANGED <<version, bin, option, began, job, read>>
      /\ pc' \in {"success", "verified", "missing"}
      /\ (pc' = "success" => option.mode = "build" /\ Missing = {})
      /\ (pc' = "missing" => Missing # {})
  BY DEF VerifyBuilds, Goto, making
<1>2. ASSUME option.mode = "build", BuildsWhatItVerifies(option) PROVE Missing = {}
  <2>1. \A b \in Required : bin[VerifyDir(option.type)][b] >= began
    BY <1>1, <1>2 DEF BInv, BuiltFresh, AllFresh, BuildsWhatItVerifies
  <2> QED
    BY <2>1 DEF Missing, BInv, BuildTypes, Absent
<1>3. BuiltFresh'
  BY <1>1, <1>2 DEF BInv, BuiltFresh, AllFresh
<1>4. ASSUME option.clean, Missing = {} PROVE BuildsWhatItVerifies(option)
  <2>1. VerifyDir(option.type) \in Dirs /\ "mm_load_test" \in Required \cap Binaries
    BY NamedDirs DEF Required, Binaries
  <2>2. bin[VerifyDir(option.type)]["mm_load_test"] # Absent
    BY <1>4, <2>1 DEF Missing
  <2> QED
    BY <1>1, <1>4, <2>1, <2>2 DEF BInv, ElsewhereEmpty, BuildsWhatItVerifies
<1>5. ElsewhereEmpty'
  BY <1>1, <1>4 DEF ElsewhereEmpty
<1> QED
  BY <1>1, <1>3, <1>5 DEF BInv, BuildTypes, JobsFresh, CleanSoFar

LEMMA InterruptBInv == BInv /\ Interrupt => BInv'
<1> SUFFICES ASSUME BInv, Interrupt PROVE BInv'
  OBVIOUS
<1>1. pc' = "stopped" /\ UNCHANGED <<version, option, began, job, read>>
  BY DEF Interrupt, Goto, making
<1>2. bin' \in [Dirs -> [Binaries -> Nat]]
  BY NamedDirs DEF Interrupt, BInv, BuildTypes, Absent
<1> QED
  BY <1>1, <1>2 DEF BInv, BuildTypes, JobsFresh, BuiltFresh, CleanSoFar, ElsewhereEmpty

\* An edit makes the sources newer, not what an invocation has to reach.
LEMMA EditBInv == BInv /\ Edit => BInv'
BY DEF BInv, BuildTypes, JobsFresh, BuiltFresh, AllFresh, CleanSoFar, ElsewhereEmpty, Edit, making

LEMMA NextBInv == BInv /\ [Next]_buildVars => BInv'
<1> SUFFICES ASSUME BInv, [Next]_buildVars PROVE BInv'
  OBVIOUS
<1>1. CASE UNCHANGED buildVars
  BY <1>1 DEF BInv, BuildTypes, JobsFresh, BuiltFresh, AllFresh, CleanSoFar, ElsewhereEmpty, buildVars
<1>2. CASE Next
  BY <1>2, StartBInv, CleanBInv, QuietBInv, BuildTargetBInv, StartJobBInv, FinishJobBInv,
     MakeReturnsBInv, MakeAflBInv, VerifyBInv, InterruptBInv, EditBInv DEF Next, Progress
<1> QED
  BY <1>1, <1>2

-----------------------------------------------------------------------------

\* The inductive invariant holds of every execution of the script.
THEOREM BuildInvariance == Spec => []BInv
<1> QED
  BY BInit, NextBInv, PTL DEF Spec

\* "Build completed successfully!" of a build that builds what it verifies is only ever said of
\* binaries compiled from sources no older than the invocation, whatever was in bin/ and
\* however many jobs make runs.
THEOREM SuccessesAreFresh == Spec => []SuccessIsFresh
<1>1. BInv => SuccessIsFresh
  BY DEF BInv, BuiltFresh, AllFresh, SuccessIsFresh, BuildsWhatItVerifies
<1> QED
  BY <1>1, BuildInvariance, PTL

\* After --clean and success no binary of either build type is older than the invocation.
THEOREM CleansAreClean == Spec => []CleanLeavesNothingOld
<1>1. BInv => CleanLeavesNothingOld
  BY DEF BInv, CleanSoFar, CleanLeavesNothingOld
<1> QED
  BY <1>1, BuildInvariance, PTL

\* After --clean success is only announced of a build that builds what it verifies: not of a
\* target that builds nothing, nor of a type make and the script take for different ones.
THEOREM CleanSuccessesAreBuilt == Spec => []CleanSuccessIsBuilt
<1>1. BInv => CleanSuccessIsBuilt
  BY DEF BInv, ElsewhereEmpty, CleanSuccessIsBuilt
<1> QED
  BY <1>1, BuildInvariance, PTL

\* A build that ends with binaries missing never built them where they were looked for: when
\* make has returned to the script, all it was to build is there.
THEOREM MissingWereNotBuilt == Spec => []OnlyUnbuiltMissing
<1>1. BInv => OnlyUnbuiltMissing
  BY DEF BInv, BuiltFresh, OnlyUnbuiltMissing
<1> QED
  BY <1>1, BuildInvariance, PTL

\* A tally of missing binaries is one of those required, and not of none.
LEMMA TallyBounded == Missing # {} => Cardinality(Missing) \in 1 .. Cardinality(Required)
<1>1. IsFiniteSet(Required) /\ Missing \subseteq Required
  <2>1. Required = {"mm_load_fuzzer"} \cup {"mm_load_test"}
    BY DEF Required
  <2>2. IsFiniteSet(Required)
    BY <2>1, FS_Singleton, FS_AddElement
  <2> QED
    BY <2>2 DEF Missing
<1>2. IsFiniteSet(Missing) /\ Cardinality(Missing) <= Cardinality(Required)
  BY <1>1, FS_Subset
<1>3. Cardinality(Missing) \in Nat /\ Cardinality(Required) \in Nat
      /\ (Cardinality(Missing) = 0 => Missing = {})
  BY <1>1, <1>2, FS_CardinalityType, FS_EmptySet
<1> QED
  BY <1>2, <1>3

LEMMA TypeInit == Init => TypeOK
<1> SUFFICES ASSUME Init PROVE TypeOK
  OBVIOUS
<1>1. bin \in [Dirs -> [Binaries -> 0 .. 1]]
  BY BuildAssumption DEF Init, Absent
<1>2. version \in 1 .. MaxVersion /\ began \in 1 .. version /\ runs \in 0 .. MaxRuns
      /\ 0 \in 0 .. version
  BY BuildAssumption DEF Init
<1>3. bin \in [Dirs -> [Binaries -> 0 .. version]] /\ read \in [Required -> 0 .. version]
  BY <1>1, <1>2 DEF Init, Absent
<1> QED
  BY <1>2, <1>3 DEF Init, TypeOK, Ended

\* Each action keeps the types; a binary made is of a version that has been.
LEMMA TypeNext == TypeOK /\ [Next]_buildVars => TypeOK'
<1> SUFFICES ASSUME TypeOK, [Next]_buildVars PROVE TypeOK'
  OBVIOUS
<1> USE DEF TypeOK, Ended, Absent, Goto, making
<1>0. option \in Option /\ MaxVersion \in Nat /\ version \in Nat
  BY BuildAssumption
<1>1. CASE Start
  <2>1. \A o \in Options : Dispatch(o) \in {"seeds", "verify", "check_compiler"}
    BY DispatchTo, BuildAssumption
  <2> QED
    BY <1>0, <1>1, <2>1, BuildAssumption DEF Start, Untold
<1>2. CASE CleanBuild
  BY <1>0, <1>2, DispatchTo DEF CleanBuild
<1>3. CASE CreateSeeds \/ CheckCompiler \/ BuildCommonLibs
  BY <1>3 DEF CreateSeeds, CheckCompiler, BuildCommonLibs
<1>4. CASE BuildTarget
  BY <1>4 DEF BuildTarget
<1>5. ASSUME NEW b \in Required, StartJob(b) PROVE TypeOK'
  BY <1>0, <1>5 DEF StartJob
<1>6. ASSUME NEW b \in Required, FinishJob(b) PROVE TypeOK'
  <2>1. MakeDir(option.type) \in Dirs /\ b \in Binaries
    BY NamedDirs DEF Binaries
  <2>2. read[b] \in 0 .. version /\ bin[MakeDir(option.type)][b] \in 0 .. version
        /\ 0 \in 0 .. version
    BY <1>0, <2>1
  <2>3. \/ bin' = [bin EXCEPT ![MakeDir(option.type)][b] = read[b]]
        \/ \E w \in {bin[MakeDir(option.type)][b], 0} :
             bin' = [bin EXCEPT ![MakeDir(option.type)][b] = w]
    BY <1>6 DEF FinishJob, Left
  <2>4. PICK v \in 0 .. version : bin' = [bin EXCEPT ![MakeDir(option.type)][b] = v]
    BY <2>2, <2>3
  <2> QED
    BY <1>6, <2>1, <2>4 DEF FinishJob
<1>7. CASE MakeReturns
  BY <1>7 DEF MakeReturns
<1>8. CASE MakeAfl
  <2>1. MakeDir(option.type) \in Dirs /\ "mm_load_afl" \in Binaries
    BY NamedDirs DEF Binaries
  <2>2. version \in 0 .. version /\ bin[MakeDir(option.type)]["mm_load_afl"] \in 0 .. version
        /\ 0 \in 0 .. version
    BY <1>0, <2>1
  <2>3. \E w \in {version, bin[MakeDir(option.type)]["mm_load_afl"], 0} :
          bin' = [bin EXCEPT ![MakeDir(option.type)]["mm_load_afl"] = w]
    BY <1>8 DEF MakeAfl, Left
  <2>4. PICK v \in 0 .. version :
          bin' = [bin EXCEPT ![MakeDir(option.type)]["mm_load_afl"] = v]
    BY <2>2, <2>3
  <2> QED
    BY <1>8, <2>1, <2>4 DEF MakeAfl
<1>9. CASE VerifyBuilds
  BY <1>9, TallyBounded DEF VerifyBuilds, Untold
<1>10. CASE Interrupt
  <2>1. bin' \in [Dirs -> [Binaries -> 0 .. version]]
    BY <1>0, <1>10, NamedDirs DEF Interrupt
  <2> QED
    BY <1>10, <2>1 DEF Interrupt
<1>11. CASE Edit
  <2>1. version + 1 \in 1 .. MaxVersion /\ 0 .. version \subseteq 0 .. version + 1
    BY <1>0, <1>11 DEF Edit
  <2> QED
    BY <1>0, <1>11, <2>1 DEF Edit
<1>12. CASE UNCHANGED buildVars
  BY <1>12 DEF buildVars
<1> QED
  BY <1>1, <1>2, <1>3, <1>4, <1>5, <1>6, <1>7, <1>8, <1>9, <1>10, <1>11, <1>12
  DEF Next, Progress

\* The state is well typed: no binary is newer than the sources, no tally counts more than
\* the binaries required.
THEOREM BuildTypeOK == Spec => []TypeOK
<1> QED
  BY TypeInit, TypeNext, PTL DEF Spec

\* "All required binaries built successfully" holds of every build that is announced when no
\* command line asks for a build that does not build what it verifies, or all ask for --clean:
\* the stale_success run has command lines that do neither.
THEOREM AnnouncedAreBuilt ==
  ASSUME \A o \in Options : BuildsWhatItVerifies(o) \/ o.clean
  PROVE  Spec => []AnnouncedIsBuilt
<1>1. option \in Options /\ CleanSuccessIsBuilt /\ SuccessIsFresh => AnnouncedIsBuilt
  BY DEF CleanSuccessIsBuilt, SuccessIsFresh, AnnouncedIsBuilt
<1>2. TypeOK => option \in Options
  BY DEF TypeOK
<1> QED
  BY <1>1, <1>2, CleanSuccessesAreBuilt, SuccessesAreFresh, BuildTypeOK, PTL

-----------------------------------------------------------------------------
(* When the tally of missing binaries is reached. *)

\* A build gets to the verification from make, --verify-only from nowhere; what the first
\* found missing is in its tally.
TallyInv ==
  /\ pc \in {"check_compiler", "common_libs", "target", "make", "make_afl"} =>
       option.mode = "build"
  /\ pc \in {"verify", "missing"} => option.mode \in {"build", "verify-only"}
  /\ pc = "missing" /\ option.mode = "build" => told = Cardinality(Missing)

LEMMA TallyNext == TypeOK /\ TallyInv /\ [Next]_buildVars => TallyInv'
<1> SUFFICES ASSUME TypeOK, TallyInv, [Next]_buildVars PROVE TallyInv'
  OBVIOUS
<1> USE DEF Goto, making
<1>0. option \in Option
  BY BuildAssumption DEF TypeOK
<1>1. \A o \in Option : /\ Dispatch(o) \in {"seeds", "verify", "check_compiler"}
                        /\ Dispatch(o) = "verify" => o.mode = "verify-only"
                        /\ Dispatch(o) = "check_compiler" => o.mode = "build"
  BY DEF Dispatch, Option
<1>2. CASE Start
  <2>1. PICK o \in Options : option' = o /\ pc' = IF o.clean THEN "clean" ELSE Dispatch(o)
    BY <1>2 DEF Start
  <2>2. o \in Option
    BY BuildAssumption
  <2>3. /\ pc' \in {"clean", "seeds", "verify", "check_compiler"}
        /\ pc' = "verify" => option'.mode = "verify-only"
        /\ pc' = "check_compiler" => option'.mode = "build"
    BY <1>1, <2>1, <2>2
  <2> QED
    BY <2>3 DEF TallyInv
<1>3. CASE CleanBuild
  <2>1. option' = option /\ pc' = Dispatch(option)
    BY <1>3 DEF CleanBuild
  <2> QED
    BY <1>0, <1>1, <2>1 DEF TallyInv
<1>4. CASE CreateSeeds \/ CheckCompiler \/ BuildCommonLibs \/ BuildTarget \/ MakeReturns \/ MakeAfl
  BY <1>4 DEF CreateSeeds, CheckCompiler, BuildCommonLibs, BuildTarget, MakeReturns, MakeAfl,
     TallyInv
<1>5. ASSUME NEW b \in Required, StartJob(b) \/ FinishJob(b) PROVE TallyInv'
  BY <1>5 DEF StartJob, FinishJob, TallyInv
<1>6. CASE VerifyBuilds
  <2>1. option' = option /\ bin' = bin /\ Missing' = Missing
    BY <1>6 DEF VerifyBuilds, Missing
  <2>2. /\ pc = "verify" /\ pc' \in {"success", "verified", "missing"}
        /\ pc' = "missing" /\ option.mode = "build" => told' = Cardinality(Missing)
    BY <1>6 DEF VerifyBuilds
  <2> QED
    BY <2>1, <2>2 DEF TallyInv
<1>7. CASE Interrupt
  BY <1>7 DEF Interrupt, TallyInv
<1>8. CASE Edit \/ UNCHANGED buildVars
  <2>1. UNCHANGED <<pc, option, told, bin>>
    BY <1>8 DEF Edit, buildVars
  <2>2. Missing' = Missing
    BY <2>1 DEF Missing
  <2> QED
    BY <2>1, <2>2 DEF TallyInv
<1> QED
  BY <1>2, <1>3, <1>4, <1>5, <1>6, <1>7, <1>8 DEF Next, Progress

\* "N binaries missing or not executable" is said with the right N when nobody asks for
\* --verify-only: a verification that is part of a build is under an if, which set -e spares.
THEOREM MissingCounted ==
  ASSUME \A o \in Options : o.mode # "verify-only"
  PROVE  Spec => []MissingAreCounted
<1>1. Init => TallyInv
  BY DEF Init, TallyInv
<1>2. TypeOK /\ TallyInv => MissingAreCounted
  BY DEF TypeOK, TallyInv, MissingAreCounted
<1> QED
  BY <1>1, <1>2, TallyNext, BuildTypeOK, PTL DEF Spec

-----------------------------------------------------------------------------
(* How long an invocation is. *)

\* What make has still to do for a binary, and an invocation before it ends.
JobLeft(b) == CASE job[b] = "waiting" -> 2 [] job[b] = "running" -> 1 [] OTHER -> 0

StepsLeft ==
  CASE pc = "clean" -> 11 [] pc = "check_compiler" -> 10 [] pc = "common_libs" -> 9
    [] pc = "target" -> 8
    [] pc = "make" -> 3 + JobLeft("mm_load_fuzzer") + JobLeft("mm_load_test")
    [] pc = "make_afl" -> 2 [] pc \in {"verify", "seeds"} -> 1 [] OTHER -> 0

\* Every step of an invocation but an edit of the sources brings it nearer to its end, whatever
\* fails, however many jobs make runs, and though a failed one leaves others unstarted: none
\* takes more than eleven.
THEOREM InvocationsCountDown ==
  Spec => [][pc \notin Ended /\ ~Edit => StepsLeft \in Nat /\ StepsLeft' < StepsLeft]_buildVars
<1> DEFINE Down == pc \notin Ended /\ ~Edit => StepsLeft \in Nat /\ StepsLeft' < StepsLeft
<1>1. BInv /\ TypeOK /\ [Next]_buildVars => [Down]_buildVars
  <2> SUFFICES ASSUME BInv, TypeOK, Next, pc \notin Ended, ~Edit
               PROVE  StepsLeft \in Nat /\ StepsLeft' < StepsLeft
    OBVIOUS
  <2> USE DEF Goto, making, StepsLeft
  <2>0. \A b \in Required : JobLeft(b) \in 0 .. 2 /\ JobLeft(b)' \in 0 .. 2
    BY DEF JobLeft
  <2>1. CASE CleanBuild
    <3>1. pc = "clean" /\ pc' \in {"seeds", "verify", "check_compiler"}
      BY <2>1, DispatchTo DEF CleanBuild, BInv, BuildTypes
    <3> QED
      BY <3>1
  <2>2. CASE CreateSeeds \/ CheckCompiler \/ BuildCommonLibs
    BY <2>2 DEF CreateSeeds, CheckCompiler, BuildCommonLibs, Ended
  <2>3. CASE BuildTarget
    <3>1. pc = "target" /\ pc' \in {"make", "verify"}
      BY <2>3 DEF BuildTarget
    <3> QED
      BY <2>0, <3>1 DEF Required
  <2>4. ASSUME NEW b \in Required, StartJob(b) \/ FinishJob(b)
        PROVE  StepsLeft \in Nat /\ StepsLeft' < StepsLeft
    <3>1. /\ pc = "make" /\ pc' = pc
          /\ \/ job[b] = "waiting" /\ job' = [job EXCEPT ![b] = "running"]
             \/ job[b] = "running" /\ job' = [job EXCEPT ![b] = "made"]
             \/ job[b] = "running" /\ job' = [job EXCEPT ![b] = "failed"]
      BY <2>4 DEF StartJob, FinishJob
    <3>2. JobLeft(b)' < JobLeft(b) /\ \A c \in Required \ {b} : JobLeft(c)' = JobLeft(c)
      BY <3>1 DEF BInv, BuildTypes, JobLeft
    <3> QED
      BY <2>0, <3>1, <3>2 DEF Required
  <2>5. CASE MakeReturns
    <3>1. pc = "make" /\ pc' \in {"make_afl", "stopped"}
      BY <2>5 DEF MakeReturns
    <3> QED
      BY <2>0, <3>1 DEF Required
  <2>6. CASE MakeAfl \/ VerifyBuilds
    <3>1. CASE MakeAfl
      BY <3>1 DEF MakeAfl
    <3>2. CASE VerifyBuilds
      BY <3>2 DEF VerifyBuilds
    <3> QED
      BY <2>6, <3>1, <3>2
  <2>7. CASE Interrupt
    <3>1. pc' = "stopped" /\ pc \notin Ended
      BY <2>7 DEF Interrupt
    <3>2. pc \in {"clean", "seeds", "check_compiler", "common_libs", "target", "make",
                  "make_afl", "verify"}
      BY <3>1 DEF TypeOK
    <3> QED
      BY <2>0, <3>1, <3>2 DEF Required
  <2> QED
    BY <2>1, <2>2, <2>3, <2>4, <2>5, <2>6, <2>7 DEF Next, Progress, Start
<1> QED
  BY <1>1, BuildInvariance, BuildTypeOK, PTL DEF Spec

=============================================================================
