# TLA+ models of cfs-mm-fuzzer

The repository fuzzes the "load memory from file" command of the Memory Manager of NASA's
Core Flight System. A C harness turns the bytes of a fuzzing engine into a command packet
and has a simulator judge it; one shell script builds it, another runs the engines over it and
sorts what they leave; a library of helpers, a log, statistics and a CRC are linked in. This
directory specifies all of these, model-checks them with TLC, and proves their safety
properties with TLAPS.

## 1. Inventory

| Component | State | Operations | Talks to | Correct when |
|---|---|---|---|---|
| Fuzz target, `LLVMFuzzerTestOneInput` (`mm_load_harness.c`) | the packet on the heap, the status of the last judgement | one call per input, thousands a second, in one process | called by the engine; calls the builder and the simulator | every call returns, frees what it allocated, and judges only complete commands |
| Packet builder, `MM_Load_ConstructPacket` | `data_offset`, `*packet` | one statement block per field | header mock, tables of `cfs_config.h` | never reads past the input; every field is legal for the memory type chosen before it |
| Simulator, `MM_LoadMemFromFileCmd_Simulation` | none | a chain of checks, each with its own error | the address check | accepts exactly the loads the target can take |
| Memory map, `cfs_config.h` | constant tables; bases and alignment per target | `CFS_IsValidMemoryAddress` | used by the simulator and by `utils.c` | a load it allows lies in one writable region of the type |
| Header mock, `cfe_mock.h` | the header words | setters, getters, stubs | used by the builder | count and flag share a word without losing each other |
| Driver, `run_fuzzing.sh` | `corpus/`, `results/`, per run: directory, counts, verdict | set-up, a session, analysis, minimisation, the continuous loop | libFuzzer, AFL++, the test binary, make, the file system it shares with other runs | findings are kept, counted and reported; verdicts are true; single runs end |
| Makefile `create-seeds`, `setup.sh` | `corpus/` | make the directory, fill it | run before or by the driver | leave something to start from |
| Standalone `main` | none | build a packet from 12 fixed bytes | the builder; run by the driver, and what the AFL binary is made of | says whether it got a packet |
| Helpers of `utils.c` | the address resolved last, kept by the caller | resolve a symbol; verify type, size, name, alignment, region | linked into the harness, called by nothing: the simulator has checks of its own | refuse for the right reason and only then; judge as the simulator does |
| CRC-32 of `utils.c` | the value passed on by the caller | one byte after another | called by nothing | is the register of CRC-32, where its table has an entry |
| Debug log of `utils.c` | `g_log_file`, `g_debug_enabled`, the buffers of the streams | enable, choose the file, log | stdio, the files it shares with other processes | one stream per process, whole lines, nothing lost that was logged |
| Statistics of `utils.c` | `g_fuzz_stats` | init, update, get, print | the wall clock | counters add up, times are right |
| `build_all.sh`, Makefile `all`, `afl`, `clean` | `bin/debug`, `bin/release`, `build_stats.log` | clean, build, verify, seeds | make, the compiler; a developer who edits meanwhile; the driver, through `bin/` | announces success of what it built itself, and says what is missing |

What is hard about it:

* *Failure.* The driver lives under `set -e`: a step that fails, or a fuzzer that returns
  non-zero because it *did* find something, ends the run where it stands, unless a
  `|| true` hides it. `malloc` may fail in the middle of a call.
* *Concurrency.* Runs of the driver share one tree, and the results directory of a run is
  named by the second; parallel libFuzzer jobs share one artifact path.
* *Staleness.* Verification looks for binaries by name, in a directory it names by other rules than the
  Makefile, and `bin/` is full of what earlier builds, of either build type, have left; the sources are edited
  while a build goes on.
* *Overwriting.* Crash files are written, copied and minimised under names other files may have.
* *Order.* Artifacts are counted, then a summary is written, then the verdict is given; AFL's
  files have to be copied first; seeds are only made if the directory is not there, and the
  directory is made before the seeds.
* *Crashes.* What logs is what is made to crash: a message is safe once its call has returned
  and not before, and the lines of parallel jobs meet in one file.
* *Duplication.* The simulator repeats the helpers' checks and the mock repeats the symbol
  table, each with its own code and its own constants.
* *Boundaries.* Length, size, offset and address limits, per memory type and per target, with
  regions that touch.

`PROJECT.json` lists these hazards one by one, at the line where each bites, with the
properties that would catch it going wrong.

## 2. Modules

| Module | Models | Used by |
|---|---|---|
| `CfsMemory` | the region table and `CFS_IsValidMemoryAddress`; `RegionHolds` says what the check should mean | `PacketBuilder`, `MmHelpers` |
| `MsgHeader` | the header setters and getters of the mock and `CFS_InitPacketHeader`, as operators on a packet | `PacketBuilder` |
| `PacketBuilder` | the builder, one action per field, and the simulator as a function of the packet | `FuzzTarget` |
| `FuzzTarget` | the entry point: any number of calls, each through builder, simulator and free; the harness's properties | `HelperAgreement`, `FuzzTarget_proofs` |
| `LoadContract` | abstract specification: one request at a time, accepted exactly when it fits and is aligned | instantiated by `FuzzTarget` |
| `MmHelpers` | the verification helpers, as functions of their arguments | `MemoryChecks`, `HelperAgreement` |
| `HelperAgreement` | composition: every command the harness judges, judged again with the helpers | `MCFuzzTarget` |
| `MCFuzzTarget` | constants for TLC: a scaled copy of the map, and the map of the source | `FuzzTarget*.cfg` |
| `MemoryChecks` | the checks of a memory command, called in any order on the address resolved last | `MCUtilities` |
| `FuzzLog` | the log: several processes, print by print, with failing opens and crashes | `MCUtilities` |
| `LineLog` | abstract specification: a message is a line appended by one step, where asked or to stdout, or lost with its process | instantiated by `FuzzLog` |
| `FuzzStats` | the statistics: any sequence of calls, under a clock that may be set back or forward | `MCUtilities` |
| `Crc32` | the table-driven CRC a byte at a time, and the register of CRC-32 bit by bit to compare with | `MCUtilities` |
| `MCUtilities` | constants for TLC; runs the four parts of `utils.c` one at a time, as they share nothing | `Utilities.cfg` |
| `RunFuzzing` | the driver: several runs over one tree, the fuzzers external | `MCRunFuzzing` |
| `MCRunFuzzing` | constants for TLC, and what the standalone `main` returns | `RunFuzzing*.cfg` |
| `BuildAll` | the build script and the Makefile targets it runs: invocations one after another | `MCBuildAll` |
| `MCBuildAll` | constants for TLC: command lines, and what `bin/` holds at first | `BuildAll*.cfg` |
| `FuzzTarget_proofs`, `HelperAgreement_proofs`, `MemoryChecks_proofs`, `FuzzLog_proofs`, `FuzzStats_proofs`, `Crc32_proofs`, `RunFuzzing_proofs`, `BuildAll_proofs` | theorems and proofs, each about the module it is named after | |

`BuildAll` and `RunFuzzing` meet in two places that are
parameters of the latter: what is in `bin/` (`Built`) and whether `corpus/mm_load` exists
(`CorporaAtStart`; `CreateSeeds` of `BuildAll` makes the directory and nothing in it).

**How the harness's state corresponds.** `data` is the `(data, size)` of the call: a record
with the value each field would read at its position and the number of bytes. This is
exact because the builder's positions are fixed once the choice byte is known, and the two
layouts (symbol, offset) use different fields of the record. `cursor` is `data_offset`,
`packet` is `*packet`, `live` counts packets allocated and not freed, `pc` says which statement block
comes next, `status` is the simulator's last answer. Strings are their `strlen`: the code
looks at nothing else of them except for `"../"`, which no entry of the tables contains and
which the input cannot put there, since it only picks entries. The mock's `SetFcnCode` keeps nothing, so there
is no function code in the packet. The test `NumOfBytes == 0` and the other unreachable
checks of the simulator are modelled all the same; that they are unreachable is a property.

**How the helpers, log, statistics and CRC correspond.** A helper is a function; `resolved` is the
`*ResolvedAddr` the caller keeps between calls and `last` what the last call returned. A file name
is its `strlen`, whether it has a `"../"` or `"..\"` in it, and the entry of `cfs_valid_paths` it begins with. In
`FuzzLog` a message is the three prints `CFS_LogMessage` makes, `logging` the next of them,
`buffer` what a stream holds back, `content` what has reached a file or stdout, `handles` the streams a
process has open. stdio is external: a stream writes when flushed or closed, as one write, and
a file opened with `"a"` is written at its end. (Messages longer than the stream's buffer, a
terminal, which is written at every newline, and write errors, which the code ignores, are left out.) A crash loses the
buffers and resets the static variables. In `FuzzStats` `stats` is `g_fuzz_stats`, `clock`
is `time(NULL)`, `age` a clock nobody sets, to compare with. In `Crc32` a word is the set of its one
bits. `HelperAgreement` has no state of its own: it evaluates `MmHelpers` (instantiated) on the packet of
the harness.

**How the driver's state corresponds.** `corpus` is `corpus/mm_load` (is it there, is a file in
it), `results` maps the directories made so far to their `crashes/`, `hangs/`, the two
under `afl_output/`, and `summary.txt`. A directory of files is a function from their names to what is in them, the
finding that was written or something else, so that a file written or copied over another one (`Over`) is seen to replace it:
all jobs of libFuzzer write one artifact path, `cp -r` copies over what is there. Per run: `dir` is `RESULTS_DIR`, `counted` the two counts,
`verdict` what the analysis concluded, `running` the libFuzzer jobs still alive, `wake` the end
of the sleep. `found`, `ran` and `sessions` are history: what the fuzzers of a run really met
in each directory, whether they ran the target, how many sessions were begun. Each action is
a step between two effects another process can see. libFuzzer, AFL++, the user and the clock
are external; of them only what the script relies on is stated: libFuzzer writes
`-exact_artifact_path` and ends at a crash or at its time limit; afl-fuzz refuses an empty
input directory and a busy output directory, empties one that is no longer busy, and leaves a `README.txt` next to its first crash.
Any of them may fail to start for reasons of its own (a broken binary, a missing library, afl-fuzz refusing the machine's
settings, before or after it has emptied its output): `LibfuzzerFails`, `StartAfl`, `RunStandalone`. Whether the script
notices is the script's: `|| true` hides it in the loop and always for afl-fuzz, `set -e` ends a single run of the others.
Directories are named by local time; `now` only goes forward, so nothing is said of a clock that is set back or of the
hour that comes twice when summer time ends.

**How the build's state corresponds.** `bin` maps `bin/debug` and `bin/release` to the binaries in them; a
binary is the version of the sources it was compiled from, 0 if it is not there, so old and new
can be told apart, which the script itself cannot. `job` is make's bookkeeping of `fuzzer`
and `standalone`, `read` the version a compiler at work has opened, `began` the version when the
invocation started, `MakeDir` and `VerifyDir` the two rules by which a directory is found: the Makefile compares `BUILD_TYPE`
with `Debug`, the script puts it in lower case. They agree for the two documented values, not for `debug`, which
`run_fuzzing.sh` documents for the same variable. `told` is the count in "N binaries missing", `pc` the step of `main`, or how the
invocation ended. `VerifyBuilds` has both behaviours of the function: called from an `if`, where `set -e` is
off inside it, and called bare, where it is on. A compilation that fails leaves the old output or none.

## 3. Runs

| Run | Instance | Shows |
|---|---|---|
| `fuzz_target` | map scaled to 80 addresses with the same touching pairs; 4 input lengths around 120; every size residue for both limits; offsets over the whole span; symbol and path lengths on both sides of their buffers; `malloc` may fail | all harness properties, `CallReturns`, `ImplementsContract` |
| `x86_map` | the shipped table, symbols, paths and limits, x86 bases; offsets at every region edge and a few bytes to either side, from both bases | accepted loads fit, symbols are RAM only, both bases can be loaded at; `HelpersAgree`, `HeadersAgree` |
| `sparc_map` | the same with the SPARC bases and alignment | **violated**: a byte sent to a default address is refused |
| `run_fuzzing` | a continuous and a single run, each with any fuzzer, two jobs, all three corpus states, fuzzers that may fail to start, one interrupt, two seconds on the clock | `VerdictSound`, `SessionsApart`, `FindingsSummarised`, `ArtifactsKept`, `SingleRunsEnd` |
| `crash_report` | one single libFuzzer run | **violated**: a session that crashed is not reported |
| `stable_verdict` | one AFL run on the corpus `setup.sh` leaves | **violated**: "appears stable" of a target never run |
| `seeds` | two runs on a fresh tree | **violated**: the second fuzzes without seeds |
| `job_count` | a continuous run with two jobs | **violated**: two crashes counted as one |
| `summary_race` | two runs in one second | **violated**: an older count overwrites the summary of a crash |
| `utilities` | checks: 64 addresses, all of them tried; seven regions, touching within a type and across types, two read-only; sizes 0 to 12 and 24; four types. Log: two processes, one file and stdout, two messages each, a crash. Statistics: three seconds, two results, one setting back. CRC: messages of up to four bytes out of 13, three initial values, among them `MM_CalculateCRC`'s | `RegionVerdictExact`, `VerifiedTypesWritable`, `AlignedDatumFits`; `LogTypeOK`, `OneStream`, `WholeLines`, `Delivered`, `LogKept`, `ImplementsLineLog`; `CategoriesAddUp`, `PrintedTimeExact`, `HeldTimeNeverAhead`; `RightWhileInTable`, `MissesForget` |
| `build_all` | three invocations with any of 24 command lines, `BUILD_TYPE` being `Debug`, `Release` or `debug`; `bin/` empty, as committed (only `mm_load_test`), or full; two versions of the sources, edited at any time; two parallel jobs; interrupts | `SuccessIsFresh`, `CleanLeavesNothingOld`, `CleanSuccessIsBuilt`, `OnlyUnbuiltMissing` |
| `stale_success` | one invocation on a tree built before in both types, the sources edited since | **violated**: old binaries are announced as built |

A violated run checks one sentence of the repository against what its code does; the
sentences are quoted under `findings` in `PROJECT.json`.

The harness's properties: `NoLeak` and the `live` part of `TypeOK` (one packet, on every path);
`CursorTracksFields` (the cursor is where the layout says, never past the end, so all the
"not enough data" branches of the builder are dead); `CommandWellFormed` (header, size and
destination agree with the type); `OnlyPlacementErrors` (the fuzzer only ever exercises two of
the simulator's checks); `AcceptedLoadFits` (the code's test on the last byte means what it should);
`SymbolLoadsAreRam` and `BaseIsLoadable` (what the layout of the map has to grant);
`CallReturns`; `ImplementsContract`.

The driver's: `VerdictSound` holds for libFuzzer even when two runs share a directory, because a
finding stays where the analysis looks; of AFL runs that share one it says nothing, since a
second afl-fuzz empties the output directory the first has not copied yet; `SessionsApart` holds because of the sleep; `FindingsSummarised`
excepts directories that two runs share, and `SummaryLasts` shows why it must. It says nothing
of single runs, and `crash_report` shows why. `ArtifactsKept` is about contents, not names: what a run came upon is still in some
file, though the copy and the minimising write to the same directory. It excepts directories that two runs share,
for the reasons given, and all but the last crash of a libFuzzer session, whose jobs write one path (`job_count`).

The helpers': `RegionVerdictExact` compares the two walks over the table with containment in one region. It
speaks of sizes of at least 1 and of bytes that end within the address space: a size of 0, or one that
wraps past 2^64, is accepted by the code where it should not be, but no caller can pass either.
`AlignedDatumFits` is what makes a check of the first byte enough for peek and poke. `VerifiedTypesWritable`: the type
check and the table disagree about types, but never so that a write to a read-only region gets through.
`HelpersAgree` says that the simulator, with its own code, judges as the helpers would. It is stated for x86, and would be
false for ARM and SPARC: the mock's symbols start at 0x20000000 whatever the target, the simulator's at the
target's RAM base, and the helpers know no alignment of 8. `HeadersAgree` says the same of the header.

The log's: `OneStream` (no stream leaked, none closed and written to, stdout never closed); `WholeLines` and `Delivered`
are what the flush at the end of a message is for, and hold only because of the buffer: `setvbuf` to unbuffered would break the first,
a return without the flush the second. `ImplementsLineLog` puts them together: seen from the files, the three prints, the buffer
and the flush are one step, that of `LineLog`. `inHand` of `LineLog` is whether a process is between its first print and its return; its
other variables are `FuzzLog`'s. The statistics': `PrintedTimeExact` excepts a record that was never
initialised, which counts from 1970, and a clock that was set, where a negative time is printed as a huge one;
`HeldTimeNeverAhead` is about the pointer `CFS_GetFuzzStats` hands out, which is to the live record. The CRC's: the table has 16 of its 256
entries and a comment that says so; `RightWhileInTable` says what is still right and `MissesForget` what is not: four bytes that
miss the table make the value 0, whatever came before.

The build's: `BuildsWhatItVerifies` are the command lines for which there is something to build and the two rules name one directory.
Of those `SuccessIsFresh` says that they are never announced on old binaries and `OnlyUnbuiltMissing` that they are never found
incomplete, in whatever order make's jobs end or fail. Of the others it is not true: `--target mm_dump`, `mm_peek` and `mm_fill`
skip their missing harness, `BUILD_TYPE=debug` builds in `bin/release`, and both announce "All required binaries built successfully"
if an earlier build left something where they look, which `stale_success` shows. `CleanSuccessIsBuilt` says that after `--clean`
they fail instead. `SuccessIsFresh` leaves the AFL binary out: its recipe ends in
`echo`, so its failure is never seen, and only `--clean` guarantees that no old one stays
(`CleanLeavesNothingOld`). `MissingAreCounted` is no run's property: `--verify-only` calls `verify_builds` bare, where
`((missing_count++))` of 0 ends the script under `set -e` before it says how many binaries are missing (build_all.sh:218); the model
does the same, and `MissingCounted` (below) proves the sentence for all other command lines.

The AFL binary is the standalone `main`, which does not read what afl-fuzz gives it. As built, then,
an AFL session cannot find anything; `RunFuzzing` lets AFL find crashes and hangs all the same, so that what is
shown of the script does not rest on that.

**Bounds.** In the harness: `Inputs` (finite sets of inputs). Every field is tried at, below and above the
value at which the code behaves differently; the calls are independent once they return, so
states do not grow with their number. TLC's integers end at 2^31 - 1: in `x86_map` and `sparc_map`
the span of the offsets and the address space are cut to that, which loses only offsets that lie
beyond the last region. `AddrSpace` is 2^64 in the code; nothing in reach of the harness wraps
(`NoWrapAssumption`, evaluated by TLC). In the driver: `MaxTime` (seconds; two seconds let a loop
begin two sessions and a single run fall into the same second as either), `MaxInterrupts`,
`Jobs`. `SleepSecs` is 1 instead of 10, with the clock in the same unit. In the build: `MaxVersion` (two versions tell old from new) and
`MaxRuns` (three invocations: one to leave something behind, one of another type, one to be judged). In the
helpers: nothing is cut but the address space, which is scaled down with the map. In the log: `MaxMessages` and `MaxCrashes`
(two lines of each process can overlap in every way; after a crash the process begins anew, so a second adds nothing). In the
statistics: `MaxAge`, `MaxResults`, `MaxClockSets`, `MaxJump`, and `TimeSpace`, 2^64 in the code. In the CRC: `MaxBytes` (four, so that
every bit of the initial value has been shifted out); the bytes stay in the table from one of the initial values and leave it at different places from the others. A fuzzer's first find
stands for the later ones, which change no control. Deadlock is not checked in the driver's and the build's runs: all runs of the script may
be over, or asleep when the clock is at its bound; nor in `utilities`, where the CRC and the statistics stop at their bounds. It is checked in the others.

**Fairness.** `FuzzTarget`: weak fairness of the harness's own steps, since a C call runs on
once begun; none of the engine's, which need not call again. `malloc` failing is just a branch.
`RunFuzzing`: weak fairness of each run's steps, since a started script is not
suspended for good; starting one, interrupting one, the clock and what the fuzzers find are not fair. `BuildAll` states none: nothing of it is about what must happen. `SingleRunsEnd` also rests
on `-max_total_time` and `timeout`, which are what end a session that finds nothing.

## 4. Proofs

Eight modules hold proofs, each checked by TLAPS to the last leaf, for all values of the
constants that satisfy the named assumptions of the modules (`MapAssumption`, `BuilderAssumption`,
`NoWrapAssumption`, `LayoutAssumption`, `HelpersAssumption`, `ChecksAssumption`, `TableAssumption`, `LogAssumption`,
`StatsAssumption`, `CrcAssumption`, `ScriptAssumption`, `BuildAssumption`), which TLC evaluates in the runs. The
shipped table satisfies `MapAssumption` (types; RAM and EEPROM regions are writable) and
`TableAssumption` (regions of one type lie apart and begin and end with a double word).

**The harness** (`FuzzTarget_proofs`). None of the properties is inductive by itself: that the
simulator never complains of a size needs the size to have been legal since the
step that set it, which needs the type legal since the step before. `IInv` adds
`FieldsSoFar` (which fields are legal in which stage), `LongEnough` (the input is at least a
command long in every stage after the check) and `JudgedPacket` (the status is the one of the packet
still in hand). `NextIInv` goes through the actions one by one; `SimulationExact` shows that on a packet
`IInv` describes the address check is exactly containment in one writable region, because no
sum wraps (`NoWrap`); from these follow

* `TypesOK`, `TypeAndHeap`, `CursorSafe`, `CommandsWellFormed`, `PlacementOnly`, `AcceptedLoadsFit`;
* `HarnessImplementsContract`: the step that sets the last field submits a request, the
  simulator's step decides it, all others stutter;
* `SymbolsAreRam`, when EEPROM lies below the RAM base (true of every target in the source), and
  `BasesAreLoadable`, when both bases are aligned and inside a region of their type (true of
  x86, false of SPARC: the condition the `sparc_map` run refutes).

**Harness and helpers** (`HelperAgreement_proofs`). On a packet that `IInv` describes each helper gives
the simulator's answer to the same question, so the first to refuse is the same:
`HelpersAlwaysAgree`, where the RAM base is the mock's 0x20000000, the alignment is 4 and every allowed path fits its
buffer. `HeadersAlwaysAgree` follows from the part of `IInv` that has the header complete from the first field on.

**The checks** (`MemoryChecks_proofs`). That the region the write check stops at is the one
containing the bytes needs `TableAssumption`: two regions of a type cannot both hold them. `AlignedDataFit` rests on the
arithmetic of addresses modulo 2 and 4 and on regions that begin and end with a double word.

**The driver** (`RunFuzzing_proofs`), for any number of runs, fuzzers, jobs, seconds and interrupts. Runs only meet in
the results directories, and what a step of one does to another is narrow (`Apart`): it writes to a
directory it has used itself and takes no name from `crashes/` or `hangs/`. The invariant `ScriptInv` is
therefore one of each run by itself, `RunInv`, kept by the steps of the others for that reason alone (`OthersKeep`)
and by its own one after another. Its parts: `Dirs` (the directories of a run are of seconds gone by, before the end of the sleep when
it sleeps, so the next is another), `SessionCount`, `FuzzerOf`, `Kept` (in a directory of its own, libFuzzer's last finding is what the one artifact path holds, and
each of afl-fuzz's is in a file under `afl_output/` until it is copied and in `crashes/` or `hangs/` from then on) and `Told` (from the count on it is in the counts, the summary and the
verdict, or the directory is shared). From it `SessionsAlwaysApart`, `VerdictAlwaysSound`,
`FindingsAlwaysSummarised`, `ScriptTypesOK` and `ArtifactsAlwaysKept`, which is `Kept` seen from outside.

**The build** (`BuildAll_proofs`). That success is fresh is not inductive: at the
announcement it needs that both binaries were fresh when make returned, and that needs, of each job while make
is at work, that a running one reads a version the invocation has seen and a made one left such a version
(`JobsFresh`). `BInv` adds that, the stages in between (`BuiltFresh`) and, from the removal of `bin/` on, that whatever is in it
is new (`CleanSoFar`) and that there is nothing where make does not put it (`ElsewhereEmpty`). All of it is about the directory the
*Makefile* names; that the script looks in the same one is nowhere assumed, and comes in as the hypothesis of each property, or
not at all. From it `SuccessesAreFresh`, `CleansAreClean`, `CleanSuccessesAreBuilt` and `MissingWereNotBuilt`, for any
number of jobs, command lines, invocations and any content of `bin/`.

**The log** (`FuzzLog_proofs`), for any number of processes, files, messages and crashes. The invariant relates a
buffer to the print the process is at (nothing between messages, one or two pieces of the message in hand within one, three before
the flush), says that every sink holds whole lines, each message at most once, and that no message yet to come is in any.
`LinesAreWhole` and `ReturnedIsDelivered` follow; `LogOnlyGrows` is a step property. `LogImplementsLines` is the refinement: the time stamp's print
begins a message, the flush writes the line (the invariant says that what is in the buffer is exactly it, and that the stream is the
file asked for or stdout), `CFS_SetLogFile` asks (what it closes has an empty buffer), a crash dies, and the other prints stutter.

**Statistics and CRC** (`FuzzStats_proofs`, `Crc32_proofs`). The record's start time is the clock at the initialisation while nobody
sets the clock back; the invariant keeps the two clocks in step. `MissesAlwaysForget` is an induction over the bytes:
a miss only shifts, a hit resets the count.

That the 16 entries are right (`RightInTable`) is proved without an induction over the message: `ReferenceInv` speaks of *every* function that
satisfies the recursive equation of `Reference` on the message so far, says there is one and that the CRC is its last value while all
bytes stay in the table; a step extends the function by a value. That one lookup is eight steps of the division is linearity: dividing an
exclusive or is the exclusive or of the divisions (`Divided8Linear`), the table has the same property
(`TableLinear`), and so four single bits (`SingleBits`) decide all 16 entries.

**When the refuted sentences are true.** The violated runs show that a sentence of the scripts is false; these theorems say when
it is true, in any number of runs or invocations. Each but the last has its run's property and, as hypothesis, a condition on the
constants that instances satisfy and the run does not.

| Theorem | Sentence of | Holds when | Because |
|---|---|---|---|
| `SummariesLast` | `summary_race` | no two runs are offered the same fuzzer | directories then differ in name, and a run never comes back to one |
| `CrashesReported` | `crash_report` | that, and libFuzzer is only run continuously | ending a single session on the fuzzer's exit code is the only way past the analysis (`Ends`) |
| `EveryCrashIsCounted` | `job_count` | one job per run | a session's crashes and the jobs still running never exceed the jobs, and one crash is counted even in a shared directory (`JobsTold`) |
| `StableIsFuzzed` | `stable_verdict` | nobody names afl, and libFuzzer is only run singly | `set -e` then ends a run whose fuzzer does not start (`HasRun`); every other start is one whose failure the script ignores, whatever is in the corpus |
| `SeedsFirst` | `seeds` | a seed from the start, or a single run and no directory | that run ends where its seeds fail, so nothing is fuzzed at all (`Unseeded`) |
| `AnnouncedAreBuilt` | `stale_success` | each command line asks for a build that builds what it verifies, or for `--clean` | `SuccessesAreFresh` covers the former, `CleanSuccessesAreBuilt` turns the latter into them |
| `MissingCounted` | none (above) | nobody asks for `--verify-only` | in a build the count is under an `if`, which `set -e` spares (`TallyInv`) |

`ToldInvariant` holds what the second and third rest on; like `RunInv` it is about one run at a time, and a step of another leaves alone all it mentions
(`OthersUntouched`). `SymbolsAreRam` and `BasesAreLoadable` are of the same kind for the harness.

**Termination** is out of the prover's reach where it rests on fairness: `CallReturns` and `SingleRunsEnd` are only
model-checked. The other half of them is proved for all constants, and of an invocation of the build as well: each step brings it nearer to its
end, counted by `StepsLeft`, and nothing an engine, a developer or another run does takes it back. `CallsCountDown` (at most 11
steps), `InvocationsCountDown` (at most 11, edits aside), `SingleRunsCountDown` (at most 11 and one for each job).
What is left to TLC is that a step is always possible until then, which needs `ENABLED`.

## 5. Not modelled

`CFS_GenerateRandomData`, `CFS_HexDump` and `MM_DefaultConfig` of `utils.c` (a random stream, output formatting, a table nothing
reads), the branches of the standalone `main` behind a packet it never gets, `setup.sh`
but for the directory it makes, the Makefile targets no script runs, the option parsers and
the command lines, `build_stats.log`, the `mm_dump` branches of the driver (no such harness exists), the declarations of other
MM commands and the stubs of the mock that return a constant (nothing calls them), the dictionary, and all output formatting.
`--debug` and `--release` are the build type of the invocation, as if it came from the environment.

Nothing in the repository calls the log, the statistics, the CRC or the helpers except one another, so there is no caller to
compose them with; they are modelled under any sequence of calls. In a `CFS_DEBUG_MODE` build the helpers log too, through `CFS_LogMessage`; such a
message is one like any other to `FuzzLog`.

## 6. Plan

Done: the harness with its contract, the header and the helpers it duplicates; the helpers, log,
statistics and CRC of `utils.c`; the driver; the build; the log's atomic lines; the proofs of all their safety properties and of when the
sentences that the violated runs refute are true.

Left, in order of worth:

1. `BuildAll` composed with `RunFuzzing` through `bin/` and `corpus/`: a build while a session runs,
   where `Built` is no longer a constant.
2. The Makefile's coverage and minimise targets, if a script comes to use them.
3. The mission tables (`CFS_MISSION_CUSTOM`) as further instances of the map.
