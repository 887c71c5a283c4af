------------------------------ MODULE RunFuzzing ------------------------------
(***************************************************************************)
(* scripts/run_fuzzing.sh: several runs of the script over one working     *)
(* tree.  A run makes the corpus, makes a results directory named by the   *)
(* second it is in, starts a fuzzer, and analyses what the fuzzer left;    *)
(* in continuous mode it sleeps and goes round again.  The script is under *)
(* set -e, so a step that fails ends it.  A run may be interrupted at any  *)
(* point.  The fuzzers are external, modelled by what the script relies    *)
(* on: the files they leave, how they end, and that any of them may fail   *)
(* to start.  Only the mm_load target, the one whose harness exists, is    *)
(* modelled.                                                               *)
(***************************************************************************)
EXTENDS Integers, FiniteSets, Functions

CONSTANTS
  Scripts,        \* the runs of the script
  Offered,        \* the fuzzers --fuzzer may name, per run
  Continuous,     \* --continuous, per run
  Jobs,           \* --jobs, per run
  Built,          \* fuzzers whose binary is in bin/
  AflMayLack,     \* whether a run may find no afl-fuzz on its PATH
  StandaloneExit, \* exit code of mm_load_test
  SleepSecs,      \* sleep 10
  MinimizeBelow,  \* crashes are minimised when there are fewer of them than this
  CorporaAtStart, \* the corpus directories the tree may start with
  MaxTime,        \* bound on the clock
  MaxInterrupts   \* bound on the runs the user interrupts

ASSUME ScriptAssumption ==
  /\ Offered \in [Scripts -> SUBSET {"libfuzzer", "afl", "standalone"}]
  /\ Continuous \in [Scripts -> BOOLEAN]
  /\ Jobs \in [Scripts -> Nat \ {0}]
  /\ Built \subseteq {"libfuzzer", "afl", "standalone"}
  /\ AflMayLack \in BOOLEAN
  /\ {StandaloneExit, MaxTime, MaxInterrupts} \subseteq Nat
  /\ SleepSecs \in Nat \ {0} /\ MinimizeBelow \in Nat
  /\ CorporaAtStart \subseteq [exists : BOOLEAN, seeded : BOOLEAN]

VARIABLES
  fuzzer,    \* FUZZER, per run
  now,       \* date +%s
  corpus,    \* corpus/mm_load: whether the directory is there, and a file in it
  results,   \* the results directories made so far, by name
  pc,        \* per run: the next thing it does
  dir,       \* RESULTS_DIR
  running,   \* fuzzing jobs still running
  counted,   \* crash_count and hang_count
  verdict,   \* what the last analysis concluded
  wake,      \* when sleep ends
  sessions,  \* how many sessions a run has begun
  found,     \* what its fuzzers ran into, per results directory it has used
  ran        \* whether this session's fuzzer ran the target at all

vars == <<fuzzer, now, corpus, results, pc, dir, running, counted, verdict, wake, sessions,
          found, ran>>

tree == <<fuzzer, corpus, results>>
session == <<dir, running, sessions, found, ran>>
analysis == <<counted, verdict, wake>>

\* The second a directory is named by; the fuzzer is the other part of the name.
Name(by, second) == <<by, second>>
NoDir == Name("none", 0)

NoSummary == [crashes |-> -1, hangs |-> -1]

\* Files are named by who wrote them and how often ".min" was appended.  A directory of them
\* is a function from their names to what is in them: the finding a run came upon there, by
\* its number, or anything else.
Artifact(kind, min) == [kind |-> kind, min |-> min]
NoFinding == <<"none", 0>>

File(name, content) == [f \in {name} |-> content]

\* Files written or copied to where there are others: one of the same name is overwritten.
Over(files, new) ==
  [f \in DOMAIN files \cup DOMAIN new |-> IF f \in DOMAIN new THEN new[f] ELSE files[f]]

NoFiles == [f \in {} |-> NoFinding]

EmptyResults ==
  [crashes |-> NoFiles, hangs |-> NoFiles, aflCrashes |-> NoFiles, aflHangs |-> NoFiles,
   summary |-> NoSummary]

Terminal == {"done", "aborted", "killed"}

Goto(s, l) == pc' = [pc EXCEPT ![s] = l]

Init ==
  /\ now = 0
  /\ corpus \in CorporaAtStart
  /\ fuzzer \in {f \in [Scripts -> UNION {Offered[s] : s \in Scripts}] :
                   \A s \in Scripts : f[s] \in Offered[s]}
  /\ results = [d \in {} |-> EmptyResults]
  /\ pc = [s \in Scripts |-> "start"]
  /\ dir = [s \in Scripts |-> NoDir]
  /\ running = [s \in Scripts |-> 0]
  /\ counted = [s \in Scripts |-> [crashes |-> 0, hangs |-> 0]]
  /\ verdict = [s \in Scripts |-> "none"]
  /\ wake = [s \in Scripts |-> 0]
  /\ sessions = [s \in Scripts |-> 0]
  /\ found = [s \in Scripts |-> [d \in {} |-> 0]]
  /\ ran = [s \in Scripts |-> FALSE]

-----------------------------------------------------------------------------
(* Before the session. *)

\* check_binaries
CheckBinaries(s) ==
  /\ pc[s] = "start"
  /\ Goto(s, IF fuzzer[s] \in Built THEN "corpus" ELSE "aborted")
  /\ UNCHANGED <<now, tree, session, analysis>>

\* setup_corpus tests for the directory, then makes it, then fills it.  The recipe of
\* create-seeds is a python one-liner that does not parse, so make fails.
TestCorpus(s) ==
  /\ pc[s] = "corpus"
  /\ Goto(s, IF corpus.exists THEN "results" ELSE "mkdir")
  /\ UNCHANGED <<now, tree, session, analysis>>

MakeCorpus(s) ==
  /\ pc[s] = "mkdir"
  /\ corpus' = [corpus EXCEPT !.exists = TRUE]
  /\ Goto(s, "seeds")
  /\ UNCHANGED <<fuzzer, now, results, session, analysis>>

CreateSeeds(s) ==
  /\ pc[s] = "seeds"
  /\ Goto(s, "aborted")
  /\ UNCHANGED <<now, tree, session, analysis>>

-----------------------------------------------------------------------------
(* A session. *)

\* mkdir -p: a directory already there keeps what is in it.
MkdirResults(d) == Over(File(d, EmptyResults), results)

\* A session that begins without its mkdir.
SetupResultsDir_NoMkdir(s) ==
  /\ pc[s] = "results"
  /\ dir' = [dir EXCEPT ![s] = Name(fuzzer[s], now)]
  /\ sessions' = [sessions EXCEPT ![s] = @ + 1]
  /\ found' = [found EXCEPT ![s] = Over(File(Name(fuzzer[s], now), 0), @)]
  /\ ran' = [ran EXCEPT ![s] = FALSE]
  /\ verdict' = [verdict EXCEPT ![s] = "none"]
  /\ Goto(s, fuzzer[s])
  /\ UNCHANGED <<tree, now, running, counted, wake>>

SetupResultsDir(s) ==
  LET d == Name(fuzzer[s], now)
  IN  /\ pc[s] = "results"
      /\ results' = MkdirResults(d)
      /\ dir' = [dir EXCEPT ![s] = d]
      /\ sessions' = [sessions EXCEPT ![s] = @ + 1]
      /\ found' = [found EXCEPT ![s] = Over(File(d, 0), @)]
      /\ ran' = [ran EXCEPT ![s] = FALSE]
      /\ verdict' = [verdict EXCEPT ![s] = "none"]
      /\ Goto(s, fuzzer[s])
      /\ UNCHANGED <<fuzzer, now, corpus, running, counted, wake>>

AddFinding(s) == found' = [found EXCEPT ![s][dir[s]] = @ + 1]
NextFinding(s) == <<s, found[s][dir[s]] + 1>>

\* The binary, or its first job, does not come up, and its exit code is not 0: that ends a
\* single session, but in the loop "|| true" takes it for the end of one.
LibfuzzerFails(s) ==
  /\ pc[s] = "libfuzzer"
  /\ Goto(s, IF Continuous[s] THEN "analyze" ELSE "aborted")
  /\ UNCHANGED <<now, tree, session, analysis>>

\* run_libfuzzer: one process per job.
StartLibfuzzer(s) ==
  /\ pc[s] = "libfuzzer"
  /\ running' = [running EXCEPT ![s] = Jobs[s]]
  /\ ran' = [ran EXCEPT ![s] = TRUE]
  /\ Goto(s, "fuzzing")
  /\ UNCHANGED <<now, tree, dir, sessions, found, analysis>>

\* An input that reaches new code is kept in the corpus directory.
KeepInput(s) ==
  /\ pc[s] = "fuzzing" /\ running[s] > 0
  /\ corpus' = [corpus EXCEPT !.seeded = TRUE]
  /\ UNCHANGED <<fuzzer, now, results, pc, session, analysis>>

\* A job that crashes, hangs or runs out of memory writes -exact_artifact_path, whatever
\* was there, and ends.
JobCrashes(s) ==
  /\ pc[s] = "fuzzing" /\ running[s] > 0
  /\ results' = [results EXCEPT ![dir[s]].crashes =
                                  Over(@, File(Artifact("crash-", 0), NextFinding(s)))]
  /\ running' = [running EXCEPT ![s] = @ - 1]
  /\ AddFinding(s)
  /\ UNCHANGED <<fuzzer, now, corpus, pc, dir, sessions, ran, analysis>>

\* A fuzzer without -max_total_time: a job that does not crash goes on for good.
JobTimesOut_Never(s) == FALSE

\* -max_total_time
JobTimesOut(s) ==
  /\ pc[s] = "fuzzing" /\ running[s] > 0
  /\ running' = [running EXCEPT ![s] = @ - 1]
  /\ UNCHANGED <<now, tree, pc, dir, sessions, found, ran, analysis>>

\* run_libfuzzer in the loop without its "|| true".
LibfuzzerReturns_Strict(s) ==
  /\ pc[s] = "fuzzing" /\ running[s] = 0
  /\ Goto(s, IF found[s][dir[s]] > 0 THEN "aborted" ELSE "analyze")
  /\ UNCHANGED <<now, tree, session, analysis>>

\* return $exit_code: not zero when a job crashed, which ends a single session before
\* it is analysed.  The loop goes on whatever the code is.
LibfuzzerReturns(s) ==
  /\ pc[s] = "fuzzing" /\ running[s] = 0
  /\ Goto(s, IF found[s][dir[s]] > 0 /\ ~Continuous[s] THEN "aborted" ELSE "analyze")
  /\ UNCHANGED <<now, tree, session, analysis>>

\* run_afl without afl-fuzz: an exit, which no "|| true" catches.
AflMissing(s) ==
  /\ pc[s] = "afl" /\ AflMayLack
  /\ Goto(s, "aborted")
  /\ UNCHANGED <<now, tree, session, analysis>>

\* afl-fuzz refuses an output directory that another instance is using.
OutputFree(s) == \A t \in Scripts : pc[t] = "afl_fuzz" => dir[t] # dir[s]

\* It may fail before it has done anything; or it empties the output directory, where an
\* instance now over has left something, and then runs, for which it needs an input, or
\* fails.  The pipe and "|| true" hide every failure.
StartAfl(s) ==
  /\ pc[s] = "afl"
  /\ \/ Goto(s, "copy") /\ UNCHANGED <<ran, results>>
     \/ /\ OutputFree(s)
        /\ results' = [results EXCEPT ![dir[s]].aflCrashes = NoFiles,
                                      ![dir[s]].aflHangs = NoFiles]
        /\ \/ Goto(s, "copy") /\ UNCHANGED ran
           \/ corpus.seeded /\ Goto(s, "afl_fuzz") /\ ran' = [ran EXCEPT ![s] = TRUE]
  /\ UNCHANGED <<fuzzer, now, corpus, dir, running, sessions, found, analysis>>

\* The first crash comes with a README.txt.
AflFindsCrash(s) ==
  /\ pc[s] = "afl_fuzz" /\ DOMAIN results[dir[s]].aflCrashes = {}
  /\ results' = [results EXCEPT ![dir[s]].aflCrashes =
                    Over(File(Artifact("README.txt", 0), NoFinding),
                         File(Artifact("id:000000", 0), NextFinding(s)))]
  /\ AddFinding(s)
  /\ UNCHANGED <<fuzzer, now, corpus, pc, dir, running, sessions, ran, analysis>>

AflFindsHang(s) ==
  /\ pc[s] = "afl_fuzz" /\ DOMAIN results[dir[s]].aflHangs = {}
  /\ results' = [results EXCEPT ![dir[s]].aflHangs =
                    File(Artifact("id:000000", 0), NextFinding(s))]
  /\ AddFinding(s)
  /\ UNCHANGED <<fuzzer, now, corpus, pc, dir, running, sessions, ran, analysis>>

\* timeout ends it.
StopAfl(s) ==
  /\ pc[s] = "afl_fuzz"
  /\ Goto(s, "copy")
  /\ UNCHANGED <<now, tree, session, analysis>>

\* Only the first of the two finds.
CopyAfl_CrashesOnly(s) ==
  /\ pc[s] = "copy"
  /\ results' = [results EXCEPT ![dir[s]].crashes = Over(@, results[dir[s]].aflCrashes)]
  /\ Goto(s, "analyze")
  /\ UNCHANGED <<fuzzer, now, corpus, session, analysis>>

\* What is under the directory of afl-fuzz is copied where the analysis looks, by cp -r.
CopyAfl(s) ==
  /\ pc[s] = "copy"
  /\ results' = [results EXCEPT ![dir[s]].crashes = Over(@, results[dir[s]].aflCrashes),
                                ![dir[s]].hangs = Over(@, results[dir[s]].aflHangs)]
  /\ Goto(s, "analyze")
  /\ UNCHANGED <<fuzzer, now, corpus, session, analysis>>

\* run_standalone: a binary that does not start has an exit code that is not 0 as well.  The
\* loop does not know that fuzzer.
RunStandalone(s) ==
  /\ pc[s] = "standalone"
  /\ IF Continuous[s]
       THEN Goto(s, "aborted") /\ UNCHANGED ran
       ELSE \E starts \in BOOLEAN :
              /\ ran' = [ran EXCEPT ![s] = starts]
              /\ Goto(s, IF starts /\ StandaloneExit = 0 THEN "analyze" ELSE "aborted")
  /\ UNCHANGED <<now, tree, dir, running, sessions, found, analysis>>

-----------------------------------------------------------------------------
(* analyze_results, and what comes after it. *)

CountArtifacts(s) ==
  /\ pc[s] = "analyze"
  /\ counted' = [counted EXCEPT ![s] = [crashes |-> Cardinality(DOMAIN results[dir[s]].crashes),
                                        hangs |-> Cardinality(DOMAIN results[dir[s]].hangs)]]
  /\ Goto(s, "report")
  /\ UNCHANGED <<now, tree, session, verdict, wake>>

\* summary.txt is written, over another's if there was one, and the verdict announced.
Report(s) ==
  LET c == counted[s]
  IN  /\ pc[s] = "report"
      /\ results' = [results EXCEPT ![dir[s]].summary = c]
      /\ verdict' = [verdict EXCEPT ![s] =
                       IF c.crashes = 0 /\ c.hangs = 0 THEN "stable" ELSE "unstable"]
      /\ Goto(s, IF c.crashes \in 1 .. MinimizeBelow - 1 /\ fuzzer[s] = "libfuzzer"
                   THEN "minimize" ELSE "finish")
      /\ UNCHANGED <<fuzzer, now, corpus, session, counted, wake>>

\* Minimising in place, the file given as -exact_artifact_path as well.
Minimize_InPlace(s) ==
  /\ pc[s] = "minimize"
  /\ \E done \in SUBSET DOMAIN results[dir[s]].crashes :
       results' = [results EXCEPT ![dir[s]].crashes = Over(@, [f \in done |-> NoFinding])]
  /\ Goto(s, "finish")
  /\ UNCHANGED <<fuzzer, now, corpus, session, analysis>>

\* Each file in crashes/ may give another, smaller input with ".min" appended.
Minimize(s) ==
  /\ pc[s] = "minimize"
  /\ \E done \in SUBSET DOMAIN results[dir[s]].crashes :
       LET smaller == [f \in {Artifact(g.kind, g.min + 1) : g \in done} |-> NoFinding]
       IN  results' = [results EXCEPT ![dir[s]].crashes = Over(@, smaller)]
  /\ Goto(s, "finish")
  /\ UNCHANGED <<fuzzer, now, corpus, session, analysis>>

\* The loop without its sleep.
Finish_NoSleep(s) ==
  /\ pc[s] = "finish"
  /\ Goto(s, IF Continuous[s] THEN "sleep" ELSE "done")
  /\ wake' = [wake EXCEPT ![s] = now]
  /\ UNCHANGED <<now, tree, session, counted, verdict>>

Finish(s) ==
  /\ pc[s] = "finish"
  /\ Goto(s, IF Continuous[s] THEN "sleep" ELSE "done")
  /\ wake' = [wake EXCEPT ![s] = now + SleepSecs]
  /\ UNCHANGED <<now, tree, session, counted, verdict>>

Wake(s) ==
  /\ pc[s] = "sleep" /\ now >= wake[s]
  /\ Goto(s, "results")
  /\ UNCHANGED <<now, tree, session, analysis>>

\* The user's ^C reaches the script and the fuzzers it waits for.
Interrupt(s) ==
  /\ pc[s] \notin Terminal \cup {"start"}
  /\ Cardinality({t \in Scripts : pc[t] = "killed"}) < MaxInterrupts
  /\ Goto(s, "killed")
  /\ UNCHANGED <<now, tree, session, analysis>>

Tick ==
  /\ now < MaxTime
  /\ now' = now + 1
  /\ UNCHANGED <<tree, pc, session, analysis>>

\* What the script does, and the time limits of the fuzzers it waits for.
Step(s) ==
  \/ TestCorpus(s) \/ MakeCorpus(s) \/ CreateSeeds(s) \/ SetupResultsDir(s)
  \/ LibfuzzerFails(s) \/ StartLibfuzzer(s) \/ JobTimesOut(s) \/ LibfuzzerReturns(s)
  \/ AflMissing(s) \/ StartAfl(s) \/ StopAfl(s) \/ CopyAfl(s) \/ RunStandalone(s)
  \/ CountArtifacts(s) \/ Report(s) \/ Minimize(s) \/ Finish(s) \/ Wake(s)

\* What a fuzzer may come upon, or may not.
FuzzerFinds(s) == KeepInput(s) \/ JobCrashes(s) \/ AflFindsCrash(s) \/ AflFindsHang(s)

Next ==
  \/ Tick
  \/ \E s \in Scripts : CheckBinaries(s) \/ Step(s) \/ FuzzerFinds(s) \/ Interrupt(s)

\* A run once started goes on; whether it is started or interrupted is the user's, what the
\* fuzzers find is chance.
Spec == Init /\ [][Next]_vars /\ \A s \in Scripts : WF_vars(Step(s))

-----------------------------------------------------------------------------
(* Properties. *)

\* The state is well typed; in particular a run writes only to a directory it has made.
TypeOK ==
  /\ now \in 0 .. MaxTime
  /\ \A s \in Scripts : fuzzer[s] \in Offered[s]
  /\ corpus \in [exists : BOOLEAN, seeded : BOOLEAN]
  /\ \A d \in DOMAIN results : d[1] \in {"libfuzzer", "afl", "standalone"} /\ d[2] \in 0 .. MaxTime
  /\ \A s \in Scripts :
       /\ dir[s] = NoDir \/ dir[s] \in DOMAIN results \cap DOMAIN found[s]
       /\ running[s] \in 0 .. Jobs[s]
       /\ verdict[s] \in {"none", "stable", "unstable"}
       /\ sessions[s] \in Nat /\ wake[s] \in 0 .. MaxTime + SleepSecs

Shared(d) == \E s, t \in Scripts : s # t /\ d \in DOMAIN found[s] \cap DOMAIN found[t]

\* "Appears stable" is never said of a session whose own fuzzer ran into something,
\* whichever fuzzer it was and whatever other runs do to the same directory meanwhile; only
\* a second afl-fuzz in the same directory can remove what the first has not yet copied.
VerdictSound ==
  \A s \in Scripts :
    verdict[s] = "stable" =>
      found[s][dir[s]] = 0 \/ (fuzzer[s] = "afl" /\ Shared(dir[s]))

\* No two sessions of a run share a results directory, though a directory is named by the
\* second only: the loop's sleep keeps them apart, as long as the clock is not set back.
SessionsApart ==
  \A s \in Scripts : Cardinality(DOMAIN found[s]) = sessions[s]

\* In continuous mode whatever a session ran into is in the summary of its directory by
\* the time the session is over, and does not end the loop.
OverWithoutSummary(s, d) ==
  /\ found[s][d] > 0
  /\ d # dir[s] \/ pc[s] \in {"sleep", "results", "aborted"}
  /\ results[d].summary.crashes <= 0 /\ results[d].summary.hangs <= 0

FindingsSummarised ==
  \A s \in {t \in Scripts : Continuous[t]} : \A d \in DOMAIN found[s] :
    OverWithoutSummary(s, d) => Shared(d)

\* What a run came upon in a directory that is its own is in a file there for good, through
\* the copy from afl-fuzz and the minimising: under the directory of afl-fuzz until it is
\* copied, or if the run is interrupted, and then in crashes/ or hangs/, where the script says
\* the files are saved.  All that loses one is a later crash in the same session of another
\* job of libFuzzer, as they have one exact artifact path.
Saved(s, d) ==
  LET r == results[d]
      uncopied == d = dir[s] /\ pc[s] \in {"afl_fuzz", "copy", "killed"}
  IN  Range(r.crashes) \cup Range(r.hangs)
        \cup IF uncopied THEN Range(r.aflCrashes) \cup Range(r.aflHangs) ELSE {}

ArtifactsKept ==
  \A s \in Scripts : \A d \in DOMAIN found[s] : \A n \in 1 .. found[s][d] :
    \/ <<s, n>> \in Saved(s, d)
    \/ Shared(d)
    \/ fuzzer[s] = "libfuzzer" /\ n < found[s][d]

\* A run that is not continuous ends.
SingleRunsEnd ==
  \A s \in {t \in Scripts : ~Continuous[t]} : (pc[s] # "start") ~> (pc[s] \in Terminal)

-----------------------------------------------------------------------------
(* What the script's own messages claim. *)

\* A session that ran into something and was not interrupted says so: log_warning
\* "Found $crash_count crashes!" and a summary.
CrashIsReported ==
  \A s \in Scripts :
    pc[s] \in {"done", "aborted"} /\ dir[s] # NoDir /\ found[s][dir[s]] > 0 =>
      verdict[s] = "unstable"

\* "No crashes or hangs found - target appears stable" is said of a target that ran.
StableMeansFuzzed == \A s \in Scripts : verdict[s] = "stable" => ran[s]

\* "Creating corpus directory and seed files..." leaves seed files: no fuzzer is started
\* on a corpus the script made and left empty.
FuzzesFromSeeds ==
  \A s \in Scripts : pc[s] = "libfuzzer" => corpus.seeded

\* "Crashes Found:" and "Hangs Found:" of summary.txt go on telling that a finished session ran
\* into something.
SummaryLasts ==
  \A s \in {t \in Scripts : Continuous[t]} : \A d \in DOMAIN found[s] : ~OverWithoutSummary(s, d)

\* "Crashes Found:" counts the crashes of the session.
EveryCrashCounted ==
  \A s \in Scripts :
    fuzzer[s] = "libfuzzer" /\ verdict[s] # "none" => counted[s].crashes >= found[s][dir[s]]

=============================================================================
