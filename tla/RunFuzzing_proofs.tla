--------------------------- MODULE RunFuzzing_proofs ---------------------------
(***************************************************************************)
(* Proofs about the driver script, for any number of runs, seconds, jobs   *)
(* and interrupts.  The runs meet only in the results directories, and     *)
(* what one of them does to another's is narrow: it writes to a directory  *)
(* it has used itself, and removes no file from crashes/ or hangs/.  So the *)
(* invariant is one of a single run, RunInv(s), that a step of another     *)
(* keeps for that reason alone (OthersKeep), and its own steps by what     *)
(* they do.                                                                *)
(***************************************************************************)
EXTENDS RunFuzzing, FiniteSetTheorems, TLAPS

Fuzzers == {"libfuzzer", "afl", "standalone"}

Labels ==
  Fuzzers \cup Terminal
    \cup {"start", "corpus", "mkdir", "seeds", "results", "fuzzing", "afl_fuzz", "copy",
          "analyze", "report", "minimize", "finish", "sleep"}

BeforeSession == {"start", "corpus", "mkdir", "seeds"}
InSession == Labels \ (BeforeSession \cup Terminal \cup {"results"})

Artifacts == [kind : {"crash-", "id:000000", "README.txt"}, min : Nat]

Files(fs) == DOMAIN fs \subseteq Artifacts /\ IsFiniteSet(DOMAIN fs)

FiniteResults(r) ==
  /\ r = [crashes |-> r.crashes, hangs |-> r.hangs, aflCrashes |-> r.aflCrashes,
          aflHangs |-> r.aflHangs, summary |-> r.summary]
  /\ Files(r.crashes) /\ Files(r.hangs) /\ Files(r.aflCrashes) /\ Files(r.aflHangs)
  /\ r.summary \in [crashes : Int, hangs : Int]

Types ==
  /\ now \in 0 .. MaxTime
  /\ fuzzer \in [Scripts -> Fuzzers] /\ \A s \in Scripts : fuzzer[s] \in Offered[s]
  /\ corpus \in [exists : BOOLEAN, seeded : BOOLEAN]
  /\ \A d \in DOMAIN results : d \in Fuzzers \X (0 .. MaxTime) /\ FiniteResults(results[d])
  /\ pc \in [Scripts -> Labels] /\ DOMAIN dir = Scripts /\ DOMAIN found = Scripts
  /\ running \in [Scripts -> Nat] /\ \A s \in Scripts : running[s] <= Jobs[s]
  /\ counted \in [Scripts -> [crashes : Nat, hangs : Nat]]
  /\ verdict \in [Scripts -> {"none", "stable", "unstable"}]
  /\ wake \in [Scripts -> 0 .. MaxTime + SleepSecs]
  /\ sessions \in [Scripts -> Nat]
  /\ DOMAIN ran = Scripts

\* A run's directories are its fuzzer's, of seconds gone by; the one it is in is of its
\* own, and the next will be another.
Dirs(s) ==
  /\ \A d \in DOMAIN found[s] :
       /\ d \in DOMAIN results /\ found[s][d] \in Nat
       /\ d[1] = fuzzer[s] /\ d[2] <= now
       /\ pc[s] = "results" => d[2] < now
       /\ pc[s] = "sleep" => d[2] < wake[s]
  /\ IF DOMAIN found[s] = {} THEN dir[s] = NoDir ELSE dir[s] \in DOMAIN found[s]
  /\ pc[s] \in BeforeSession => DOMAIN found[s] = {}
  /\ pc[s] \in InSession => dir[s] \in DOMAIN found[s]

SessionCount(s) ==
  IsFiniteSet(DOMAIN found[s]) /\ Cardinality(DOMAIN found[s]) = sessions[s]

\* What the fuzzer of a session may have come upon by now.
FuzzerOf(s) ==
  /\ pc[s] \in {"libfuzzer", "fuzzing"} => fuzzer[s] = "libfuzzer"
  /\ pc[s] \in {"afl", "afl_fuzz", "copy"} => fuzzer[s] = "afl"
  /\ pc[s] = "standalone" => fuzzer[s] = "standalone"
  /\ pc[s] = "minimize" => fuzzer[s] = "libfuzzer"
  /\ pc[s] \in Fuzzers => found[s][dir[s]] = 0
  /\ fuzzer[s] = "standalone" => \A d \in DOMAIN found[s] : found[s][d] = 0
  /\ Continuous[s] /\ pc[s] = "aborted" /\ DOMAIN found[s] # {} => found[s][dir[s]] = 0

\* Where afl-fuzz has them, they are until they are copied.
Where(s, d) ==
  IF d = dir[s] /\ pc[s] \in {"afl_fuzz", "copy"}
    THEN Range(results[d].aflCrashes) \cup Range(results[d].aflHangs)
    ELSE Saved(s, d)

\* Where the findings are: libFuzzer's last, all of afl-fuzz's.
Kept(s) ==
  /\ fuzzer[s] = "libfuzzer" =>
       \A d \in DOMAIN found[s] : found[s][d] > 0 => DOMAIN results[d].crashes # {}
  /\ \A d \in DOMAIN found[s] : ~Shared(d) =>
       /\ fuzzer[s] = "libfuzzer" /\ found[s][d] > 0 =>
            /\ Artifact("crash-", 0) \in DOMAIN results[d].crashes
            /\ results[d].crashes[Artifact("crash-", 0)] = <<s, found[s][d]>>
       /\ fuzzer[s] = "afl" => \A n \in 1 .. found[s][d] : <<s, n>> \in Where(s, d)

\* From the count on, they are in the numbers.
Told(s) ==
  /\ pc[s] = "report" /\ found[s][dir[s]] > 0 =>
       counted[s].crashes + counted[s].hangs > 0 \/ (fuzzer[s] = "afl" /\ Shared(dir[s]))
  /\ verdict[s] # "none" => pc[s] \in {"minimize", "finish", "sleep", "results", "done", "killed"}
  /\ verdict[s] = "stable" => DOMAIN found[s] # {}
  /\ verdict[s] = "stable" /\ found[s][dir[s]] > 0 => fuzzer[s] = "afl" /\ Shared(dir[s])
  /\ \A d \in DOMAIN found[s] :
       found[s][d] > 0 /\ ~Shared(d)
         /\ (d # dir[s] \/ pc[s] \in {"minimize", "finish", "sleep", "results"}) =>
           results[d].summary.crashes > 0 \/ results[d].summary.hangs > 0

RunInv(s) == Dirs(s) /\ SessionCount(s) /\ FuzzerOf(s) /\ Kept(s) /\ Told(s)

ScriptInv == Types /\ \A s \in Scripts : RunInv(s)

-----------------------------------------------------------------------------
(* A step of one run, as another sees it. *)

\* No file is removed from crashes/ or hangs/.
Grows ==
  \A d \in DOMAIN results :
    /\ d \in DOMAIN results'
    /\ DOMAIN results[d].crashes \subseteq DOMAIN results'[d].crashes
    /\ DOMAIN results[d].hangs \subseteq DOMAIN results'[d].hangs

\* Of the others it changes nothing but what is in a directory it has used as well.
Apart(t) ==
  /\ now' = now /\ fuzzer' = fuzzer /\ Grows
  /\ DOMAIN found' = Scripts /\ \A s \in Scripts : DOMAIN found[s] \subseteq DOMAIN found'[s]
  /\ \A d \in DOMAIN results : d \in DOMAIN found[t] \/ results'[d] = results[d]
  /\ \A s \in Scripts \ {t} :
       /\ pc'[s] = pc[s] /\ dir'[s] = dir[s] /\ found'[s] = found[s]
       /\ counted'[s] = counted[s] /\ verdict'[s] = verdict[s] /\ wake'[s] = wake[s]
       /\ sessions'[s] = sessions[s]

LEMMA SharedGrows ==
  ASSUME \A s \in Scripts : DOMAIN found[s] \subseteq DOMAIN found'[s], NEW d, Shared(d)
  PROVE  Shared(d)'
BY DEF Shared

LEMMA OthersKeep ==
  ASSUME NEW t \in Scripts, Apart(t), NEW s \in Scripts, s # t, RunInv(s)
  PROVE  RunInv(s)'
<1>1. /\ pc'[s] = pc[s] /\ dir'[s] = dir[s] /\ found'[s] = found[s]
      /\ counted'[s] = counted[s] /\ verdict'[s] = verdict[s] /\ wake'[s] = wake[s]
      /\ sessions'[s] = sessions[s] /\ fuzzer'[s] = fuzzer[s] /\ now' = now
  BY DEF Apart
<1>2. \A d : Shared(d) => Shared(d)'
  BY SharedGrows DEF Apart
<1>3. \A d \in DOMAIN found[s] :
        /\ d \in DOMAIN results /\ d \in DOMAIN results'
        /\ DOMAIN results[d].crashes \subseteq DOMAIN results'[d].crashes
        /\ DOMAIN results[d].hangs \subseteq DOMAIN results'[d].hangs
  BY DEF Apart, Grows, RunInv, Dirs
<1>4. \A d \in DOMAIN found[s] : results'[d] = results[d] \/ Shared(d)'
  <2> SUFFICES ASSUME NEW d \in DOMAIN found[s], d \in DOMAIN found[t] PROVE Shared(d)'
    BY <1>3 DEF Apart
  <2>1. Shared(d)
    BY DEF Shared
  <2> QED
    BY <1>2, <2>1
<1>5. Dirs(s)'
  BY <1>1, <1>3 DEF RunInv, Dirs
<1>6. SessionCount(s)' /\ FuzzerOf(s)'
  BY <1>1 DEF RunInv, SessionCount, FuzzerOf
<1>7. Kept(s)'
  <2>1. fuzzer[s] = "libfuzzer" =>
          \A d \in DOMAIN found[s] : found[s][d] > 0 => DOMAIN results'[d].crashes # {}
    BY <1>3 DEF RunInv, Kept
  <2>2. ASSUME NEW d \in DOMAIN found[s], ~Shared(d)'
        PROVE  ~Shared(d) /\ results'[d] = results[d]
    BY <1>2, <1>4, <2>2
  <2>3. ASSUME NEW d \in DOMAIN found[s], ~Shared(d)'
        PROVE  Where(s, d)' = Where(s, d)
    BY <1>1, <2>2, <2>3 DEF Where, Saved
  <2>4. ASSUME NEW d \in DOMAIN found[s], ~Shared(d)'
        PROVE  /\ fuzzer[s] = "libfuzzer" /\ found[s][d] > 0 =>
                    /\ Artifact("crash-", 0) \in DOMAIN results'[d].crashes
                    /\ results'[d].crashes[Artifact("crash-", 0)] = <<s, found[s][d]>>
               /\ fuzzer[s] = "afl" => \A n \in 1 .. found[s][d] : <<s, n>> \in Where(s, d)'
    BY <2>2, <2>3, <2>4 DEF RunInv, Kept
  <2> QED
    BY <1>1, <2>1, <2>4 DEF Kept
<1>8. Told(s)'
  <2>1. ASSUME NEW d \in DOMAIN found[s], found[s][d] > 0, ~Shared(d)',
               d # dir[s] \/ pc[s] \in {"minimize", "finish", "sleep", "results"}
        PROVE  results'[d].summary.crashes > 0 \/ results'[d].summary.hangs > 0
    BY <1>2, <1>4, <2>1 DEF RunInv, Told
  <2>2. Shared(dir[s]) => Shared(dir[s])'
    BY <1>1, <1>2 DEF Shared
  <2> QED
    BY <1>1, <1>2, <2>1, <2>2 DEF RunInv, Told
<1> QED
  BY <1>5, <1>6, <1>7, <1>8 DEF RunInv

-----------------------------------------------------------------------------
(* The steps of a run that only move it on. *)

MovesOn(s, l) ==
  \/ pc[s] = "start" /\ l \in {"corpus", "aborted"}
  \/ pc[s] = "corpus" /\ l \in {"results", "mkdir"}
  \/ pc[s] = "mkdir" /\ l = "seeds"
  \/ pc[s] = "seeds" /\ l = "aborted"
  \/ pc[s] = "libfuzzer" /\ l \in {"fuzzing", "analyze", "aborted"}
  \/ pc[s] = "fuzzing" /\ (l = "analyze" \/ (l = "aborted" /\ ~Continuous[s]))
  \/ pc[s] = "afl" /\ l \in {"aborted", "copy"}
  \/ pc[s] = "afl_fuzz" /\ l = "copy"
  \/ pc[s] = "standalone" /\ l \in {"aborted", "analyze"}
  \/ pc[s] = "sleep" /\ l = "results" /\ now >= wake[s]
  \/ pc[s] \notin Terminal \cup {"start"} /\ l = "killed"
  \/ l = pc[s]

USE DEF Labels, BeforeSession, InSession, Terminal, Fuzzers

LEMMA MovesOnInv ==
  ASSUME Types, NEW s \in Scripts, RunInv(s), NEW l \in Labels, MovesOn(s, l),
         pc' = [pc EXCEPT ![s] = l],
         UNCHANGED <<now, fuzzer, results, dir, found, sessions, counted, verdict, wake>>
  PROVE  RunInv(s)' /\ Apart(s) /\ pc' \in [Scripts -> Labels]
<1>1. pc'[s] = l /\ pc' \in [Scripts -> Labels]
  BY DEF Types
<1>2. \A d : Shared(d) <=> Shared(d)'
  BY DEF Shared
<1>3. Shared(dir[s]) <=> Shared(dir[s])'
  BY DEF Shared
<1>4. Dirs(s)'
  <2>1. \A d \in DOMAIN found[s] : d \in Fuzzers \X (0 .. MaxTime)
    BY DEF Types, RunInv, Dirs
  <2>2. \A d \in DOMAIN found[s] : d[2] \in Int /\ now \in Int /\ wake[s] \in Int
    BY <2>1, ScriptAssumption DEF Types
  <2> QED
    BY <1>1, <2>2 DEF RunInv, Dirs, MovesOn
<1>5. SessionCount(s)'
  BY DEF RunInv, SessionCount
<1>6. FuzzerOf(s)'
  BY <1>1 DEF RunInv, FuzzerOf, MovesOn, Dirs
<1>7. Kept(s)'
  <2>1. ASSUME NEW d, ~(pc[s] = "afl" /\ d = dir[s]) PROVE Where(s, d) \subseteq Where(s, d)'
    BY <1>1, <2>1 DEF MovesOn, Where, Saved
  <2>2. pc[s] = "afl" => found[s][dir[s]] = 0
    BY DEF RunInv, FuzzerOf
  <2>3. ASSUME NEW d \in DOMAIN found[s], ~Shared(d), fuzzer[s] = "afl", NEW n \in 1 .. found[s][d]
        PROVE  <<s, n>> \in Where(s, d)'
    BY <2>1, <2>2, <2>3 DEF RunInv, Kept
  <2> QED
    BY <1>2, <2>3 DEF RunInv, Kept
<1>8. Told(s)'
  <2>1. ASSUME NEW d \in DOMAIN found[s], found[s][d] > 0, ~Shared(d),
               d # dir[s] \/ l \in {"minimize", "finish", "sleep", "results"}
        PROVE  results[d].summary.crashes > 0 \/ results[d].summary.hangs > 0
    BY <2>1 DEF RunInv, Told, MovesOn, Dirs
  <2> QED
    BY <1>1, <1>2, <1>3, <2>1 DEF RunInv, Told, MovesOn
<1>9. Apart(s)
  BY DEF Apart, Grows, Types
<1> QED
  BY <1>1, <1>4, <1>5, <1>6, <1>7, <1>8, <1>9 DEF RunInv

LEMMA StepKeeps ==
  ASSUME ScriptInv, NEW s \in Scripts, Types', RunInv(s)', Apart(s)
  PROVE  ScriptInv' /\ Grows
BY OthersKeep DEF ScriptInv, Apart

\* afl-fuzz fails before it has touched anything.
AflGivesUp(s) == StartAfl(s) /\ UNCHANGED <<ran, results>> /\ Goto(s, "copy")

QuietStep(s) ==
  \/ CheckBinaries(s) \/ TestCorpus(s) \/ MakeCorpus(s) \/ CreateSeeds(s)
  \/ LibfuzzerFails(s) \/ StartLibfuzzer(s) \/ KeepInput(s) \/ JobTimesOut(s)
  \/ LibfuzzerReturns(s) \/ AflMissing(s) \/ AflGivesUp(s) \/ StopAfl(s) \/ RunStandalone(s)
  \/ Wake(s) \/ Interrupt(s)

LEMMA QuietStepInv ==
  ASSUME ScriptInv, NEW s \in Scripts, QuietStep(s)
  PROVE  ScriptInv' /\ Grows
<1>1. /\ UNCHANGED <<now, fuzzer, results, dir, found, sessions, counted, verdict, wake>>
      /\ \E l \in Labels : MovesOn(s, l) /\ pc' = [pc EXCEPT ![s] = l]
      /\ corpus' \in [exists : BOOLEAN, seeded : BOOLEAN]
      /\ DOMAIN ran' = Scripts
      /\ running' \in [Scripts -> Nat] /\ \A t \in Scripts : running'[t] <= Jobs[t]
  <2> USE ScriptAssumption DEF ScriptInv, Types, Goto, tree, session, analysis, MovesOn
  <2>1. CASE CheckBinaries(s) \/ TestCorpus(s)
    BY <2>1 DEF CheckBinaries, TestCorpus
  <2>2. CASE MakeCorpus(s) \/ CreateSeeds(s)
    BY <2>2 DEF MakeCorpus, CreateSeeds
  <2>3. CASE StartLibfuzzer(s) \/ LibfuzzerFails(s)
    BY <2>3 DEF StartLibfuzzer, LibfuzzerFails
  <2>4. CASE KeepInput(s)
    <3>1. pc[s] \in Labels /\ MovesOn(s, pc[s]) /\ pc' = [pc EXCEPT ![s] = pc[s]]
      BY <2>4 DEF KeepInput
    <3>2. corpus' \in [exists : BOOLEAN, seeded : BOOLEAN]
      BY <2>4 DEF KeepInput
    <3>3. UNCHANGED <<now, fuzzer, results, dir, found, sessions, counted, verdict, wake, ran, running>>
      BY <2>4 DEF KeepInput
    <3> HIDE DEF MovesOn, Labels
    <3> QED
      BY <3>1, <3>2, <3>3
  <2>5. CASE JobTimesOut(s)
    BY <2>5 DEF JobTimesOut
  <2>6. CASE LibfuzzerReturns(s)
    BY <2>6 DEF LibfuzzerReturns
  <2>7. CASE AflMissing(s) \/ AflGivesUp(s)
    BY <2>7 DEF AflMissing, AflGivesUp, StartAfl
  <2>8. CASE StopAfl(s)
    BY <2>8 DEF StopAfl
  <2>9. CASE RunStandalone(s)
    BY <2>9 DEF RunStandalone
  <2>10. CASE Wake(s) \/ Interrupt(s)
    BY <2>10 DEF Wake, Interrupt
  <2> QED
    BY <2>1, <2>2, <2>3, <2>4, <2>5, <2>6, <2>7, <2>8, <2>9, <2>10 DEF QuietStep
<1>2. PICK l \in Labels : MovesOn(s, l) /\ pc' = [pc EXCEPT ![s] = l]
  BY <1>1
<1>3. RunInv(s)' /\ Apart(s) /\ pc' \in [Scripts -> Labels]
  BY <1>1, <1>2, MovesOnInv DEF ScriptInv
<1>4. Types'
  BY <1>1, <1>3 DEF ScriptInv, Types, FiniteResults
<1> QED
  BY <1>3, <1>4, StepKeeps

\* The clock.
LEMMA TickInv == ASSUME ScriptInv, Tick PROVE ScriptInv' /\ Grows
<1>1. now \in Int /\ now' = now + 1 /\ now' \in 0 .. MaxTime
  BY ScriptAssumption DEF ScriptInv, Types, Tick
<1>2. UNCHANGED <<fuzzer, corpus, results, pc, dir, running, sessions, found, ran, counted, verdict, wake>>
  BY DEF Tick, tree, session, analysis
<1>3. Types'
  BY <1>1, <1>2 DEF ScriptInv, Types, FiniteResults
<1>4. ASSUME NEW s \in Scripts PROVE RunInv(s)'
  <2>1. RunInv(s) /\ \A d \in DOMAIN found[s] : d[2] \in Int
    <3>1. \A d \in DOMAIN found[s] : d \in Fuzzers \X (0 .. MaxTime)
      BY DEF ScriptInv, Types, RunInv, Dirs
    <3> QED
      BY <3>1 DEF ScriptInv
  <2>2. Dirs(s)'
    BY <1>1, <1>2, <2>1 DEF RunInv, Dirs
  <2>3. SessionCount(s)' /\ FuzzerOf(s)'
    BY <1>2, <2>1 DEF RunInv, SessionCount, FuzzerOf
  <2>4. Kept(s)' /\ Told(s)'
    BY <1>2, <2>1 DEF RunInv, Kept, Where, Saved, Told, Shared
  <2> QED
    BY <2>2, <2>3, <2>4 DEF RunInv
<1> QED
  BY <1>2, <1>3, <1>4 DEF ScriptInv, Grows

-----------------------------------------------------------------------------
(* The steps that write to the directory of the session. *)

\* What every one of them leaves as it was.
WritesOnly(s, r) ==
  /\ results' = [results EXCEPT ![dir[s]] = r]
  /\ UNCHANGED <<now, fuzzer, corpus, dir, sessions, wake>>
  /\ DOMAIN found' = Scripts /\ DOMAIN found'[s] = DOMAIN found[s]
  /\ \A t \in Scripts \ {s} :
       /\ pc'[t] = pc[t] /\ found'[t] = found[t]
       /\ counted'[t] = counted[t] /\ verdict'[t] = verdict[t]

LEMMA WriteApart ==
  ASSUME ScriptInv, NEW s \in Scripts, pc[s] \in InSession, NEW r, FiniteResults(r),
         DOMAIN results[dir[s]].crashes \subseteq DOMAIN r.crashes,
         DOMAIN results[dir[s]].hangs \subseteq DOMAIN r.hangs,
         WritesOnly(s, r)
  PROVE  /\ Apart(s)
         /\ \A d \in DOMAIN results' : d \in Fuzzers \X (0 .. MaxTime) /\ FiniteResults(results'[d])
         /\ dir[s] \in DOMAIN found[s] /\ DOMAIN found[s] \subseteq DOMAIN results
         /\ DOMAIN results' = DOMAIN results /\ results'[dir[s]] = r
         /\ \A d \in DOMAIN results : d # dir[s] => results'[d] = results[d]
         /\ \A d : Shared(d)' <=> Shared(d)
         /\ Shared(dir[s])' <=> Shared(dir[s])
<1>1. RunInv(s)
  BY DEF ScriptInv
<1>2. dir[s] \in DOMAIN found[s] /\ DOMAIN found[s] \subseteq DOMAIN results
  BY <1>1 DEF RunInv, Dirs
<1>3. DOMAIN results' = DOMAIN results /\ results'[dir[s]] = r
      /\ \A d \in DOMAIN results : d # dir[s] => results'[d] = results[d]
  BY <1>2 DEF WritesOnly
<1>4. \A t \in Scripts : DOMAIN found'[t] = DOMAIN found[t]
  BY DEF WritesOnly
<1>5. \A d : Shared(d)' <=> Shared(d)
  BY <1>4 DEF Shared
<1>6. Shared(dir[s])' <=> Shared(dir[s])
  BY <1>4 DEF Shared, WritesOnly
<1>7. Grows
  BY <1>3 DEF Grows
<1>8. Apart(s)
  BY <1>2, <1>3, <1>4, <1>7 DEF Apart, WritesOnly
<1>9. \A d \in DOMAIN results' : d \in Fuzzers \X (0 .. MaxTime) /\ FiniteResults(results'[d])
  BY <1>3 DEF ScriptInv, Types
<1> QED
  BY <1>2, <1>3, <1>5, <1>6, <1>8, <1>9

\* What is written over files is among them, and what is not overwritten stays.
LEMMA OverFiles ==
  ASSUME NEW a, NEW b, Files(a), Files(b)
  PROVE  /\ Files(Over(a, b))
         /\ DOMAIN a \subseteq DOMAIN Over(a, b) /\ DOMAIN b \subseteq DOMAIN Over(a, b)
         /\ \A f \in DOMAIN b : Over(a, b)[f] = b[f]
         /\ \A f \in DOMAIN a \ DOMAIN b : Over(a, b)[f] = a[f]
         /\ Range(b) \subseteq Range(Over(a, b))
<1>1. DOMAIN Over(a, b) = DOMAIN a \cup DOMAIN b
      /\ (\A f \in DOMAIN b : Over(a, b)[f] = b[f])
      /\ (\A f \in DOMAIN a \ DOMAIN b : Over(a, b)[f] = a[f])
  BY DEF Over
<1>2. Files(Over(a, b))
  BY <1>1, FS_Union DEF Files
<1>3. Range(b) \subseteq Range(Over(a, b))
  BY <1>1 DEF Range
<1> QED
  BY <1>1, <1>2, <1>3

LEMMA FileFiles ==
  ASSUME NEW kind \in {"crash-", "id:000000", "README.txt"}, NEW c
  PROVE  /\ Files(File(Artifact(kind, 0), c))
         /\ DOMAIN File(Artifact(kind, 0), c) = {Artifact(kind, 0)}
         /\ File(Artifact(kind, 0), c)[Artifact(kind, 0)] = c
         /\ Range(File(Artifact(kind, 0), c)) = {c}
<1>1. DOMAIN File(Artifact(kind, 0), c) = {Artifact(kind, 0)}
      /\ File(Artifact(kind, 0), c)[Artifact(kind, 0)] = c
  BY DEF File
<1>2. Artifact(kind, 0) \in Artifacts
  BY DEF Artifact, Artifacts
<1>3. Files(File(Artifact(kind, 0), c))
  BY <1>1, <1>2, FS_Singleton DEF Files
<1>4. Range(File(Artifact(kind, 0), c)) = {c}
  BY <1>1 DEF Range
<1> QED
  BY <1>1, <1>3, <1>4

\* A libFuzzer job leaves its file where the analysis looks, over another's.
LEMMA JobCrashesInv ==
  ASSUME ScriptInv, NEW s \in Scripts, JobCrashes(s) PROVE ScriptInv' /\ Grows
<1> DEFINE d0 == dir[s]
           crash == Artifact("crash-", 0)
           cs == Over(results[d0].crashes, File(crash, <<s, found[s][d0] + 1>>))
           r == [results[d0] EXCEPT !.crashes = cs]
<1>1. RunInv(s) /\ Types /\ pc[s] = "fuzzing" /\ running[s] > 0 /\ pc' = pc
      /\ UNCHANGED <<now, fuzzer, corpus, dir, sessions, ran, counted, verdict, wake>>
  BY DEF ScriptInv, JobCrashes, analysis
<1>2. d0 \in DOMAIN found[s] /\ d0 \in DOMAIN results /\ found[s][d0] \in Nat
  BY <1>1 DEF RunInv, Dirs
<1>3. FiniteResults(results[d0])
  BY <1>1, <1>2 DEF Types
<1>c. /\ Files(cs) /\ DOMAIN results[d0].crashes \subseteq DOMAIN cs
      /\ crash \in DOMAIN cs /\ cs[crash] = <<s, found[s][d0] + 1>>
  <2> DEFINE file == File(crash, <<s, found[s][d0] + 1>>)
  <2>1. Files(file) /\ DOMAIN file = {crash} /\ file[crash] = <<s, found[s][d0] + 1>>
    BY FileFiles
  <2>2. Files(results[d0].crashes)
    BY <1>3 DEF FiniteResults
  <2> HIDE DEF file
  <2>3. /\ Files(cs)
        /\ DOMAIN results[d0].crashes \subseteq DOMAIN cs /\ DOMAIN file \subseteq DOMAIN cs
        /\ \A f \in DOMAIN file : cs[f] = file[f]
    <3>1. cs = Over(results[d0].crashes, file)
      BY DEF file
    <3> HIDE DEF cs
    <3> QED
      BY <2>1, <2>2, <3>1, OverFiles
  <2> HIDE DEF cs
  <2> QED
    BY <2>1, <2>3
<1>a. results' = [results EXCEPT ![d0] = r]
  BY DEF JobCrashes, NextFinding
<1> HIDE DEF cs
<1>4. FiniteResults(r) /\ r.crashes = cs /\ r.hangs = results[d0].hangs
  BY <1>3, <1>c DEF FiniteResults
<1> HIDE DEF r
<1>5. found' = [found EXCEPT ![s] = [found[s] EXCEPT ![d0] = found[s][d0] + 1]]
  <2>1. AddFinding(s)
    BY DEF JobCrashes
  <2> QED
    BY <2>1 DEF AddFinding
<1>6. found'[s] = [found[s] EXCEPT ![d0] = found[s][d0] + 1] /\ WritesOnly(s, r)
  BY <1>1, <1>5, <1>a DEF WritesOnly, Types
<1>b. running' \in [Scripts -> Nat] /\ \A t \in Scripts : running'[t] <= Jobs[t]
  <2>1. running' = [running EXCEPT ![s] = running[s] - 1]
    BY DEF JobCrashes
  <2>2. running \in [Scripts -> Nat] /\ running[s] - 1 \in Nat
    BY <1>1 DEF Types
  <2>3. running' \in [Scripts -> Nat]
    BY <2>1, <2>2
  <2>4. \A t \in Scripts : running[t] <= Jobs[t] /\ Jobs[t] \in Nat /\ running[t] \in Nat
    BY <1>1, ScriptAssumption DEF Types
  <2>5. \A t \in Scripts : running'[t] = IF t = s THEN running[s] - 1 ELSE running[t]
    BY <2>1, <2>2
  <2> QED
    BY <2>3, <2>4, <2>5
<1> HIDE DEF d0
<1>7. /\ Apart(s)
      /\ \A d \in DOMAIN results' : d \in Fuzzers \X (0 .. MaxTime) /\ FiniteResults(results'[d])
      /\ DOMAIN found[s] \subseteq DOMAIN results
      /\ DOMAIN results' = DOMAIN results /\ results'[d0] = r
      /\ \A d \in DOMAIN results : d # d0 => results'[d] = results[d]
      /\ \A d : Shared(d)' <=> Shared(d)
  <2>1. DOMAIN results[d0].crashes \subseteq DOMAIN r.crashes
        /\ DOMAIN results[d0].hangs \subseteq DOMAIN r.hangs /\ pc[s] \in InSession
    BY <1>1, <1>4, <1>c
  <2> QED
    BY <1>4, <1>6, <2>1, WriteApart DEF d0
<1>8. DOMAIN found'[s] = DOMAIN found[s] /\ found'[s][d0] = found[s][d0] + 1
      /\ \A d \in DOMAIN found[s] : d # d0 => found'[s][d] = found[s][d]
  BY <1>2, <1>6
<1>9. Types'
  BY <1>1, <1>5, <1>7, <1>b DEF Types
<1>10. fuzzer[s] = "libfuzzer" /\ verdict[s] = "none" /\ dir'[s] = d0 /\ pc'[s] = "fuzzing" /\ fuzzer'[s] = "libfuzzer"
  BY <1>1 DEF RunInv, FuzzerOf, Told, d0
<1>11. Dirs(s)'
  BY <1>1, <1>2, <1>7, <1>8, <1>10 DEF RunInv, Dirs
<1>12. SessionCount(s)' /\ FuzzerOf(s)'
  BY <1>1, <1>8, <1>10 DEF RunInv, SessionCount, FuzzerOf
<1>13. Kept(s)'
  <2>1. ASSUME NEW d \in DOMAIN found[s], found'[s][d] > 0
        PROVE  DOMAIN results'[d].crashes # {}
    BY <1>1, <1>4, <1>7, <1>8, <1>10, <1>c, <2>1 DEF RunInv, Kept
  <2>2. ASSUME NEW d \in DOMAIN found[s], ~Shared(d), found'[s][d] > 0
        PROVE  crash \in DOMAIN results'[d].crashes /\ results'[d].crashes[crash] = <<s, found'[s][d]>>
    <3>1. CASE d = d0
      BY <1>4, <1>7, <1>8, <1>c, <3>1
    <3>2. CASE d # d0
      BY <1>1, <1>7, <1>8, <1>10, <2>2, <3>2 DEF RunInv, Kept
    <3> QED
      BY <3>1, <3>2
  <2> QED
    BY <1>7, <1>8, <1>10, <2>1, <2>2 DEF Kept
<1>14. Told(s)'
  BY <1>1, <1>7, <1>8, <1>10 DEF RunInv, Told
<1> QED
  BY <1>7, <1>9, <1>11, <1>12, <1>13, <1>14, StepKeeps DEF RunInv

\* What afl-fuzz comes upon is under its own directory, to be copied.
LEMMA AflFindsInv ==
  ASSUME ScriptInv, NEW s \in Scripts, pc[s] = "afl_fuzz",
         NEW r, FiniteResults(r),
         Range(results[dir[s]].aflCrashes) \cup Range(results[dir[s]].aflHangs)
             \cup {NextFinding(s)}
           \subseteq Range(r.aflCrashes) \cup Range(r.aflHangs),
         r.crashes = results[dir[s]].crashes, r.hangs = results[dir[s]].hangs,
         results' = [results EXCEPT ![dir[s]] = r], AddFinding(s),
         UNCHANGED <<fuzzer, now, corpus, pc, dir, running, sessions, ran, counted, verdict, wake>>
  PROVE  ScriptInv' /\ Grows
<1> DEFINE d0 == dir[s]
<1>1. RunInv(s) /\ Types
  BY DEF ScriptInv
<1>2. d0 \in DOMAIN found[s] /\ d0 \in DOMAIN results /\ found[s][d0] \in Nat
  BY <1>1 DEF RunInv, Dirs
<1>3. found' = [found EXCEPT ![s] = [found[s] EXCEPT ![d0] = found[s][d0] + 1]]
  BY DEF AddFinding
<1>4. found'[s] = [found[s] EXCEPT ![d0] = found[s][d0] + 1] /\ WritesOnly(s, r)
  BY <1>1, <1>3 DEF WritesOnly, Types
<1> HIDE DEF d0
<1>5. /\ Apart(s)
      /\ \A d \in DOMAIN results' : d \in Fuzzers \X (0 .. MaxTime) /\ FiniteResults(results'[d])
      /\ DOMAIN found[s] \subseteq DOMAIN results
      /\ DOMAIN results' = DOMAIN results /\ results'[d0] = r
      /\ \A d \in DOMAIN results : d # d0 => results'[d] = results[d]
      /\ \A d : Shared(d)' <=> Shared(d)
  BY <1>1, <1>4, WriteApart DEF d0
<1>6. DOMAIN found'[s] = DOMAIN found[s] /\ found'[s][d0] = found[s][d0] + 1
      /\ \A d \in DOMAIN found[s] : d # d0 => found'[s][d] = found[s][d]
  BY <1>2, <1>4
<1>7. Types'
  BY <1>1, <1>3, <1>5 DEF Types
<1>8. fuzzer[s] = "afl" /\ verdict[s] = "none" /\ dir'[s] = d0 /\ pc'[s] = "afl_fuzz"
      /\ fuzzer'[s] = "afl"
  BY <1>1 DEF RunInv, FuzzerOf, Told, d0
<1>9. Dirs(s)'
  BY <1>1, <1>2, <1>5, <1>6, <1>8 DEF RunInv, Dirs
<1>10. SessionCount(s)' /\ FuzzerOf(s)'
  BY <1>1, <1>6, <1>8 DEF RunInv, SessionCount, FuzzerOf
<1>11. Kept(s)'
  <2>1. ASSUME NEW d \in DOMAIN found[s], ~Shared(d), NEW n \in 1 .. found'[s][d]
        PROVE  <<s, n>> \in Where(s, d)'
    <3>1. CASE d = d0
      <4>1. Where(s, d)' = Range(r.aflCrashes) \cup Range(r.aflHangs)
            /\ Where(s, d) = Range(results[d0].aflCrashes) \cup Range(results[d0].aflHangs)
        BY <1>1, <1>5, <1>8, <3>1 DEF Where, d0
      <4>2. n \in 1 .. found[s][d0] \/ n = found[s][d0] + 1
        BY <1>2, <1>6, <3>1
      <4>3. CASE n = found[s][d0] + 1
        BY <4>1, <4>3 DEF NextFinding, d0
      <4>4. CASE n \in 1 .. found[s][d0]
        <5>1. <<s, n>> \in Where(s, d)
          BY <1>1, <1>8, <2>1, <3>1, <4>4 DEF RunInv, Kept
        <5> QED
          BY <4>1, <5>1 DEF d0
      <4> QED
        BY <4>2, <4>3, <4>4
    <3>2. CASE d # d0
      <4>1. Where(s, d)' = Where(s, d)
        BY <1>1, <1>5, <1>8, <3>2 DEF Where, Saved, d0
      <4> QED
        BY <1>1, <1>6, <1>8, <2>1, <3>2, <4>1 DEF RunInv, Kept
    <3> QED
      BY <3>1, <3>2
  <2> QED
    BY <1>5, <1>6, <1>8, <2>1 DEF Kept
<1>12. Told(s)'
  BY <1>1, <1>5, <1>6, <1>8 DEF RunInv, Told
<1> QED
  BY <1>5, <1>7, <1>9, <1>10, <1>11, <1>12, StepKeeps DEF RunInv

\* The writing steps of the script itself go on to the next label and add no finding.
LEMMA WriteMoves ==
  ASSUME ScriptInv, NEW s \in Scripts, NEW l \in Labels,
         \/ pc[s] = "afl" /\ l \in {"afl_fuzz", "copy"}
         \/ pc[s] = "copy" /\ l = "analyze"
         \/ pc[s] = "report" /\ l = "minimize" /\ fuzzer[s] = "libfuzzer"
         \/ pc[s] = "report" /\ l = "finish"
         \/ pc[s] = "minimize" /\ l = "finish",
         NEW v \in {"none", "stable", "unstable"},
         pc' = [pc EXCEPT ![s] = l], verdict' = [verdict EXCEPT ![s] = v],
         NEW r, FiniteResults(r), results' = [results EXCEPT ![dir[s]] = r],
         DOMAIN results[dir[s]].crashes \subseteq DOMAIN r.crashes,
         DOMAIN results[dir[s]].hangs \subseteq DOMAIN r.hangs,
         UNCHANGED <<fuzzer, now, corpus, dir, running, sessions, found, counted, wake>>,
         DOMAIN ran' = Scripts,
         Kept(s)', Told(s)'
  PROVE  ScriptInv' /\ Grows
<1>1. RunInv(s) /\ Types
  BY DEF ScriptInv
<1>2. WritesOnly(s, r) /\ pc'[s] = l
  BY <1>1 DEF WritesOnly, Types
<1>3. /\ Apart(s)
      /\ \A d \in DOMAIN results' : d \in Fuzzers \X (0 .. MaxTime) /\ FiniteResults(results'[d])
      /\ DOMAIN results' = DOMAIN results
  BY <1>1, <1>2, WriteApart
<1>4. Types'
  BY <1>1, <1>3 DEF Types
<1>5. Dirs(s)'
  BY <1>1, <1>2, <1>3 DEF RunInv, Dirs
<1>6. SessionCount(s)' /\ FuzzerOf(s)'
  BY <1>1, <1>2 DEF RunInv, SessionCount, FuzzerOf
<1> QED
  BY <1>3, <1>4, <1>5, <1>6, StepKeeps DEF RunInv

LEMMA StartAflInv ==
  ASSUME ScriptInv, NEW s \in Scripts, StartAfl(s) PROVE AflGivesUp(s) \/ (ScriptInv' /\ Grows)
<1> DEFINE d0 == dir[s]
           r == [[results[d0] EXCEPT !.aflCrashes = NoFiles] EXCEPT !.aflHangs = NoFiles]
<1> SUFFICES ASSUME ~AflGivesUp(s) PROVE ScriptInv' /\ Grows
  OBVIOUS
<1>1. RunInv(s) /\ Types /\ pc[s] = "afl"
      /\ UNCHANGED <<now, fuzzer, corpus, dir, running, sessions, found, counted, verdict, wake>>
  BY DEF ScriptInv, StartAfl, analysis
<1>a. results' = [results EXCEPT ![d0] = r] /\ (UNCHANGED ran \/ ran' = [ran EXCEPT ![s] = TRUE])
      /\ \E l \in {"afl_fuzz", "copy"} : pc' = [pc EXCEPT ![s] = l]
  BY DEF StartAfl, AflGivesUp, Goto
<1>2. d0 \in DOMAIN found[s] /\ d0 \in DOMAIN results
  BY <1>1 DEF RunInv, Dirs
<1>3. FiniteResults(results[d0])
  BY <1>1, <1>2 DEF Types
<1>b. Files(NoFiles)
  BY FS_EmptySet DEF NoFiles, Files
<1>4. FiniteResults(r) /\ r.crashes = results[d0].crashes /\ r.hangs = results[d0].hangs
      /\ r.summary = results[d0].summary
  <2> DEFINE q == [results[d0] EXCEPT !.aflCrashes = NoFiles]
  <2>1. FiniteResults(q) /\ q.crashes = results[d0].crashes /\ q.hangs = results[d0].hangs
        /\ q.summary = results[d0].summary
    BY <1>3, <1>b DEF FiniteResults
  <2>2. r = [q EXCEPT !.aflHangs = NoFiles]
    OBVIOUS
  <2> HIDE DEF q, r
  <2> QED
    BY <1>b, <2>1, <2>2 DEF FiniteResults
<1> HIDE DEF r
<1>5. PICK l \in {"afl_fuzz", "copy"} : pc' = [pc EXCEPT ![s] = l]
  BY <1>a
<1>6. WritesOnly(s, r) /\ pc'[s] = l
  BY <1>1, <1>5, <1>a DEF WritesOnly, Types
<1>7. /\ results'[d0] = r
      /\ \A d \in DOMAIN results : d # d0 => results'[d] = results[d]
      /\ DOMAIN found[s] \subseteq DOMAIN results
      /\ \A d : Shared(d)' <=> Shared(d)
  BY <1>1, <1>4, <1>6, WriteApart
<1>8. fuzzer[s] = "afl" /\ found[s][d0] = 0 /\ verdict[s] = "none"
  BY <1>1 DEF RunInv, FuzzerOf, Told
<1>9. Kept(s)'
  <2>1. ASSUME NEW d \in DOMAIN found[s], d # d0 PROVE Where(s, d)' = Where(s, d)
    BY <1>1, <1>7, <2>1 DEF Where, Saved
  <2> HIDE DEF d0
  <2> QED
    BY <1>1, <1>7, <1>8, <2>1 DEF RunInv, Kept
<1> HIDE DEF d0
<1>10. Told(s)'
  BY <1>1, <1>6, <1>7, <1>8 DEF RunInv, Told, d0
<1>11. verdict' = [verdict EXCEPT ![s] = "none"] /\ DOMAIN ran' = Scripts
  BY <1>1, <1>8, <1>a DEF Types
<1> QED
  BY <1>1, <1>4, <1>5, <1>9, <1>10, <1>11, <1>a, WriteMoves DEF d0

LEMMA AflFindsCrashInv ==
  ASSUME ScriptInv, NEW s \in Scripts, AflFindsCrash(s) PROVE ScriptInv' /\ Grows
<1> DEFINE files == Over(File(Artifact("README.txt", 0), NoFinding),
                         File(Artifact("id:000000", 0), NextFinding(s)))
           r == [results[dir[s]] EXCEPT !.aflCrashes = files]
<1>1. RunInv(s) /\ Types /\ pc[s] = "afl_fuzz" /\ AddFinding(s)
      /\ DOMAIN results[dir[s]].aflCrashes = {}
      /\ UNCHANGED <<fuzzer, now, corpus, pc, dir, running, sessions, ran, counted, verdict, wake>>
  BY DEF ScriptInv, AflFindsCrash, analysis
<1>2. FiniteResults(results[dir[s]])
  BY <1>1 DEF RunInv, Dirs, Types
<1>3. Files(files) /\ NextFinding(s) \in Range(files)
  <2> DEFINE a == File(Artifact("README.txt", 0), NoFinding)
             b == File(Artifact("id:000000", 0), NextFinding(s))
  <2>1. Files(a) /\ Files(b) /\ Range(b) = {NextFinding(s)}
    BY FileFiles
  <2> HIDE DEF a, b
  <2>2. Files(Over(a, b)) /\ NextFinding(s) \in Range(Over(a, b))
    BY <2>1, OverFiles
  <2> QED
    BY <2>2 DEF a, b
<1>4. results' = [results EXCEPT ![dir[s]] = r]
  BY DEF AflFindsCrash
<1> HIDE DEF files
<1>5. FiniteResults(r) /\ r.aflCrashes = files /\ r.aflHangs = results[dir[s]].aflHangs
      /\ r.crashes = results[dir[s]].crashes /\ r.hangs = results[dir[s]].hangs
  BY <1>2, <1>3 DEF FiniteResults
<1>6. Range(results[dir[s]].aflCrashes) = {}
  BY <1>1 DEF Range
<1> HIDE DEF r
<1> QED
  BY <1>1, <1>3, <1>4, <1>5, <1>6, AflFindsInv

LEMMA AflFindsHangInv ==
  ASSUME ScriptInv, NEW s \in Scripts, AflFindsHang(s) PROVE ScriptInv' /\ Grows
<1> DEFINE files == File(Artifact("id:000000", 0), NextFinding(s))
           r == [results[dir[s]] EXCEPT !.aflHangs = files]
<1>1. RunInv(s) /\ Types /\ pc[s] = "afl_fuzz" /\ AddFinding(s)
      /\ DOMAIN results[dir[s]].aflHangs = {}
      /\ UNCHANGED <<fuzzer, now, corpus, pc, dir, running, sessions, ran, counted, verdict, wake>>
  BY DEF ScriptInv, AflFindsHang, analysis
<1>2. FiniteResults(results[dir[s]])
  BY <1>1 DEF RunInv, Dirs, Types
<1>3. Files(files) /\ NextFinding(s) \in Range(files)
  BY FileFiles
<1>4. results' = [results EXCEPT ![dir[s]] = r]
  BY DEF AflFindsHang
<1> HIDE DEF files
<1>5. FiniteResults(r) /\ r.aflHangs = files /\ r.aflCrashes = results[dir[s]].aflCrashes
      /\ r.crashes = results[dir[s]].crashes /\ r.hangs = results[dir[s]].hangs
  BY <1>2, <1>3 DEF FiniteResults
<1>6. Range(results[dir[s]].aflHangs) = {}
  BY <1>1 DEF Range
<1> HIDE DEF r
<1> QED
  BY <1>1, <1>3, <1>4, <1>5, <1>6, AflFindsInv

\* Nothing afl-fuzz left stays behind.
LEMMA CopyAflInv ==
  ASSUME ScriptInv, NEW s \in Scripts, CopyAfl(s) PROVE ScriptInv' /\ Grows
<1> DEFINE d0 == dir[s]
           cs == Over(results[d0].crashes, results[d0].aflCrashes)
           hs == Over(results[d0].hangs, results[d0].aflHangs)
           r == [[results[d0] EXCEPT !.crashes = cs] EXCEPT !.hangs = hs]
<1>1. RunInv(s) /\ Types /\ pc[s] = "copy" /\ pc' = [pc EXCEPT ![s] = "analyze"]
      /\ UNCHANGED <<now, fuzzer, corpus, dir, running, sessions, found, ran, counted, verdict, wake>>
  BY DEF ScriptInv, CopyAfl, analysis, session, Goto
<1>2. d0 \in DOMAIN found[s] /\ d0 \in DOMAIN results
  BY <1>1 DEF RunInv, Dirs
<1>3. FiniteResults(results[d0])
  BY <1>1, <1>2 DEF Types
<1>4. Files(cs) /\ DOMAIN results[d0].crashes \subseteq DOMAIN cs
      /\ Range(results[d0].aflCrashes) \subseteq Range(cs)
  <2>1. Files(results[d0].crashes) /\ Files(results[d0].aflCrashes)
    BY <1>3 DEF FiniteResults
  <2> QED
    BY <2>1, OverFiles
<1>5. Files(hs) /\ DOMAIN results[d0].hangs \subseteq DOMAIN hs
      /\ Range(results[d0].aflHangs) \subseteq Range(hs)
  <2>1. Files(results[d0].hangs) /\ Files(results[d0].aflHangs)
    BY <1>3 DEF FiniteResults
  <2> QED
    BY <2>1, OverFiles
<1>6. results' = [results EXCEPT ![d0] = r]
  BY DEF CopyAfl
<1> HIDE DEF cs, hs
<1>7. FiniteResults(r) /\ r.crashes = cs /\ r.hangs = hs /\ r.summary = results[d0].summary
  <2> DEFINE q == [results[d0] EXCEPT !.crashes = cs]
  <2>1. FiniteResults(q) /\ q.crashes = cs /\ q.summary = results[d0].summary
    BY <1>3, <1>4 DEF FiniteResults
  <2>2. r = [q EXCEPT !.hangs = hs]
    OBVIOUS
  <2> HIDE DEF q, r
  <2> QED
    BY <1>5, <2>1, <2>2 DEF FiniteResults
<1> HIDE DEF r
<1>8. WritesOnly(s, r) /\ pc'[s] = "analyze"
  BY <1>1, <1>6 DEF WritesOnly, Types
<1>9. DOMAIN results[d0].crashes \subseteq DOMAIN r.crashes
      /\ DOMAIN results[d0].hangs \subseteq DOMAIN r.hangs
  BY <1>4, <1>5, <1>7
<1>10. /\ results'[d0] = r
       /\ \A d \in DOMAIN results : d # d0 => results'[d] = results[d]
       /\ DOMAIN found[s] \subseteq DOMAIN results
       /\ \A d : Shared(d)' <=> Shared(d)
       /\ Shared(dir[s])' <=> Shared(dir[s])
  BY <1>1, <1>7, <1>8, <1>9, WriteApart
<1>11. fuzzer[s] = "afl" /\ verdict[s] = "none"
  BY <1>1 DEF RunInv, FuzzerOf, Told
<1>12. Kept(s)'
  <2>1. Where(s, d0) = Range(results[d0].aflCrashes) \cup Range(results[d0].aflHangs)
        /\ Where(s, d0)' = Range(cs) \cup Range(hs)
    BY <1>1, <1>7, <1>8, <1>10 DEF Where, Saved
  <2>2. Where(s, d0) \subseteq Where(s, d0)'
    BY <1>4, <1>5, <2>1
  <2>3. ASSUME NEW d \in DOMAIN found[s] PROVE Where(s, d) \subseteq Where(s, d)'
    <3>1. CASE d # d0
      BY <1>1, <1>10, <3>1 DEF Where, Saved
    <3>2. CASE d = d0
      BY <1>1, <2>2, <3>2
    <3> QED
      BY <3>1, <3>2
  <2> HIDE DEF d0
  <2> QED
    BY <1>1, <1>10, <1>11, <2>3 DEF RunInv, Kept
<1>13. Told(s)'
  BY <1>1, <1>8, <1>10, <1>11 DEF RunInv, Told
<1>14. verdict' = [verdict EXCEPT ![s] = "none"] /\ DOMAIN ran' = Scripts
  BY <1>1, <1>11 DEF Types
<1> HIDE DEF d0
<1> QED
  BY <1>1, <1>6, <1>7, <1>9, <1>12, <1>13, <1>14, WriteMoves DEF d0

-----------------------------------------------------------------------------
(* The analysis. *)

LEMMA SomeAreCounted ==
  ASSUME NEW S, IsFiniteSet(S), S # {} PROVE Cardinality(S) \in Nat /\ Cardinality(S) > 0
BY FS_CardinalityType, FS_EmptySet

\* What a session ran into is counted.
LEMMA CountInv ==
  ASSUME ScriptInv, NEW s \in Scripts, CountArtifacts(s) PROVE ScriptInv' /\ Grows
<1> DEFINE d0 == dir[s]
           c == [crashes |-> Cardinality(DOMAIN results[d0].crashes),
                 hangs |-> Cardinality(DOMAIN results[d0].hangs)]
<1>1. RunInv(s) /\ Types /\ pc[s] = "analyze" /\ pc' = [pc EXCEPT ![s] = "report"]
      /\ counted' = [counted EXCEPT ![s] = c]
      /\ UNCHANGED <<now, fuzzer, corpus, results, dir, running, sessions, found, ran, verdict, wake>>
  BY DEF ScriptInv, CountArtifacts, session, tree, Goto
<1>2. FiniteResults(results[d0])
  BY <1>1 DEF RunInv, Dirs, Types
<1>3. c \in [crashes : Nat, hangs : Nat]
  BY <1>2, FS_CardinalityType DEF FiniteResults, Files
<1>4. DOMAIN results[d0].crashes \cup DOMAIN results[d0].hangs # {} => c.crashes + c.hangs > 0
  <2>1. DOMAIN results[d0].crashes # {} => c.crashes > 0
    BY <1>2, SomeAreCounted DEF FiniteResults, Files
  <2>2. DOMAIN results[d0].hangs # {} => c.hangs > 0
    BY <1>2, SomeAreCounted DEF FiniteResults, Files
  <2> HIDE DEF c
  <2>3. c.crashes \in Nat /\ c.hangs \in Nat
    BY <1>3
  <2> QED
    BY <2>1, <2>2, <2>3
<1> HIDE DEF c
<1>5. Types'
  BY <1>1, <1>3 DEF Types, FiniteResults
<1>6. /\ pc'[s] = "report" /\ counted'[s] = c
      /\ \A t \in Scripts \ {s} : pc'[t] = pc[t] /\ counted'[t] = counted[t]
  BY <1>1 DEF Types
<1>7. Apart(s)
  BY <1>1, <1>6 DEF Apart, Grows, Types
<1>8. \A d : Shared(d)' <=> Shared(d)
  BY <1>1 DEF Shared
<1>9. Shared(dir[s])' <=> Shared(dir[s])
  BY <1>1 DEF Shared
<1>10. d0 \in DOMAIN found[s] /\ found[s][d0] \in Nat /\ verdict[s] = "none"
       /\ fuzzer[s] \in Fuzzers
  BY <1>1 DEF RunInv, Dirs, Told, Types
<1>11. found[s][d0] > 0 => c.crashes + c.hangs > 0 \/ (fuzzer[s] = "afl" /\ Shared(d0))
  <2>1. CASE fuzzer[s] = "afl" /\ ~Shared(d0) /\ found[s][d0] > 0
    <3>1. <<s, 1>> \in Where(s, d0)
      BY <1>1, <1>10, <2>1 DEF RunInv, Kept
    <3>2. <<s, 1>> \in Range(results[d0].crashes) \cup Range(results[d0].hangs)
      BY <1>1, <3>1 DEF Where, Saved
    <3> QED
      BY <1>4, <3>2 DEF Range
  <2> QED
    BY <1>1, <1>4, <1>10, <2>1 DEF RunInv, FuzzerOf, Kept
<1> HIDE DEF d0
<1>12. Dirs(s)' /\ SessionCount(s)' /\ FuzzerOf(s)'
  BY <1>1, <1>6 DEF RunInv, Dirs, SessionCount, FuzzerOf
<1>13. Kept(s)'
  <2>1. ASSUME NEW d PROVE Where(s, d)' = Where(s, d)
    BY <1>1, <1>6 DEF Where, Saved
  <2> QED
    BY <1>1, <1>6, <1>8, <2>1 DEF RunInv, Kept
<1>14. Told(s)'
  BY <1>1, <1>6, <1>8, <1>9, <1>10, <1>11 DEF RunInv, Told, d0
<1> QED
  BY <1>5, <1>7, <1>12, <1>13, <1>14, StepKeeps DEF RunInv

\* The summary and the verdict tell what was counted.
LEMMA ReportInv ==
  ASSUME ScriptInv, NEW s \in Scripts, Report(s) PROVE ScriptInv' /\ Grows
<1> DEFINE d0 == dir[s]
           c == counted[s]
           r == [results[d0] EXCEPT !.summary = c]
           v == IF c.crashes = 0 /\ c.hangs = 0 THEN "stable" ELSE "unstable"
           l == IF c.crashes \in 1 .. MinimizeBelow - 1 /\ fuzzer[s] = "libfuzzer"
                  THEN "minimize" ELSE "finish"
<1>1. RunInv(s) /\ Types /\ pc[s] = "report" /\ pc' = [pc EXCEPT ![s] = l]
      /\ verdict' = [verdict EXCEPT ![s] = v]
      /\ UNCHANGED <<now, fuzzer, corpus, dir, running, sessions, found, ran, counted, wake>>
  BY DEF ScriptInv, Report, session, Goto
<1>2. results' = [results EXCEPT ![d0] = r]
  BY DEF Report
<1>3. d0 \in DOMAIN found[s] /\ d0 \in DOMAIN results /\ found[s][d0] \in Nat
      /\ c \in [crashes : Nat, hangs : Nat]
  BY <1>1 DEF RunInv, Dirs, Types
<1>4. FiniteResults(results[d0])
  BY <1>1, <1>3 DEF Types
<1>5. c.crashes \in Nat /\ c.hangs \in Nat /\ c \in [crashes : Int, hangs : Int]
  BY <1>3
<1>6. (l = "finish" \/ (l = "minimize" /\ fuzzer[s] = "libfuzzer")) /\ v \in {"stable", "unstable"}
      /\ (v = "stable" => c.crashes = 0 /\ c.hangs = 0)
  OBVIOUS
<1> HIDE DEF c, v, l
<1>7. FiniteResults(r) /\ r.crashes = results[d0].crashes /\ r.hangs = results[d0].hangs
      /\ r.summary = c
  BY <1>4, <1>5 DEF FiniteResults
<1> HIDE DEF r
<1>8. WritesOnly(s, r) /\ pc'[s] = l /\ verdict'[s] = v
  BY <1>1, <1>2 DEF WritesOnly, Types
<1>9. /\ results'[d0] = r
      /\ \A d \in DOMAIN results : d # d0 => results'[d] = results[d]
      /\ DOMAIN found[s] \subseteq DOMAIN results
      /\ \A d : Shared(d)' <=> Shared(d)
      /\ Shared(dir[s])' <=> Shared(dir[s])
  BY <1>1, <1>7, <1>8, WriteApart
<1>10. found[s][d0] > 0 => (c.crashes > 0 \/ c.hangs > 0) \/ (fuzzer[s] = "afl" /\ Shared(d0))
  <2>1. found[s][d0] > 0 => c.crashes + c.hangs > 0 \/ (fuzzer[s] = "afl" /\ Shared(d0))
    BY <1>1 DEF RunInv, Told, c
  <2> QED
    BY <1>5, <2>1
<1>11. Kept(s)'
  <2>1. ASSUME NEW d \in DOMAIN found[s]
        PROVE  Where(s, d)' = Where(s, d) /\ results'[d].crashes = results[d].crashes
    BY <1>1, <1>6, <1>7, <1>8, <1>9 DEF Where, Saved
  <2> HIDE DEF d0
  <2> QED
    BY <1>1, <1>9, <2>1 DEF RunInv, Kept
<1>12. Told(s)'
  <2>1. ASSUME NEW d \in DOMAIN found[s], found[s][d] > 0, ~Shared(d)
        PROVE  results'[d].summary.crashes > 0 \/ results'[d].summary.hangs > 0
    <3>1. CASE d = d0
      BY <1>7, <1>9, <1>10, <2>1, <3>1
    <3>2. CASE d # d0
      BY <1>1, <1>9, <2>1, <3>2 DEF RunInv, Told
    <3> QED
      BY <3>1, <3>2
  <2>2. v = "stable" /\ found[s][d0] > 0 => fuzzer[s] = "afl" /\ Shared(d0)
    BY <1>5, <1>6, <1>10
  <2> QED
    BY <1>1, <1>3, <1>6, <1>8, <1>9, <2>1, <2>2 DEF Told
<1> HIDE DEF d0
<1>13. l \in Labels /\ v \in {"none", "stable", "unstable"} /\ DOMAIN ran' = Scripts
  BY <1>1, <1>6 DEF Types
<1> QED
  BY <1>1, <1>2, <1>6, <1>7, <1>11, <1>12, <1>13, WriteMoves DEF d0

\* Minimising adds files, as many as it is given at most.
LEMMA MinimizeInv ==
  ASSUME ScriptInv, NEW s \in Scripts, Minimize(s) PROVE ScriptInv' /\ Grows
<1> DEFINE d0 == dir[s]
           old == results[d0].crashes
<1>1. RunInv(s) /\ Types /\ pc[s] = "minimize" /\ pc' = [pc EXCEPT ![s] = "finish"]
      /\ UNCHANGED <<now, fuzzer, corpus, dir, running, sessions, found, ran, counted, verdict, wake>>
  BY DEF ScriptInv, Minimize, session, analysis, Goto
<1>2. PICK done \in SUBSET DOMAIN old :
        results' = [results EXCEPT ![d0].crashes =
          Over(@, [f \in {Artifact(g.kind, g.min + 1) : g \in done} |-> NoFinding])]
  BY DEF Minimize
<1> DEFINE names == {Artifact(g.kind, g.min + 1) : g \in done}
           new == [f \in names |-> NoFinding]
           cs == Over(old, new)
           r == [results[d0] EXCEPT !.crashes = cs]
<1>3. results' = [results EXCEPT ![d0] = r]
  BY <1>2
<1>4. FiniteResults(results[d0]) /\ Files(old)
  BY <1>1 DEF RunInv, Dirs, Types, FiniteResults
<1>5. IsFiniteSet(names)
  <2> DEFINE copy == [f \in done |-> Artifact(f.kind, f.min + 1)]
  <2>1. IsFiniteSet(done)
    BY <1>4, FS_Subset DEF Files
  <2>2. copy \in Surjection(done, names)
    BY DEF Surjection
  <2> QED
    BY <2>1, <2>2, FS_Surjection
<1>6. names \subseteq Artifacts /\ Artifact("crash-", 0) \notin names
  <2> SUFFICES ASSUME NEW f \in done
               PROVE  /\ Artifact(f.kind, f.min + 1) \in Artifacts
                      /\ Artifact(f.kind, f.min + 1) # Artifact("crash-", 0)
    OBVIOUS
  <2>1. f \in Artifacts
    BY <1>4 DEF Files
  <2>2. f.min \in Nat /\ f.kind \in {"crash-", "id:000000", "README.txt"}
    BY <2>1 DEF Artifacts
  <2>3. Artifact(f.kind, f.min + 1).min # Artifact("crash-", 0).min
    BY <2>2 DEF Artifact
  <2> QED
    BY <2>2, <2>3 DEF Artifact, Artifacts
<1> HIDE DEF names
<1>7. /\ Files(cs) /\ DOMAIN old \subseteq DOMAIN cs
      /\ Artifact("crash-", 0) \in DOMAIN old =>
           cs[Artifact("crash-", 0)] = old[Artifact("crash-", 0)]
  <2>1. Files(new) /\ DOMAIN new = names
    BY <1>5, <1>6 DEF Files
  <2> HIDE DEF new, old
  <2> QED
    BY <1>4, <1>6, <2>1, OverFiles
<1> HIDE DEF cs, new
<1>9. FiniteResults(r) /\ r.crashes = cs /\ r.hangs = results[d0].hangs
      /\ r.summary = results[d0].summary
  BY <1>4, <1>7 DEF FiniteResults
<1> HIDE DEF r
<1>10. WritesOnly(s, r) /\ pc'[s] = "finish"
  BY <1>1, <1>3 DEF WritesOnly, Types
<1>11. /\ results'[d0] = r
       /\ \A d \in DOMAIN results : d # d0 => results'[d] = results[d]
       /\ DOMAIN found[s] \subseteq DOMAIN results
       /\ \A d : Shared(d)' <=> Shared(d)
       /\ Shared(dir[s])' <=> Shared(dir[s])
  BY <1>1, <1>7, <1>9, <1>10, WriteApart
<1>12. Kept(s)'
  <2>1. ASSUME NEW d \in DOMAIN found[s]
        PROVE  /\ DOMAIN results[d].crashes \subseteq DOMAIN results'[d].crashes
               /\ Artifact("crash-", 0) \in DOMAIN results[d].crashes =>
                    results'[d].crashes[Artifact("crash-", 0)] = results[d].crashes[Artifact("crash-", 0)]
    BY <1>7, <1>9, <1>11
  <2>2. fuzzer[s] = "libfuzzer"
    BY <1>1 DEF RunInv, FuzzerOf
  <2> HIDE DEF d0, old
  <2>3. ASSUME NEW d \in DOMAIN found[s], found[s][d] > 0
        PROVE  DOMAIN results'[d].crashes # {}
    BY <1>1, <2>1, <2>2, <2>3 DEF RunInv, Kept
  <2> QED
    BY <1>1, <1>11, <2>1, <2>2, <2>3 DEF RunInv, Kept
<1>13. Told(s)'
  <2>1. ASSUME NEW d \in DOMAIN found[s], found[s][d] > 0, ~Shared(d)
        PROVE  results'[d].summary.crashes > 0 \/ results'[d].summary.hangs > 0
    BY <1>1, <1>9, <1>11, <2>1 DEF RunInv, Told
  <2> QED
    BY <1>1, <1>10, <1>11, <2>1 DEF RunInv, Told
<1>14. verdict' = [verdict EXCEPT ![s] = verdict[s]] /\ DOMAIN ran' = Scripts
       /\ verdict[s] \in {"none", "stable", "unstable"}
  BY <1>1 DEF Types
<1>15. DOMAIN results[dir[s]].crashes \subseteq DOMAIN r.crashes
       /\ DOMAIN results[dir[s]].hangs \subseteq DOMAIN r.hangs
  BY <1>7, <1>9
<1>16. results' = [results EXCEPT ![dir[s]] = r]
  BY <1>3
<1> HIDE DEF d0, old
<1>17. "finish" \in Labels
  OBVIOUS
<1> QED
  BY <1>1, <1>9, <1>12, <1>13, <1>14, <1>15, <1>16, <1>17, WriteMoves

\* The loop sleeps, so that its next directory is of a later second.
LEMMA FinishInv ==
  ASSUME ScriptInv, NEW s \in Scripts, Finish(s) PROVE ScriptInv' /\ Grows
<1> DEFINE l == IF Continuous[s] THEN "sleep" ELSE "done"
<1>1. RunInv(s) /\ Types /\ pc[s] = "finish" /\ pc' = [pc EXCEPT ![s] = l]
      /\ wake' = [wake EXCEPT ![s] = now + SleepSecs]
      /\ UNCHANGED <<now, fuzzer, corpus, results, dir, running, sessions, found, ran, counted, verdict>>
  BY DEF ScriptInv, Finish, session, tree, Goto
<1>2. l \in {"sleep", "done"}
  OBVIOUS
<1> HIDE DEF l
<1>3. now + SleepSecs \in 0 .. MaxTime + SleepSecs /\ now \in Int /\ SleepSecs \in Nat \ {0}
  BY <1>1, ScriptAssumption DEF Types
<1>4. wake' \in [Scripts -> 0 .. MaxTime + SleepSecs]
  BY <1>1, <1>3 DEF Types
<1>5. Types'
  BY <1>1, <1>2, <1>4 DEF Types, FiniteResults
<1>6. /\ pc'[s] = l /\ wake'[s] = now + SleepSecs
      /\ \A t \in Scripts \ {s} : pc'[t] = pc[t] /\ wake'[t] = wake[t]
  BY <1>1 DEF Types
<1>7. Apart(s)
  BY <1>1, <1>6 DEF Apart, Grows, Types
<1>8. \A d : Shared(d)' <=> Shared(d)
  BY <1>1 DEF Shared
<1>9. Shared(dir[s])' <=> Shared(dir[s])
  BY <1>1 DEF Shared
<1>10. Dirs(s)'
  <2>1. \A d \in DOMAIN found[s] : d[2] \in Int
    <3>1. \A d \in DOMAIN found[s] : d \in Fuzzers \X (0 .. MaxTime)
      BY <1>1 DEF Types, RunInv, Dirs
    <3> QED
      BY <3>1
  <2> QED
    BY <1>1, <1>2, <1>3, <1>6, <2>1 DEF RunInv, Dirs
<1>11. SessionCount(s)' /\ FuzzerOf(s)'
  BY <1>1, <1>2, <1>6 DEF RunInv, SessionCount, FuzzerOf
<1>12. Kept(s)'
  <2>1. ASSUME NEW d PROVE Where(s, d)' = Where(s, d)
    BY <1>1, <1>2, <1>6 DEF Where, Saved
  <2> QED
    BY <1>1, <1>8, <2>1 DEF RunInv, Kept
<1>13. Told(s)'
  BY <1>1, <1>2, <1>6, <1>8, <1>9 DEF RunInv, Told
<1> QED
  BY <1>5, <1>7, <1>10, <1>11, <1>12, <1>13, StepKeeps DEF RunInv

-----------------------------------------------------------------------------
(* A session begins. *)

\* The clock has moved on since the last one, so the directory is another.
LEMMA SetupInv ==
  ASSUME ScriptInv, NEW s \in Scripts, SetupResultsDir(s) PROVE ScriptInv' /\ Grows
<1> DEFINE d0 == Name(fuzzer[s], now)
           f == Over(File(d0, 0), found[s])
<1>1. RunInv(s) /\ Types /\ pc[s] = "results" /\ pc' = [pc EXCEPT ![s] = fuzzer[s]]
      /\ dir' = [dir EXCEPT ![s] = d0] /\ sessions' = [sessions EXCEPT ![s] = sessions[s] + 1]
      /\ found' = [found EXCEPT ![s] = f] /\ ran' = [ran EXCEPT ![s] = FALSE]
      /\ verdict' = [verdict EXCEPT ![s] = "none"]
      /\ UNCHANGED <<now, fuzzer, corpus, running, counted, wake>>
  BY DEF ScriptInv, SetupResultsDir, Goto
<1>2. results' = MkdirResults(d0)
  BY DEF SetupResultsDir
<1>3. d0 \in Fuzzers \X (0 .. MaxTime) /\ d0[1] = fuzzer[s] /\ d0[2] = now /\ now \in Int
      /\ fuzzer[s] \in Fuzzers
  BY <1>1, ScriptAssumption DEF Types, Name
<1>4. d0 \notin DOMAIN found[s]
  BY <1>1, <1>3 DEF RunInv, Dirs
<1> HIDE DEF d0
<1>5. /\ DOMAIN f = DOMAIN found[s] \cup {d0} /\ f[d0] = 0
      /\ \A e \in DOMAIN found[s] : f[e] = found[s][e]
  BY <1>4 DEF Over, File
<1> HIDE DEF f
<1>6. /\ pc'[s] = fuzzer[s] /\ dir'[s] = d0 /\ sessions'[s] = sessions[s] + 1 /\ found'[s] = f
      /\ verdict'[s] = "none"
      /\ \A t \in Scripts \ {s} :
           /\ pc'[t] = pc[t] /\ dir'[t] = dir[t] /\ sessions'[t] = sessions[t]
           /\ found'[t] = found[t] /\ verdict'[t] = verdict[t]
  BY <1>1 DEF Types
<1>7. DOMAIN results' = DOMAIN results \cup {d0}
      /\ (\A e \in DOMAIN results : results'[e] = results[e])
      /\ (d0 \notin DOMAIN results => results'[d0] = EmptyResults)
  BY <1>2 DEF MkdirResults, Over, File
<1>8. FiniteResults(EmptyResults)
  <2>1. Files(NoFiles)
    BY FS_EmptySet DEF Files, NoFiles
  <2> QED
    BY <2>1 DEF FiniteResults, EmptyResults, NoSummary
<1>9. Types'
  <2>1. \A e \in DOMAIN results' : e \in Fuzzers \X (0 .. MaxTime) /\ FiniteResults(results'[e])
    BY <1>1, <1>3, <1>7, <1>8 DEF Types
  <2>2. sessions' \in [Scripts -> Nat]
    BY <1>1 DEF Types
  <2> QED
    BY <1>1, <1>3, <2>1, <2>2 DEF Types
<1>10. Grows
  BY <1>7 DEF Grows
<1>11. Apart(s)
  BY <1>1, <1>5, <1>6, <1>7, <1>10 DEF Apart, Types
<1>12. \A d : Shared(d) => Shared(d)'
  BY <1>11, SharedGrows DEF Apart
<1>13. DOMAIN found[s] \subseteq DOMAIN results
  BY <1>1 DEF RunInv, Dirs
<1>14. Dirs(s)'
  BY <1>1, <1>3, <1>5, <1>6, <1>7 DEF RunInv, Dirs
<1>15. SessionCount(s)'
  BY <1>1, <1>4, <1>5, <1>6, FS_AddElement DEF RunInv, SessionCount
<1>16. FuzzerOf(s)'
  BY <1>1, <1>3, <1>5, <1>6 DEF RunInv, FuzzerOf
<1>17. Kept(s)'
  <2>1. ASSUME fuzzer[s] = "libfuzzer", NEW d \in DOMAIN f, f[d] > 0
        PROVE  DOMAIN results'[d].crashes # {}
    BY <1>1, <1>5, <1>7, <1>13, <2>1 DEF RunInv, Kept
  <2>2. f[d0] = 0 /\ pc'[s] \in Fuzzers
    BY <1>3, <1>5, <1>6
  <2>3. ASSUME NEW d \in DOMAIN found[s]
        PROVE  d \in DOMAIN f /\ f[d] = found[s][d] /\ results'[d] = results[d]
               /\ Where(s, d)' = Where(s, d)
    <3>1. f[d] = found[s][d] /\ results'[d] = results[d] /\ d # d0
      BY <1>4, <1>5, <1>7, <1>13
    <3>2. Where(s, d) = Range(results[d].crashes) \cup Range(results[d].hangs)
      BY <1>1 DEF Where, Saved
    <3>3. Where(s, d)' = Range(results[d].crashes) \cup Range(results[d].hangs)
      BY <1>6, <3>1 DEF Where, Saved
    <3> QED
      BY <1>5, <3>1, <3>2, <3>3
  <2>4. ASSUME NEW d \in DOMAIN f, ~Shared(d)'
        PROVE  d = d0 \/ (d \in DOMAIN found[s] /\ ~Shared(d))
    BY <1>5, <1>12, <2>4
  <2>5. ASSUME NEW d \in DOMAIN f, ~Shared(d)'
        PROVE  /\ fuzzer[s] = "libfuzzer" /\ f[d] > 0 =>
                    /\ Artifact("crash-", 0) \in DOMAIN results'[d].crashes
                    /\ results'[d].crashes[Artifact("crash-", 0)] = <<s, f[d]>>
               /\ fuzzer[s] = "afl" => \A n \in 1 .. f[d] : <<s, n>> \in Where(s, d)'
    BY <1>1, <2>2, <2>3, <2>4, <2>5 DEF RunInv, Kept
  <2> QED
    BY <1>1, <1>6, <2>1, <2>5 DEF Kept
<1>18. Told(s)'
  <2>1. ASSUME NEW d \in DOMAIN f, f[d] > 0, ~Shared(d)'
        PROVE  results'[d].summary.crashes > 0 \/ results'[d].summary.hangs > 0
    BY <1>1, <1>5, <1>7, <1>12, <1>13, <2>1 DEF RunInv, Told
  <2> QED
    BY <1>1, <1>3, <1>6, <2>1 DEF Told
<1> QED
  BY <1>9, <1>11, <1>14, <1>15, <1>16, <1>17, <1>18, StepKeeps DEF RunInv

LEMMA InitScriptInv == Init => ScriptInv
<1> SUFFICES ASSUME Init PROVE ScriptInv
  OBVIOUS
<1>1. Types
  <2>1. \A s \in Scripts : fuzzer[s] \in Offered[s]
    BY DEF Init
  <2>2. fuzzer \in [Scripts -> Fuzzers]
    <3>1. UNION {Offered[s] : s \in Scripts} \subseteq Fuzzers
      BY ScriptAssumption
    <3> QED
      BY <3>1 DEF Init
  <2>3. now \in 0 .. MaxTime /\ wake \in [Scripts -> 0 .. MaxTime + SleepSecs]
    BY ScriptAssumption DEF Init
  <2>4. \A s \in Scripts : running[s] <= Jobs[s]
    BY ScriptAssumption DEF Init
  <2>5. corpus \in [exists : BOOLEAN, seeded : BOOLEAN]
    BY ScriptAssumption DEF Init
  <2>6. /\ DOMAIN results = {} /\ pc \in [Scripts -> Labels] /\ DOMAIN dir = Scripts
        /\ DOMAIN found = Scripts /\ running \in [Scripts -> Nat]
        /\ counted \in [Scripts -> [crashes : Nat, hangs : Nat]]
        /\ verdict \in [Scripts -> {"none", "stable", "unstable"}]
        /\ sessions \in [Scripts -> Nat] /\ DOMAIN ran = Scripts
    BY DEF Init
  <2> QED
    BY <2>1, <2>2, <2>3, <2>4, <2>5, <2>6 DEF Types
<1>2. ASSUME NEW s \in Scripts PROVE RunInv(s)
  <2>1. pc[s] = "start" /\ dir[s] = NoDir /\ DOMAIN found[s] = {} /\ verdict[s] = "none"
        /\ sessions[s] = 0
    BY DEF Init
  <2>2. SessionCount(s)
    BY <2>1, FS_EmptySet DEF SessionCount
  <2> QED
    BY <2>1, <2>2 DEF RunInv, Dirs, FuzzerOf, Kept, Told
<1> QED
  BY <1>1, <1>2 DEF ScriptInv

LEMMA NextScriptInv == ScriptInv /\ [Next]_vars => ScriptInv' /\ Grows
<1> SUFFICES ASSUME ScriptInv, [Next]_vars PROVE ScriptInv' /\ Grows
  OBVIOUS
<1>1. CASE Tick
  BY <1>1, TickInv
<1>2. CASE \E s \in Scripts : CheckBinaries(s) \/ Step(s) \/ FuzzerFinds(s) \/ Interrupt(s)
  <2> PICK s \in Scripts : CheckBinaries(s) \/ Step(s) \/ FuzzerFinds(s) \/ Interrupt(s)
    BY <1>2
  <2>1. \/ QuietStep(s) \/ SetupResultsDir(s) \/ JobCrashes(s)
        \/ StartAfl(s) \/ AflFindsCrash(s) \/ AflFindsHang(s) \/ CopyAfl(s)
        \/ CountArtifacts(s) \/ Report(s) \/ Minimize(s) \/ Finish(s)
    BY DEF Step, FuzzerFinds, QuietStep
  <2>2. AflGivesUp(s) => QuietStep(s)
    BY DEF QuietStep
  <2> QED
    BY <2>1, <2>2, QuietStepInv, SetupInv, JobCrashesInv, StartAflInv, AflFindsCrashInv,
       AflFindsHangInv, CopyAflInv, CountInv, ReportInv, MinimizeInv, FinishInv
<1>3. CASE UNCHANGED vars
  <2>1. UNCHANGED <<fuzzer, now, corpus, results, pc, dir, running, counted, verdict, wake,
                    sessions, found, ran>>
    BY <1>3 DEF vars
  <2>2. Types'
    BY <2>1 DEF ScriptInv, Types, FiniteResults
  <2>3. ASSUME NEW s \in Scripts PROVE RunInv(s)'
    <3>1. RunInv(s)
      BY DEF ScriptInv
    <3>2. \A d : Where(s, d)' = Where(s, d) /\ (Shared(d)' <=> Shared(d))
      BY <2>1 DEF Where, Saved, Shared
    <3>3. Kept(s)'
      BY <2>1, <3>1, <3>2 DEF RunInv, Kept
    <3>4. Dirs(s)' /\ SessionCount(s)' /\ FuzzerOf(s)'
      BY <2>1, <3>1 DEF RunInv, Dirs, SessionCount, FuzzerOf
    <3>5. Told(s)'
      BY <2>1, <3>1 DEF RunInv, Told, Shared
    <3> QED
      BY <3>3, <3>4, <3>5 DEF RunInv
  <2> QED
    BY <2>1, <2>2, <2>3 DEF ScriptInv, Grows
<1> QED
  BY <1>1, <1>2, <1>3 DEF Next

\* The invariant of the runs of the script holds always.
THEOREM ScriptInvariant == Spec => []ScriptInv
BY InitScriptInv, NextScriptInv, PTL DEF Spec

-----------------------------------------------------------------------------
(* What follows. *)

\* A run writes only to a directory it has made.
THEOREM ScriptTypesOK == Spec => []TypeOK
<1>1. ScriptInv => TypeOK
  <2> SUFFICES ASSUME ScriptInv PROVE TypeOK
    OBVIOUS
  <2>1. \A d \in DOMAIN results : d[1] \in Fuzzers /\ d[2] \in 0 .. MaxTime
    <3>1. \A d \in DOMAIN results : d \in Fuzzers \X (0 .. MaxTime)
      BY DEF ScriptInv, Types
    <3> QED
      BY <3>1
  <2>2. ASSUME NEW s \in Scripts
        PROVE  /\ dir[s] = NoDir \/ dir[s] \in DOMAIN results \cap DOMAIN found[s]
               /\ running[s] \in 0 .. Jobs[s]
               /\ verdict[s] \in {"none", "stable", "unstable"}
               /\ sessions[s] \in Nat /\ wake[s] \in 0 .. MaxTime + SleepSecs
    <3>1. dir[s] = NoDir \/ dir[s] \in DOMAIN results \cap DOMAIN found[s]
      BY DEF ScriptInv, RunInv, Dirs
    <3>2. running[s] \in Nat /\ running[s] <= Jobs[s] /\ Jobs[s] \in Nat
      BY ScriptAssumption DEF ScriptInv, Types
    <3>3. verdict[s] \in {"none", "stable", "unstable"} /\ sessions[s] \in Nat
          /\ wake[s] \in 0 .. MaxTime + SleepSecs
      BY DEF ScriptInv, Types
    <3> QED
      BY <3>1, <3>2, <3>3
  <2> QED
    BY <2>1, <2>2 DEF ScriptInv, Types, TypeOK
<1> QED
  BY <1>1, ScriptInvariant, PTL

\* No two sessions of a run share a results directory: the sleep of the loop keeps them
\* apart, however long the sessions are and whatever else runs.
THEOREM SessionsAlwaysApart == Spec => []SessionsApart
<1>1. ScriptInv => SessionsApart
  BY DEF ScriptInv, RunInv, SessionCount, SessionsApart
<1> QED
  BY <1>1, ScriptInvariant, PTL

\* "Appears stable" is never said of a session whose fuzzer ran into something.
THEOREM VerdictAlwaysSound == Spec => []VerdictSound
<1>1. ScriptInv => VerdictSound
  BY DEF ScriptInv, RunInv, Dirs, Told, VerdictSound
<1> QED
  BY <1>1, ScriptInvariant, PTL

\* What a session of the loop ran into is in its summary once the session is over.
THEOREM FindingsAlwaysSummarised == Spec => []FindingsSummarised
<1>1. ScriptInv => FindingsSummarised
  <2> SUFFICES ASSUME ScriptInv, NEW s \in Scripts, Continuous[s], NEW d \in DOMAIN found[s],
                      OverWithoutSummary(s, d), ~Shared(d)
               PROVE  FALSE
    BY DEF FindingsSummarised
  <2>1. RunInv(s) /\ found[s][d] > 0 /\ (d # dir[s] \/ pc[s] \in {"sleep", "results", "aborted"})
    BY DEF ScriptInv, OverWithoutSummary
  <2>2. d # dir[s] \/ pc[s] \in {"sleep", "results"}
    BY <2>1 DEF RunInv, FuzzerOf
  <2>3. results[d].summary.crashes > 0 \/ results[d].summary.hangs > 0
    BY <2>1, <2>2 DEF RunInv, Told
  <2>4. results[d].summary \in [crashes : Int, hangs : Int]
    BY <2>1 DEF ScriptInv, RunInv, Dirs, Types, FiniteResults
  <2>5. results[d].summary.crashes \in Int /\ results[d].summary.hangs \in Int
    BY <2>4
  <2> QED
    BY <2>3, <2>5 DEF OverWithoutSummary
<1> QED
  BY <1>1, ScriptInvariant, PTL

\* What a run came upon is in a file for good, but for crashes of an earlier job of the same
\* session, and for directories that two runs share.
THEOREM ArtifactsAlwaysKept == Spec => []ArtifactsKept
<1>1. ScriptInv => ArtifactsKept
  <2> SUFFICES ASSUME ScriptInv, NEW s \in Scripts, NEW d \in DOMAIN found[s],
                      NEW n \in 1 .. found[s][d], ~Shared(d),
                      ~(fuzzer[s] = "libfuzzer" /\ n < found[s][d])
               PROVE  <<s, n>> \in Saved(s, d)
    BY DEF ArtifactsKept
  <2>1. RunInv(s) /\ fuzzer[s] \in Fuzzers /\ found[s][d] \in Nat /\ n \in Nat /\ found[s][d] > 0
    BY DEF ScriptInv, Types, RunInv, Dirs
  <2>2. CASE fuzzer[s] = "libfuzzer"
    <3>1. n = found[s][d]
      BY <2>1, <2>2
    <3>2. <<s, n>> \in Range(results[d].crashes)
      BY <2>1, <2>2, <3>1 DEF RunInv, Kept, Range
    <3> QED
      BY <3>2 DEF Saved
  <2>3. CASE fuzzer[s] = "afl"
    BY <2>1, <2>3 DEF RunInv, Kept, Where, Saved
  <2>4. fuzzer[s] # "standalone"
    BY <2>1 DEF RunInv, FuzzerOf
  <2> QED
    BY <2>1, <2>2, <2>3, <2>4
<1> QED
  BY <1>1, ScriptInvariant, PTL

-----------------------------------------------------------------------------
(* When the script's messages are true. *)

\* No two runs are offered the same fuzzer, so that their directories differ in name.
OwnFuzzers == \A s, t \in Scripts : s # t => Offered[s] \cap Offered[t] = {}

\* Without the step that ends a single run of libFuzzer before its results are looked at.
AlwaysAnalysed == \A s \in Scripts : Continuous[s] \/ "libfuzzer" \notin Offered[s]

\* No fuzzer is started where "|| true" hides that it does not start: nobody names afl, and
\* libFuzzer is not run in the loop.
FailuresEnd ==
  \A s \in Scripts : "afl" \notin Offered[s] /\ (Continuous[s] => "libfuzzer" \notin Offered[s])

\* There is a seed, or the directory is still to be made and nobody else looks for it.
SeedsOrAlone ==
  \A c \in CorporaAtStart : c.seeded \/ (~c.exists /\ \A s, t \in Scripts : s = t)

LEMMA NothingShared ==
  ASSUME OwnFuzzers, ScriptInv, NEW d
  PROVE  ~Shared(d)
BY DEF OwnFuzzers, ScriptInv, Types, RunInv, Dirs, Shared

\* What a run ran into is told when it has come to an end, unless libFuzzer ended it.
Ends(s) ==
  /\ pc[s] \in {"minimize", "finish", "sleep", "done"} => verdict[s] # "none"
  /\ verdict[s] # "none" => DOMAIN found[s] # {}
  /\ pc[s] = "aborted" /\ DOMAIN found[s] # {} /\ found[s][dir[s]] > 0 =>
       fuzzer[s] = "libfuzzer" /\ ~Continuous[s]

\* A job crashes once, and a session with a crash counts one at least.
JobsTold(s) ==
  fuzzer[s] = "libfuzzer" =>
    /\ \A d \in DOMAIN found[s] : found[s][d] <= Jobs[s]
    /\ pc[s] = "fuzzing" => found[s][dir[s]] + running[s] <= Jobs[s]
    /\ (pc[s] = "report" \/ verdict[s] # "none") /\ found[s][dir[s]] > 0 =>
         counted[s].crashes >= 1

\* Past the start of its fuzzer the target has run.
HasRun(s) ==
  pc[s] \in InSession \ Fuzzers \/ verdict[s] # "none" => ran[s]

ActionOf(s) == CheckBinaries(s) \/ Step(s) \/ FuzzerFinds(s) \/ Interrupt(s)

RunOf(s) ==
  <<pc[s], dir[s], found[s], running[s], counted[s], verdict[s], ran[s], fuzzer[s]>>

LEMMA OthersUntouched ==
  ASSUME Types, NEW t \in Scripts, ActionOf(t), NEW s \in Scripts, s # t
  PROVE  UNCHANGED RunOf(s)
<1> USE DEF Goto, tree, session, analysis, RunOf, Types
<1>1. CASE CheckBinaries(t) \/ TestCorpus(t) \/ MakeCorpus(t) \/ CreateSeeds(t)
  BY <1>1 DEF CheckBinaries, TestCorpus, MakeCorpus, CreateSeeds
<1>2. CASE SetupResultsDir(t)
  BY <1>2 DEF SetupResultsDir
<1>3. CASE LibfuzzerFails(t) \/ StartLibfuzzer(t) \/ KeepInput(t) \/ JobTimesOut(t) \/ LibfuzzerReturns(t)
  BY <1>3 DEF LibfuzzerFails, StartLibfuzzer, KeepInput, JobTimesOut, LibfuzzerReturns
<1>4. CASE JobCrashes(t) \/ AflFindsCrash(t) \/ AflFindsHang(t)
  BY <1>4 DEF JobCrashes, AflFindsCrash, AflFindsHang, AddFinding
<1>5. CASE AflMissing(t) \/ StartAfl(t) \/ StopAfl(t) \/ CopyAfl(t) \/ RunStandalone(t)
  BY <1>5 DEF AflMissing, StartAfl, StopAfl, CopyAfl, RunStandalone
<1>6. CASE CountArtifacts(t) \/ Report(t) \/ Minimize(t)
  BY <1>6 DEF CountArtifacts, Report, Minimize
<1>7. CASE Finish(t) \/ Wake(t) \/ Interrupt(t)
  BY <1>7 DEF Finish, Wake, Interrupt
<1> QED
  BY <1>1, <1>2, <1>3, <1>4, <1>5, <1>6, <1>7 DEF ActionOf, Step, FuzzerFinds

LEMMA EndsStep ==
  ASSUME ScriptInv, NEW s \in Scripts, ActionOf(s), Ends(s)
  PROVE  Ends(s)'
<1> USE DEF Goto, tree, session, analysis, Types, Ends
<1>0. Types /\ Dirs(s) /\ FuzzerOf(s)
  BY DEF ScriptInv, RunInv
<1>1. CASE CheckBinaries(s) \/ TestCorpus(s) \/ MakeCorpus(s) \/ CreateSeeds(s)
  BY <1>0, <1>1 DEF CheckBinaries, TestCorpus, MakeCorpus, CreateSeeds, Dirs
<1>2. CASE SetupResultsDir(s)
  <2>1. pc'[s] = fuzzer[s] /\ fuzzer[s] \in Fuzzers /\ verdict'[s] = "none"
    BY <1>0, <1>2 DEF SetupResultsDir
  <2> QED
    BY <2>1
<1>3. CASE LibfuzzerFails(s) \/ StartLibfuzzer(s) \/ KeepInput(s) \/ JobTimesOut(s)
         \/ LibfuzzerReturns(s)
  BY <1>0, <1>3 DEF LibfuzzerFails, StartLibfuzzer, KeepInput, JobTimesOut, LibfuzzerReturns, FuzzerOf
<1>4. CASE JobCrashes(s) \/ AflFindsCrash(s) \/ AflFindsHang(s)
  <2>1. pc' = pc /\ pc[s] \in {"fuzzing", "afl_fuzz"}
    BY <1>4 DEF JobCrashes, AflFindsCrash, AflFindsHang
  <2>2. verdict' = verdict /\ DOMAIN found'[s] = DOMAIN found[s]
    BY <1>0, <1>4 DEF JobCrashes, AflFindsCrash, AflFindsHang, AddFinding
  <2> QED
    BY <2>1, <2>2
<1>5. CASE AflMissing(s) \/ StartAfl(s) \/ StopAfl(s) \/ CopyAfl(s) \/ RunStandalone(s)
  BY <1>0, <1>5 DEF AflMissing, StartAfl, StopAfl, CopyAfl, RunStandalone, FuzzerOf
<1>6. CASE CountArtifacts(s) \/ Report(s) \/ Minimize(s)
  BY <1>0, <1>6 DEF CountArtifacts, Report, Minimize, Dirs
<1>7. CASE Finish(s) \/ Wake(s) \/ Interrupt(s)
  BY <1>0, <1>7 DEF Finish, Wake, Interrupt
<1> QED
  BY <1>1, <1>2, <1>3, <1>4, <1>5, <1>6, <1>7 DEF ActionOf, Step, FuzzerFinds

LEMMA JobsToldStep ==
  ASSUME ScriptInv, NEW s \in Scripts, ActionOf(s), JobsTold(s)
  PROVE  JobsTold(s)'
<1>0. /\ Types /\ Dirs(s) /\ FuzzerOf(s) /\ Kept(s) /\ Told(s) /\ Jobs[s] \in Nat
      /\ running[s] \in Nat /\ running[s] <= Jobs[s]
      /\ \A d \in DOMAIN found[s] : found[s][d] \in Nat
  BY ScriptAssumption DEF ScriptInv, RunInv, Types, Dirs
<1> USE DEF Goto, tree, session, analysis
<1>1. CASE CheckBinaries(s) \/ TestCorpus(s) \/ MakeCorpus(s) \/ CreateSeeds(s)
  BY <1>0, <1>1 DEF Types, JobsTold, CheckBinaries, TestCorpus, MakeCorpus, CreateSeeds
<1>2. CASE SetupResultsDir(s)
  <2> DEFINE d0 == Name(fuzzer[s], now)
  <2>1. /\ pc'[s] = fuzzer[s] /\ fuzzer[s] \in Fuzzers /\ verdict'[s] = "none"
        /\ found'[s] = Over(File(d0, 0), found[s]) /\ fuzzer' = fuzzer
    BY <1>0, <1>2 DEF SetupResultsDir, Types
  <2> HIDE DEF d0
  <2>2. /\ DOMAIN found'[s] = DOMAIN found[s] \cup {d0}
        /\ \A e \in DOMAIN found[s] : found'[s][e] = found[s][e]
        /\ d0 \notin DOMAIN found[s] => found'[s][d0] = 0
    BY <2>1 DEF Over, File
  <2> QED
    BY <1>0, <2>1, <2>2 DEF JobsTold
<1>3. CASE LibfuzzerFails(s) \/ StartLibfuzzer(s)
  BY <1>0, <1>3 DEF Types, JobsTold, LibfuzzerFails, StartLibfuzzer, FuzzerOf, Told
<1>4. CASE KeepInput(s) \/ LibfuzzerReturns(s)
  BY <1>0, <1>4 DEF Types, JobsTold, KeepInput, LibfuzzerReturns
<1>5. CASE JobTimesOut(s)
  <2>1. /\ pc' = pc /\ fuzzer' = fuzzer /\ found' = found /\ dir' = dir /\ verdict' = verdict
        /\ counted' = counted /\ running'[s] = running[s] - 1
    BY <1>0, <1>5 DEF Types, JobTimesOut
  <2> QED
    BY <1>0, <2>1 DEF JobsTold, Dirs
<1>6. CASE JobCrashes(s)
  <2>1. /\ pc' = pc /\ pc[s] = "fuzzing" /\ fuzzer' = fuzzer /\ dir' = dir
        /\ verdict' = verdict /\ counted' = counted
        /\ running[s] > 0 /\ running'[s] = running[s] - 1
        /\ found'[s] = [found[s] EXCEPT ![dir[s]] = @ + 1]
    BY <1>0, <1>6 DEF Types, JobCrashes, AddFinding
  <2>2. verdict[s] = "none" /\ dir[s] \in DOMAIN found[s]
    BY <1>0, <2>1 DEF Told, Dirs
  <2> QED
    BY <1>0, <2>1, <2>2 DEF JobsTold
<1>7. CASE AflFindsCrash(s) \/ AflFindsHang(s)
  <2>1. fuzzer'[s] = "afl"
    BY <1>0, <1>7 DEF AflFindsCrash, AflFindsHang, FuzzerOf
  <2> QED
    BY <2>1 DEF JobsTold
<1>8. CASE AflMissing(s) \/ StartAfl(s) \/ StopAfl(s) \/ CopyAfl(s) \/ RunStandalone(s)
  <2>1. fuzzer'[s] # "libfuzzer"
    BY <1>0, <1>8 DEF AflMissing, StartAfl, StopAfl, CopyAfl, RunStandalone, FuzzerOf
  <2> QED
    BY <2>1 DEF JobsTold
<1>9. CASE CountArtifacts(s)
  <2>1. /\ pc[s] = "analyze" /\ pc'[s] = "report" /\ fuzzer' = fuzzer /\ dir' = dir
        /\ found' = found
        /\ counted'[s].crashes = Cardinality(DOMAIN results[dir[s]].crashes)
    BY <1>0, <1>9 DEF Types, CountArtifacts
  <2>2. dir[s] \in DOMAIN found[s] /\ IsFiniteSet(DOMAIN results[dir[s]].crashes)
    BY <1>0, <2>1 DEF Dirs, Types, FiniteResults, Files
  <2>3. fuzzer[s] = "libfuzzer" /\ found[s][dir[s]] > 0 =>
          Cardinality(DOMAIN results[dir[s]].crashes) >= 1
    BY <1>0, <2>2, SomeAreCounted DEF Kept
  <2> QED
    BY <1>0, <2>1, <2>3 DEF JobsTold
<1>10. CASE Report(s) \/ Minimize(s) \/ Finish(s) \/ Wake(s) \/ Interrupt(s)
  <2>1. /\ fuzzer' = fuzzer /\ found' = found /\ dir' = dir /\ counted' = counted
        /\ pc'[s] \notin {"report", "fuzzing"}
        /\ verdict'[s] # "none" => pc[s] = "report" \/ verdict[s] # "none"
    BY <1>0, <1>10 DEF Types, Report, Minimize, Finish, Wake, Interrupt
  <2> QED
    BY <2>1 DEF JobsTold
<1> QED
  BY <1>1, <1>2, <1>3, <1>4, <1>5, <1>6, <1>7, <1>8, <1>9, <1>10
     DEF ActionOf, Step, FuzzerFinds

ToldInv == \A s \in Scripts : Ends(s) /\ JobsTold(s)

LEMMA ToldInvariant == Spec => [](ScriptInv /\ ToldInv)
<1>1. Init => ToldInv
  BY DEF Init, ToldInv, Ends, JobsTold
<1>2. ScriptInv /\ ToldInv /\ [Next]_vars => ToldInv'
  <2> SUFFICES ASSUME ScriptInv, ToldInv, [Next]_vars, NEW s \in Scripts
               PROVE  Ends(s)' /\ JobsTold(s)'
    BY DEF ToldInv
  <2>1. CASE \E t \in Scripts \ {s} : ActionOf(t)
    <3>1. UNCHANGED RunOf(s)
      BY <2>1, OthersUntouched DEF ScriptInv
    <3> QED
      BY <3>1 DEF RunOf, ToldInv, Ends, JobsTold
  <2>2. CASE ActionOf(s)
    BY <2>2, EndsStep, JobsToldStep DEF ToldInv
  <2>3. CASE Tick \/ UNCHANGED vars
    BY <2>3 DEF Tick, vars, tree, session, analysis, ToldInv, Ends, JobsTold
  <2> QED
    BY <2>1, <2>2, <2>3 DEF Next, ActionOf
<1> QED
  BY <1>1, <1>2, ScriptInvariant, PTL DEF Spec

\* summary.txt goes on telling what a session of the loop ran into when no two runs are
\* offered the same fuzzer: what overwrites it is a run of the same fuzzer in the same second,
\* and nothing else.
THEOREM SummariesLast ==
  ASSUME OwnFuzzers
  PROVE  Spec => []SummaryLasts
<1>1. ScriptInv /\ FindingsSummarised => SummaryLasts
  BY NothingShared DEF SummaryLasts, FindingsSummarised
<1> QED
  BY <1>1, ScriptInvariant, FindingsAlwaysSummarised, PTL

\* A session that ran into something says so before it ends, when no run is a single one of
\* libFuzzer and none is offered the fuzzer of another.
THEOREM CrashesReported ==
  ASSUME OwnFuzzers, AlwaysAnalysed
  PROVE  Spec => []CrashIsReported
<1>1. ScriptInv /\ ToldInv => CrashIsReported
  <2> SUFFICES ASSUME ScriptInv, ToldInv, NEW s \in Scripts, pc[s] \in {"done", "aborted"},
                      dir[s] # NoDir, found[s][dir[s]] > 0
               PROVE  verdict[s] = "unstable"
    BY DEF CrashIsReported
  <2>1. RunInv(s) /\ Types /\ Ends(s) /\ DOMAIN found[s] # {}
    BY DEF ScriptInv, ToldInv, RunInv, Dirs
  <2>2. pc[s] = "done"
    BY <2>1 DEF Ends, AlwaysAnalysed, Types
  <2>3. verdict[s] # "stable"
    BY <2>1, NothingShared DEF RunInv, Told
  <2> QED
    BY <2>1, <2>2, <2>3 DEF Ends, Types
<1> QED
  BY <1>1, ToldInvariant, PTL

\* "Crashes Found:" is not less than the crashes of the session when libFuzzer is given one
\* job: the files of two jobs have one name.
THEOREM EveryCrashIsCounted ==
  ASSUME \A s \in Scripts : Jobs[s] = 1
  PROVE  Spec => []EveryCrashCounted
<1>1. ScriptInv /\ ToldInv => EveryCrashCounted
  <2> SUFFICES ASSUME ScriptInv, ToldInv, NEW s \in Scripts, fuzzer[s] = "libfuzzer",
                      verdict[s] # "none"
               PROVE  counted[s].crashes >= found[s][dir[s]]
    BY DEF EveryCrashCounted
  <2>1. JobsTold(s) /\ Jobs[s] = 1 /\ counted[s].crashes \in Nat
    BY DEF ToldInv, ScriptInv, Types
  <2>2. dir[s] \in DOMAIN found[s] /\ found[s][dir[s]] \in Nat
    <3>1. DOMAIN found[s] # {}
      BY DEF ToldInv, Ends
    <3> QED
      BY <3>1 DEF ScriptInv, RunInv, Dirs
  <2> QED
    BY <2>1, <2>2 DEF JobsTold
<1> QED
  BY <1>1, ToldInvariant, PTL

LEMMA HasRunStep ==
  ASSUME ScriptInv, FailuresEnd, NEW s \in Scripts, ActionOf(s), HasRun(s)
  PROVE  HasRun(s)'
<1> USE DEF Goto, tree, session, analysis, Types, HasRun
<1>0. Types /\ Told(s)
  BY DEF ScriptInv, RunInv
<1>f. pc[s] # "afl" /\ (pc[s] = "libfuzzer" => ~Continuous[s])
  BY DEF ScriptInv, RunInv, FuzzerOf, FailuresEnd
<1>1. CASE CheckBinaries(s) \/ TestCorpus(s) \/ MakeCorpus(s) \/ CreateSeeds(s)
  BY <1>0, <1>1 DEF CheckBinaries, TestCorpus, MakeCorpus, CreateSeeds
<1>2. CASE SetupResultsDir(s)
  <2>1. pc'[s] = fuzzer[s] /\ fuzzer[s] \in Fuzzers /\ verdict'[s] = "none"
    BY <1>0, <1>2 DEF SetupResultsDir
  <2> QED
    BY <2>1
<1>3. CASE LibfuzzerFails(s) \/ StartLibfuzzer(s) \/ KeepInput(s) \/ JobTimesOut(s)
         \/ LibfuzzerReturns(s)
  BY <1>0, <1>3, <1>f DEF LibfuzzerFails, StartLibfuzzer, KeepInput, JobTimesOut, LibfuzzerReturns
<1>4. CASE JobCrashes(s) \/ AflFindsCrash(s) \/ AflFindsHang(s)
  BY <1>0, <1>4 DEF JobCrashes, AflFindsCrash, AflFindsHang
<1>5. CASE StartAfl(s)
  BY <1>5, <1>f DEF StartAfl
<1>6. CASE AflMissing(s) \/ StopAfl(s) \/ CopyAfl(s)
  BY <1>0, <1>6 DEF AflMissing, StopAfl, CopyAfl
<1>9. CASE RunStandalone(s)
  <2>1. verdict' = verdict /\ pc[s] = "standalone"
        /\ (pc'[s] = "aborted" \/ (pc'[s] = "analyze" /\ ran'[s]))
    BY <1>0, <1>9 DEF RunStandalone
  <2> QED
    BY <1>0, <2>1 DEF Told
<1>7. CASE CountArtifacts(s) \/ Report(s) \/ Minimize(s)
  BY <1>0, <1>7 DEF CountArtifacts, Report, Minimize
<1>8. CASE Finish(s) \/ Wake(s) \/ Interrupt(s)
  BY <1>0, <1>8 DEF Finish, Wake, Interrupt
<1> QED
  BY <1>1, <1>2, <1>3, <1>4, <1>5, <1>6, <1>7, <1>8, <1>9 DEF ActionOf, Step, FuzzerFinds

\* No step empties the corpus.
LEMMA SeedsStay ==
  ASSUME ScriptInv, [Next]_vars, corpus.seeded
  PROVE  corpus'.seeded
<1>1. corpus \in [exists : BOOLEAN, seeded : BOOLEAN]
  BY DEF ScriptInv, Types
<1>2. \/ UNCHANGED corpus
      \/ corpus' = [corpus EXCEPT !.exists = TRUE] \/ corpus' = [corpus EXCEPT !.seeded = TRUE]
  <2>1. CASE Tick \/ UNCHANGED vars
    BY <2>1 DEF Tick, vars, tree
  <2>2. ASSUME NEW s \in Scripts, ActionOf(s)
        PROVE  \/ UNCHANGED corpus
               \/ corpus' = [corpus EXCEPT !.exists = TRUE]
               \/ corpus' = [corpus EXCEPT !.seeded = TRUE]
    BY <2>2 DEF ActionOf, Step, FuzzerFinds, CheckBinaries, TestCorpus, MakeCorpus, CreateSeeds,
       SetupResultsDir, LibfuzzerFails, StartLibfuzzer, KeepInput, JobCrashes, JobTimesOut, LibfuzzerReturns,
       AflMissing, StartAfl, AflFindsCrash, AflFindsHang, StopAfl, CopyAfl, RunStandalone,
       CountArtifacts, Report, Minimize, Finish, Wake, Interrupt, tree
  <2> QED
    BY <2>1, <2>2 DEF Next, ActionOf
<1> QED
  BY <1>1, <1>2

\* "Appears stable" is said of a target that ran, when no fuzzer is started behind "|| true":
\* set -e then ends a run whose fuzzer does not start.
THEOREM StableIsFuzzed ==
  ASSUME FailuresEnd
  PROVE  Spec => []StableMeansFuzzed
<1> DEFINE RanInv == \A s \in Scripts : HasRun(s)
<1>1. Init => RanInv
  BY DEF Init, HasRun
<1>2. ScriptInv /\ RanInv /\ [Next]_vars => RanInv'
  <2> SUFFICES ASSUME ScriptInv, RanInv, [Next]_vars, NEW s \in Scripts PROVE HasRun(s)'
    OBVIOUS
  <2>1. CASE \E t \in Scripts \ {s} : ActionOf(t)
    <3>1. UNCHANGED RunOf(s)
      BY <2>1, OthersUntouched DEF ScriptInv
    <3> QED
      BY <3>1 DEF RunOf, HasRun
  <2>2. CASE ActionOf(s)
    BY <2>2, HasRunStep
  <2>3. CASE Tick \/ UNCHANGED vars
    BY <2>3 DEF Tick, vars, tree, session, analysis, HasRun
  <2> QED
    BY <2>1, <2>2, <2>3 DEF Next, ActionOf
<1>3. RanInv => StableMeansFuzzed
  BY DEF StableMeansFuzzed, HasRun
<1> HIDE DEF RanInv
<1> QED
  BY <1>1, <1>2, <1>3, ScriptInvariant, PTL DEF Spec

\* A run that is on its own in making the corpus does not get past it.
Unseeded(s) ==
  /\ pc[s] \in BeforeSession \cup {"aborted", "killed"}
  /\ corpus.exists => pc[s] \in {"seeds", "aborted", "killed"}

\* No fuzzer starts on an empty corpus that the script has made, when there is a seed from
\* the start or a single run looks for the directory: that one ends where its seeds fail.
\* What is left is a second run, which finds the directory and goes on.
THEOREM SeedsFirst ==
  ASSUME SeedsOrAlone
  PROVE  Spec => []FuzzesFromSeeds
<1> DEFINE Alone == \A s, t \in Scripts : s = t
           SeedInv == corpus.seeded \/ (Alone /\ \A s \in Scripts : Unseeded(s))
<1>1. Init => SeedInv
  BY DEF Init, SeedsOrAlone, Unseeded
<1>2. ScriptInv /\ SeedInv /\ [Next]_vars => SeedInv'
  <2> SUFFICES ASSUME ScriptInv, SeedInv, [Next]_vars, ~corpus.seeded, NEW s \in Scripts
               PROVE  Unseeded(s)'
    BY SeedsStay
  <2>1. Unseeded(s) /\ Types
    BY DEF ScriptInv
  <2>2. CASE ActionOf(s)
    <3> USE DEF Goto, tree, session, analysis, Types, Unseeded
    <3>1. CASE CheckBinaries(s) \/ TestCorpus(s)
      BY <2>1, <3>1 DEF CheckBinaries, TestCorpus
    <3>2. CASE MakeCorpus(s) \/ CreateSeeds(s) \/ Interrupt(s)
      BY <2>1, <3>2 DEF MakeCorpus, CreateSeeds, Interrupt
    <3>3. pc[s] \in BeforeSession \cup {"aborted", "killed"}
      BY <2>1
    <3> QED
      BY <2>2, <3>1, <3>2, <3>3 DEF ActionOf, Step, FuzzerFinds, SetupResultsDir,
         LibfuzzerFails, StartLibfuzzer, KeepInput, JobCrashes, JobTimesOut, LibfuzzerReturns, AflMissing,
         StartAfl, AflFindsCrash, AflFindsHang, StopAfl, CopyAfl, RunStandalone,
         CountArtifacts, Report, Minimize, Finish, Wake
  <2>3. CASE Tick \/ UNCHANGED vars
    BY <2>1, <2>3 DEF Tick, vars, tree, session, analysis, Unseeded
  <2> QED
    BY <2>1, <2>2, <2>3 DEF Next, ActionOf
<1>3. SeedInv => FuzzesFromSeeds
  BY DEF FuzzesFromSeeds, Unseeded
<1> HIDE DEF SeedInv
<1> QED
  BY <1>1, <1>2, <1>3, ScriptInvariant, PTL DEF Spec

-----------------------------------------------------------------------------
(* How long a single run is. *)

\* The steps a run that is not continuous still has before it, at most.
StepsLeft(s) ==
  CASE pc[s] = "start" -> 11 + Jobs[s] [] pc[s] = "corpus" -> 10 + Jobs[s]
    [] pc[s] = "results" -> 9 + Jobs[s] [] pc[s] = "libfuzzer" -> 8 + Jobs[s]
    [] pc[s] = "fuzzing" -> 7 + running[s] [] pc[s] = "afl" -> 8 [] pc[s] = "afl_fuzz" -> 7
    [] pc[s] = "copy" -> 6 [] pc[s] = "standalone" -> 6 [] pc[s] = "analyze" -> 5
    [] pc[s] = "report" -> 4 [] pc[s] = "minimize" -> 3 [] pc[s] = "finish" -> 2
    [] pc[s] = "mkdir" -> 2 [] pc[s] = "seeds" -> 1 [] OTHER -> 0

\* Every step of a run that is not continuous, a crash of one of its jobs included, brings it
\* nearer to its end, and no find of a fuzzer and no step of another run takes it back: it
\* takes at most eleven and one for each job.  It is the part of SingleRunsEnd that is not
\* about fairness.
THEOREM SingleRunsCountDown ==
  ASSUME NEW s \in Scripts, ~Continuous[s]
  PROVE  Spec => [][/\ StepsLeft(s) \in Nat /\ StepsLeft(s)' <= StepsLeft(s)
                    /\ CheckBinaries(s) \/ Step(s) \/ JobCrashes(s) =>
                         StepsLeft(s)' < StepsLeft(s)]_vars
<1> DEFINE Down == /\ StepsLeft(s) \in Nat /\ StepsLeft(s)' <= StepsLeft(s)
                   /\ CheckBinaries(s) \/ Step(s) \/ JobCrashes(s) =>
                        StepsLeft(s)' < StepsLeft(s)
           Awake == pc[s] # "sleep"
<1>1. Init => Awake
  BY DEF Init
<1>2. ScriptInv /\ Awake /\ [Next]_vars => Awake' /\ [Down]_vars
  <2> SUFFICES ASSUME ScriptInv, Awake, [Next]_vars PROVE Awake' /\ (Down \/ UNCHANGED vars)
    OBVIOUS
  <2>0. /\ Types /\ Jobs[s] \in Nat \ {0} /\ running[s] \in Nat /\ running[s] <= Jobs[s]
        /\ fuzzer[s] \in Fuzzers /\ pc[s] \in Labels
    BY ScriptAssumption DEF ScriptInv, Types
  <2>n. StepsLeft(s) \in Nat
    BY <2>0 DEF StepsLeft
  <2>1. ASSUME CheckBinaries(s) \/ Step(s) \/ JobCrashes(s)
        PROVE  StepsLeft(s)' < StepsLeft(s) /\ Awake'
    <3> USE <2>0 DEF Goto, tree, session, analysis, Types
    <3>1. CASE CheckBinaries(s) \/ TestCorpus(s) \/ MakeCorpus(s) \/ CreateSeeds(s)
      BY <3>1 DEF CheckBinaries, TestCorpus, MakeCorpus, CreateSeeds, StepsLeft
    <3>2. CASE SetupResultsDir(s)
      <4>1. pc[s] = "results" /\ pc'[s] \in Fuzzers
        BY <3>2 DEF SetupResultsDir
      <4> QED
        BY <4>1 DEF StepsLeft
    <3>9. CASE LibfuzzerFails(s)
      BY <3>9 DEF LibfuzzerFails, StepsLeft
    <3>3. CASE StartLibfuzzer(s)
      <4>1. pc[s] = "libfuzzer" /\ pc'[s] = "fuzzing" /\ running'[s] = Jobs[s]
        BY <3>3 DEF StartLibfuzzer
      <4> QED
        BY <4>1 DEF StepsLeft
    <3>4. CASE JobTimesOut(s) \/ JobCrashes(s)
      <4>1. pc[s] = "fuzzing" /\ pc'[s] = "fuzzing" /\ running'[s] = running[s] - 1
        BY <3>4 DEF JobTimesOut, JobCrashes
      <4> QED
        BY <4>1 DEF StepsLeft
    <3>5. CASE LibfuzzerReturns(s) \/ AflMissing(s) \/ StopAfl(s)
      BY <3>5 DEF LibfuzzerReturns, AflMissing, StopAfl, StepsLeft
    <3>6. CASE StartAfl(s) \/ CopyAfl(s) \/ RunStandalone(s)
      <4>1. \/ pc[s] = "afl" /\ pc'[s] \in {"afl_fuzz", "copy"}
            \/ pc[s] = "copy" /\ pc'[s] = "analyze"
            \/ pc[s] = "standalone" /\ pc'[s] \in {"analyze", "aborted"}
        BY <3>6 DEF StartAfl, CopyAfl, RunStandalone
      <4> QED
        BY <4>1 DEF StepsLeft
    <3>7. CASE CountArtifacts(s) \/ Report(s) \/ Minimize(s)
      <4>1. \/ pc[s] = "analyze" /\ pc'[s] = "report"
            \/ pc[s] = "report" /\ pc'[s] \in {"minimize", "finish"}
            \/ pc[s] = "minimize" /\ pc'[s] = "finish"
        BY <3>7 DEF CountArtifacts, Report, Minimize
      <4> QED
        BY <4>1 DEF StepsLeft
    <3>8. CASE Finish(s)
      BY <3>8 DEF Finish, StepsLeft
    <3> QED
      BY <2>1, <3>1, <3>2, <3>3, <3>4, <3>5, <3>6, <3>7, <3>8, <3>9 DEF Step, Wake
  <2>2. ASSUME KeepInput(s) \/ AflFindsCrash(s) \/ AflFindsHang(s) \/ Interrupt(s)
        PROVE  StepsLeft(s)' <= StepsLeft(s) /\ Awake'
    <3>1. (pc' = pc /\ running' = running) \/ pc'[s] = "killed"
      BY <2>0, <2>2 DEF KeepInput, AflFindsCrash, AflFindsHang, Interrupt, Goto, session, Types
    <3>2. CASE pc'[s] = "killed"
      BY <2>n, <3>2 DEF StepsLeft
    <3>3. CASE pc' = pc /\ running' = running
      <4>1. StepsLeft(s)' = StepsLeft(s)
        BY <3>3 DEF StepsLeft
      <4> QED
        BY <2>n, <3>3, <4>1
    <3> QED
      BY <3>1, <3>2, <3>3
  <2>3. ASSUME (\E t \in Scripts \ {s} : ActionOf(t)) \/ Tick \/ UNCHANGED vars
        PROVE  StepsLeft(s)' = StepsLeft(s) /\ Awake'
    <3>1. pc'[s] = pc[s] /\ running'[s] = running[s]
      <4>1. CASE \E t \in Scripts \ {s} : ActionOf(t)
        BY <4>1, OthersUntouched DEF ScriptInv, RunOf
      <4>2. CASE Tick \/ UNCHANGED vars
        BY <4>2 DEF Tick, vars, session
      <4> QED
        BY <2>3, <4>1, <4>2
    <3> QED
      BY <3>1 DEF StepsLeft
  <2>4. \/ CheckBinaries(s) \/ Step(s) \/ JobCrashes(s)
        \/ KeepInput(s) \/ AflFindsCrash(s) \/ AflFindsHang(s) \/ Interrupt(s)
        \/ (\E t \in Scripts \ {s} : ActionOf(t)) \/ Tick \/ UNCHANGED vars
    BY DEF Next, ActionOf, FuzzerFinds
  <2>5. StepsLeft(s)' \in Int
    <3>1. running'[s] \in Nat
      BY NextScriptInv DEF ScriptInv, Types
    <3> QED
      BY <2>0, <3>1 DEF StepsLeft
  <2> HIDE DEF Awake
  <2> QED
    BY <2>n, <2>1, <2>2, <2>3, <2>4, <2>5
<1> QED
  BY <1>1, <1>2, ScriptInvariant, PTL DEF Spec

=============================================================================
