--------------------------- MODULE FuzzStats_proofs ---------------------------
(***************************************************************************)
(* Proofs about the statistics, for every start of the clock, run time and *)
(* number of results.  What has to be added to the properties is that, as  *)
(* long as nobody sets the clock, it is as far from start_time as the      *)
(* process is from its last CFS_InitFuzzStats.                             *)
(***************************************************************************)
EXTENDS FuzzStats, TLAPS

Stats ==
  [total : Nat, of : [Categories -> Nat], start_time : Int, elapsed_time : Int]

\* Nobody has set the clock since the record was initialised.
Undisturbed == initAge >= 0 /\ clockSets.since = 0

StatsTypes ==
  /\ stats \in Stats
  /\ clock \in Nat /\ age \in 0 .. MaxAge /\ initAge \in Int /\ initAge <= age
  /\ clockSets \in [since : Nat, all : Nat]
  /\ invalid \in Nat

ClockInStep == Undisturbed => clock - stats.start_time = age - initAge

StatsInv ==
  /\ StatsTypes /\ ClockInStep
  /\ CategoriesAddUp /\ PrintedTimeExact /\ HeldTimeNeverAhead

\* A cleared record, whatever its start time.
LEMMA ZeroedStats ==
  ASSUME NEW t \in Int, NEW s, s = [Zeroed EXCEPT !.start_time = t]
  PROVE  /\ s \in Stats /\ s.start_time = t /\ s.elapsed_time = 0 /\ s.total = 0
         /\ s.of["success"] = 0 /\ s.of["error"] = 0
         /\ s.of["crash"] = 0 /\ s.of["timeout"] = 0
BY DEF Zeroed, Stats, Categories

LEMMA StatsInitInv == StatsInit => StatsInv
<1> SUFFICES ASSUME StatsInit PROVE StatsInv
  OBVIOUS
<1>1. /\ stats \in Stats /\ stats.start_time = 0 /\ stats.elapsed_time = 0
      /\ stats.total = 0 /\ stats.of["success"] = 0 /\ stats.of["error"] = 0
      /\ stats.of["crash"] = 0 /\ stats.of["timeout"] = 0
  BY DEF StatsInit, Zeroed, Stats, Categories
<1> QED
  BY <1>1, StatsAssumption
  DEF StatsInit, StatsInv, StatsTypes, NothingShown, ClockInStep, Undisturbed,
      CategoriesAddUp, PrintedTimeExact, HeldTimeNeverAhead

LEMMA InitInv == StatsInv /\ CFS_InitFuzzStats => StatsInv'
<1> SUFFICES ASSUME StatsInv, CFS_InitFuzzStats PROVE StatsInv'
  OBVIOUS
<1>1. clock \in Int /\ stats' = [Zeroed EXCEPT !.start_time = clock]
  BY DEF CFS_InitFuzzStats, StatsInv, StatsTypes
<1>2. /\ stats' \in Stats /\ stats'.start_time = clock /\ stats'.elapsed_time = 0
      /\ stats'.total = 0 /\ stats'.of["success"] = 0 /\ stats'.of["error"] = 0
      /\ stats'.of["crash"] = 0 /\ stats'.of["timeout"] = 0
  BY <1>1, ZeroedStats
<1> QED
  BY <1>2
  DEF CFS_InitFuzzStats, StatsInv, StatsTypes, ClockInStep, Undisturbed,
      CategoriesAddUp, PrintedTimeExact, HeldTimeNeverAhead

\* A result is counted in the total and in one category, or in none.
LEMMA UpdateInv == StatsInv /\ CFS_UpdateFuzzStats => StatsInv'
<1> SUFFICES ASSUME StatsInv, CFS_UpdateFuzzStats PROVE StatsInv'
  OBVIOUS
<1>1. PICK result \in CFS_FuzzResult_t :
        /\ stats' = Counted(stats, result)
        /\ invalid' = IF result = "invalid_input" THEN invalid + 1 ELSE invalid
  BY DEF CFS_UpdateFuzzStats
<1>2. /\ stats' \in Stats
      /\ stats'.start_time = stats.start_time /\ stats'.elapsed_time = stats.elapsed_time
      /\ CategoriesAddUp'
  <2> DEFINE one == [stats EXCEPT !.total = @ + 1]
  <2>1. one \in Stats /\ one.total = stats.total + 1 /\ one.of = stats.of
        /\ one.start_time = stats.start_time /\ one.elapsed_time = stats.elapsed_time
    BY DEF StatsInv, StatsTypes, Stats
  <2>2. CASE result \in Categories
    <3> DEFINE of == [stats.of EXCEPT ![result] = @ + 1]
    <3>1. of \in [Categories -> Nat] /\ stats.of \in [Categories -> Nat]
      BY <2>2 DEF StatsInv, StatsTypes, Stats
    <3>2. stats' \in Stats /\ stats'.total = one.total /\ stats'.of = of
          /\ stats'.start_time = one.start_time /\ stats'.elapsed_time = one.elapsed_time
      <4>1. stats' = [stats EXCEPT !.total = @ + 1, !.of[result] = @ + 1]
        BY <1>1, <2>2 DEF Counted
      <4>2. stats' = [total |-> stats.total + 1, of |-> of, start_time |-> stats.start_time,
                      elapsed_time |-> stats.elapsed_time]
        BY <4>1 DEF StatsInv, StatsTypes, Stats
      <4>3. stats.total + 1 \in Nat /\ stats.start_time \in Int /\ stats.elapsed_time \in Int
        BY DEF StatsInv, StatsTypes, Stats
      <4> HIDE DEF of
      <4> QED
        BY <4>2, <4>3, <3>1, <2>1 DEF Stats
    <3>3. invalid' = invalid
      BY <1>1, <2>2 DEF Categories
    <3>4. \A c \in Categories :
            stats.of[c] \in Nat /\ stats'.of[c] = stats.of[c] + (IF c = result THEN 1 ELSE 0)
      BY <2>2, <3>1, <3>2
    <3>5. stats.total \in Nat /\ invalid \in Nat /\ stats'.total = stats.total + 1
          /\ CategoriesAddUp
      BY <2>1, <3>2 DEF StatsInv, StatsTypes, Stats
    <3> HIDE DEF one
    <3>6. CategoriesAddUp'
      <4> USE <3>3, <3>4, <3>5 DEF Categories, CategoriesAddUp
      <4>1. CASE result = "success"
        BY <4>1
      <4>2. CASE result = "error"
        BY <4>2
      <4>3. CASE result = "crash"
        BY <4>3
      <4>4. CASE result = "timeout"
        BY <4>4
      <4> QED
        BY <2>2, <4>1, <4>2, <4>3, <4>4
    <3> QED
      BY <2>1, <3>2, <3>6
  <2>3. CASE result \notin Categories
    <3>1. stats' = one /\ invalid' = invalid + 1
      BY <1>1, <2>3 DEF Counted, CFS_FuzzResult_t
    <3>2. \A c \in Categories : stats.of[c] \in Nat
      BY DEF StatsInv, StatsTypes, Stats
    <3> HIDE DEF one
    <3>3. CategoriesAddUp'
      BY <2>1, <3>1, <3>2 DEF Categories, CategoriesAddUp, StatsInv, StatsTypes, Stats
    <3> QED
      BY <2>1, <3>1, <3>3
  <2> QED
    BY <2>2, <2>3
<1>3. invalid' \in Nat /\ UNCHANGED <<clock, age, initAge, clockSets, shown>>
  BY <1>1 DEF CFS_UpdateFuzzStats, StatsInv, StatsTypes
<1> QED
  BY <1>2, <1>3
  DEF StatsInv, StatsTypes, ClockInStep, Undisturbed, PrintedTimeExact, HeldTimeNeverAhead

\* Brought up to date, the elapsed time is the age of the record.
LEMMA UpToDateInv ==
  ASSUME StatsInv, stats' = UpToDate(stats), UNCHANGED <<clock, age, initAge, clockSets, invalid>>
  PROVE  /\ StatsTypes' /\ ClockInStep' /\ CategoriesAddUp' /\ HeldTimeNeverAhead'
         /\ Undisturbed => stats'.elapsed_time = age - initAge /\ age - initAge \in 0 .. MaxAge
<1>1. /\ stats' \in Stats /\ stats'.start_time = stats.start_time
      /\ stats'.elapsed_time = clock - stats.start_time
      /\ stats'.total = stats.total /\ stats'.of = stats.of
  BY DEF UpToDate, StatsInv, StatsTypes, Stats
<1> QED
  BY <1>1, StatsAssumption
  DEF StatsInv, StatsTypes, ClockInStep, Undisturbed, CategoriesAddUp, HeldTimeNeverAhead

LEMMA GetInv == StatsInv /\ CFS_GetFuzzStats => StatsInv'
BY UpToDateInv DEF CFS_GetFuzzStats, StatsInv, PrintedTimeExact

\* A time within the run prints as itself.
LEMMA PrintInv == StatsInv /\ CFS_PrintFuzzStats => StatsInv'
<1> SUFFICES ASSUME StatsInv, CFS_PrintFuzzStats PROVE StatsInv'
  OBVIOUS
<1>1. \A t \in 0 .. MaxAge : t % TimeSpace = t
  BY StatsAssumption
<1>2. /\ StatsTypes' /\ ClockInStep' /\ CategoriesAddUp' /\ HeldTimeNeverAhead'
      /\ Undisturbed => stats'.elapsed_time = age - initAge /\ age - initAge \in 0 .. MaxAge
  BY UpToDateInv DEF CFS_PrintFuzzStats
<1>3. /\ shown'.exact => Undisturbed
      /\ shown'.elapsed = stats'.elapsed_time % TimeSpace /\ shown'.age = age - initAge
  BY DEF CFS_PrintFuzzStats, Undisturbed
<1>4. PrintedTimeExact'
  BY <1>1, <1>2, <1>3 DEF PrintedTimeExact
<1> QED
  BY <1>2, <1>4 DEF StatsInv

\* A tick moves the clock and the age together; a clock that is set disturbs.
LEMMA ClockInv == StatsInv /\ (Tick \/ SetClock) => StatsInv'
<1>1. ASSUME StatsInv, Tick PROVE StatsInv'
  <2>1. stats.start_time \in Int /\ stats.elapsed_time \in Int
    BY <1>1 DEF StatsInv, StatsTypes, Stats
  <2> QED
    BY <1>1, <2>1, StatsAssumption
    DEF Tick, StatsInv, StatsTypes, ClockInStep, Undisturbed, CategoriesAddUp,
        PrintedTimeExact, HeldTimeNeverAhead
<1>2. ASSUME StatsInv, SetClock PROVE StatsInv'
  <2>1. clock' \in Nat /\ clockSets' \in [since : Nat, all : Nat] /\ clockSets'.since > 0
    BY <1>2 DEF SetClock, StatsInv, StatsTypes
  <2> QED
    BY <1>2, <2>1
    DEF SetClock, StatsInv, StatsTypes, ClockInStep, Undisturbed, CategoriesAddUp,
        PrintedTimeExact, HeldTimeNeverAhead
<1> QED
  BY <1>1, <1>2

LEMMA StatsNextInv == StatsInv /\ [StatsNext]_statsVars => StatsInv'
<1>1. StatsInv /\ UNCHANGED statsVars => StatsInv'
  BY DEF statsVars, StatsInv, StatsTypes, ClockInStep, Undisturbed, CategoriesAddUp,
         PrintedTimeExact, HeldTimeNeverAhead
<1> QED
  BY <1>1, InitInv, UpdateInv, GetInv, PrintInv, ClockInv DEF StatsNext

\* The inductive invariant of the statistics.
LEMMA StatsInvariance == StatsSpec => []StatsInv
BY StatsInitInv, StatsNextInv, PTL DEF StatsSpec

\* Whatever the sequence of calls, the categories and the invalid inputs make up the total.
THEOREM EveryResultCounted == StatsSpec => []CategoriesAddUp
BY StatsInvariance, PTL DEF StatsInv

\* A printed elapsed time is the time since CFS_InitFuzzStats, unless the record never was
\* initialised or the clock was set since.
THEOREM PrintedTimesExact == StatsSpec => []PrintedTimeExact
BY StatsInvariance, PTL DEF StatsInv

\* The record a caller holds is never ahead of the clock.
THEOREM HeldTimesLag == StatsSpec => []HeldTimeNeverAhead
BY StatsInvariance, PTL DEF StatsInv

=============================================================================
