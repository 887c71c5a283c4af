------------------------------ MODULE FuzzStats ------------------------------
(***************************************************************************)
(* The statistics of utils.c: one static record, which any sequence of     *)
(* calls updates, while the wall clock goes on, or is set.  time_t is      *)
(* signed in the record and printed as unsigned.                           *)
(***************************************************************************)
EXTENDS Integers

CONSTANTS
  StartClock,    \* the wall clock, in seconds since 1970, when the process starts
  TimeSpace,     \* the number of values of the unsigned long an elapsed time is printed as
  MaxAge,        \* bound on the seconds the process runs
  MaxResults,    \* bound on the results counted
  MaxJump,       \* bound on how far the clock is set forward
  MaxClockSets   \* bound on how often the clock is set

ASSUME StatsAssumption ==
  /\ StartClock \in Nat \ {0} /\ TimeSpace \in Nat \ {0}
  /\ MaxAge \in Nat /\ MaxResults \in Nat /\ MaxJump \in Nat /\ MaxClockSets \in Nat
  /\ MaxAge < TimeSpace

VARIABLES
  stats,      \* g_fuzz_stats
  clock,      \* time(NULL)
  age,        \* seconds the process has run, by a clock nobody sets
  initAge,    \* history: age at the last CFS_InitFuzzStats, -1 before the first
  clockSets,  \* history: how often the clock was set since, and in all
  invalid,    \* history: results of no category since the last CFS_InitFuzzStats
  shown       \* what CFS_PrintFuzzStats printed last

statsVars == <<stats, clock, age, initAge, clockSets, invalid, shown>>

Categories == {"success", "error", "crash", "timeout"}
CFS_FuzzResult_t == Categories \cup {"invalid_input"}

\* total_executions, the executions of each category, and the times.
Zeroed ==
  [total |-> 0, of |-> [c \in Categories |-> 0], start_time |-> 0, elapsed_time |-> 0]

NothingShown == [total |-> 0, elapsed |-> 0, age |-> 0, exact |-> TRUE]

StatsInit ==
  /\ stats = Zeroed
  /\ clock = StartClock
  /\ age = 0 /\ initAge = -1 /\ invalid = 0
  /\ clockSets = [since |-> 0, all |-> 0]
  /\ shown = NothingShown

\* Only the start time set anew.
InitFuzzStats_NoMemset ==
  /\ stats' = [stats EXCEPT !.start_time = clock]
  /\ initAge' = age
  /\ clockSets' = [clockSets EXCEPT !.since = 0]
  /\ invalid' = 0
  /\ UNCHANGED <<clock, age, shown>>

CFS_InitFuzzStats ==
  /\ stats' = [Zeroed EXCEPT !.start_time = clock]
  /\ initAge' = age
  /\ clockSets' = [clockSets EXCEPT !.since = 0]
  /\ invalid' = 0
  /\ UNCHANGED <<clock, age, shown>>

\* A case without its break.
Counted_FallsThrough(s, result) ==
  LET t == [s EXCEPT !.total = @ + 1]
  IN  CASE result = "crash" -> [t EXCEPT !.of["crash"] = @ + 1, !.of["timeout"] = @ + 1]
        [] result \in Categories \ {"crash"} -> [t EXCEPT !.of[result] = @ + 1]
        [] OTHER -> t

\* Every result counts in the total, an invalid input nowhere else.
Counted(s, result) ==
  IF result \in Categories THEN [s EXCEPT !.total = @ + 1, !.of[result] = @ + 1]
                           ELSE [s EXCEPT !.total = @ + 1]

CFS_UpdateFuzzStats ==
  /\ stats.total < MaxResults
  /\ \E result \in CFS_FuzzResult_t :
       /\ stats' = Counted(stats, result)
       /\ invalid' = IF result = "invalid_input" THEN invalid + 1 ELSE invalid
  /\ UNCHANGED <<clock, age, initAge, clockSets, shown>>

\* The record as it is handed out.
UpToDate(s) == [s EXCEPT !.elapsed_time = clock - s.start_time]

CFS_GetFuzzStats ==
  /\ stats' = UpToDate(stats)
  /\ UNCHANGED <<clock, age, initAge, clockSets, invalid, shown>>

\* The printer that takes the record as it lies.
PrintFuzzStats_NotUpdated ==
  /\ shown' = [total |-> stats.total, elapsed |-> stats.elapsed_time % TimeSpace,
               age |-> age - initAge, exact |-> initAge >= 0 /\ clockSets.since = 0]
  /\ UNCHANGED <<stats, clock, age, initAge, clockSets, invalid>>

CFS_PrintFuzzStats ==
  /\ stats' = UpToDate(stats)
  /\ shown' = [total |-> stats.total, elapsed |-> stats'.elapsed_time % TimeSpace,
               age |-> age - initAge, exact |-> initAge >= 0 /\ clockSets.since = 0]
  /\ UNCHANGED <<clock, age, initAge, clockSets, invalid>>

Tick ==
  /\ age < MaxAge
  /\ age' = age + 1
  /\ clock' = clock + 1
  /\ UNCHANGED <<stats, initAge, clockSets, invalid, shown>>

\* By hand or by a time server, back or forward.
SetClock ==
  /\ clockSets.all < MaxClockSets
  /\ clock' \in (0 .. clock + MaxJump) \ {clock}
  /\ clockSets' = [since |-> clockSets.since + 1, all |-> clockSets.all + 1]
  /\ UNCHANGED <<stats, age, initAge, invalid, shown>>

StatsNext ==
  \/ CFS_InitFuzzStats \/ CFS_UpdateFuzzStats \/ CFS_GetFuzzStats \/ CFS_PrintFuzzStats
  \/ Tick \/ SetClock

StatsSpec == StatsInit /\ [][StatsNext]_statsVars

-----------------------------------------------------------------------------
(* Properties. *)

\* The categories add up: what the total has more than the four of them is the invalid
\* inputs since the record was last cleared, and nothing was counted twice.
CategoriesAddUp ==
  stats.total = stats.of["success"] + stats.of["error"] + stats.of["crash"]
                  + stats.of["timeout"] + invalid

\* A printed elapsed time is the time since CFS_InitFuzzStats, however long ago the record
\* was last brought up to date; the exceptions are a record never initialised, which counts
\* from 1970, and a clock set since, where a negative time is printed as a huge one.
PrintedTimeExact == shown.exact => shown.elapsed = shown.age

\* The record a caller holds on to between calls is never ahead of the clock: its elapsed
\* time may lag behind the counters, so a rate read from it is too high at worst.
HeldTimeNeverAhead ==
  initAge >= 0 /\ clockSets.since = 0 => stats.elapsed_time \in 0 .. age - initAge

=============================================================================
