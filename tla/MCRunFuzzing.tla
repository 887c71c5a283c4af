---------------------------- MODULE MCRunFuzzing ----------------------------
(***************************************************************************)
(* RunFuzzing on a few runs of the script and a few seconds.               *)
(***************************************************************************)
EXTENDS RunFuzzing

CONSTANTS
  loop,    \* a continuous run
  once,    \* a single session
  again    \* another one

Libfuzzer == {"libfuzzer"}
Afl == {"afl"}
AllBuilt == {"libfuzzer", "afl", "standalone"}

\* Every fuzzer in every mode, the two runs in every combination.
AnyOffered == [s \in Scripts |-> AllBuilt]
LibfuzzerOffered == [s \in Scripts |-> Libfuzzer]
AflOffered == [s \in Scripts |-> Afl]

ContinuousOf == [s \in Scripts |-> s = loop]

OneJob  == [s \in Scripts |-> 1]
TwoJobs == [s \in Scripts |-> 2]

\* mm_load_test: main builds a packet from the 12 bytes it has, fewer than the 120 of the
\* command, gets NULL and returns 1.
TestDataLen == 12
CommandLen  == 120
MainExit    == IF TestDataLen < CommandLen THEN 1 ELSE 0

\* A fresh clone; a tree in which setup.sh has made the directory; one an earlier run has
\* left inputs in.
NoCorpus    == [exists |-> FALSE, seeded |-> FALSE]
EmptyCorpus == [exists |-> TRUE, seeded |-> FALSE]
SeedCorpus  == [exists |-> TRUE, seeded |-> TRUE]

AnyTree == {NoCorpus, EmptyCorpus, SeedCorpus}
Fresh   == {NoCorpus}
SetUp   == {EmptyCorpus}

=============================================================================
