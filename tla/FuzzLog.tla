------------------------------- MODULE FuzzLog -------------------------------
(***************************************************************************)
(* The debug log of utils.c, in processes that log to the same files: jobs *)
(* of one fuzzer, say.  A call is single-threaded, a message is put        *)
(* together in the buffer of its stream by three prints, and written by    *)
(* the flush at the end.  A process may crash between any two of these,    *)
(* with its buffers lost, and come back with its static variables reset.   *)
(*                                                                         *)
(* Of stdio and the system, what the code relies on: a stream writes its   *)
(* buffer when it is flushed or closed and not before (messages are        *)
(* shorter than the buffer), as one write, and a file opened with "a" is   *)
(* written at its end.                                                     *)
(***************************************************************************)
EXTENDS Integers, Sequences, FiniteSets

CONSTANTS
  Procs,          \* processes
  Files,          \* names of log files
  Null, Stdout,   \* NULL, and the stream every process has from the start
  MaxMessages,    \* messages per process
  MaxCrashes      \* crashes of all processes together

ASSUME LogAssumption ==
  /\ Null \notin Files /\ Stdout \notin Files /\ Null # Stdout
  /\ MaxMessages \in Nat /\ MaxCrashes \in Nat

VARIABLES
  g_debug_enabled,  \* per process
  g_log_file,       \* per process: the file its stream is on, Stdout, or Null
  handles,          \* per process: streams opened and not closed
  buffer,           \* per process and sink: what was printed and not written yet
  logging,          \* per process: the print of CFS_LogMessage it does next
  sent,             \* history: messages a process began
  asked,            \* history: what CFS_SetLogFile was called with last
  returned,         \* history: the messages whose call returned, with asked then
  content,          \* per sink: the pieces in it
  crashes

logVars == <<g_debug_enabled, g_log_file, handles, buffer, logging, sent, asked, returned,
             content, crashes>>

Sinks == Files \cup {Stdout}
Parts == <<"header", "body", "newline">>
Piece == [by : Procs, n : 1 .. MaxMessages, part : {"header", "body", "newline"}]

Empty == [s \in Sinks |-> << >>]

LogInit ==
  /\ g_debug_enabled = [p \in Procs |-> FALSE]
  /\ g_log_file = [p \in Procs |-> Null]
  /\ handles = [p \in Procs |-> 0]
  /\ buffer = [p \in Procs |-> Empty]
  /\ logging = [p \in Procs |-> "no"]
  /\ sent = [p \in Procs |-> 0]
  /\ asked = [p \in Procs |-> Null]
  /\ returned = {}
  /\ content = Empty
  /\ crashes = 0

CFS_EnableDebug(p) ==
  /\ logging[p] = "no"
  /\ \E enable \in BOOLEAN : g_debug_enabled' = [g_debug_enabled EXCEPT ![p] = enable]
  /\ UNCHANGED <<g_log_file, handles, buffer, logging, sent, asked, returned, content, crashes>>

\* fclose, for any stream but stdout and stderr.
Closed(p) ==
  LET f == g_log_file[p]
  IN  IF f \in Files THEN [content EXCEPT ![f] = @ \o buffer[p][f]] ELSE content

\* No fclose; one that does not ask what it closes.
HandlesLeft_NotClosed(p) == handles[p]
HandlesLeft_AnyStream(p) == handles[p] - 1

HandlesLeft(p) == IF g_log_file[p] \in Files THEN handles[p] - 1 ELSE handles[p]

\* fopen with "w".
Opened_Truncated(files, f) == IF f \in Files THEN [files EXCEPT ![f] = << >>] ELSE files

\* fopen with "a" leaves what is there.
Opened(files, f) == files

\* The stream for a name: stdout for none and when the file cannot be opened.
StreamFor(name) == IF name = Null THEN {Stdout} ELSE {name, Stdout}

CFS_SetLogFile(p) ==
  /\ logging[p] = "no"
  /\ \E name \in Files \cup {Null} : \E s \in StreamFor(name) :
       /\ asked' = [asked EXCEPT ![p] = name]
       /\ g_log_file' = [g_log_file EXCEPT ![p] = s]
       /\ handles' = [handles EXCEPT ![p] = HandlesLeft(p) + (IF s \in Files THEN 1 ELSE 0)]
       /\ content' = Opened(Closed(p), s)
  /\ buffer' = IF g_log_file[p] \in Files THEN [buffer EXCEPT ![p][g_log_file[p]] = << >>]
                                          ELSE buffer
  /\ UNCHANGED <<g_debug_enabled, logging, sent, returned, crashes>>

Target(p) == IF g_log_file[p] = Null THEN Stdout ELSE g_log_file[p]

Printed(p, n, part) ==
  [buffer EXCEPT ![p][Target(p)] = Append(@, [by |-> p, n |-> n, part |-> part])]

\* CFS_LogMessage returns at once unless debugging is enabled; then the time stamp.
PrintHeader(p) ==
  /\ logging[p] = "no"
  /\ g_debug_enabled[p]
  /\ sent[p] < MaxMessages
  /\ g_log_file' = [g_log_file EXCEPT ![p] = Target(p)]
  /\ sent' = [sent EXCEPT ![p] = @ + 1]
  /\ buffer' = Printed(p, sent[p] + 1, "header")
  /\ logging' = [logging EXCEPT ![p] = "body"]
  /\ UNCHANGED <<g_debug_enabled, handles, asked, returned, content, crashes>>

\* An unbuffered stream writes every print at once.
PrintBody_Unbuffered(p) ==
  /\ logging[p] = "body"
  /\ buffer' = [buffer EXCEPT ![p][Target(p)] = << >>]
  /\ content' = [content EXCEPT ![Target(p)] = @ \o Printed(p, sent[p], "body")[p][Target(p)]]
  /\ logging' = [logging EXCEPT ![p] = "newline"]
  /\ UNCHANGED <<g_debug_enabled, g_log_file, handles, sent, asked, returned, crashes>>

PrintBody(p) ==
  /\ logging[p] = "body"
  /\ buffer' = Printed(p, sent[p], "body")
  /\ logging' = [logging EXCEPT ![p] = "newline"]
  /\ UNCHANGED <<g_debug_enabled, g_log_file, handles, sent, asked, returned, content, crashes>>

PrintNewline(p) ==
  /\ logging[p] = "newline"
  /\ buffer' = Printed(p, sent[p], "newline")
  /\ logging' = [logging EXCEPT ![p] = "flush"]
  /\ UNCHANGED <<g_debug_enabled, g_log_file, handles, sent, asked, returned, content, crashes>>

\* A return that leaves the line in the buffer.
Flush_NotCalled(p) ==
  /\ logging[p] = "flush"
  /\ logging' = [logging EXCEPT ![p] = "no"]
  /\ returned' = returned \cup {[by |-> p, n |-> sent[p], asked |-> asked[p]]}
  /\ UNCHANGED <<g_debug_enabled, g_log_file, handles, buffer, sent, asked, content, crashes>>

\* fflush, and the return.
Flush(p) ==
  /\ logging[p] = "flush"
  /\ content' = [content EXCEPT ![Target(p)] = @ \o buffer[p][Target(p)]]
  /\ buffer' = [buffer EXCEPT ![p][Target(p)] = << >>]
  /\ logging' = [logging EXCEPT ![p] = "no"]
  /\ returned' = returned \cup {[by |-> p, n |-> sent[p], asked |-> asked[p]]}
  /\ UNCHANGED <<g_debug_enabled, g_log_file, handles, sent, asked, crashes>>

CFS_LogMessage(p) == PrintHeader(p) \/ PrintBody(p) \/ PrintNewline(p) \/ Flush(p)

\* The process dies, its streams with it, and another takes its place.
Crash(p) ==
  /\ crashes < MaxCrashes
  /\ crashes' = crashes + 1
  /\ g_debug_enabled' = [g_debug_enabled EXCEPT ![p] = FALSE]
  /\ g_log_file' = [g_log_file EXCEPT ![p] = Null]
  /\ handles' = [handles EXCEPT ![p] = 0]
  /\ buffer' = [buffer EXCEPT ![p] = Empty]
  /\ logging' = [logging EXCEPT ![p] = "no"]
  /\ asked' = [asked EXCEPT ![p] = Null]
  /\ UNCHANGED <<sent, returned, content>>

LogNext ==
  \E p \in Procs : CFS_EnableDebug(p) \/ CFS_SetLogFile(p) \/ CFS_LogMessage(p) \/ Crash(p)

LogSpec == LogInit /\ [][LogNext]_logVars

-----------------------------------------------------------------------------
(* Properties. *)

\* The state is well typed.
LogTypeOK ==
  /\ g_debug_enabled \in [Procs -> BOOLEAN]
  /\ g_log_file \in [Procs -> Sinks \cup {Null}]
  /\ handles \in [Procs -> Nat]
  /\ buffer \in [Procs -> [Sinks -> Seq(Piece)]]
  /\ logging \in [Procs -> {"no", "body", "newline", "flush"}]
  /\ sent \in [Procs -> 0 .. MaxMessages]
  /\ asked \in [Procs -> Files \cup {Null}]
  /\ returned \subseteq [by : Procs, n : 1 .. MaxMessages, asked : Files \cup {Null}]
  /\ content \in [Sinks -> Seq(Piece)]
  /\ crashes \in 0 .. MaxCrashes

\* A process has a stream open exactly when g_log_file is that stream, after any sequence of
\* opens, failing opens, returns to stdout and crashes: none is leaked, and none is closed and
\* still written to.
OneStream == \A p \in Procs : handles[p] = IF g_log_file[p] \in Files THEN 1 ELSE 0

\* The lines of a sink are whole: two processes appending to one file never mix their pieces,
\* and a crash in the middle of a message leaves nothing of it.
WholeLines ==
  \A s \in Sinks : \A i \in 1 .. Len(content[s]) :
    LET first == content[s][i - ((i - 1) % 3)]
    IN  content[s][i] = [first EXCEPT !.part = Parts[((i - 1) % 3) + 1]]

\* A message whose call returned is in exactly one sink, once, whatever crashed later; and in
\* a file only if that file is the one asked for, otherwise on stdout.
Delivered ==
  \A m \in returned :
    LET Places == {x \in UNION {{s} \X DOMAIN content[s] : s \in Sinks} :
                     content[x[1]][x[2]] = [by |-> m.by, n |-> m.n, part |-> "header"]}
    IN  /\ Cardinality(Places) = 1
        /\ \A x \in Places : x[1] \in {m.asked, Stdout}

\* What was logged stays: no call, whichever file it opens or closes, takes anything out of a
\* sink or changes the order of what is in it.
LogKept ==
  [][\A s \in Sinks : /\ Len(content'[s]) >= Len(content[s])
                      /\ SubSeq(content'[s], 1, Len(content[s])) = content[s]]_logVars

-----------------------------------------------------------------------------
(* The log implements atomic lines. *)

Lines == INSTANCE LineLog WITH inHand <- [p \in Procs |-> logging[p] # "no"]

\* Streams that are opened, closed and fall back to stdout, prints into a buffer and a flush
\* amount to this: each message is appended by a single step as one line, where it was asked
\* for or to stdout, or it is lost whole with its process, also when others write the same
\* file and whenever the crash comes.
ImplementsLineLog == Lines!LineSpec

=============================================================================
