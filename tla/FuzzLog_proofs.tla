---------------------------- MODULE FuzzLog_proofs ----------------------------
(***************************************************************************)
(* Proofs about the debug log, for any processes, files, messages and      *)
(* crashes.  The invariant has two halves.  Of a process: nothing lies in  *)
(* its buffers but the pieces printed so far of the message it is in.  Of  *)
(* a sink: it holds lines of three, of messages that are no longer under   *)
(* way, each once.                                                         *)
(***************************************************************************)
EXTENDS FuzzLog, FiniteSetTheorems, SequenceTheorems, TLAPS

PieceOf(p, part) == [by |-> p, n |-> sent[p], part |-> part]
Header(p, n) == [by |-> p, n |-> n, part |-> "header"]

BufferOK(p) ==
  /\ \A s \in Sinks : logging[p] = "no" \/ s # g_log_file[p] => buffer[p][s] = << >>
  /\ logging[p] # "no" => g_log_file[p] \in Sinks /\ sent[p] >= 1
  /\ logging[p] = "body" => buffer[p][g_log_file[p]] = <<PieceOf(p, "header")>>
  /\ logging[p] = "newline" =>
       buffer[p][g_log_file[p]] = <<PieceOf(p, "header"), PieceOf(p, "body")>>
  /\ logging[p] = "flush" =>
       buffer[p][g_log_file[p]] =
         <<PieceOf(p, "header"), PieceOf(p, "body"), PieceOf(p, "newline")>>

Buffers == \A p \in Procs : BufferOK(p)

Asked == \A p \in Procs : g_log_file[p] \in {asked[p], Stdout, Null}

ProcInv == LogTypeOK /\ OneStream /\ Buffers /\ Asked

Thirds == \A s \in Sinks : Len(content[s]) % 3 = 0

\* The messages in the sinks are over.
Over ==
  \A s \in Sinks : \A i \in DOMAIN content[s] :
    LET p == content[s][i].by
    IN  content[s][i].n <= sent[p] /\ (logging[p] # "no" => content[s][i].n < sent[p])

NeverTwice ==
  \A s, t \in Sinks : \A i \in DOMAIN content[s], j \in DOMAIN content[t] :
    content[s][i].part = "header" /\ content[s][i] = content[t][j] => s = t /\ i = j

Found ==
  \A m \in returned : \E s \in Sinks \cap {m.asked, Stdout} : \E i \in DOMAIN content[s] :
    content[s][i] = Header(m.by, m.n)

SinkInv == Thirds /\ WholeLines /\ Over /\ NeverTwice /\ Found

LogInv == ProcInv /\ SinkInv

USE DEF LogTypeOK

LEMMA AppendPair ==
  ASSUME NEW S, NEW a \in S, NEW b \in S
  PROVE  Append(<<a>>, b) = <<a, b>>
<1>1. /\ Append(<<a>>, b) \in Seq(S) /\ Len(Append(<<a>>, b)) = 2
      /\ Append(<<a>>, b)[1] = a /\ Append(<<a>>, b)[2] = b
  OBVIOUS
<1>2. Len(<<a, b>>) = 2 /\ <<a, b>>[1] = a /\ <<a, b>>[2] = b
  OBVIOUS
<1>3. \A i \in 1 .. Len(Append(<<a>>, b)) : Append(<<a>>, b)[i] = <<a, b>>[i]
  BY <1>1, <1>2
<1>4. <<a, b>> \in Seq(S)
  OBVIOUS
<1> QED
  BY <1>1, <1>2, <1>3, <1>4, SeqEqual

\* Sequences of pieces, and a process' buffer replaced.
LEMMA SeqFacts ==
  ASSUME NEW S, NEW a \in S, NEW b \in S, NEW c \in S
  PROVE  /\ << >> \in Seq(S) /\ <<a>> \in Seq(S) /\ <<a, b>> \in Seq(S) /\ <<a, b, c>> \in Seq(S)
         /\ Append(<< >>, a) = <<a>> /\ Append(<<a>>, b) = <<a, b>>
         /\ Append(<<a, b>>, c) = <<a, b, c>>
<1>1. << >> \in Seq(S) /\ <<a>> \in Seq(S) /\ <<a, b>> \in Seq(S) /\ <<a, b, c>> \in Seq(S)
  OBVIOUS
<1>2. Append(<< >>, a) = <<a>>
  OBVIOUS
<1>3. Append(<<a>>, b) = <<a, b>>
  BY AppendPair
<1>4. Append(<<a, b>>, c) = <<a, b, c>>
  <2>1. /\ Append(<<a, b>>, c) \in Seq(S) /\ Len(Append(<<a, b>>, c)) = 3
        /\ Append(<<a, b>>, c)[1] = a /\ Append(<<a, b>>, c)[2] = b
        /\ Append(<<a, b>>, c)[3] = c
    OBVIOUS
  <2>2. Len(<<a, b, c>>) = 3 /\ <<a, b, c>>[1] = a /\ <<a, b, c>>[2] = b /\ <<a, b, c>>[3] = c
    OBVIOUS
  <2>3. \A i \in 1 .. Len(Append(<<a, b>>, c)) : Append(<<a, b>>, c)[i] = <<a, b, c>>[i]
    BY <2>1, <2>2
  <2> QED
    BY <1>1, <2>1, <2>2, <2>3, SeqEqual
<1> QED
  BY <1>1, <1>2, <1>3, <1>4

LEMMA SinkFacts == Stdout \in Sinks /\ Null \notin Sinks /\ Files \subseteq Sinks
BY LogAssumption DEF Sinks

LEMMA BufferSet ==
  ASSUME buffer \in [Procs -> [Sinks -> Seq(Piece)]], NEW p \in Procs, NEW t \in Sinks,
         NEW q \in Seq(Piece), buffer' = [buffer EXCEPT ![p][t] = q]
  PROVE  /\ buffer' \in [Procs -> [Sinks -> Seq(Piece)]]
         /\ \A r \in Procs, s \in Sinks :
              buffer'[r][s] = IF r = p /\ s = t THEN q ELSE buffer[r][s]
OBVIOUS

LEMMA LogInitInv == LogInit => LogInv
<1> SUFFICES ASSUME LogInit PROVE LogInv
  OBVIOUS
<1>1. Empty \in [Sinks -> Seq(Piece)] /\ \A s \in Sinks : Empty[s] = << >> /\ DOMAIN Empty[s] = {}
  BY DEF Empty
<1>2. ProcInv
  <2>1. LogTypeOK
    BY <1>1, LogAssumption DEF LogInit
  <2> QED
    BY <1>1, <2>1, LogAssumption DEF LogInit, ProcInv, OneStream, Buffers, BufferOK, Asked
<1>3. \A s \in Sinks : content[s] = << >> /\ DOMAIN content[s] = {} /\ Len(content[s]) = 0
  BY <1>1 DEF LogInit
<1>4. Thirds /\ Over /\ NeverTwice
  <2>1. Thirds
    <3>1. 0 % 3 = 0
      OBVIOUS
    <3> QED
      BY <1>3, <3>1 DEF Thirds
  <2>2. Over /\ NeverTwice
    BY <1>3 DEF Over, NeverTwice
  <2> QED
    BY <2>1, <2>2
<1>5. WholeLines
  <2>1. \A s \in Sinks : 1 .. Len(content[s]) = {}
    BY <1>3
  <2> QED
    BY <2>1 DEF WholeLines
<1>6. Found
  BY DEF LogInit, Found
<1> QED
  BY <1>2, <1>4, <1>5, <1>6 DEF LogInv, SinkInv

\* A process that opens or closes a stream has nothing in its buffers.
LEMMA ClosingWritesNothing ==
  ASSUME ProcInv, NEW p \in Procs, logging[p] = "no"
  PROVE  Closed(p) = content
<1>1. CASE g_log_file[p] \in Files
  <2> DEFINE f == g_log_file[p]
  <2>1. f \in Sinks /\ buffer[p][f] = << >> /\ content[f] \in Seq(Piece)
    BY <1>1, SinkFacts DEF ProcInv, Buffers, BufferOK
  <2>2. content[f] \o buffer[p][f] = content[f]
    BY <2>1, ConcatEmptySeq
  <2>3. [content EXCEPT ![f] = content[f]] = content
    BY DEF ProcInv
  <2> QED
    BY <1>1, <2>2, <2>3 DEF Closed
<1> QED
  BY <1>1 DEF Closed

LEMMA EnableProc == ASSUME ProcInv, NEW p \in Procs, CFS_EnableDebug(p) PROVE ProcInv'
BY DEF CFS_EnableDebug, ProcInv, OneStream, Buffers, BufferOK, Asked, PieceOf

LEMMA SetLogFileProc ==
  ASSUME ProcInv, NEW p \in Procs, CFS_SetLogFile(p) PROVE ProcInv'
<1>1. PICK name \in Files \cup {Null} : \E s \in StreamFor(name) :
       /\ asked' = [asked EXCEPT ![p] = name]
       /\ g_log_file' = [g_log_file EXCEPT ![p] = s]
       /\ handles' = [handles EXCEPT ![p] = HandlesLeft(p) + (IF s \in Files THEN 1 ELSE 0)]
       /\ content' = Opened(Closed(p), s)
  BY DEF CFS_SetLogFile
<1>2. PICK s \in StreamFor(name) :
       /\ asked' = [asked EXCEPT ![p] = name]
       /\ g_log_file' = [g_log_file EXCEPT ![p] = s]
       /\ handles' = [handles EXCEPT ![p] = HandlesLeft(p) + (IF s \in Files THEN 1 ELSE 0)]
       /\ content' = Opened(Closed(p), s)
  BY <1>1
<1>3. s \in Sinks /\ s \in {name, Stdout} /\ logging[p] = "no"
  BY SinkFacts DEF StreamFor, CFS_SetLogFile
<1>4. content' = content
  BY <1>2, <1>3, ClosingWritesNothing DEF Opened
<1>5. HandlesLeft(p) = 0
  BY DEF HandlesLeft, ProcInv, OneStream
<1>6. \A t \in Sinks : buffer[p][t] = << >>
  BY <1>3 DEF ProcInv, Buffers, BufferOK
<1>7. buffer' = buffer
  <2>1. CASE g_log_file[p] \in Files
    <3>1. buffer' = [buffer EXCEPT ![p][g_log_file[p]] = << >>]
      BY <2>1 DEF CFS_SetLogFile
    <3>2. [buffer[p] EXCEPT ![g_log_file[p]] = << >>] = buffer[p]
      BY <1>6, <2>1 DEF ProcInv
    <3> QED
      BY <3>1, <3>2 DEF ProcInv
  <2>2. CASE g_log_file[p] \notin Files
    BY <2>2 DEF CFS_SetLogFile
  <2> QED
    BY <2>1, <2>2
<1>8. UNCHANGED <<g_debug_enabled, logging, sent, returned, crashes, buffer, content>>
  BY <1>4, <1>7 DEF CFS_SetLogFile
<1>9. LogTypeOK'
  BY <1>2, <1>3, <1>5, <1>8 DEF ProcInv
<1>10. OneStream' /\ Asked'
  BY <1>2, <1>3, <1>5, <1>8 DEF ProcInv, OneStream, Asked
<1>11. Buffers'
  BY <1>2, <1>3, <1>6, <1>8 DEF ProcInv, Buffers, BufferOK, PieceOf
<1> QED
  BY <1>9, <1>10, <1>11 DEF ProcInv

LEMMA PrintHeaderProc == ASSUME ProcInv, NEW p \in Procs, PrintHeader(p) PROVE ProcInv'
<1> DEFINE t == Target(p)
           piece == Header(p, sent[p] + 1)
<1>1. t \in Sinks /\ t = (IF g_log_file[p] = Null THEN Stdout ELSE g_log_file[p])
  BY SinkFacts DEF Target, ProcInv
<1>2. /\ logging[p] = "no" /\ sent[p] + 1 \in 1 .. MaxMessages
      /\ g_log_file' = [g_log_file EXCEPT ![p] = t]
      /\ sent' = [sent EXCEPT ![p] = @ + 1]
      /\ logging' = [logging EXCEPT ![p] = "body"]
      /\ UNCHANGED <<g_debug_enabled, handles, asked, returned, content, crashes>>
  BY LogAssumption DEF PrintHeader, ProcInv
<1>3. \A s \in Sinks : buffer[p][s] = << >>
  BY <1>2 DEF ProcInv, Buffers, BufferOK
<1>4. piece \in Piece
  BY <1>2 DEF Header, Piece
<1>5. Append(buffer[p][t], piece) = <<piece>> /\ <<piece>> \in Seq(Piece)
  BY <1>1, <1>3, <1>4, SeqFacts
<1>6. buffer' = [buffer EXCEPT ![p][t] = <<piece>>]
  BY <1>5 DEF PrintHeader, Printed, ProcInv, Header
<1> HIDE DEF t, piece
<1>7. /\ buffer' \in [Procs -> [Sinks -> Seq(Piece)]]
      /\ \A r \in Procs, s \in Sinks :
           buffer'[r][s] = IF r = p /\ s = t THEN <<piece>> ELSE buffer[r][s]
  BY <1>1, <1>5, <1>6, BufferSet DEF ProcInv
<1>8. LogTypeOK'
  <2>1. sent' \in [Procs -> 0 .. MaxMessages] /\ g_log_file' \in [Procs -> Sinks \cup {Null}]
    BY <1>1, <1>2, LogAssumption DEF ProcInv
  <2> QED
    BY <1>2, <1>7, <2>1 DEF ProcInv
<1>9. OneStream' /\ Asked'
  BY <1>1, <1>2, LogAssumption DEF ProcInv, OneStream, Asked
<1>10. Buffers'
  <2>1. ASSUME NEW r \in Procs, r # p
        PROVE  /\ logging'[r] = logging[r] /\ g_log_file'[r] = g_log_file[r] /\ sent'[r] = sent[r]
               /\ \A s \in Sinks : buffer'[r][s] = buffer[r][s]
               /\ \A part : PieceOf(r, part)' = PieceOf(r, part)
    BY <1>2, <1>7, <2>1 DEF ProcInv, PieceOf
  <2>2. /\ logging'[p] = "body" /\ g_log_file'[p] = t /\ sent'[p] >= 1
        /\ PieceOf(p, "header")' = piece
        /\ \A s \in Sinks : buffer'[p][s] = IF s = t THEN <<piece>> ELSE << >>
    BY <1>1, <1>2, <1>3, <1>7 DEF ProcInv, PieceOf, piece, Header
  <2>3. \A r \in Procs \ {p} : BufferOK(r)'
    BY <2>1 DEF ProcInv, Buffers, BufferOK
  <2>4. BufferOK(p)'
    BY <1>1, <2>2 DEF BufferOK
  <2> QED
    BY <2>3, <2>4 DEF Buffers
<1> QED
  BY <1>8, <1>9, <1>10 DEF ProcInv

\* The second and the third print add to what the first left in the buffer.
LEMMA PrintBodyProc == ASSUME ProcInv, NEW p \in Procs, PrintBody(p) PROVE ProcInv'
<1> DEFINE t == g_log_file[p]
           line == <<PieceOf(p, "header"), PieceOf(p, "body")>>
<1>1. /\ logging[p] = "body" /\ t \in Sinks /\ Target(p) = t /\ sent[p] \in 1 .. MaxMessages
      /\ buffer[p][t] = <<PieceOf(p, "header")>>
  BY LogAssumption, SinkFacts DEF PrintBody, ProcInv, Buffers, BufferOK, Target
<1>2. \A part \in {"header", "body", "newline"} : PieceOf(p, part) \in Piece
  BY <1>1 DEF PieceOf, Piece
<1>3. Append(buffer[p][t], PieceOf(p, "body")) = line /\ line \in Seq(Piece)
  <2> DEFINE a == PieceOf(p, "header")
             b == PieceOf(p, "body")
  <2>1. a \in Piece /\ b \in Piece
    BY <1>2
  <2> HIDE DEF a, b
  <2>2. Append(<<a>>, b) = <<a, b>>
    BY <2>1, AppendPair
  <2>3. <<a, b>> \in Seq(Piece)
    BY <2>1
  <2> QED
    BY <1>1, <2>2, <2>3 DEF a, b
<1>4. buffer' = [buffer EXCEPT ![p][t] = line]
  BY <1>1, <1>3 DEF PrintBody, Printed, ProcInv, PieceOf
<1>5. /\ logging' = [logging EXCEPT ![p] = "newline"]
      /\ UNCHANGED <<g_debug_enabled, g_log_file, handles, sent, asked, returned, content, crashes>>
  BY DEF PrintBody
<1> HIDE DEF line
<1>6. /\ buffer' \in [Procs -> [Sinks -> Seq(Piece)]]
      /\ \A r \in Procs, s \in Sinks :
           buffer'[r][s] = IF r = p /\ s = t THEN line ELSE buffer[r][s]
  BY <1>1, <1>3, <1>4, BufferSet DEF ProcInv
<1>7. LogTypeOK' /\ OneStream' /\ Asked'
  BY <1>5, <1>6 DEF ProcInv, OneStream, Asked
<1>8. \A r \in Procs \ {p} : BufferOK(r)'
  BY <1>5, <1>6 DEF ProcInv, Buffers, BufferOK, PieceOf
<1>9. BufferOK(p)'
  BY <1>1, <1>5, <1>6 DEF ProcInv, Buffers, BufferOK, PieceOf, line
<1> QED
  BY <1>7, <1>8, <1>9 DEF ProcInv, Buffers

LEMMA PrintNewlineProc == ASSUME ProcInv, NEW p \in Procs, PrintNewline(p) PROVE ProcInv'
<1> DEFINE t == g_log_file[p]
           line == <<PieceOf(p, "header"), PieceOf(p, "body"), PieceOf(p, "newline")>>
<1>1. /\ logging[p] = "newline" /\ t \in Sinks /\ Target(p) = t /\ sent[p] \in 1 .. MaxMessages
      /\ buffer[p][t] = <<PieceOf(p, "header"), PieceOf(p, "body")>>
  BY LogAssumption, SinkFacts DEF PrintNewline, ProcInv, Buffers, BufferOK, Target
<1>2. \A part \in {"header", "body", "newline"} : PieceOf(p, part) \in Piece
  BY <1>1 DEF PieceOf, Piece
<1>3. Append(buffer[p][t], PieceOf(p, "newline")) = line /\ line \in Seq(Piece)
  BY <1>1, <1>2, SeqFacts
<1>4. buffer' = [buffer EXCEPT ![p][t] = line]
  BY <1>1, <1>3 DEF PrintNewline, Printed, ProcInv, PieceOf
<1>5. /\ logging' = [logging EXCEPT ![p] = "flush"]
      /\ UNCHANGED <<g_debug_enabled, g_log_file, handles, sent, asked, returned, content, crashes>>
  BY DEF PrintNewline
<1> HIDE DEF line
<1>6. /\ buffer' \in [Procs -> [Sinks -> Seq(Piece)]]
      /\ \A r \in Procs, s \in Sinks :
           buffer'[r][s] = IF r = p /\ s = t THEN line ELSE buffer[r][s]
  BY <1>1, <1>3, <1>4, BufferSet DEF ProcInv
<1>7. LogTypeOK' /\ OneStream' /\ Asked'
  BY <1>5, <1>6 DEF ProcInv, OneStream, Asked
<1>8. \A r \in Procs \ {p} : BufferOK(r)'
  BY <1>5, <1>6 DEF ProcInv, Buffers, BufferOK, PieceOf
<1>9. BufferOK(p)'
  BY <1>1, <1>5, <1>6 DEF ProcInv, Buffers, BufferOK, PieceOf, line
<1> QED
  BY <1>7, <1>8, <1>9 DEF ProcInv, Buffers

\* What a flush writes.
LEMMA FlushWrites ==
  ASSUME ProcInv, NEW p \in Procs, Flush(p)
  PROVE  /\ g_log_file[p] \in Sinks /\ sent[p] \in 1 .. MaxMessages
         /\ content' = [content EXCEPT ![g_log_file[p]] = @ \o
              <<PieceOf(p, "header"), PieceOf(p, "body"), PieceOf(p, "newline")>>]
         /\ buffer' = [buffer EXCEPT ![p][g_log_file[p]] = << >>]
         /\ <<PieceOf(p, "header"), PieceOf(p, "body"), PieceOf(p, "newline")>> \in Seq(Piece)
<1>1. /\ logging[p] = "flush" /\ g_log_file[p] \in Sinks /\ Target(p) = g_log_file[p]
      /\ sent[p] \in 1 .. MaxMessages
  BY LogAssumption, SinkFacts DEF Flush, ProcInv, Buffers, BufferOK, Target
<1>2. buffer[p][g_log_file[p]] =
        <<PieceOf(p, "header"), PieceOf(p, "body"), PieceOf(p, "newline")>>
  BY <1>1 DEF ProcInv, Buffers, BufferOK
<1>3. \A part \in {"header", "body", "newline"} : PieceOf(p, part) \in Piece
  BY <1>1 DEF PieceOf, Piece
<1>4. <<PieceOf(p, "header"), PieceOf(p, "body"), PieceOf(p, "newline")>> \in Seq(Piece)
  BY <1>3, SeqFacts
<1> QED
  BY <1>1, <1>2, <1>4 DEF Flush

LEMMA FlushProc == ASSUME ProcInv, NEW p \in Procs, Flush(p) PROVE ProcInv'
<1> DEFINE t == g_log_file[p]
           line == <<PieceOf(p, "header"), PieceOf(p, "body"), PieceOf(p, "newline")>>
<1>1. /\ t \in Sinks /\ sent[p] \in 1 .. MaxMessages /\ line \in Seq(Piece)
      /\ content' = [content EXCEPT ![t] = @ \o line]
      /\ buffer' = [buffer EXCEPT ![p][t] = << >>]
  BY FlushWrites
<1> HIDE DEF line
<1>2. /\ logging[p] = "flush" /\ logging' = [logging EXCEPT ![p] = "no"]
      /\ returned' = returned \cup {[by |-> p, n |-> sent[p], asked |-> asked[p]]}
      /\ UNCHANGED <<g_debug_enabled, g_log_file, handles, sent, asked, crashes>>
  BY DEF Flush
<1>3. content[t] \o line \in Seq(Piece)
  BY <1>1, ConcatProperties DEF ProcInv
<1>4. /\ buffer' \in [Procs -> [Sinks -> Seq(Piece)]]
      /\ \A r \in Procs, s \in Sinks :
           buffer'[r][s] = IF r = p /\ s = t THEN << >> ELSE buffer[r][s]
  BY <1>1, SeqFacts, BufferSet, EmptySeq DEF ProcInv
<1>5. [by |-> p, n |-> sent[p], asked |-> asked[p]]
        \in [by : Procs, n : 1 .. MaxMessages, asked : Files \cup {Null}]
  BY <1>1 DEF ProcInv
<1>6. content' \in [Sinks -> Seq(Piece)]
  BY <1>1, <1>3 DEF ProcInv
<1>7. LogTypeOK'
  BY <1>2, <1>4, <1>5, <1>6 DEF ProcInv
<1>8. OneStream' /\ Asked'
  BY <1>2 DEF ProcInv, OneStream, Asked
<1>9. Buffers'
  BY <1>1, <1>2, <1>4 DEF ProcInv, Buffers, BufferOK, PieceOf
<1> QED
  BY <1>7, <1>8, <1>9 DEF ProcInv

LEMMA CrashProc == ASSUME ProcInv, NEW p \in Procs, Crash(p) PROVE ProcInv'
<1>1. Empty \in [Sinks -> Seq(Piece)] /\ \A s \in Sinks : Empty[s] = << >>
  BY DEF Empty
<1>2. LogTypeOK'
  BY <1>1, LogAssumption DEF ProcInv, Crash
<1>3. OneStream' /\ Asked'
  BY LogAssumption DEF ProcInv, OneStream, Asked, Crash
<1>4. Buffers'
  BY <1>1 DEF ProcInv, Buffers, BufferOK, Crash, PieceOf
<1> QED
  BY <1>2, <1>3, <1>4 DEF ProcInv

\* A step leaves the sinks and the calls that returned alone, and no message over is begun
\* again, or it is a flush.
SinksKept ==
  /\ content' = content /\ returned' = returned
  /\ \A p \in Procs :
       /\ sent'[p] >= sent[p]
       /\ logging'[p] # "no" =>
            sent'[p] > sent[p] \/ (logging[p] # "no" /\ sent'[p] = sent[p])

LEMMA ControlTypes ==
  ASSUME ProcInv
  PROVE  sent \in [Procs -> Int] /\ logging \in [Procs -> {"no", "body", "newline", "flush"}]
BY DEF ProcInv

HIDE DEF LogTypeOK

LEMMA StepInv ==
  ASSUME ProcInv, [LogNext]_logVars
  PROVE  ProcInv' /\ (SinksKept \/ \E p \in Procs : Flush(p))
<1>1. CASE UNCHANGED logVars
  <2>1. ProcInv'
    BY <1>1 DEF logVars, ProcInv, OneStream, Buffers, BufferOK, Asked, PieceOf, LogTypeOK
  <2>2. SinksKept
    BY <1>1, ControlTypes DEF logVars, SinksKept
  <2> QED
    BY <2>1, <2>2
<1>2. ASSUME NEW p \in Procs, CFS_EnableDebug(p) PROVE ProcInv' /\ SinksKept
  <2>1. ProcInv'
    BY <1>2, EnableProc
  <2>2. SinksKept
    BY <1>2, ControlTypes DEF CFS_EnableDebug, SinksKept
  <2> QED
    BY <2>1, <2>2
<1>3. ASSUME NEW p \in Procs, CFS_SetLogFile(p) PROVE ProcInv' /\ SinksKept
  <2>1. logging[p] = "no" /\ UNCHANGED <<logging, sent, returned>>
    BY <1>3 DEF CFS_SetLogFile
  <2>2. content' = content
    BY <1>3, <2>1, ClosingWritesNothing DEF CFS_SetLogFile, Opened
  <2>3. SinksKept
    BY <2>1, <2>2, ControlTypes DEF SinksKept
  <2> QED
    BY <1>3, <2>3, SetLogFileProc
<1>4. ASSUME NEW p \in Procs, PrintHeader(p) PROVE ProcInv' /\ SinksKept
  <2>1. ProcInv'
    BY <1>4, PrintHeaderProc
  <2>2. SinksKept
    BY <1>4, ControlTypes DEF PrintHeader, SinksKept
  <2> QED
    BY <2>1, <2>2
<1>5. ASSUME NEW p \in Procs, PrintBody(p) \/ PrintNewline(p) PROVE ProcInv' /\ SinksKept
  BY <1>5, PrintBodyProc, PrintNewlineProc, ControlTypes DEF PrintBody, PrintNewline, SinksKept
<1>6. ASSUME NEW p \in Procs, Flush(p) PROVE ProcInv'
  BY <1>6, FlushProc
<1>7. ASSUME NEW p \in Procs, Crash(p) PROVE ProcInv' /\ SinksKept
  <2>1. ProcInv'
    BY <1>7, CrashProc
  <2>2. SinksKept
    BY <1>7, ControlTypes DEF Crash, SinksKept
  <2> QED
    BY <2>1, <2>2
<1> QED
  BY <1>1, <1>2, <1>3, <1>4, <1>5, <1>6, <1>7 DEF LogNext, CFS_LogMessage

LEMMA KeptInv == ASSUME ProcInv, ProcInv', SinkInv, SinksKept PROVE SinkInv'
<1>1. \A s \in Sinks : \A i \in DOMAIN content[s] : content[s][i].by \in Procs /\ content[s][i].n \in Int
  <2> SUFFICES ASSUME NEW s \in Sinks, NEW i \in DOMAIN content[s]
               PROVE  content[s][i].by \in Procs /\ content[s][i].n \in Int
    OBVIOUS
  <2>1. content[s] \in Seq(Piece)
    BY DEF ProcInv, LogTypeOK
  <2>2. content[s][i] \in Piece
    BY <2>1, ElementOfSeq, LenProperties
  <2> QED
    BY <2>2 DEF Piece
<1>2. ASSUME NEW s \in Sinks, NEW i \in DOMAIN content[s]
      PROVE  LET p == content[s][i].by
             IN  content[s][i].n <= sent'[p] /\ (logging'[p] # "no" => content[s][i].n < sent'[p])
  <2> DEFINE p == content[s][i].by
             n == content[s][i].n
  <2>1. p \in Procs /\ n \in Int
    BY <1>1
  <2>2. n <= sent[p] /\ (logging[p] # "no" => n < sent[p])
    BY DEF SinkInv, Over
  <2>3. /\ sent'[p] >= sent[p]
        /\ logging'[p] # "no" => sent'[p] > sent[p] \/ (logging[p] # "no" /\ sent'[p] = sent[p])
    BY <2>1 DEF SinksKept
  <2> HIDE DEF p, n
  <2>4. sent[p] \in Int /\ sent'[p] \in Int
    BY <2>1 DEF ProcInv, LogTypeOK
  <2>5. n <= sent'[p] /\ (logging'[p] # "no" => n < sent'[p])
    BY <2>1, <2>2, <2>3, <2>4
  <2> QED
    BY <2>5 DEF p, n
<1>3. Over'
  BY <1>2 DEF SinksKept, Over
<1>4. Thirds' /\ Found'
  BY DEF SinkInv, SinksKept, Thirds, Found, Header
<1>5. NeverTwice'
  BY DEF SinkInv, SinksKept, NeverTwice
<1>6. WholeLines'
  BY DEF SinkInv, SinksKept, WholeLines
<1> QED
  BY <1>3, <1>4, <1>5, <1>6 DEF SinkInv

LEMMA FlushAppends ==
  ASSUME ProcInv, NEW p \in Procs, Flush(p), NEW t, t = g_log_file[p], NEW L, L = Len(content[t])
  PROVE  /\ t \in Sinks /\ L \in Nat /\ Len(content'[t]) = L + 3
         /\ \A i \in 1 .. L : content'[t][i] = content[t][i]
         /\ content'[t][L + 1] = PieceOf(p, "header")
         /\ content'[t][L + 2] = PieceOf(p, "body")
         /\ content'[t][L + 3] = PieceOf(p, "newline")
         /\ \A s \in Sinks \ {t} : content'[s] = content[s]
         /\ \A s \in Sinks : /\ content[s] \in Seq(Piece) /\ DOMAIN content[s] = 1 .. Len(content[s])
                             /\ content'[s] \in Seq(Piece) /\ DOMAIN content'[s] = 1 .. Len(content'[s])
<1> DEFINE line == <<PieceOf(p, "header"), PieceOf(p, "body"), PieceOf(p, "newline")>>
<1>1. /\ t \in Sinks /\ line \in Seq(Piece)
      /\ content' = [content EXCEPT ![t] = @ \o line]
  BY FlushWrites
<1>2. /\ Len(line) = 3 /\ line[1] = PieceOf(p, "header") /\ line[2] = PieceOf(p, "body")
      /\ line[3] = PieceOf(p, "newline")
  OBVIOUS
<1> HIDE DEF line
<1>3. content[t] \in Seq(Piece) /\ L \in Nat
  BY <1>1, LenProperties DEF ProcInv, LogTypeOK
<1>4. /\ content'[t] = content[t] \o line
      /\ \A s \in Sinks \ {t} : content'[s] = content[s]
  BY <1>1 DEF ProcInv, LogTypeOK
<1>5. /\ content[t] \o line \in Seq(Piece) /\ Len(content[t] \o line) = L + 3
      /\ \A i \in 1 .. L + 3 :
           (content[t] \o line)[i] = IF i <= L THEN content[t][i] ELSE line[i - L]
  <2> DEFINE q == content[t]
  <2>1. q \in Seq(Piece) /\ L = Len(q)
    BY <1>3
  <2> HIDE DEF q
  <2>2. /\ q \o line \in Seq(Piece)
        /\ Len(q \o line) = Len(q) + Len(line)
        /\ \A i \in 1 .. Len(q) + Len(line) :
              (q \o line)[i] = IF i <= Len(q) THEN q[i] ELSE line[i - Len(q)]
    BY <1>1, <2>1, ConcatProperties
  <2>3. /\ q \o line \in Seq(Piece) /\ Len(q \o line) = L + 3
        /\ \A i \in 1 .. L + 3 : (q \o line)[i] = IF i <= L THEN q[i] ELSE line[i - L]
    BY <1>2, <2>1, <2>2
  <2> QED
    BY <2>3 DEF q
<1>6. \A i \in 1 .. L : content'[t][i] = content[t][i]
  BY <1>3, <1>4, <1>5
<1>7. /\ content'[t][L + 1] = line[1] /\ content'[t][L + 2] = line[2]
      /\ content'[t][L + 3] = line[3]
  BY <1>3, <1>4, <1>5
<1>8. \A s \in Sinks : content[s] \in Seq(Piece) /\ content'[s] \in Seq(Piece)
  BY <1>3, <1>4, <1>5, <1>1 DEF ProcInv, LogTypeOK
<1>9. \A s \in Sinks : /\ DOMAIN content[s] = 1 .. Len(content[s])
                       /\ DOMAIN content'[s] = 1 .. Len(content'[s])
  BY <1>8, LenProperties
<1> QED
  BY <1>1, <1>2, <1>3, <1>4, <1>5, <1>6, <1>7, <1>8, <1>9

\* Where the three pieces that follow a whole number of lines stand in theirs.
LEMMA NextThird ==
  ASSUME NEW n \in Nat, n % 3 = 0
  PROVE  /\ (n + 1) - (((n + 1) - 1) % 3) = n + 1 /\ ((n + 1) - 1) % 3 = 0
         /\ (n + 2) - (((n + 2) - 1) % 3) = n + 1 /\ ((n + 2) - 1) % 3 = 1
         /\ (n + 3) - (((n + 3) - 1) % 3) = n + 1 /\ ((n + 3) - 1) % 3 = 2
<1>1. (n + 1) - 1 = n /\ (n + 2) - 1 = n + 1 /\ (n + 3) - 1 = n + 2
  OBVIOUS
<1>2. (n + 1) % 3 = 1
  OBVIOUS
<1>3. (n + 2) % 3 = 2
  OBVIOUS
<1> QED
  BY <1>1, <1>2, <1>3

\* A line appended keeps the lines whole, and the message in it is not yet in any sink.
LEMMA FlushSinks == ASSUME ProcInv, SinkInv, NEW p \in Procs, Flush(p) PROVE SinkInv'
<1> DEFINE t == g_log_file[p]
           L == Len(content[t])
           n == sent[p]
<1>1. /\ t \in Sinks /\ L \in Nat /\ Len(content'[t]) = L + 3
      /\ \A i \in 1 .. L : content'[t][i] = content[t][i]
      /\ content'[t][L + 1] = PieceOf(p, "header")
      /\ content'[t][L + 2] = PieceOf(p, "body")
      /\ content'[t][L + 3] = PieceOf(p, "newline")
      /\ \A s \in Sinks \ {t} : content'[s] = content[s]
      /\ \A s \in Sinks : /\ content[s] \in Seq(Piece) /\ DOMAIN content[s] = 1 .. Len(content[s])
                          /\ content'[s] \in Seq(Piece) /\ DOMAIN content'[s] = 1 .. Len(content'[s])
  BY FlushAppends
<1>2. /\ logging[p] = "flush" /\ logging' = [logging EXCEPT ![p] = "no"] /\ sent' = sent
      /\ returned' = returned \cup {[by |-> p, n |-> n, asked |-> asked[p]]}
  BY DEF Flush
<1>3. /\ PieceOf(p, "header") = [by |-> p, n |-> n, part |-> "header"]
      /\ PieceOf(p, "body") = [by |-> p, n |-> n, part |-> "body"]
      /\ PieceOf(p, "newline") = [by |-> p, n |-> n, part |-> "newline"]
  BY DEF PieceOf
<1>4. n \in Int /\ sent \in [Procs -> Int]
  BY ControlTypes
<1>5. L % 3 = 0
  BY <1>1 DEF SinkInv, Thirds
<1>6. t \in {asked[p], Stdout}
  BY <1>1, SinkFacts DEF ProcInv, Asked
<1> HIDE DEF t, L, n
<1>7. \A s \in Sinks : \A i \in DOMAIN content'[s] :
        \/ i \in DOMAIN content[s] /\ content'[s][i] = content[s][i]
        \/ s = t /\ i \in {L + 1, L + 2, L + 3}
  <2> SUFFICES ASSUME NEW s \in Sinks, NEW i \in DOMAIN content'[s]
               PROVE  \/ i \in DOMAIN content[s] /\ content'[s][i] = content[s][i]
                      \/ s = t /\ i \in {L + 1, L + 2, L + 3}
    OBVIOUS
  <2>1. CASE s = t
    <3>1. i \in 1 .. L + 3 /\ DOMAIN content[t] = 1 .. L
      BY <1>1, <2>1 DEF L
    <3> QED
      BY <1>1, <2>1, <3>1
  <2>2. CASE s # t
    BY <1>1, <2>2
  <2> QED
    BY <2>1, <2>2
<1>8. Thirds'
  <2>1. (L + 3) % 3 = 0
    BY <1>1, <1>5
  <2>2. \A s \in Sinks : Len(content'[s]) % 3 = 0
    BY <1>1, <2>1 DEF SinkInv, Thirds
  <2> QED
    BY <2>2 DEF Thirds
<1>9. WholeLines'
  <2> DEFINE Whole(c, i) ==
               c[i] = [c[i - ((i - 1) % 3)] EXCEPT !.part = Parts[((i - 1) % 3) + 1]]
  <2>1. \A s \in Sinks : \A i \in 1 .. Len(content[s]) : Whole(content[s], i)
    BY DEF SinkInv, WholeLines
  <2>2. ASSUME NEW i \in 1 .. L PROVE Whole(content'[t], i)
    <3>1. i - ((i - 1) % 3) \in 1 .. L
      <4>1. L \in Nat /\ (i - 1) \in Nat
        BY <1>1
      <4>2. \A k \in Nat : k % 3 \in 0 .. k
        OBVIOUS
      <4> QED
        BY <4>1, <4>2
    <3>2. Whole(content[t], i)
      BY <1>1, <2>1 DEF L
    <3> QED
      BY <1>1, <3>1, <3>2
  <2>3. /\ (L + 1) - (((L + 1) - 1) % 3) = L + 1 /\ ((L + 1) - 1) % 3 = 0
        /\ (L + 2) - (((L + 2) - 1) % 3) = L + 1 /\ ((L + 2) - 1) % 3 = 1
        /\ (L + 3) - (((L + 3) - 1) % 3) = L + 1 /\ ((L + 3) - 1) % 3 = 2
    <3>1. L \in Nat /\ L % 3 = 0
      BY <1>1, <1>5
    <3> HIDE DEF L
    <3> QED
      BY <3>1, NextThird
  <2>4. Parts[0 + 1] = "header" /\ Parts[1 + 1] = "body" /\ Parts[2 + 1] = "newline"
    BY DEF Parts
  <2>5. Whole(content'[t], L + 1) /\ Whole(content'[t], L + 2) /\ Whole(content'[t], L + 3)
    <3> DEFINE d == content'[t]
    <3>1. \A part : [PieceOf(p, "header") EXCEPT !.part = part] = PieceOf(p, part)
      BY DEF PieceOf
    <3>2. /\ d[L + 1] = PieceOf(p, "header") /\ d[L + 2] = PieceOf(p, "body")
          /\ d[L + 3] = PieceOf(p, "newline")
      BY <1>1
    <3> HIDE DEF d
    <3>3. Whole(d, L + 1)
      BY <2>3, <2>4, <3>1, <3>2
    <3>4. Whole(d, L + 2)
      BY <2>3, <2>4, <3>1, <3>2
    <3>5. Whole(d, L + 3)
      BY <2>3, <2>4, <3>1, <3>2
    <3> QED
      BY <3>3, <3>4, <3>5 DEF d
  <2>6. \A i \in 1 .. Len(content'[t]) : Whole(content'[t], i)
    <3>1. \A i \in 1 .. L + 3 : i \in 1 .. L \/ i = L + 1 \/ i = L + 2 \/ i = L + 3
      BY <1>1
    <3> HIDE DEF Whole
    <3> QED
      BY <1>1, <2>2, <2>5, <3>1
  <2>7. \A s \in Sinks : \A i \in 1 .. Len(content'[s]) : Whole(content'[s], i)
    <3> HIDE DEF Whole
    <3> QED
      BY <1>1, <2>1, <2>6
  <2> QED
    BY <2>7 DEF WholeLines
<1>10. \A s \in Sinks : \A i \in DOMAIN content[s] :
         /\ content[s][i].by \in Procs /\ content[s][i].n \in Int
         /\ content[s][i].by = p => content[s][i].n < n
  <2> SUFFICES ASSUME NEW s \in Sinks, NEW i \in DOMAIN content[s]
               PROVE  /\ content[s][i].by \in Procs /\ content[s][i].n \in Int
                      /\ content[s][i].by = p => content[s][i].n < n
    OBVIOUS
  <2>1. content[s][i] \in Piece
    BY <1>1, ElementOfSeq
  <2>2. content[s][i].by = p => content[s][i].n < n
    BY <1>2 DEF SinkInv, Over, n
  <2> QED
    BY <2>1, <2>2 DEF Piece
<1>11. \A i \in {L + 1, L + 2, L + 3} : content'[t][i].by = p /\ content'[t][i].n = n
  BY <1>1, <1>3
<1>12. Over'
  <2> SUFFICES ASSUME NEW s \in Sinks, NEW i \in DOMAIN content'[s]
               PROVE  LET q == content'[s][i].by
                      IN  /\ content'[s][i].n <= sent'[q]
                          /\ logging'[q] # "no" => content'[s][i].n < sent'[q]
    BY DEF Over
  <2>1. CASE i \in DOMAIN content[s] /\ content'[s][i] = content[s][i]
    <3> DEFINE q == content[s][i].by
    <3>1. /\ content[s][i].n <= sent[q]
          /\ logging[q] # "no" => content[s][i].n < sent[q]
      BY <2>1 DEF SinkInv, Over
    <3>2. q \in Procs /\ (logging'[q] # "no" => logging[q] # "no")
      BY <1>2, <1>10, <2>1, ControlTypes
    <3> QED
      BY <1>2, <2>1, <3>1, <3>2
  <2>2. CASE s = t /\ i \in {L + 1, L + 2, L + 3}
    <3>1. content'[s][i].by = p /\ content'[s][i].n = n
      BY <1>11, <2>2
    <3>2. logging'[p] = "no" /\ sent'[p] = n /\ n <= n
      BY <1>2, <1>4, ControlTypes DEF n
    <3> QED
      BY <3>1, <3>2
  <2> QED
    BY <1>7, <2>1, <2>2
<1>13. NeverTwice'
  <2> SUFFICES ASSUME NEW s \in Sinks, NEW u \in Sinks,
                      NEW i \in DOMAIN content'[s], NEW j \in DOMAIN content'[u],
                      content'[s][i].part = "header", content'[s][i] = content'[u][j]
               PROVE  s = u /\ i = j
    BY DEF NeverTwice
  <2> DEFINE Old(x, k) == k \in DOMAIN content[x] /\ content'[x][k] = content[x][k]
             New(x, k) == x = t /\ k \in {L + 1, L + 2, L + 3}
  <2>1. CASE Old(s, i) /\ Old(u, j)
    <3>1. content[s][i].part = "header" /\ content[s][i] = content[u][j]
      BY <2>1
    <3> QED
      BY <2>1, <3>1 DEF SinkInv, NeverTwice
  <2>2. CASE Old(s, i) /\ New(u, j)
    <3>1. content[s][i].by = p /\ content[s][i].n = n
      BY <1>11, <2>2
    <3> QED
      BY <1>4, <1>10, <2>2, <3>1
  <2>3. CASE New(s, i) /\ Old(u, j)
    <3>1. content[u][j].by = p /\ content[u][j].n = n
      BY <1>11, <2>3
    <3> QED
      BY <1>4, <1>10, <2>3, <3>1
  <2>4. CASE New(s, i) /\ New(u, j)
    <3>1. i = L + 1
      BY <1>1, <1>3, <2>4
    <3>2. j = L + 1
      BY <1>1, <1>3, <2>4, <3>1
    <3> QED
      BY <2>4, <3>1, <3>2
  <2> QED
    BY <1>7, <2>1, <2>2, <2>3, <2>4
<1>14. Found'
  <2> SUFFICES ASSUME NEW m \in returned'
               PROVE  \E s \in Sinks \cap {m.asked, Stdout} : \E i \in DOMAIN content'[s] :
                        content'[s][i] = Header(m.by, m.n)
    BY DEF Found, Header
  <2>1. CASE m \in returned
    <3>1. PICK s \in Sinks \cap {m.asked, Stdout} : \E i \in DOMAIN content[s] :
            content[s][i] = Header(m.by, m.n)
      BY <2>1 DEF SinkInv, Found
    <3>2. PICK i \in DOMAIN content[s] : content[s][i] = Header(m.by, m.n)
      BY <3>1
    <3>3. i \in DOMAIN content'[s] /\ content'[s][i] = content[s][i]
      <4>1. CASE s = t
        <5>1. i \in 1 .. L /\ DOMAIN content'[s] = 1 .. L + 3
          BY <1>1, <4>1 DEF L
        <5> QED
          BY <1>1, <4>1, <5>1
      <4>2. CASE s # t
        BY <1>1, <4>2
      <4> QED
        BY <4>1, <4>2
    <3> QED
      BY <3>2, <3>3
  <2>2. CASE m = [by |-> p, n |-> n, asked |-> asked[p]]
    <3>1. L + 1 \in DOMAIN content'[t]
      BY <1>1
    <3>2. content'[t][L + 1] = Header(m.by, m.n)
      BY <1>1, <1>3, <2>2 DEF Header
    <3>3. t \in Sinks \cap {m.asked, Stdout}
      BY <1>1, <1>6, <2>2
    <3> QED
      BY <3>1, <3>2, <3>3
  <2> QED
    BY <1>2, <2>1, <2>2
<1> QED
  BY <1>8, <1>9, <1>12, <1>13, <1>14 DEF SinkInv

\* The inductive invariant of the log.
LEMMA LogInvariance == LogSpec => []LogInv
<1>1. LogInv /\ [LogNext]_logVars => LogInv'
  BY StepInv, KeptInv, FlushSinks DEF LogInv
<1> QED
  BY <1>1, LogInitInv, PTL DEF LogSpec

\* The state of the log is well typed.
THEOREM LogTypesOK == LogSpec => []LogTypeOK
<1>1. LogInv => LogTypeOK
  BY DEF LogInv, ProcInv
<1> QED
  BY <1>1, LogInvariance, PTL

\* No sequence of opens, failing opens, returns to stdout and crashes leaks a stream, or leaves
\* g_log_file on one that is closed.
THEOREM StreamsAccounted == LogSpec => []OneStream
<1>1. LogInv => OneStream
  BY DEF LogInv, ProcInv
<1> QED
  BY <1>1, LogInvariance, PTL

\* Any number of processes may log to one file and crash: its lines are whole.
THEOREM LinesAreWhole == LogSpec => []WholeLines
<1>1. LogInv => WholeLines
  BY DEF LogInv, SinkInv
<1> QED
  BY <1>1, LogInvariance, PTL

\* What CFS_LogMessage returned from is in one sink, once, and a file only if asked for.
THEOREM ReturnedIsDelivered == LogSpec => []Delivered
<1>1. ASSUME LogInv, NEW m \in returned
      PROVE  LET Places == {x \in UNION {{s} \X DOMAIN content[s] : s \in Sinks} :
                              content[x[1]][x[2]] = Header(m.by, m.n)}
             IN  /\ Cardinality(Places) = 1
                 /\ \A x \in Places : x[1] \in {m.asked, Stdout}
  <2> DEFINE All == UNION {{s} \X DOMAIN content[s] : s \in Sinks}
             Places == {x \in All : content[x[1]][x[2]] = Header(m.by, m.n)}
  <2>1. PICK s \in Sinks \cap {m.asked, Stdout} : \E i \in DOMAIN content[s] :
          content[s][i] = Header(m.by, m.n)
    BY <1>1 DEF LogInv, SinkInv, Found
  <2>2. PICK i \in DOMAIN content[s] : content[s][i] = Header(m.by, m.n)
    BY <2>1
  <2>3. <<s, i>> \in Places
    BY <2>1, <2>2
  <2>4. ASSUME NEW x \in Places PROVE x = <<s, i>>
    <3>1. PICK u \in Sinks : x \in {u} \X DOMAIN content[u]
      OBVIOUS
    <3>2. x = <<u, x[2]>> /\ x[2] \in DOMAIN content[u] /\ content[u][x[2]] = content[s][i]
      BY <2>2, <3>1
    <3>3. content[s][i].part = "header"
      BY <2>2 DEF Header
    <3>4. u = s /\ x[2] = i
      BY <1>1, <2>1, <2>2, <3>2, <3>3 DEF LogInv, SinkInv, NeverTwice
    <3> QED
      BY <3>2, <3>4
  <2>5. Places = {<<s, i>>}
    BY <2>3, <2>4
  <2>6. Cardinality(Places) = 1 /\ \A x \in Places : x[1] \in {m.asked, Stdout}
    <3>1. Cardinality({<<s, i>>}) = 1
      BY FS_Singleton
    <3>2. <<s, i>>[1] \in {m.asked, Stdout}
      BY <2>1
    <3> HIDE DEF Places
    <3> QED
      BY <2>5, <3>1, <3>2
  <2> QED
    BY <2>6
<1>2. LogInv => Delivered
  BY <1>1 DEF Delivered, Header
<1> QED
  BY <1>2, LogInvariance, PTL

\* No step takes anything out of a sink.
THEOREM LogOnlyGrows == LogSpec => LogKept
<1> DEFINE Kept(s) == /\ Len(content'[s]) >= Len(content[s])
                      /\ SubSeq(content'[s], 1, Len(content[s])) = content[s]
<1>1. ASSUME LogInv, [LogNext]_logVars, NEW s \in Sinks PROVE Kept(s)
  <2> DEFINE c == content[s]
             d == content'[s]
  <2>1. c \in Seq(Piece) /\ Len(c) \in Nat
    BY <1>1, LenProperties DEF LogInv, ProcInv, LogTypeOK
  <2>2. Len(d) >= Len(c) /\ \A i \in 1 .. Len(c) : d[i] = c[i]
    <3>1. CASE SinksKept
      BY <2>1, <3>1 DEF SinksKept
    <3>2. ASSUME NEW p \in Procs, Flush(p) PROVE Len(d) >= Len(c) /\ \A i \in 1 .. Len(c) : d[i] = c[i]
      <4>1. CASE s = g_log_file[p]
        BY <1>1, <2>1, <3>2, <4>1, FlushAppends DEF LogInv
      <4>2. CASE s # g_log_file[p]
        <5>1. content \in [Sinks -> Seq(Piece)]
          BY <1>1 DEF LogInv, ProcInv, LogTypeOK
        <5>2. content' = [content EXCEPT ![g_log_file[p]] = @ \o
                <<PieceOf(p, "header"), PieceOf(p, "body"), PieceOf(p, "newline")>>]
          BY <1>1, <3>2, FlushWrites DEF LogInv
        <5>3. c = d
          BY <4>2, <5>1, <5>2, Zenon
        <5> QED
          BY <2>1, <5>3
      <4> QED
        BY <4>1, <4>2
    <3> QED
      BY <1>1, <3>1, <3>2, StepInv DEF LogInv
  <2> HIDE DEF c, d
  <2>3. \A i \in 1 .. Len(c) : c[i] \in Piece
    BY <2>1, ElementOfSeq
  <2>4. /\ SubSeq(d, 1, Len(c)) \in Seq(Piece) /\ Len(SubSeq(d, 1, Len(c))) = Len(c)
        /\ \A i \in 1 .. Len(c) : SubSeq(d, 1, Len(c))[i] = c[i]
    <3> DEFINE N == Len(c)
    <3>1. N \in Nat /\ \A i \in 1 .. N : d[i] \in Piece
      BY <2>1, <2>2, <2>3
    <3> HIDE DEF N
    <3>2. /\ SubSeq(d, 1, N) \in Seq(Piece)
          /\ Len(SubSeq(d, 1, N)) = IF 1 <= N THEN N - 1 + 1 ELSE 0
          /\ \A i \in 1 .. N - 1 + 1 : SubSeq(d, 1, N)[i] = d[1 + i - 1]
      BY <3>1, SubSeqProperties
    <3>3. Len(SubSeq(d, 1, N)) = N /\ \A i \in 1 .. N : SubSeq(d, 1, N)[i] = d[i]
      BY <3>1, <3>2
    <3> QED
      BY <2>2, <3>2, <3>3 DEF N
  <2>5. SubSeq(d, 1, Len(c)) = c
    BY <2>1, <2>4, SeqEqual
  <2> QED
    BY <2>2, <2>5 DEF c, d
<1>2. LogInv /\ [LogNext]_logVars => [\A s \in Sinks : Kept(s)]_logVars
  BY <1>1
<1> QED
  BY <1>2, LogInvariance, PTL DEF LogSpec, LogKept

-----------------------------------------------------------------------------
(* Refinement of atomic lines. *)

InHand == [p \in Procs |-> logging[p] # "no"]

\* What a flush appends is the line of the abstract log.
LEMMA FlushIsWriteLine == ASSUME ProcInv, NEW p \in Procs, Flush(p) PROVE Lines!WriteLine(p)
<1> DEFINE t == g_log_file[p]
<1>1. /\ t \in Sinks
      /\ content' = [content EXCEPT ![t] = @ \o
           <<PieceOf(p, "header"), PieceOf(p, "body"), PieceOf(p, "newline")>>]
  BY FlushWrites
<1>2. Lines!Line(p) = <<PieceOf(p, "header"), PieceOf(p, "body"), PieceOf(p, "newline")>>
  BY DEF Lines!Line, Lines!Piece, PieceOf
<1>3. t \in (Files \cap {asked[p]}) \cup {Stdout}
  BY <1>1, SinkFacts DEF ProcInv, Asked, Sinks
<1>4. \E s \in (Files \cap {asked[p]}) \cup {Stdout} :
        content' = [content EXCEPT ![s] = @ \o Lines!Line(p)]
  BY <1>1, <1>2, <1>3
<1>5. logging[p] = "flush" /\ logging' = [logging EXCEPT ![p] = "no"] /\ UNCHANGED <<sent, asked>>
  BY DEF Flush
<1>6. InHand[p] /\ InHand' = [InHand EXCEPT ![p] = FALSE]
  BY <1>5, ControlTypes DEF InHand
<1> QED
  BY <1>4, <1>5, <1>6 DEF Lines!WriteLine, InHand

\* Every step of the log is a step of atomic lines, or none.
LEMMA StepIsLine ==
  ASSUME ProcInv, [LogNext]_logVars
  PROVE  [Lines!LineNext]_(Lines!lineVars)
<1> SUFFICES Lines!LineNext \/ UNCHANGED <<InHand, sent, asked, content>>
  BY DEF Lines!lineVars, InHand
<1>1. CASE UNCHANGED logVars
  BY <1>1 DEF logVars, InHand
<1>2. ASSUME NEW p \in Procs, CFS_EnableDebug(p) PROVE UNCHANGED <<InHand, sent, asked, content>>
  BY <1>2 DEF CFS_EnableDebug, InHand
<1>3. ASSUME NEW p \in Procs, CFS_SetLogFile(p) PROVE Lines!Ask(p)
  <2>1. PICK name \in Files \cup {Null} : \E s \in StreamFor(name) :
          /\ asked' = [asked EXCEPT ![p] = name]
          /\ content' = Opened(Closed(p), s)
    BY <1>3 DEF CFS_SetLogFile
  <2>2. logging[p] = "no" /\ UNCHANGED <<logging, sent>>
    BY <1>3 DEF CFS_SetLogFile
  <2>3. content' = content
    BY <2>1, <2>2, ClosingWritesNothing DEF Opened
  <2> QED
    BY <2>1, <2>2, <2>3 DEF Lines!Ask
<1>4. ASSUME NEW p \in Procs, PrintHeader(p) PROVE Lines!Begin(p)
  <2>1. /\ logging[p] = "no" /\ sent[p] < MaxMessages
        /\ logging' = [logging EXCEPT ![p] = "body"]
        /\ sent' = [sent EXCEPT ![p] = @ + 1] /\ UNCHANGED <<asked, content>>
    BY <1>4 DEF PrintHeader
  <2>2. ~InHand[p] /\ InHand' = [InHand EXCEPT ![p] = TRUE]
    BY <2>1, ControlTypes DEF InHand
  <2> QED
    BY <2>1, <2>2 DEF Lines!Begin, InHand
<1>5. ASSUME NEW p \in Procs, PrintBody(p) \/ PrintNewline(p)
      PROVE  UNCHANGED <<InHand, sent, asked, content>>
  <2>1. /\ logging[p] # "no" /\ UNCHANGED <<sent, asked, content>>
        /\ \E next \in {"newline", "flush"} : logging' = [logging EXCEPT ![p] = next]
    BY <1>5 DEF PrintBody, PrintNewline
  <2>2. InHand' = InHand
    BY <2>1, ControlTypes DEF InHand
  <2> QED
    BY <2>1, <2>2
<1>6. ASSUME NEW p \in Procs, Crash(p) PROVE Lines!Die(p)
  <2>1. /\ logging' = [logging EXCEPT ![p] = "no"] /\ asked' = [asked EXCEPT ![p] = Null]
        /\ UNCHANGED <<sent, content>>
    BY <1>6 DEF Crash
  <2>2. InHand' = [InHand EXCEPT ![p] = FALSE]
    BY <2>1, ControlTypes DEF InHand
  <2> QED
    BY <2>1, <2>2 DEF Lines!Die, InHand
<1> QED
  BY <1>1, <1>2, <1>3, <1>4, <1>5, <1>6, FlushIsWriteLine
     DEF LogNext, CFS_LogMessage, Lines!LineNext

\* For any processes, files and crashes the buffered log is one of atomic lines.
THEOREM LogImplementsLines == LogSpec => ImplementsLineLog
<1>1. LogInit => Lines!LineInit
  BY DEF LogInit, Lines!LineInit, Empty, Sinks
<1>2. LogInv /\ [LogNext]_logVars => [Lines!LineNext]_(Lines!lineVars)
  BY StepIsLine DEF LogInv
<1> QED
  BY <1>1, <1>2, LogInvariance, PTL DEF LogSpec, ImplementsLineLog, Lines!LineSpec

=============================================================================
