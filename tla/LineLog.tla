------------------------------- MODULE LineLog -------------------------------
(***************************************************************************)
(* What the debug log promises, with no stream, buffer or flush in it: a   *)
(* message is a line that is appended to one sink in a single step, the    *)
(* file its process asked for or stdout, or it is lost with its process.   *)
(***************************************************************************)
EXTENDS Integers, Sequences

CONSTANTS Procs, Files, Null, Stdout, MaxMessages

VARIABLES
  inHand,    \* per process: whether it is in the middle of a message
  sent,      \* per process: messages it began
  asked,     \* per process: the file it asked for, or Null
  content    \* per sink: the lines in it, piece by piece

lineVars == <<inHand, sent, asked, content>>

Piece(p, part) == [by |-> p, n |-> sent[p], part |-> part]
Line(p) == <<Piece(p, "header"), Piece(p, "body"), Piece(p, "newline")>>

LineInit ==
  /\ inHand = [p \in Procs |-> FALSE]
  /\ sent = [p \in Procs |-> 0]
  /\ asked = [p \in Procs |-> Null]
  /\ content = [s \in Files \cup {Stdout} |-> << >>]

Ask(p) ==
  /\ ~inHand[p]
  /\ \E name \in Files \cup {Null} : asked' = [asked EXCEPT ![p] = name]
  /\ UNCHANGED <<inHand, sent, content>>

Begin(p) ==
  /\ ~inHand[p] /\ sent[p] < MaxMessages
  /\ inHand' = [inHand EXCEPT ![p] = TRUE]
  /\ sent' = [sent EXCEPT ![p] = @ + 1]
  /\ UNCHANGED <<asked, content>>

WriteLine(p) ==
  /\ inHand[p]
  /\ \E s \in (Files \cap {asked[p]}) \cup {Stdout} :
       content' = [content EXCEPT ![s] = @ \o Line(p)]
  /\ inHand' = [inHand EXCEPT ![p] = FALSE]
  /\ UNCHANGED <<sent, asked>>

\* A crash, after which the process asks anew.
Die(p) ==
  /\ inHand' = [inHand EXCEPT ![p] = FALSE]
  /\ asked' = [asked EXCEPT ![p] = Null]
  /\ UNCHANGED <<sent, content>>

LineNext == \E p \in Procs : Ask(p) \/ Begin(p) \/ WriteLine(p) \/ Die(p)

LineSpec == LineInit /\ [][LineNext]_lineVars

=============================================================================
