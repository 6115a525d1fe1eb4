----------------------------- MODULE CommandLine -----------------------------
(***************************************************************************)
(* From the lines a player types to the commands that are carried out      *)
(* (comm.c 829-876, 1433-1472, 2114-2319, interpreter.c 1200-1352): redo,  *)
(* recall and substitution when a line is read, the queue of input, one    *)
(* line of which is taken at a time, and the aliases, whose commands go in *)
(* front of the queue.  A line is a sequence of words.                     *)
(***************************************************************************)
EXTENDS Integers, Sequences, SequencesExt, FiniteSetsExt, TLC

CONSTANTS
  Typed,         \* lines a player may type
  HISTORY_SIZE,
  EditWord,      \* a command that begins to edit a text, until a line "@"
  MaxTyped       \* bound on the lines

VARIABLES
  history, history_pos,  \* the ring of earlier lines, 0..HISTORY_SIZE-1
  last_input,
  input,         \* the queue of [text, aliased]
  aliases,       \* word -> [replacement, type]
  str,           \* whether the player edits a text: d->str
  wait,          \* pulses before the next line is taken
  done,          \* the commands and the lines of texts, in their order
  lines          \* what was typed, redone or recalled: the lines to be carried out

lineVars == <<history, history_pos, last_input, input, aliases, str, wait, done, lines>>

NoLine == <<>>
CommandLineInit ==
  /\ history = [i \in 0..(HISTORY_SIZE - 1) |-> NoLine] /\ history_pos = 0
  /\ last_input = NoLine /\ input = <<>> /\ aliases = <<>>
  /\ str = FALSE /\ wait = 0 /\ done = <<>> /\ lines = <<>>

-----------------------------------------------------------------------------
(* Reading a line. *)

\* The slot that was filled k lines before the present position.
HistorySlot(k) == (history_pos + HISTORY_SIZE - k) % HISTORY_SIZE

\* "!x" goes back from the last line, but never looks at the slot that comes
\* next, where the oldest of a full history is.
Recalled(line) ==
  LET hits == {k \in 1..(HISTORY_SIZE - 1) :
                 history[HistorySlot(k)] # NoLine /\ Head(history[HistorySlot(k)]) = line[2]}
  IN IF hits = {} THEN line ELSE history[HistorySlot(Min(hits))]

\* "^a^b": the first a of the last line becomes b.
perform_subst(orig, line) ==
  LET hits == {i \in DOMAIN orig : orig[i] = line[2]}
  IN IF hits = {} THEN NoLine ELSE [orig EXCEPT ![Min(hits)] = line[3]]

write_to_q(txt) == input' = Append(input, [text |-> txt, aliased |-> FALSE]) /\ lines' = Append(lines, txt)

process_input(line) ==
  /\ Len(lines) < MaxTyped
  /\ UNCHANGED <<aliases, str, wait, done>>
  /\ \/ /\ line = <<"!">>
        /\ write_to_q(last_input) /\ UNCHANGED <<history, history_pos, last_input>>
     \/ /\ Len(line) > 1 /\ Head(line) = "!"
        /\ write_to_q(Recalled(line))
        /\ last_input' = IF Recalled(line) = line THEN last_input ELSE Recalled(line)
        /\ UNCHANGED <<history, history_pos>>
     \/ /\ Head(line) = "^" /\ perform_subst(last_input, line) # NoLine
        /\ last_input' = perform_subst(last_input, line) /\ write_to_q(last_input')
        /\ UNCHANGED <<history, history_pos>>
     \/ /\ Head(line) \notin {"!", "^"}
        /\ last_input' = line /\ write_to_q(line)
        /\ history' = [history EXCEPT ![history_pos] = line]
        /\ history_pos' = (history_pos + 1) % HISTORY_SIZE

-----------------------------------------------------------------------------
(* Aliases. *)

\* The replacement with the tokens of the line: "$1", and "$*" for all of them.
\* A token that the line does not have leaves its digit.
Filled(words, tokens) ==
  FlattenSeq([i \in DOMAIN words |->
    CASE words[i] = "$*" -> tokens
      [] words[i] = "$1" -> IF tokens = <<>> THEN <<"1">> ELSE <<Head(tokens)>>
      [] OTHER -> <<words[i]>>])

\* The parts between the separators.
RECURSIVE Separated(_)
Separated(words) ==
  IF ";" \notin Range(words) THEN <<words>>
  ELSE LET i == Min({j \in DOMAIN words : words[j] = ";"})
       IN <<SubSeq(words, 1, i - 1)>> \o Separated(SubSeq(words, i + 1, Len(words)))

\* bug: the parts of an alias are looked up among the aliases again
perform_complex_aliasAgain(tokens, words) ==
  [i \in DOMAIN Separated(words) |-> [text |-> Filled(Separated(words)[i], tokens), aliased |-> FALSE]]
perform_complex_alias(tokens, words) ==
  [i \in DOMAIN Separated(words) |-> [text |-> Filled(Separated(words)[i], tokens), aliased |-> TRUE]]

Complex(words) == Range(words) \cap {";", "$1", "$*"} # {}

\* "alias x words" defines, "alias x" deletes; an alias of "alias" itself is only removed.
do_alias(line, known) ==
  LET others == Restrict(known, DOMAIN known \ {line[2]})
      repl   == SubSeq(line, 3, Len(line))
  IN IF Len(line) < 2 THEN known
     ELSE IF repl = <<>> \/ line[2] = "alias" THEN others
     ELSE (line[2] :> repl) @@ others

IsAlias(line) == line # <<>> /\ Head(line) \in DOMAIN aliases

-----------------------------------------------------------------------------
(* Taking a line from the queue (comm.c 834-876). *)

Carried(line) ==
  /\ done' = Append(done, line)
  /\ aliases' = IF line # <<>> /\ Head(line) = "alias" THEN do_alias(line, aliases) ELSE aliases
  /\ str' = (line # <<>> /\ Head(line) = EditWord)

\* One line of a player each pulse, unless a command asked for a longer wait.
TakeLine ==
  LET line == Head(input).text
      words == Tail(line)
      front == perform_complex_alias(words, aliases[Head(line)])
  IN /\ wait = 0 /\ input # <<>> /\ wait' = 1
     /\ UNCHANGED <<history, history_pos, last_input, lines>>
     /\ \/ /\ str /\ input' = Tail(input)
           /\ done' = Append(done, line) /\ str' = (line # <<"@">>) /\ UNCHANGED aliases
        \/ /\ ~str /\ (Head(input).aliased \/ ~IsAlias(line))
           /\ input' = Tail(input) /\ Carried(line)
        \/ /\ ~str /\ ~Head(input).aliased /\ IsAlias(line) /\ ~Complex(aliases[Head(line)])
           /\ input' = Tail(input) /\ Carried(aliases[Head(line)])
        \/ /\ ~str /\ ~Head(input).aliased /\ IsAlias(line) /\ Complex(aliases[Head(line)])
           /\ input' = Tail(front) \o Tail(input) /\ Carried(Head(front).text)

Pulse == wait > 0 /\ wait' = 0
         /\ UNCHANGED <<history, history_pos, last_input, input, aliases, str, done, lines>>

CommandLineNext == TakeLine \/ Pulse \/ \E line \in Typed : process_input(line)
CommandLineSpec == CommandLineInit /\ [][CommandLineNext]_lineVars

-----------------------------------------------------------------------------
CommandLineTypeOK ==
  /\ history_pos \in 0..(HISTORY_SIZE - 1) /\ DOMAIN history = 0..(HISTORY_SIZE - 1)
  /\ \A i \in DOMAIN input : input[i].aliased \in BOOLEAN
  /\ str \in BOOLEAN /\ wait \in 0..1 /\ "alias" \notin DOMAIN aliases

\* What a sequence of lines comes to when each is carried out at once and whole,
\* from the aliases and the mode that the lines before it have left.
RECURSIVE Outcome(_, _, _)
Outcome(todo, known, editing) ==
  IF todo = <<>> THEN <<>>
  ELSE LET t    == Head(todo)
           line == t.text
           rest == Tail(todo)
           parts == Separated(known[Head(line)])
           after == [i \in DOMAIN parts |-> [text |-> Filled(parts[i], Tail(line)), aliased |-> TRUE]]
       IN IF editing THEN <<line>> \o Outcome(rest, known, line # <<"@">>)
          ELSE IF ~t.aliased /\ line # <<>> /\ Head(line) \in DOMAIN known
               THEN Outcome((IF Complex(known[Head(line)]) THEN after
                             ELSE <<[text |-> known[Head(line)], aliased |-> TRUE]>>) \o rest, known, FALSE)
          ELSE <<line>> \o Outcome(rest, IF line # <<>> /\ Head(line) = "alias" THEN do_alias(line, known) ELSE known,
                                   line # <<>> /\ Head(line) = EditWord)

\* However lines, waits and aliases interleave, what has been carried out and
\* what the queue still comes to is what the typed lines come to, one after the
\* other: the commands of an alias before the lines behind it, none of them
\* looked up again, and all of them text once one of them begins to edit
\* (perform_complex_alias, interpreter.c 1261-1310, get_from_q, comm.c 1455-1472).
LinesInOrder ==
  Outcome([i \in DOMAIN lines |-> [text |-> lines[i], aliased |-> FALSE]], <<>>, FALSE)
    = done \o Outcome(input, aliases, str)
=============================================================================
