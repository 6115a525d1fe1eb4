------------------------------ MODULE MobProgs ------------------------------
(***************************************************************************)
(* The programs of a mobile (mobprog.c): lines of commands under if, or,   *)
(* else, endif, break and wait.  Triggers run them at once or put them     *)
(* into the queue of the mobile, mpact, from whose head mobile_activity    *)
(* goes on with what waits.  A command may force somebody to do what       *)
(* triggers the mobile again while it runs, so there is a stack of runs.   *)
(* A mobile that is charmed runs nothing.                                  *)
(***************************************************************************)
EXTENDS Integers, Sequences, SequencesExt

CONSTANTS
  Programs,          \* a sequence of [trigger, text]; text: its statements;
                     \* trigger: "speech", "act_words", "act_phrase" or "give"
  Checks,            \* the if checks that occur
  MAX_PROG_QUEUE,
  MaxTriggers        \* bound on triggers

VARIABLES
  truth,             \* what each check gives: 1, 0, or -1 for an error
  charmed,           \* AFF_CHARM of the mobile
  queue,             \* mob->mpact from its head
  runs,              \* the calls of mprog_driver, the innermost last
  ended,             \* the programs that the last step ended
  triggers           \* how many triggers there were

progVars == <<truth, charmed, queue, runs, ended, triggers>>

\* A program as it is written; a statement is a command, a wait, a break, or an
\* if with its checks, joined by or, and its two parts.
Line(w, c) == [word |-> w, arg |-> c]
Do(c) == [word |-> "cmd", arg |-> c]
If(checks, yes, no) == [word |-> "if", arg |-> checks, yes |-> yes, no |-> no]

RECURSIVE Lines(_)
OfStatement(st) ==
  IF st.word # "if" THEN <<st>>
  ELSE <<Line("if", Head(st.arg))>> \o [i \in 1..(Len(st.arg) - 1) |-> Line("or", st.arg[i + 1])]
       \o Lines(st.yes) \o (IF st.no = <<>> THEN <<>> ELSE <<Line("else", "")>> \o Lines(st.no))
       \o <<Line("endif", "")>>
Lines(text) == FlattenSeq([i \in DOMAIN text |-> OfStatement(text[i])])

\* What it means: the commands to be done, and whether a break ended it.
RECURSIVE Meaning(_)
MeaningOf(st) ==
  CASE st.word = "cmd"   -> [did |-> <<st.arg>>, over |-> FALSE]
    [] st.word = "wait"  -> [did |-> <<>>, over |-> FALSE]
    [] st.word = "break" -> [did |-> <<>>, over |-> TRUE]
    [] OTHER -> Meaning(IF \E i \in DOMAIN st.arg : truth[st.arg[i]] # 0 THEN st.yes ELSE st.no)
Meaning(text) ==
  FoldLeft(LAMBDA m, st : IF m.over THEN m
                          ELSE [did |-> m.did \o MeaningOf(st).did, over |-> MeaningOf(st).over],
           [did |-> <<>>, over |-> FALSE], text)

\* The reader looks for the end of what it skips and does not count ifs: a
\* part with an if in it, when skipped, ends at the wrong line.
RECURSIVE SkipsIf(_)
HasIf(text) == \E i \in DOMAIN text : text[i].word = "if"
SkipsIf(text) ==
  \E i \in DOMAIN text : text[i].word = "if" /\
    LET holds == \E j \in DOMAIN text[i].arg : truth[text[i].arg[j]] # 0
    IN HasIf(IF holds THEN text[i].no ELSE text[i].yes) \/ SkipsIf(IF holds THEN text[i].yes ELSE text[i].no)

\* A program that somebody triggered; did: the commands that it gave so far;
\* dropped: what was left of it was thrown away.
Started(p) == [prog |-> p, did |-> <<>>, spoilt |-> FALSE, dropped |-> FALSE]
Spoilt(inst) == [inst EXCEPT !.spoilt = TRUE]
Waiting(inst, rest) == [inst |-> inst, pos |-> rest, null |-> FALSE]
\* nest: the ifs that mprog_process_if is in, each in its true part ("yes") or
\* its false one ("no"), or on the way to it ("find") or past it ("skip").
\* fresh: the driver is called, but has not yet looked for the charm.
Run(inst, rest, from) ==
  [inst |-> inst, rest |-> rest, nest |-> <<>>, from |-> from, newer |-> 0, fresh |-> TRUE]

\* What an if check gives: a value is compared and says yes or no; a check that
\* cannot be read or speaks of nobody is an error.
mprog_do_ifchck == {-1, 0, 1}

ProgsInit ==
  /\ truth \in [Checks -> mprog_do_ifchck]
  /\ charmed = FALSE /\ queue = <<>> /\ runs = <<>> /\ ended = {} /\ triggers = 0

-----------------------------------------------------------------------------
(* The queue. *)

\* mprog_new_program; the run from the queue, if there is one, is the first.
mprog_new_program(rs, inst, rest) ==
  IF rest = <<>> \/ Len(queue) >= MAX_PROG_QUEUE
  THEN queue' = queue /\ runs' = rs
  ELSE /\ queue' = <<Waiting(inst, rest)>> \o queue
       /\ runs' = IF rs # <<>> /\ rs[1].from = "queue" THEN [rs EXCEPT ![1].newer = @ + 1] ELSE rs

\* mprog_wordlist_check with a program of that trigger, on top of the runs rs.  A
\* phrase of an act queues it.  Words run it, whatever enqueue says, and again
\* if it names two of the words that are said: there is no break.
mprog_wordlist_check(rs, p) ==
  LET r == Run(Started(p), Lines(Programs[p].text), "trigger")
  IN /\ triggers < MaxTriggers /\ triggers' = triggers + 1
     /\ \/ /\ Programs[p].trigger = "act_phrase"
           /\ mprog_new_program(rs, Started(p), Lines(Programs[p].text))
        \/ /\ Programs[p].trigger \in {"speech", "act_words"} /\ UNCHANGED queue
           /\ runs' = rs \o <<r>> \/ runs' = rs \o <<r, r>>

\* A gift: the driver is called again after it returned, and what it leaves to be
\* done then is ignored.
mprog_give_trigger(p) ==
  LET r == Run(Started(p), Lines(Programs[p].text), "trigger")
  IN /\ triggers < MaxTriggers /\ triggers' = triggers + 1 /\ Programs[p].trigger = "give"
     /\ runs' = <<[r EXCEPT !.from = "ignored"], r>> /\ UNCHANGED queue

\* Somebody acts, speaks or gives.  Who sets off several programs sets off one
\* after the other.
Trigger(p) ==
  /\ runs = <<>> /\ ended' = {}
  /\ mprog_wordlist_check(runs, p) \/ mprog_give_trigger(p)
  /\ UNCHANGED <<truth, charmed>>

\* A spell takes hold of the mobile, of its own commands maybe, or wears off.
Charm ==
  /\ charmed' = ~charmed /\ ended' = {}
  /\ UNCHANGED <<truth, queue, runs, triggers>>

-----------------------------------------------------------------------------
(* One line of the innermost run. *)

Top == Last(runs)
WithTop(r) == Front(runs) \o <<r>>
Mode == IF Top.nest = <<>> THEN "driver" ELSE Last(Top.nest)
Read == [Top EXCEPT !.rest = Tail(@), !.fresh = FALSE]
Ifs(mode) == [Read EXCEPT !.nest = Front(@) \o <<mode>>]

\* The ors behind an if; an error (-1) is not 0, so it counts as true.
OrsFrom(ls) == LET others == {i \in DOMAIN ls : ls[i].word # "or"}
               IN IF others = {} THEN Len(ls) ELSE (CHOOSE i \in others : \A j \in others : i <= j) - 1
IfHolds(ls) == truth[Head(ls).arg] # 0 \/ \E i \in 1..OrsFrom(Tail(ls)) : truth[ls[i + 1].arg] # 0
Entered ==
  [Top EXCEPT !.rest = SubSeq(@, OrsFrom(Tail(@)) + 2, Len(@)), !.fresh = FALSE,
              !.nest = Append(@, IF IfHolds(Top.rest) THEN "yes" ELSE "find")]

\* bug: an else in the true part ends it without looking for the endif.
NextModeNoSkip(mode, word) ==
  CASE mode = "find" /\ word = "else" -> "no"
    [] mode \in {"yes", "no", "find", "skip"} /\ word \in {"endif", "else"} -> "out"
    [] OTHER -> mode
\* Where a line of structure leads from a part of an if.
NextMode(mode, word) ==
  CASE mode = "find" /\ word = "else"  -> "no"
    [] mode = "yes"  /\ word = "else"  -> "skip"
    [] mode = "no"   /\ word = "else"  -> "end"    \* "found else in an else section"
    [] word = "endif" -> "out"
    [] mode \in {"yes", "no"} /\ word = "break" -> "end"
    [] OTHER -> mode

\* The driver returns: NULL, or after a wait what is left.  mob->mpact->pos is
\* assigned to the entry that ran or, if newer ones came in front of it, maybe
\* to the head (mpact may be read before or after the call); and it is the
\* head that leaves the queue, so that the entry that ran stays.
EndRun(rs, r, rest, waits) ==
  LET ran == r.newer + 1
      elsewhere == IF r.newer > 0 THEN {1} ELSE {}
  IN /\ ended' = IF waits THEN {} ELSE {r.inst}
     /\ CASE r.from = "queue" /\ waits ->
               /\ runs' = rs
               /\ \/ queue' = [queue EXCEPT ![ran] = Waiting(r.inst, rest)]
                  \/ \E at \in elsewhere :
                       queue' = [queue EXCEPT ![at] = Waiting(Spoilt(r.inst), rest), ![ran].inst = Spoilt(@)]
          [] r.from = "queue" /\ ~waits ->
               /\ runs' = rs
               /\ \/ queue' = Tail([queue EXCEPT ![ran].null = TRUE])
                  \/ elsewhere # {} /\ queue' = Tail([queue EXCEPT ![ran].inst = Spoilt(@)])
          [] r.from = "trigger" /\ waits -> mprog_new_program(rs, r.inst, rest)
          [] OTHER -> runs' = rs /\ UNCHANGED queue

\* A command is given to command_interpreter.  "mpforce" makes somebody say or do
\* what triggers programs of this mobile again.
SetOff(c) == CASE c = "force_say" -> {"speech"}
               [] c = "force_act" -> {"act_phrase", "act_words"}
               [] OTHER -> {}
Command(c) ==
  LET rs == WithTop([Read EXCEPT !.inst.did = Append(@, c)])
      set == {p \in DOMAIN Programs : Programs[p].trigger \in SetOff(c)}
  IN /\ ended' = {}
     /\ IF set = {} \/ triggers = MaxTriggers THEN runs' = rs /\ UNCHANGED <<queue, triggers>>
        ELSE \E p \in set : mprog_wordlist_check(rs, p)

mprog_driver ==
  /\ runs # <<>> /\ UNCHANGED <<truth, charmed>>
  /\ IF Top.fresh /\ charmed
     THEN EndRun(Front(runs), [Top EXCEPT !.inst.dropped = TRUE], <<>>, FALSE) /\ UNCHANGED triggers
     ELSE IF Top.rest = <<>> THEN EndRun(Front(runs), Top, <<>>, FALSE) /\ UNCHANGED triggers
     ELSE LET l == Head(Top.rest)
              next == NextMode(Mode, l.word)
          IN CASE l.word = "if" /\ Mode \in {"driver", "yes", "no"} ->
                    runs' = WithTop(Entered) /\ ended' = {} /\ UNCHANGED <<queue, triggers>>
               [] l.word = "wait" /\ Mode = "driver" ->
                    EndRun(Front(runs), Top, Tail(Top.rest), TRUE) /\ UNCHANGED triggers
               [] l.word = "cmd" /\ Mode \in {"driver", "yes", "no"} -> Command(l.arg)
               [] Mode # "driver" /\ next = "end" ->
                    EndRun(Front(runs), Top, <<>>, FALSE) /\ UNCHANGED triggers
               [] Mode # "driver" /\ next = "out" ->
                    /\ runs' = WithTop([Read EXCEPT !.nest = Front(@)])
                    /\ ended' = {} /\ UNCHANGED <<queue, triggers>>
               [] OTHER ->   \* skipped, or a word that is no command
                    /\ runs' = WithTop(IF Mode = "driver" THEN Read ELSE Ifs(next))
                    /\ ended' = {} /\ UNCHANGED <<queue, triggers>>

\* mobile_activity lets the head of the queue go on.  Its pos points into a
\* buffer of the driver's last call: the text is still there, or overwritten.
mprog_process_queue ==
  LET e == Head(queue)
  IN /\ runs = <<>> /\ queue # <<>> /\ ~e.null     \* strcpy of NULL is the end
     /\ \/ runs' = <<Run(e.inst, e.pos, "queue")>>
        \/ /\ e.pos # Lines(Programs[e.inst.prog].text)
           /\ runs' = <<Run(Spoilt(e.inst), <<>>, "queue")>>
     /\ ended' = {} /\ UNCHANGED <<truth, charmed, queue, triggers>>

ProgsNext == mprog_process_queue \/ mprog_driver \/ Charm \/ \E p \in DOMAIN Programs : Trigger(p)
ProgsSpec == ProgsInit /\ [][ProgsNext]_progVars

-----------------------------------------------------------------------------
ProgsTypeOK ==
  /\ Len(queue) <= MAX_PROG_QUEUE /\ triggers \in 0..MaxTriggers
  /\ \A i \in DOMAIN runs : runs[i].from \in {"queue", "trigger", "ignored"} /\ (runs[i].from = "queue" => i = 1)

\* A program that came to its end has given the commands that it is written to
\* give, each once, however often it waited and whatever its commands triggered
\* meanwhile; one whose mobile was charmed when it was to begin or to go on
\* (1557-1558) has given a first part of them and no others.  Excepted are those
\* that skipped a part with an if in it (mobprog.c 1114-1232), or lost their
\* place in the buffer or in the queue (1567-1597).
ProgramsAsWritten ==
  \A inst \in ended :
    \/ inst.spoilt \/ SkipsIf(Programs[inst.prog].text)
    \/ LET meant == Meaning(Programs[inst.prog].text).did
       IN IF inst.dropped THEN IsPrefix(inst.did, meant) ELSE inst.did = meant
=============================================================================
