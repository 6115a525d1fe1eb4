----------------------------- MODULE TextEditor -----------------------------
(***************************************************************************)
(* The editor in which all longer texts are written, and the pager in      *)
(* which they are shown (modify.c, utils.c).  A text is the sequence of    *)
(* the sizes of its lines, line ends included; "cut" says that the last    *)
(* line has lost its end; "mem" is the size of the memory that holds it.   *)
(* An editor writes through a pointer into the text's home: a note, a      *)
(* player's description, what an online editor works on, a clan's text,    *)
(* or one of the texts of the game (tedit), which others may edit as well. *)
(***************************************************************************)
EXTENDS Integers, Sequences, FiniteSets, SequencesExt

CONSTANTS
  Editors,      \* descriptors
  EditKinds,    \* [kind -> the home of its text], for those that are explored
  max_str,      \* bytes that a text may have
  LineSizes,    \* sizes of the lines that are typed, without their ends
  PAGES,        \* pages that a listing may fill
  MaxLines      \* bound on the lines of a text

VARIABLES
  texts,        \* texts[home]: the text there
  text_files,   \* text_files[home]: the lines of the file of a game text
  editing,      \* editing[d]: [home, kind, backstr]
  showstr       \* showstr[d]: [page, count], count 0 when nothing is paged

editorVars == <<texts, text_files, editing, showstr>>

NoText == [lines |-> <<>>, cut |-> FALSE, mem |-> 0]      \* a null pointer
Written(lines, cut, mem) == [lines |-> lines, cut |-> cut, mem |-> mem]
BytesOf(lines) == FoldSeq(LAMBDA n, sum : n + sum, 0, lines)
strlen(t) == BytesOf(t.lines)
str_dup(t) == IF t = NoText THEN t ELSE [t EXCEPT !.mem = strlen(t) + 1]
NotEditing == [home |-> <<"none", "none">>, kind |-> "none", backstr |-> NoText]
Home(d, kind) == IF EditKinds[kind] = "own" THEN <<kind, d>> ELSE <<kind, "shared">>
Homes == {Home(d, kind) : d \in Editors, kind \in DOMAIN EditKinds}
NoPages == [page |-> 0, count |-> 0]
\* A text of n pages: the first is shown at once.
page_string(n) == IF n = 1 THEN NoPages ELSE [page |-> 1, count |-> n]

EditorInit ==
  /\ texts \in [Homes -> {NoText, Written(<<3>>, FALSE, 6)}]
  /\ text_files = [h \in Homes |-> texts[h].lines]
  /\ editing = [d \in Editors |-> NotEditing]
  /\ showstr = [d \in Editors |-> NoPages]

\* The input of d goes to the editor: the pager would take it first.
AtEditor(d) == editing[d] # NotEditing /\ showstr[d].count = 0
TextOf(d) == texts[editing[d].home]

-----------------------------------------------------------------------------
\* The callers that set d->str: do_write (only on an empty note), main menu 2,
\* redit, medit and oedit, the clan editor, do_tedit.
StartEditing(d, kind) ==
  /\ editing[d] = NotEditing /\ showstr[d].count = 0
  /\ kind = "note" => texts[Home(d, kind)] = NoText
  /\ editing' = [editing EXCEPT ![d] =
       [home |-> Home(d, kind), kind |-> kind, backstr |-> str_dup(texts[Home(d, kind)])]]
  /\ UNCHANGED <<texts, text_files, showstr>>

\* What string_add does with the empty line that a command leaves.
AfterCommand(t) ==
  IF t = NoText THEN Written(<<>>, FALSE, 3)
  ELSE IF strlen(t) > max_str THEN t
  ELSE [t EXCEPT !.mem = strlen(t) + 3]

\* A line is put at the end, behind what a cut line has left.
AppendLine(t, size) ==
  IF t.cut THEN [t EXCEPT !.lines = [@ EXCEPT ![Len(@)] = @ + size], !.cut = FALSE]
  ELSE [t EXCEPT !.lines = Append(@, size)]

\* bug: the memory has no room for the line end.
string_addTight(d, n) ==
  LET t == TextOf(d)
  IN /\ AtEditor(d) /\ Len(t.lines) < MaxLines /\ t # NoText
     /\ n + strlen(t) <= max_str
     /\ texts' = [texts EXCEPT ![editing[d].home] =
          [AppendLine(t, n + 2) EXCEPT !.mem = strlen(t) + n + 2]]
     /\ UNCHANGED <<text_files, editing, showstr>>
\* A typed line: too long a first line is truncated; a later one is refused, but
\* its line end is added all the same, beyond the text's memory.  Bound: MaxLines.
string_add(d, n) ==
  LET t == TextOf(d)
      first == IF n > max_str THEN max_str ELSE n
  IN /\ AtEditor(d) /\ Len(t.lines) < MaxLines
     /\ texts' = [texts EXCEPT ![editing[d].home] =
          IF t = NoText THEN Written(<<first + 2>>, FALSE, first + 3)
          ELSE IF n + strlen(t) > max_str THEN AppendLine(t, 2)
          ELSE [AppendLine(t, n + 2) EXCEPT !.mem = strlen(t) + n + 3]]
     /\ UNCHANGED <<text_files, editing, showstr>>

\* d's command has made text t of its text.
Edited(d, t) == /\ texts' = [texts EXCEPT ![editing[d].home] = AfterCommand(t)]
                /\ UNCHANGED <<text_files, editing, showstr>>

\* "/c"
string_add_clear(d) == AtEditor(d) /\ Edited(d, NoText)

\* "/f": one paragraph, which may be longer by the indent and is cut at max_str.
format_text(d) ==
  LET t == TextOf(d)
  IN /\ AtEditor(d) /\ t # NoText
     /\ \E indent \in {0, 3} :
          LET words == SelectSeq(t.lines, LAMBDA n : n > 2)
              whole == indent + BytesOf(words) - Len(words) + (IF words = <<>> THEN 2 ELSE 1)
              kept == IF whole > max_str THEN max_str ELSE whole
          IN Edited(d, Written(<<kept>>, whole > max_str,
                               IF kept + 3 < max_str THEN kept + 3 ELSE max_str))

\* "/d": the lines from low to high; those beyond the end do not count.
parse_action_delete(d, low, high) ==
  LET t == TextOf(d)
      kept == SelectSeq([i \in DOMAIN t.lines |-> <<i, t.lines[i]>>],
                        LAMBDA l : l[1] < low \/ l[1] > high)
      lines == [i \in DOMAIN kept |-> kept[i][2]]
  IN /\ AtEditor(d) /\ t # NoText /\ low <= high
     /\ low <= Len(t.lines) + (IF t.cut THEN 0 ELSE 1)
     /\ Edited(d, Written(lines, t.cut /\ high < Len(t.lines), BytesOf(lines) + 3))

\* "/i": before line low.  At the very end the code measures what is behind the
\* end of the text, so that it may refuse or not.
parse_action_insert(d, low, n) ==
  LET t == TextOf(d)
      atend == low = Len(t.lines) + 1
      lines == SubSeq(t.lines, 1, low - 1) \o <<n + 2>> \o SubSeq(t.lines, low, Len(t.lines))
  IN /\ AtEditor(d) /\ t # NoText /\ Len(t.lines) < MaxLines
     /\ low <= Len(t.lines) + (IF t.cut THEN 0 ELSE 1)
     /\ strlen(t) + n + 2 + 3 - (IF atend THEN 0 ELSE 1) <= max_str
     /\ Edited(d, Written(lines, t.cut, BytesOf(lines) + 3))

\* "/e": line low, or a new line at the end.
parse_action_edit(d, low, n) ==
  LET t == TextOf(d)
      lines == SubSeq(t.lines, 1, low - 1) \o <<n + 2>> \o SubSeq(t.lines, low + 1, Len(t.lines))
  IN /\ AtEditor(d) /\ t # NoText /\ Len(t.lines) < MaxLines
     /\ low <= Len(t.lines) + (IF t.cut THEN 0 ELSE 1)
     /\ BytesOf(lines) <= max_str
     /\ Edited(d, Written(lines, t.cut /\ low < Len(t.lines), BytesOf(lines) + 3))

ReplaceMeasured(t, more) == strlen(t) + more <= max_str
\* "/r" and "/ra", for a pattern that the lines of occs begin with and that is
\* longer or shorter by one: with all, only the text up to each is measured.  If
\* that is too long, the replacement is given up, and the text ends where it was.
replace_str(d, occs, more) ==
  LET t == TextOf(d)
      lines == [i \in DOMAIN t.lines |-> IF i \in occs THEN t.lines[i] + more ELSE t.lines[i]]
      over == {i \in occs : BytesOf(SubSeq(lines, 1, i - 1)) + 1 + more > max_str}
  IN /\ AtEditor(d) /\ t # NoText /\ occs # {} /\ occs \subseteq DOMAIN t.lines
     /\ \A i \in occs : t.lines[i] > 2
     /\ ReplaceMeasured(t, more)
     /\ Edited(d, IF over = {} THEN Written(lines, t.cut, BytesOf(lines) + 3)
                  ELSE [t EXCEPT !.lines = SubSeq(@, 1, Min(over) - 1), !.cut = FALSE])

\* "/l" and "/n": the listing is a copy, shown in pages; one page is not kept.
parse_action_list(d) ==
  /\ AtEditor(d) /\ TextOf(d) # NoText
  /\ \E n \in 1..PAGES :
       showstr' = [showstr EXCEPT ![d] = page_string(n)]
  /\ texts' = [texts EXCEPT ![editing[d].home] = AfterCommand(TextOf(d))]
  /\ UNCHANGED <<text_files, editing>>

\* An empty text is none.
OrNoText(t) == IF t.lines = <<>> THEN NoText ELSE t

\* "/s": a note without text is not among the cases: the code goes on from its
\* pointer, which is null.
string_add_save(d) ==
  LET e == editing[d]
      t == OrNoText(AfterCommand(TextOf(d)))
  IN /\ AtEditor(d) /\ ~(e.kind = "note" /\ t = NoText)
     /\ texts' = [texts EXCEPT ![e.home] = t]
     /\ text_files' = IF e.kind = "texted" THEN [text_files EXCEPT ![e.home] = t.lines]
                      ELSE text_files
     /\ editing' = [editing EXCEPT ![d] = NotEditing]
     /\ UNCHANGED showstr

\* "/a"
string_add_abort(d) ==
  /\ AtEditor(d)
  /\ texts' = [texts EXCEPT ![editing[d].home] = editing[d].backstr]
  /\ editing' = [editing EXCEPT ![d] = NotEditing]
  /\ UNCHANGED <<text_files, showstr>>

\* The pages of a listing: RETURN, r, b, a number, q.
show_string(d) ==
  LET s == showstr[d]
      Shown(page) == IF page + 1 >= s.count THEN NoPages ELSE [s EXCEPT !.page = page + 1]
  IN /\ s.count > 0
     /\ \E page \in {s.page} \cup {IF s.page > k THEN s.page - k ELSE 0 : k \in {1, 2}}
                    \cup 0..(s.count - 1) :
          showstr' = [showstr EXCEPT ![d] = Shown(page)]
     /\ UNCHANGED <<texts, text_files, editing>>
show_string_quit(d) ==
  /\ showstr[d].count > 0
  /\ showstr' = [showstr EXCEPT ![d] = NoPages]
  /\ UNCHANGED <<texts, text_files, editing>>

EditorNext == \E d \in Editors :
  \/ \E kind \in DOMAIN EditKinds : StartEditing(d, kind)
  \/ \E n \in LineSizes :
       \/ string_add(d, n)
       \/ \E low \in 1..MaxLines : parse_action_insert(d, low, n) \/ parse_action_edit(d, low, n)
  \/ \E low, high \in 1..MaxLines : parse_action_delete(d, low, high)
  \/ \E occs \in SUBSET (1..MaxLines), more \in {-1, 1} : replace_str(d, occs, more)
  \/ string_add_clear(d) \/ format_text(d) \/ parse_action_list(d)
  \/ string_add_save(d) \/ string_add_abort(d) \/ show_string(d) \/ show_string_quit(d)

EditorSpec == EditorInit /\ [][EditorNext]_editorVars

-----------------------------------------------------------------------------
EditorTypeOK ==
  /\ \A h \in Homes : texts[h].mem \in Nat /\ texts[h].cut \in BOOLEAN
  /\ \A d \in Editors : /\ editing[d] = NotEditing \/ editing[d].home \in Homes
                        /\ showstr[d].count = 0 \/ showstr[d].page < showstr[d].count

Fits(t) == t.mem = 0 \/ strlen(t) + 1 <= t.mem
\* A text that fits into its memory fits after every line and every command, but
\* for a line that is refused ("Last line ignored"), whose end is written beyond
\* it; and it does not outgrow the limit by more than a line end, but for refused
\* lines, for /a, which gives back the text as it was, and for /ra, which
\* measures only what is before the last replacement (modify.c 127-171, 596-627,
\* 770; utils.c 579-628).  A text that formatting has filled to its limit does
\* not fit for a moment, until string_add makes room for its empty line.
OverrunsAreKnown ==
  [][\A h \in Homes :
       LET t == texts[h]
           u == texts'[h]
           Refused == u.mem = t.mem /\ strlen(u) = strlen(t) + 2

           ReplacedAll == Len(u.lines) = Len(t.lines) /\ strlen(u) > strlen(t) + 1
       IN /\ Fits(t) => Fits(u) \/ Refused
          /\ strlen(t) <= max_str + 2 => strlen(u) <= max_str + 2 \/ Refused \/ ReplacedAll
               \/ editing' # editing]_editorVars
=============================================================================
