------------------------------- MODULE Letters -------------------------------
(***************************************************************************)
(* What the mail system promises, without its file: a letter that has been *)
(* posted waits for its recipient and is handed over whole and at most     *)
(* once.  A crash may lose the letter that is just being posted or handed  *)
(* over, or cut the end off the one being posted, and no other letter; but *)
(* what was cut may spoil the letters that come after, and then nothing is *)
(* promised any more.                                                      *)
(* A letter is [id, to, parts]; parts counts the blocks that its text has. *)
(***************************************************************************)
EXTENDS Integers

CONSTANTS
  Letter      \* the letters that there can be, a set of records [id, to, parts]

VARIABLES
  waiting,    \* the letters that their recipients can ask for
  posting,    \* the letter that is being posted: {} or one letter
  giving,     \* the letter that is being handed over: {} or one letter
  given,      \* the letters that were handed over
  spoilt      \* a letter has got into another one whose end was cut off

letterVars == <<waiting, posting, giving, given>>

LettersInit == waiting = {} /\ posting = {} /\ giving = {} /\ given = {} /\ ~spoilt

\* A player ends a letter, whose id no earlier letter had; a short one waits
\* at once.
BeginPost ==
  /\ posting = {} /\ giving = {}
  /\ \E l \in Letter :
       /\ \A k \in waiting \cup given : k.id # l.id
       /\ \/ posting' = {l} /\ UNCHANGED waiting
          \/ waiting' = waiting \cup {l} /\ UNCHANGED posting
  /\ UNCHANGED <<giving, given>>

EndPost ==
  /\ posting # {}
  /\ waiting' = waiting \cup posting
  /\ posting' = {}
  /\ UNCHANGED <<giving, given>>

BeginGive ==
  /\ posting = {} /\ giving = {}
  /\ \E l \in waiting : giving' = {l} /\ waiting' = waiting \ {l}
  /\ UNCHANGED <<posting, given>>

\* A letter is handed over, and the next one may be taken.
EndGive ==
  /\ giving # {}
  /\ given' = given \cup giving
  /\ \/ giving' = {} /\ UNCHANGED waiting
     \/ \E l \in waiting : giving' = {l} /\ waiting' = waiting \ {l}
  /\ UNCHANGED posting

\* The program stops.  What was being posted is lost or waits with its first
\* parts only; what was being handed over is lost or still waits.
Crash ==
  /\ posting' = {} /\ giving' = {}
  /\ \/ waiting' = waiting \cup giving
     \/ waiting' = waiting
     \/ \E l \in posting, k \in Letter :
          /\ k.id = l.id /\ k.to = l.to /\ k.parts <= l.parts
          /\ waiting' = waiting \cup {k}
  /\ UNCHANGED given

LettersNext == BeginPost \/ EndPost \/ BeginGive \/ EndGive \/ Crash

LettersSpec == LettersInit /\ [][LettersNext \/ spoilt']_letterVars
=============================================================================
