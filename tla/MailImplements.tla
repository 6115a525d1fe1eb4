--------------------------- MODULE MailImplements ---------------------------
(***************************************************************************)
(* The mail file implements Letters: the letters that wait are those whose *)
(* header is indexed, with as many parts as their chain of blocks has.     *)
(***************************************************************************)
EXTENDS MailFile

\* The blocks that read_delete would still collect from a position on: the least
\* set with the block there, and with whatever block one of the set names as its next.
NextBlocks(file, n) == {Link(file[n])} \cap UsedBlocks(file)
BlocksFrom(file, pos) ==
  {n \in UsedBlocks(file) : \A S \in SUBSET UsedBlocks(file) :
     ({pos} \cap UsedBlocks(file) \subseteq S /\ \A m \in S : NextBlocks(file, m) \subseteq S) => n \in S}
PartsFrom(pos) == Cardinality(BlocksFrom(mail_file, pos))

LetterAt(p, pos) ==
  [id |-> mail_file[pos].letter, to |-> p, parts |-> PartsFrom(pos)]

BeingStored == IF mail_op.op = "store" THEN {mail_op.letter} ELSE {}

BeingRead ==
  IF mail_op.op \in {"read", "hung"}
  THEN {[id |-> mail_op.letter, to |-> Head(mail_op.todo),
         parts |-> mail_op.parts + PartsFrom(mail_op.at)]}
  ELSE {}

Indexed == UNION {{LetterAt(p, mail_index[p][i]) : i \in DOMAIN mail_index[p]} : p \in Addressees}

MailLetter == [id: 1..MaxLetters, to: Addressees, parts: 1..MaxParts]

Promise == INSTANCE Letters WITH
  Letter  <- MailLetter,
  waiting <- {l \in Indexed : \A s \in BeingStored : l.id # s.id},
  posting <- BeingStored,
  giving  <- BeingRead,
  given   <- delivered,
  spoilt  <- mixed

\* Every behaviour of the file, its index and its list of free blocks is one of
\* Letters: letters are handed over whole and at most once, and what a crash
\* between two writes of store_mail or read_delete can spoil is the letter that
\* is being written or read (mail.c 289-374, 453-550); unless a crash came
\* between the link to a block and the block (373-380), and a later letter took
\* that block before the torn one was received.
ImplementsLetters == Promise!LettersSpec

\* A block has one use, with the same exception: the free list names deleted
\* blocks, each once, the index names headers, and no block follows two others
\* (mail.c 86-123, 204-229).
BlocksHaveOneUse ==
  LET Linked == {n \in DOMAIN mail_file :
                   mail_file[n].type # DELETED_BLOCK /\ Link(mail_file[n]) # LAST_BLOCK}
  IN mixed \/
     /\ mail_op.op # "hung" =>
          \A m, n \in DOMAIN free_list :
            /\ free_list[m] = free_list[n] => m = n
            /\ mail_file[free_list[m]].type = DELETED_BLOCK
     /\ \A p \in Addressees : \A n \in DOMAIN mail_index[p] :
          mail_file[mail_index[p][n]].type = HEADER_BLOCK
     /\ \A m, n \in Linked : Link(mail_file[m]) = Link(mail_file[n]) => m = n
\* The file keeps the promise, and is a sound file, through every crash.
MailSound == []BlocksHaveOneUse /\ ImplementsLetters
=============================================================================
