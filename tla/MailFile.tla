------------------------------ MODULE MailFile ------------------------------
(***************************************************************************)
(* The mail system (mail.c, and the end of string_add in modify.c).  All   *)
(* letters are kept in one file of blocks, each block naming the next one  *)
(* of its letter; an index of the headers and a list of free blocks are    *)
(* kept in memory and rebuilt from the file when the program starts.  Each *)
(* write to the file is a step of its own, so that the program may crash   *)
(* between any two of them.                                                *)
(***************************************************************************)
EXTENDS Integers, Sequences, FiniteSets, SequencesExt

CONSTANTS
  Addressees,    \* the players that send and receive mail
  MaxLetters,    \* bound on the letters that are written
  MaxParts       \* bound on the blocks that a letter needs

ASSUME MailAssumption ==
  /\ MaxLetters \in Nat \ {0} /\ MaxParts \in Nat \ {0}
  /\ IsFiniteSet(Addressees) /\ "no one" \notin Addressees

VARIABLES
  mail_file,     \* the blocks of MAIL_FILE, by position
  free_list,     \* positions of deleted blocks, the first is taken first
  mail_index,    \* mail_index[p]: positions of the headers of p's letters
  no_mail,       \* the mail system has disabled itself
  mailing,       \* mailing[p]: to whom p is writing (PLR_MAILING), or NoOne
  mail_op,       \* what store_mail or read_delete is in the middle of
  delivered,     \* the letters that players were given, with their parts
  letters_sent,  \* how many letters were written
  torn,          \* a crash has left a letter whose next block was not written
  mixed          \* and a later letter has taken that block

mailVars == <<mail_file, free_list, mail_index, no_mail, mailing, mail_op,
              delivered, letters_sent, torn, mixed>>

HEADER_BLOCK  == -1
LAST_BLOCK    == -2
DELETED_BLOCK == -3
NoOne == "no one"
Idle == [op |-> "idle"]

\* file_end_pos: where pop_free_list puts a block when none is free.
file_end_pos == Len(mail_file) + 1

Header(l, next) ==
  [type |-> HEADER_BLOCK, next |-> next, to |-> l.to, letter |-> l.id, part |-> 1]
Data(l, part, type) ==
  [type |-> type, next |-> LAST_BLOCK, to |-> l.to, letter |-> l.id, part |-> part]

\* The link of a block: header_data.next_block, or the type of a data block.
Link(b) == IF b.type = HEADER_BLOCK THEN b.next ELSE b.type

write_to_file(block, pos) ==
  mail_file' = IF pos = file_end_pos THEN Append(mail_file, block)
               ELSE [mail_file EXCEPT ![pos] = block]

push_free_list(pos) == free_list' = <<pos>> \o free_list

\* The position that pop_free_list returns, and what it does to the list.
PoppedPos == IF free_list = <<>> THEN file_end_pos ELSE Head(free_list)
pop_free_list ==
  free_list' = IF free_list = <<>> THEN <<>> ELSE Tail(free_list)

index_mail(p, pos) == mail_index' = [mail_index EXCEPT ![p] = <<pos>> \o @]
has_mail(p) == mail_index[p] # <<>>

\* The blocks that are not deleted, and whether one of them names pos as its next.
UsedBlocks(file) == {n \in DOMAIN file : file[n].type # DELETED_BLOCK}
LedTo(file, pos) == \E n \in UsedBlocks(file) : Link(file[n]) = pos

\* Positions in the order in which pushing them, lowest first, leaves them.
Pushed(S) ==
  [i \in 1..Cardinality(S) |-> CHOOSE n \in S : Cardinality({m \in S : m > n}) = i - 1]

MailInit ==
  /\ mail_file = <<>> /\ free_list = <<>> /\ delivered = {}
  /\ mail_index = [p \in Addressees |-> <<>>]
  /\ mailing = [p \in Addressees |-> NoOne]
  /\ no_mail = FALSE /\ torn = FALSE /\ mixed = FALSE
  /\ mail_op = Idle /\ letters_sent = 0

-----------------------------------------------------------------------------
(* Writing a letter. *)

\* "mail <player>" to a postmaster; the stamp and the parcel are not modelled.
postmaster_send_mail(p, to) ==
  /\ mail_op = Idle /\ ~no_mail /\ mailing[p] = NoOne
  /\ mailing' = [mailing EXCEPT ![p] = to]
  /\ UNCHANGED <<mail_file, free_list, mail_index, no_mail, mail_op, delivered,
                 letters_sent, torn, mixed>>

\* "/a", or "/s" of an empty text: nothing is sent.
AbortMail(p) ==
  /\ mail_op = Idle /\ mailing[p] # NoOne
  /\ mailing' = [mailing EXCEPT ![p] = NoOne]
  /\ UNCHANGED <<mail_file, free_list, mail_index, no_mail, mail_op, delivered,
                 letters_sent, torn, mixed>>

\* bug: the letter is indexed under who sends it.
store_mail_headerToSender(p, parts) ==
  LET l == [id |-> letters_sent + 1, to |-> mailing[p], parts |-> parts]
  IN /\ mail_op = Idle /\ mailing[p] # NoOne
     /\ letters_sent < MaxLetters /\ parts \in 1..MaxParts
     /\ mailing' = [mailing EXCEPT ![p] = NoOne]
     /\ letters_sent' = letters_sent + 1
     /\ pop_free_list
     /\ index_mail(p, PoppedPos)
     /\ write_to_file(Header(l, LAST_BLOCK), PoppedPos)
     /\ mail_op' = IF parts = 1 THEN Idle
                   ELSE [op |-> "store", letter |-> l, part |-> 1,
                         last |-> PoppedPos, target |-> 0]
     /\ mixed' = (mixed \/ LedTo(mail_file, PoppedPos))
     /\ UNCHANGED <<no_mail, delivered, torn>>

\* "/s": store_mail finds a block, indexes it and writes the header as the
\* last block of the letter.  The block may be one that a torn letter leads to.
\* Bounds: MaxLetters, MaxParts.
store_mail_header(p, parts) ==
  LET l == [id |-> letters_sent + 1, to |-> mailing[p], parts |-> parts]
  IN /\ mail_op = Idle /\ mailing[p] # NoOne
     /\ letters_sent < MaxLetters /\ parts \in 1..MaxParts
     /\ mailing' = [mailing EXCEPT ![p] = NoOne]
     /\ letters_sent' = letters_sent + 1
     /\ pop_free_list
     /\ index_mail(l.to, PoppedPos)
     /\ write_to_file(Header(l, LAST_BLOCK), PoppedPos)
     /\ mail_op' = IF parts = 1 THEN Idle
                   ELSE [op |-> "store", letter |-> l, part |-> 1,
                         last |-> PoppedPos, target |-> 0]
     /\ mixed' = (mixed \/ LedTo(mail_file, PoppedPos))
     /\ UNCHANGED <<no_mail, delivered, torn>>

\* The block that was written last is written again with a link to the next.
store_mail_link ==
  /\ mail_op.op = "store" /\ mail_op.target = 0
  /\ LET l == mail_op.letter
     IN write_to_file(IF mail_op.part = 1 THEN Header(l, PoppedPos)
                      ELSE Data(l, mail_op.part, PoppedPos), mail_op.last)
  /\ pop_free_list
  /\ mail_op' = [mail_op EXCEPT !.target = PoppedPos]
  /\ mixed' = (mixed \/ LedTo(mail_file, PoppedPos))
  /\ UNCHANGED <<mail_index, no_mail, mailing, delivered, letters_sent, torn>>

\* The next block is written, assuming that it is the last one.
store_mail_data ==
  /\ mail_op.op = "store" /\ mail_op.target # 0
  /\ write_to_file(Data(mail_op.letter, mail_op.part + 1, LAST_BLOCK), mail_op.target)
  /\ mail_op' = IF mail_op.part + 1 = mail_op.letter.parts THEN Idle
                ELSE [mail_op EXCEPT !.part = @ + 1, !.last = mail_op.target,
                                     !.target = 0]
  /\ UNCHANGED <<free_list, mail_index, no_mail, mailing, delivered,
                 letters_sent, torn, mixed>>

-----------------------------------------------------------------------------
(* Receiving letters. *)

\* The next letter is taken for the first player of todo who has mail: its
\* header is the one that was indexed first, the last of the list.
TakeNext(todo) ==
  \/ /\ \A i \in DOMAIN todo : ~has_mail(todo[i])
     /\ mail_op' = Idle /\ UNCHANGED mail_index
  \/ \E i \in DOMAIN todo :
       LET p == todo[i]
           pos == Last(mail_index[p])
       IN /\ has_mail(p) /\ \A j \in 1..(i - 1) : ~has_mail(todo[j])
          /\ mail_index' = [mail_index EXCEPT ![p] = Front(@)]
          /\ mail_op' = [op |-> "read", todo |-> SubSeq(todo, i, Len(todo)), at |-> pos,
                         parts |-> 0, letter |-> mail_file[pos].letter]

\* "receive": all letters, one after another.
postmaster_receive_mail(p) ==
  /\ mail_op = Idle /\ ~no_mail /\ has_mail(p)
  /\ TakeNext(<<p>>)
  /\ UNCHANGED <<mail_file, free_list, no_mail, mailing, delivered,
                 letters_sent, torn, mixed>>

\* The heartbeat hands their letters to those who asked for it (PRF_AUTOMAIL)
\* and are awake: automail, in the order of the descriptors.  It does not ask
\* whether the mail system has disabled itself.
pmail_check(automail) ==
  /\ mail_op = Idle
  /\ TakeNext(automail)
  /\ UNCHANGED <<mail_file, free_list, no_mail, mailing, delivered,
                 letters_sent, torn, mixed>>

\* A block that can be read behind the parts that were read: the header first,
\* whose next_block is followed, and then data, whose type is.  An indexed block
\* is always a header: one that is collected as data ends in read_delete_hangs.
Follows(b, parts) == b.type # DELETED_BLOCK /\ (b.type = HEADER_BLOCK => parts = 0)

\* A block of the letter is read, marked as deleted and put on the free list.
read_delete_block ==
  /\ mail_op.op = "read" /\ mail_op.at \in DOMAIN mail_file
  /\ LET b == mail_file[mail_op.at]
     IN /\ Follows(b, mail_op.parts)
        /\ write_to_file([b EXCEPT !.type = DELETED_BLOCK], mail_op.at)
        /\ push_free_list(mail_op.at)
        /\ mail_op' = [mail_op EXCEPT !.at = Link(b), !.parts = @ + 1]
  /\ UNCHANGED <<mail_index, no_mail, mailing, delivered, letters_sent, torn, mixed>>

\* The whole letter was read: it becomes a piece of paper in the inventory.
read_delete_end ==
  /\ mail_op.op = "read" /\ mail_op.at = LAST_BLOCK
  /\ delivered' = delivered \cup {[id |-> mail_op.letter, to |-> Head(mail_op.todo),
                                   parts |-> mail_op.parts]}
  /\ TakeNext(mail_op.todo)
  /\ UNCHANGED <<mail_file, free_list, no_mail, mailing, letters_sent, torn, mixed>>

\* A link to a deleted block, or to the header of another letter: the type of
\* that block, no position at all, is taken for the next link.  The block is
\* deleted, that link cannot be read (fatal error #3), the data that was read
\* before says the same again, and the loop does not end.
read_delete_hangs ==
  /\ mail_op.op = "read" /\ mail_op.at \in DOMAIN mail_file
  /\ LET b == mail_file[mail_op.at]
     IN /\ ~Follows(b, mail_op.parts)
        /\ write_to_file([b EXCEPT !.type = DELETED_BLOCK], mail_op.at)
  /\ push_free_list(mail_op.at)
  /\ no_mail' = TRUE
  /\ mail_op' = [mail_op EXCEPT !.op = "hung"]
  /\ UNCHANGED <<mail_index, mailing, delivered, letters_sent, torn, mixed>>

\* A link to the end of the file: nothing is read, and the block that is
\* written there and followed is whatever the stack held.
read_delete_past_end ==
  /\ mail_op.op = "read" /\ mail_op.at = file_end_pos
  /\ write_to_file(Data([id |-> 0, to |-> NoOne], 0, DELETED_BLOCK), mail_op.at)
  /\ push_free_list(mail_op.at)
  /\ \/ mail_op' = [mail_op EXCEPT !.at = LAST_BLOCK] /\ no_mail' = no_mail
     \/ mail_op' = [mail_op EXCEPT !.op = "hung"] /\ no_mail' = TRUE
  /\ UNCHANGED <<mail_index, mailing, delivered, letters_sent, torn, mixed>>

-----------------------------------------------------------------------------
(* A crash, and the start of the program. *)

\* scan_file: the headers are indexed and the deleted blocks freed in the order
\* of the file; each goes to the front of its list.
scan_file ==
  /\ mail_index' = [p \in Addressees |->
       Pushed({n \in DOMAIN mail_file : mail_file[n].type = HEADER_BLOCK
                                        /\ mail_file[n].to = p})]
  /\ free_list' = Pushed({n \in DOMAIN mail_file : mail_file[n].type = DELETED_BLOCK})

CrashAndBoot ==
  /\ scan_file
  /\ no_mail' = FALSE
  /\ mailing' = [p \in Addressees |-> NoOne]
  /\ mail_op' = Idle
  /\ torn' = (torn \/ (mail_op.op = "store" /\ mail_op.target # 0))
  /\ UNCHANGED <<mail_file, delivered, letters_sent, mixed>>

MailNext ==
  \/ \E p \in Addressees :
       \/ \E to \in Addressees : postmaster_send_mail(p, to)
       \/ AbortMail(p)
       \/ \E parts \in 1..MaxParts : store_mail_header(p, parts)
       \/ postmaster_receive_mail(p)
  \/ \E automail \in SetToAllKPermutations(Addressees) : pmail_check(automail)
  \/ store_mail_link \/ store_mail_data
  \/ read_delete_block \/ read_delete_end \/ read_delete_hangs \/ read_delete_past_end
  \/ CrashAndBoot

MailSpec == MailInit /\ [][MailNext]_mailVars

-----------------------------------------------------------------------------
\* A torn letter may be given with the ends of later ones.
LetterOf == [id: 0..MaxLetters, to: Addressees \cup {NoOne}, parts: 0..(MaxParts * MaxLetters)]

MailTypeOK ==
  LET Positions == DOMAIN mail_file
  IN /\ \A n \in Positions :
          /\ mail_file[n].type \in {HEADER_BLOCK, LAST_BLOCK, DELETED_BLOCK} \cup Positions \cup {file_end_pos}
          /\ mail_file[n].to \in Addressees \cup {NoOne}
          /\ mail_file[n].letter \in 0..MaxLetters /\ mail_file[n].part \in 0..MaxParts
     /\ ToSet(free_list) \subseteq Positions \cup {file_end_pos}
     /\ \A p \in Addressees : ToSet(mail_index[p]) \subseteq Positions
     /\ mailing \in [Addressees -> Addressees \cup {NoOne}]
     /\ mail_op.op \in {"idle", "store", "read", "hung"}
     /\ delivered \subseteq LetterOf
     /\ letters_sent \in 0..MaxLetters /\ {no_mail, torn, mixed} \subseteq BOOLEAN
     /\ mixed => torn
=============================================================================
