------------------------------- MODULE Boards -------------------------------
(***************************************************************************)
(* The bulletin boards (boards.c, and the end of string_add in modify.c).  *)
(* All boards share one array of texts, msg_storage, in which every        *)
(* message has a slot; a response names the message that it answers by its *)
(* place on the board, which changes when messages are removed.  A board   *)
(* is saved to its file when a text is ended or a message is removed, and  *)
(* read when a board is first used.  Places count from 1; a message that   *)
(* answers none has reply_num 0.  A writer whose character dies goes to    *)
(* the menu and writes on there, for input goes to a text that is being    *)
(* written first (comm.c 864); who removes a message looks only at the     *)
(* writers who are playing.                                                *)
(***************************************************************************)
EXTENDS Integers, Sequences, FiniteSets, SequencesExt

CONSTANTS
  BoardList,            \* the boards of board_info, in the order they are read
  Posters,              \* players with a link
  PosterLevel,          \* PosterLevel[p]: the level of p
  WriteLevel,           \* WRITE_LVL of a board
  RemoveLevel,          \* REMOVE_LVL of a board
  MAX_BOARD_MESSAGES,   \* messages that a board can hold
  INDEX_SIZE,           \* slots of msg_storage
  MaxPosts              \* bound on the messages that are begun

\* No board is listed twice in board_info.
ASSUME BoardsAssumption ==
  /\ INDEX_SIZE \in Nat /\ MAX_BOARD_MESSAGES \in Nat /\ MaxPosts \in Nat
  /\ BoardList \in Seq(ToSet(BoardList))
  /\ \A m, n \in DOMAIN BoardList : m # n => BoardList[m] # BoardList[n]

VARIABLES
  msg_index,            \* msg_index[b]: the messages of board b, oldest first
  msg_storage,          \* msg_storage[s]: whether slot s holds a text
  msg_storage_taken,    \* the slots that find_slot has given away
  board_writing,        \* board_writing[p]: [board, slot] that p writes to
  board_file,           \* board_file[b]: the messages in the file of board b
  board_posts,          \* how many messages were begun
  boards_loaded,        \* init_boards has been called
  at_menu               \* the writers who are in CON_MENU

boardVars == <<msg_index, msg_storage, msg_storage_taken, board_writing,
               board_file, board_posts, boards_loaded, at_menu>>

BoardSet == ToSet(BoardList)
Slot == 0..(INDEX_SIZE - 1)
Nowhere == [board |-> "nowhere", slot |-> -1]

FreeSlots(taken) == {s \in Slot : s \notin taken}
\* The slot that find_slot returns: the first one that is free, or -1.
FoundSlot(taken) ==
  IF FreeSlots(taken) = {} THEN -1
  ELSE CHOOSE s \in FreeSlots(taken) : \A t \in FreeSlots(taken) : s <= t
find_slot == msg_storage_taken' = msg_storage_taken \cup ({FoundSlot(msg_storage_taken)} \ {-1})

\* What Board_save_board writes of a board: the messages, each with its text or
\* without one; the slot that it had is read back but not used.
SavedAs(b, storage) ==
  [i \in DOMAIN msg_index[b] |->
     [id |-> msg_index[b][i].id, by |-> msg_index[b][i].by,
      level |-> msg_index[b][i].level, reply |-> msg_index[b][i].reply,
      text |-> storage[msg_index[b][i].slot]]]

\* The place among all loaded messages of message i of the n-th board: the
\* slots are given away in this order when the boards are read.
LoadOrder(n, i) ==
  Cardinality({x \in (1..Len(BoardList)) \X (1..MAX_BOARD_MESSAGES) :
                 x[1] < n /\ x[2] \in DOMAIN board_file[BoardList[x[1]]]}) + i - 1

BoardsInit ==
  /\ msg_index = [b \in BoardSet |-> <<>>]
  /\ msg_storage = [s \in Slot |-> FALSE]
  /\ msg_storage_taken = {}
  /\ board_writing = [p \in Posters |-> Nowhere]
  /\ board_file = [b \in BoardSet |-> <<>>]
  /\ board_posts = 0
  /\ boards_loaded = FALSE
  /\ at_menu = {}

-----------------------------------------------------------------------------
\* The first command at a board reads all boards (init_boards, Board_load_board).
init_boards ==
  LET Count == LoadOrder(Len(BoardList) + 1, 1)
  IN /\ ~boards_loaded
     /\ boards_loaded' = TRUE
     /\ msg_index' = [b \in BoardSet |->
          LET n == CHOOSE n \in DOMAIN BoardList : BoardList[n] = b
          IN [i \in DOMAIN board_file[b] |->
                [id |-> board_file[b][i].id, by |-> board_file[b][i].by,
                 level |-> board_file[b][i].level, reply |-> board_file[b][i].reply,
                 slot |-> LoadOrder(n, i)]]]
     /\ msg_storage_taken' = 0..(Count - 1)
     /\ msg_storage' = [s \in Slot |-> \E n \in DOMAIN BoardList :
          \E i \in DOMAIN board_file[BoardList[n]] :
            LoadOrder(n, i) = s /\ board_file[BoardList[n]][i].text]
     /\ UNCHANGED <<board_writing, board_file, board_posts, at_menu>>

\* p can give commands to board b.
AtBoard(p, b) == boards_loaded /\ board_writing[p] = Nowhere /\ b \in BoardSet

\* A message is put at the end of the board, without a text yet, and p writes it.
NewMessage(p, b, reply) ==
  /\ msg_index' = [msg_index EXCEPT ![b] = Append(@,
       [id |-> board_posts + 1, by |-> p, level |-> PosterLevel[p],
        reply |-> reply, slot |-> FoundSlot(msg_storage_taken)])]
  /\ board_writing' = [board_writing EXCEPT ![p] =
       [board |-> b, slot |-> FoundSlot(msg_storage_taken)]]
  /\ board_posts' = board_posts + 1

\* bug: that no slot was found is not asked.
Board_write_messageNoSlot(p, b) ==
  /\ AtBoard(p, b) /\ board_posts < MaxPosts
  /\ PosterLevel[p] >= WriteLevel[b]
  /\ Len(msg_index[b]) < MAX_BOARD_MESSAGES
  /\ find_slot
  /\ \/ NewMessage(p, b, 0)
     \/ UNCHANGED <<msg_index, board_writing, board_posts>>
  /\ UNCHANGED <<msg_storage, board_file, boards_loaded, at_menu>>
\* "write <headline>": without a headline the slot that was found is kept.
\* Bound: MaxPosts.
Board_write_message(p, b) ==
  /\ AtBoard(p, b) /\ board_posts < MaxPosts
  /\ PosterLevel[p] >= WriteLevel[b]
  /\ Len(msg_index[b]) < MAX_BOARD_MESSAGES
  /\ find_slot
  /\ \/ FoundSlot(msg_storage_taken) # -1 /\ NewMessage(p, b, 0)
     \/ UNCHANGED <<msg_index, board_writing, board_posts>>
  /\ UNCHANGED <<msg_storage, board_file, boards_loaded, at_menu>>

\* "respond <msg>": so it is when there is no such message.
Board_respond_message(p, b, msg) ==
  /\ AtBoard(p, b) /\ board_posts < MaxPosts
  /\ PosterLevel[p] >= WriteLevel[b]
  /\ Len(msg_index[b]) < MAX_BOARD_MESSAGES
  /\ find_slot
  /\ IF FoundSlot(msg_storage_taken) # -1 /\ msg \in DOMAIN msg_index[b]
     THEN NewMessage(p, b, msg)
     ELSE UNCHANGED <<msg_index, board_writing, board_posts>>
  /\ UNCHANGED <<msg_storage, board_file, boards_loaded, at_menu>>

\* A line of text is added to the slot that p writes to.
string_add_line(p) ==
  /\ board_writing[p] # Nowhere
  /\ msg_storage' = [msg_storage EXCEPT ![board_writing[p].slot] = TRUE]
  /\ UNCHANGED <<msg_index, msg_storage_taken, board_writing, board_file,
                 board_posts, boards_loaded, at_menu>>

\* "/s" or "/a": the board is saved, whatever the message's text; a text that
\* "/c" had cleared is none.
string_add_end(p) ==
  LET w == board_writing[p]
  IN /\ w # Nowhere
     /\ \E text \in {FALSE, msg_storage[w.slot]} :
          msg_storage' = [msg_storage EXCEPT ![w.slot] = text]
     /\ board_file' = [board_file EXCEPT ![w.board] = SavedAs(w.board, msg_storage')]
     /\ board_writing' = [board_writing EXCEPT ![p] = Nowhere]
     /\ at_menu' = at_menu \ {p}
     /\ UNCHANGED <<msg_index, msg_storage_taken, board_posts, boards_loaded>>

\* The writer's link is lost: what was written stays on the board, unsaved.
LoseWriter(p) ==
  /\ board_writing[p] # Nowhere
  /\ board_writing' = [board_writing EXCEPT ![p] = Nowhere]
  /\ at_menu' = at_menu \ {p}
  /\ UNCHANGED <<msg_index, msg_storage, msg_storage_taken, board_file,
                 board_posts, boards_loaded>>

\* The writer's character is extracted: his link stays, in the menu, and so does
\* what he writes to.
ExtractWriter(p) ==
  /\ board_writing[p] # Nowhere /\ p \notin at_menu
  /\ at_menu' = at_menu \cup {p}
  /\ UNCHANGED <<msg_index, msg_storage, msg_storage_taken, board_writing,
                 board_file, board_posts, boards_loaded>>

\* Nobody who plays writes to the slot.
NotBeingWritten(slot) == \A q \in Posters \ at_menu : board_writing[q].slot # slot

\* bug: whoever answers any message is renumbered.
WithoutMessageShifted(list, ind) ==
  [i \in 1..(Len(list) - 1) |->
     LET m == IF i < ind THEN list[i] ELSE list[i + 1]
     IN IF i >= ind /\ m.reply >= 1 THEN [m EXCEPT !.reply = @ - 1] ELSE m]
\* The list without message ind: those that answer a later message, or a
\* later place, count one less.
WithoutMessage(list, ind) ==
  [i \in 1..(Len(list) - 1) |->
     LET m == IF i < ind THEN list[i] ELSE list[i + 1]
     IN IF i >= ind /\ m.reply >= ind THEN [m EXCEPT !.reply = @ - 1] ELSE m]

Board_remove_msg(p, b, ind) ==
  LET m == msg_index[b][ind]
  IN /\ AtBoard(p, b) /\ ind \in DOMAIN msg_index[b]
     /\ PosterLevel[p] >= RemoveLevel[b] \/ m.by = p
     /\ PosterLevel[p] >= m.level
     /\ \A i \in DOMAIN msg_index[b] : msg_index[b][i].reply # ind
     /\ NotBeingWritten(m.slot)
     /\ msg_storage' = [msg_storage EXCEPT ![m.slot] = FALSE]
     /\ msg_storage_taken' = msg_storage_taken \ {m.slot}
     /\ msg_index' = [msg_index EXCEPT ![b] = WithoutMessage(@, ind)]
     /\ board_file' = [board_file EXCEPT ![b] =
          LET list == WithoutMessage(msg_index[b], ind)
          IN [i \in DOMAIN list |->
               [id |-> list[i].id, by |-> list[i].by, level |-> list[i].level,
                reply |-> list[i].reply, text |-> msg_storage[list[i].slot]]]]
     /\ UNCHANGED <<board_writing, board_posts, boards_loaded, at_menu>>

\* The program stops and starts again: the files are what is left.
BoardsCrash ==
  /\ msg_index' = [b \in BoardSet |-> <<>>]
  /\ msg_storage' = [s \in Slot |-> FALSE]
  /\ msg_storage_taken' = {}
  /\ board_writing' = [p \in Posters |-> Nowhere]
  /\ at_menu' = {}
  /\ boards_loaded' = FALSE
  /\ UNCHANGED <<board_file, board_posts>>

BoardsNext ==
  \/ init_boards \/ BoardsCrash
  \/ \E p \in Posters :
       \/ string_add_line(p) \/ string_add_end(p) \/ LoseWriter(p) \/ ExtractWriter(p)
       \/ \E b \in BoardSet :
            \/ Board_write_message(p, b)
            \/ \E msg \in 1..MAX_BOARD_MESSAGES :
                 Board_respond_message(p, b, msg) \/ Board_remove_msg(p, b, msg)

BoardsSpec == BoardsInit /\ [][BoardsNext]_boardVars

-----------------------------------------------------------------------------
BoardsTypeOK ==
  /\ \A b \in BoardSet :
       /\ Len(msg_index[b]) <= MAX_BOARD_MESSAGES
       /\ \A i \in DOMAIN msg_index[b] :
            /\ msg_index[b][i].by \in Posters /\ msg_index[b][i].slot \in Slot
            /\ msg_index[b][i].reply \in 0..MAX_BOARD_MESSAGES
       /\ Len(board_file[b]) <= MAX_BOARD_MESSAGES
  /\ msg_storage \in [Slot -> BOOLEAN]
  /\ msg_storage_taken \subseteq Slot
  /\ board_writing \in [Posters -> [board: BoardSet, slot: Slot] \cup {Nowhere}]
  /\ board_posts \in 0..MaxPosts /\ boards_loaded \in BOOLEAN
  /\ at_menu \subseteq {p \in Posters : board_writing[p] # Nowhere}

\* Message i of a board, and the message that it answers, by their ids.
Answers(index, b) ==
  {<<index[b][i].id, index[b][index[b][i].reply].id>> :
     i \in {i \in DOMAIN index[b] : index[b][i].reply # 0}}

\* No two messages, on whatever boards, share a slot; every message's slot is
\* taken; who writes while he plays has the slot of a message of his own that is
\* still on its board (who writes on in the menu may have one that is free, or is
\* another message's by now); and a response comes after what it answers, so that
\* showing a board ends (boards.c 83-93, 264-279, 343-440).
BoardSlotsSound ==
  /\ \A b, c \in BoardSet : \A i \in DOMAIN msg_index[b], j \in DOMAIN msg_index[c] :
       msg_index[b][i].slot = msg_index[c][j].slot => <<b, i>> = <<c, j>>
  /\ \A b \in BoardSet : \A i \in DOMAIN msg_index[b] :
       /\ msg_index[b][i].slot \in msg_storage_taken
       /\ msg_index[b][i].reply < i
  /\ \A p \in Posters \ at_menu : board_writing[p] # Nowhere =>
       \E i \in DOMAIN msg_index[board_writing[p].board] :
         /\ msg_index[board_writing[p].board][i].slot = board_writing[p].slot
         /\ msg_index[board_writing[p].board][i].by = p

\* Whatever is removed from a board, written to it or read back from its file, a
\* response that is still there answers the message that it was written for
\* (boards.c 408-418, 460-498).
ResponsesKeepTheirMessage ==
  [][\A b \in BoardSet :
       boards_loaded /\ boards_loaded' =>
         \A a \in Answers(msg_index, b) :
           (\E i \in DOMAIN msg_index'[b] : msg_index'[b][i].id = a[1])
             => a \in Answers(msg_index', b)]_boardVars
\* What the boards, the slots and the writers share stays whole at every step.
BoardsSound == []BoardSlotsSound /\ ResponsesKeepTheirMessage
=============================================================================
