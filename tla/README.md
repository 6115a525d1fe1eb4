# A Darkened Light: a verification development

A Darkened Light is a multi-user game server in C, a descendant of CircleMUD
3.0. Its source is `src/src/*.c`. This directory holds TLA+ models of the parts
of the server whose state is shared by many commands, TLC configurations that
check them on small instances, and proofs that TLAPS checks.

## The system

One process, one thread. `game_loop` (comm.c) repeats one pass every hundredth of a
second: broken connections, input, at most one command per connection, output,
closing of the connections that were marked, and the heartbeat with its dividers
(zone resets, mobile activity, combat rounds, the hourly update, auto-saving).
A command or a heartbeat function runs to its end before anything else does.
What is hard here is therefore not preemption. It is

* that all state hangs together by raw pointers in both directions and by
  counters that nothing ever recomputes, and dozens of commands keep them by hand;
* that a handler may call, several calls deep, something that frees what the
  handler still uses: extraction of a character or an object, a death, a trigger;
* that connections break, time out, log in twice, switch bodies and are marked
  for closing in the middle of a pass, in any order;
* that a walk over a list reads the successor first and then does something that
  may free or move it;
* that tables are edited while everything else holds indices into them;
* that files are written at different times by different commands, by code that
  must agree with the code that reads them, and read back after a stop.

### Inventory

| Part | State | What makes it correct | Model |
|---|---|---|---|
| Output (comm.c) | `output`, `bufptr`, `bufspace`, `large_outbuf`, `bufpool`, `snooping`, `snoop_by` | the accounting describes the text; nothing outgrows its buffer; overflow ends; pool buffers are neither lost nor shared; copying to snoopers ends, but for rings that a change of level let them close | `OutputBuffer` |
| Sessions (comm.c, interpreter.c, act.wizard.c, act.other.c, handler.c) | `character`, `original`, `connected`, `desc`, `character_list`, player file | links agree, no pointer to freed memory, one body per player, marked connections end | `Sessions` |
| Copyover (act.wizard.c, comm.c) | who plays whom where; the hand-over file | everybody resumes what he played | `Copyover` |
| Objects (handler.c, act.item.c, ...) | `object_list`, lists of rooms, characters and containers, back pointers, weights, lights | each object in one place, lists agree with pointers, totals add up, no walk meets a freed object | `ObjWorld` |
| The order of these lists | `next_content` | a loop over a list whose body moves objects ends and loses nothing | `ListWalks` |
| Combat (fight.c, act.offensive.c, mobact.c) | `combat_list`, `FIGHTING`, positions | the list is who fights, also in the middle of a round; one turn each; nobody fights who left, lies down or is at peace; nobody is used after being freed | `Combat` |
| Spells and magic objects (spell_parser.c, magic.c, spells.c) | who is where, room affects, mana | a command that goes from target to target meets the living only; fog ends; mana is not made | `Casting` |
| Affects (handler.c, magic.c, db.c) | `affected` lists, values, flags | what was applied is taken back; saving is not felt | `Affects` |
| Advancement (limits.c, act.wizard.c, multi.c, ...) | levels, experience, legend | totals agree; nobody rises without cause | `Ranks` |
| Mounts (act.movement.c) | `RIDING`, `RIDDEN_BY` | both sides agree, both are in the game | `Riding` |
| Tracking (graph.c) | marks, the queue of the search | the first step is that of a shortest path | `Tracking` |
| Zones (db.c, redit.c, act.movement.c) | ages, `reset_q`, doors, descriptions in memory | a zone that waits is queued; doors keep two sides; nothing edited is dropped | `Zones` |
| Mail (mail.c) | block file, `free_list`, `mail_index` | letters come out whole, at most once; no block has two uses | `MailFile`, which implements `Letters` |
| Boards (boards.c) | `msg_index`, `msg_storage`, `msg_storage_taken` | a slot belongs to one message; responses keep their message | `Boards` |
| Belongings (objsave.c, house.c) | player files, house floors, crash flags | what is not flagged is saved; nothing is doubled | `Belongings` |
| Houses (house.c) | `house_control`, room flags | flags, records and the file agree | `Houses` |
| Clans (clan.c) | `clan_index`, ranks, gold | the table stays sorted, gold is kept | `Clans` |
| Shops (shop.c) | the keeper's list, `lastsort`, till and bank; expressions | the sorted part is sorted; trade is fair; expressions mean what they say | `Keywords`, `Shops` |
| Online editors (olc.c, redit.c, medit.c, oedit.c, zedit.c, sedit.c, gedit.c) | a copy and its mark; tables and indices into them; world files | no change is thrown away unasked; indices stay right; a boot reads what was saved | `OlcMenus`, `WorldTables`, `WorldFiles` |
| Editing of texts (modify.c, utils.c) | text, its memory, the pager | a text stays in its memory | `TextEditor` |
| Mobile programs (mobprog.c) | the queue `mpact`, nested runs | a program does what it says, however it waits | `MobProgs` |
| Commands (interpreter.c, comm.c) | the tree of commands; history, aliases, the queue of input | a word finds its command; lines are done in order | `CommandTree`, `CommandLine` |
| Bans and names, weather, information, tables and utilities | text lists, single fields, or read only | | not modelled |

`PROJECT.json` lists every component with its status and what is left out of it,
and under `hazards` the lines where these difficulties bite, with the properties
that watch them.

The modules fall into two groups. `OutputBuffer`, `Sessions`, `ObjWorld` and
`Combat` are cut across the source files where state is shared by many commands:
each composes the parts of several files that work on the same pointers, and each has
its own instance. The others are components that keep their state apart; they are
checked together in `MCRealm` (below).

## The modules with instances of their own

### OutputBuffer, MCOutputBuffer, MCOutputDrain, OutputBufferProofs

`io` holds for each descriptor the four fields of `descriptor_data` that describe
queued output, and the global pool. A text is its length and its length after
`linewrap`, because `write_to_output` measures the one and, after switching to a
large buffer, copies the other. `WriteToOutput`, `Flushed` and `ClosedIo` are
`write_to_output`, `process_output` and the part of `close_socket` that handles
the queues; `DoSnoop`, `StopSnooping` and `ForgetSnooping` keep the two pointers of
a snoop, and `ExtractChar` clears them when a character quits, dies or is purged.

`level` is `GET_LEVEL` of the player behind a descriptor. `do_snoop` compares two levels when
the snoop begins and nothing looks at them again, while `DoAdvance`, `DoSetLevel`, `DoMulti`
and `DoGain` (`do_advance`, `perform_set`, `do_multi`, `do_gain`) change them under a link
that stays. The history variable `crossed` keeps the snoopers to whose link this has happened.

`output` runs three descriptors, a mortal and two immortals at first, texts of lengths 2 and 4, a small
buffer of 4 and a large one of 7. The sizes are scaled but keep the order and the
relation of structs.h (`SizeAssumption`). All of it happens: a text that fits, one
that needs a large buffer, one that overflows, a snooper's copy that overflows the
snooper, a close in the middle, a victim who is advanced and snoops in turn, a ring of three.
`MCOutputDrain` bounds a whole run: three connections, three commands or closes and one
change of a level, which comes while no output waits; after that, `OutputDrains` asks whether
flushing alone ends. Fairness is weak
fairness of each descriptor's output pass: `game_loop` visits every descriptor in
each pass, and a socket that is not broken is assumed to become writable again.

`QueuesSound` is the conjunction of `Accounting`, `OutputFits` and `OverflowHasText`.
`SnoopSound` has three parts: both ends of a link agree and are connected (`SnoopSymmetric`); two
never snoop each other, whatever their levels have become, since `do_snoop` refuses that in so
many words (`NoMutualSnoop`); and a snooper who is not `crossed` is a god and outranks his victim
(`SnoopDescends`). So output is copied round a ring only if a level was changed under one of its
links. Such rings of three exist; their members (`Endless`) are the exception of `OutputDrains`.
`NothingQueuedIsLost` is about lengths: a text that waits is not cut off by an overflow or by
a snooper's copy. What order the parts come in is not modelled.

*Proved* for every set of descriptors, all levels and the commands that change them, and all sizes within
`SizeAssumption` and `TextAssumption`: the type invariant, `QueuesSound`, `SnoopSound`,
`LargeBuffersAccounted` and the action property `NothingQueuedIsLost`; and `RingsAreCrossed`, that each ring of
snoopers has a member who is `crossed`, for otherwise the levels round it would descend without end. `OutputFits` is not
inductive: whether a text fits depends on `bufspace`, so it needs `Accounting`;
that flushed text fits the snooper's buffer needs only the guards. The arguments
about snooping are independent of the buffers. The accounting of the pool (`PoolInv`) needs to
know in addition that a closed descriptor holds no large buffer; it counts, so it assumes
finitely many descriptors (`DescAssumption`). The liveness properties stay with TLC.

### Sessions, MCSessions, SessionsProofs

`s` holds what `descriptor_data` and `char_data` say about each other. A body is
memory for a character; it is `alive` while allocated and `listed` while in
`character_list`. `phase` and `todo` follow the order of the passes in `game_loop`.
Handlers are operators on `s`: `Returned` is `do_return`, `Extracted` is
`extract_char`, `LoggedIn` is `perform_dupe_check`, `Closed` is `close_socket`. The record's
contents are a version number: playing makes it grow, saving writes it.

`sessions` checks two connections, a mortal and an immortal player, three player bodies,
a mobile, and another that can be brought up by corpse host. Two connections are enough for
every pairing the code distinguishes (taking over a body, cutting off the other,
marking the other); three bodies are needed so that a player who is away in another
body and a second login coexist. Fairness is weak fairness of the passes alone:
`game_loop` never stops, but nobody has to type.

Three runs end in a violation and are the findings of `PROJECT.json`:
`sessions_gedit` (the guild editor is missing from `close_socket`'s clean-up, so a lost
link frees a body that is still in the world), `sessions_quit` (a connection waiting
at the password prompt writes an old record over the one that was quit with) and
`sessions_purge` (purging an animated corpse extracts it twice and stops the program).

`NeverExtractedTwice` and `QuitRecordKept` therefore appear in no passing run, and the
passing run leaves the guild editor out (`Editor`) and does not count versions
(`MaxVersion = 0`); everything else in it is the same.
`LinksSound` is the conjunction of `LinkSymmetric`, `NoDangling` and `PlayedIsListed`.
Two implementors, who may switch into each other's bodies, break `LinkSymmetric`; the
instance has one immortal.

Left out: when input comes for a connection that is marked already and has no character, `nanny` makes
a blank one for it (interpreter.c:1870-1875), which is on no list and stays allocated when the connection ends
(`StrayInput` only marks it).

*Proved* for every set of connections, players and bodies: `LinksSound`,
`OneBodyPerPlayer`, `NeverFreesListed` and the type invariant. The theorems assume what
the instance has: nobody switches into the body of another player
(`NobodyPossessesPlayers`), and every editor in use is one that `close_socket`
cleans up after (`EditorsCleanedUp`); without either the code breaks them.
`LinksSound` is not inductive. What is added is what the handlers rely on about
connections outside of the game: at the prompt and at the menu a connection holds a
player's body that is not in the world (`Waiting`); a switched one plays a mobile and has
left a player's body without a link behind, and nobody else has left that one (`Away`, `AtHome`,
`OneAway`); the player of a connection at the menu is not in the world as well, nor at
the menu twice (`MenuAlone`); freed mobiles have no link (`FreedUnlinked`). Each handler that is an
operator of `Sessions` has a lemma that it keeps all this. The long ones are
`ExtractedSound`, since `extract_char` calls `do_return` twice and in the middle of it a
body is played that is in no room, and `LoggedInSound`: after the other connections of
a player are cut off, nobody holds the player's body in the world, so the linkless one
that is taken over is the only one, and the loop of `perform_dupe_check` that extracts
further ones finds none.

### ObjWorld, MCObjWorld, ObjWorldProofs, ObjMovesProofs, ObjSumsProofs

`w` is the record of everything that says where objects are: the lists of rooms,
characters and containers, the back pointers of `obj_data` that mirror them, and the
totals beside them. The functions of handler.c are operators on the whole record
(`ToChar` is `obj_to_char`, `FromObj` is `obj_from_obj`, `Extract` is `extract_obj`, and so
on), so a command is the composition of the calls it makes, in their order. `job` is a
loop that moves one object after another: a corpse being filled or emptied, a purged
mobile leaving its things. `pass` is `point_update`'s walk along `object_list` with the
successor it has read.

`objects` uses a bag, a torch, bread and a corpse, one player and one mobile, two dry
rooms. `objects_nested` uses two containers (which can be put into each other), a drink
container, a fountain, a river in which things sink, and the spells. Four objects are
needed for a container in a container in something carried, and for a light beside
them. Ends of loops, deaths, and walks over freed and reused memory all occur.

`objects_stale` ends in a violation: a corpse that decays in the hands of a swimmer drops
its contents into the river, where they sink; one of them may be the object that
`point_update` has already chosen as the next.

`Quenched`, `Destroyer`, `Wand` and `WaterMage` switch on commands which are known to break one
of the totals; the runs that check that total have them empty:

* `Destroyer` with `NothingIsLost`: `spell_disintegrate` takes equipment off and puts it
  nowhere (spells.c:680).
* `Quenched` with `LiquidsWeighed`: a player with a THIRST above 25 drinks a negative amount
  (act.item.c:803).
* `WaterMage` with a flask that can be worn, and `LiquidsWeighed`: `weight_change_object` does nothing
  to a worn object.
* `Wand` with a second lit character, and `SumsAddUp`: the wand sets the light of the room
  to zero and puts out one light.

`SumsAddUp` asks for the three totals (weights, what a character carries, lights),
`LiquidsWeighed` for weights and the bounds of liquids.

Not in the model: keys and closed containers, poison, portals, auctions, triggers, `oedit_save_internally`, which
replaces the weights of live objects without telling who carries them (oedit.c:154-172), the
order of lists (a list is a set; `object_list` gives its elements in any order, which is
more than the code can do). What depends on the order, with dig and bury, is in `ListWalks`.

*Proved* for every set of objects, rooms and characters and every table of their
kinds, weights and capacities, all spells included: the type invariant and
`OnePlace`. `OnePlace` is nearly inductive: what has to be added is what the loops know
(`JobOK`: a corpse that is being filled is allocated and not yet anywhere). The proof
follows the code's own division of labour. Each primitive of handler.c has a
lemma: a "from" operation turns a consistent world into one in which the object is
*in hand* (`Held`: allocated and nowhere), a "to" operation turns an object in hand into
a consistent world again; a command is a chain of these. `Inside`, the objects that
`extract_obj` frees with a container, is defined as a least closed set, so that the
proof needs no induction. That drop, wear or decay may leave an object nowhere is
not excluded by `OnePlace`; it is what `NothingIsLost` asks, which the spells break.

*Proved* in `ObjMovesProofs`, about steps and ways:

* `NoContainerLoop`. That every object has an outermost container does not say how to go
  on when one of them is moved. It is strengthened to `Climbs`: every set of objects has a member
  that is in no other one of the set. A set which a new link would spoil is spoilt without it
  as well, or lies in what is inside of the moved object, where the code does not put it.
* `SuccessorLives`, where nothing sinks (`NothingSinks`, which is what `objects_stale` is about). What is
  added (`WalkInv`) says that the walk runs alone but for the decay of the corpse it is at, and that
  it has passed neither its successor nor what is behind that one.
* `NothingIsLost`, where no mobile is disintegrated (`Destroyer = {}`). The
  invariant (`KInv`) adds that who carries something is in a room, also while he is being purged or turned
  into a corpse (`Present`, `AtWork`), and that a corpse is somewhere unless it is the one that is
  being filled (`Corpses`).

*Proved* in `ObjSumsProofs`, for finitely many objects and characters (`FiniteAssumption`):
`SumsAddUp`, with `WeightsAddUp` and `CarriedAddsUp` on their own, and `LiquidsWeighed`. A step changes
the weights of all containers above an object by one amount, while each of them must weigh its own weight and what is
directly in it. The invariant (`SInv`) is about two sums, `Weighed` and `Carried`; the lemma behind all
of it is that exactly one of the things directly in a container lies on the way up from
the changed object when the container does, and none otherwise, which needs `Climbs`. Beside the sums the
invariant says that things are worn where they fit (`Dressed`) and what drink containers hold (`Full`). The hypotheses
are the switches above and nothing else: `Careful` (no magic water in drink containers that are worn, no
wand of wonder with drink containers that are held as a light), `Wand = {}` for the lights, and `Sober`
(`Quenched = {}`, and no flask is created overfull) for the bounds of liquids.

### Combat, MCCombat, CombatProofs

`w` is what the fighting code shares: rooms, positions, hit points, the `FIGHTING`
pointers, `combat_list` (`listed`, in the order `ahead` gives), the global successor
`next_combat_list` (`cursor`) and the masters of charmed mobs. Two of its fields are
history: `due`, who still waits for a turn in this round, and `freedUse`, whether
code has gone on with a mob after `free_char`. Functions that throw dice are sets of
worlds: `Damage` is `damage()` with the value it returns, `Hit` is `hit()`, and each of the
many things `damage()` does is an operator with its name (`Escapes`: wimping out and
divine rescue; `Downed`; `Slain`). `damage()` calls itself for a fire shield and calls
`hit()` when a mob turns from a charmed mob to its master; since such a counter-blow can neither be
answered by a shield again nor be turned twice, the recursion is unfolded (`BurnsMob`, `HitsMaster`,
`Spell`, `Strike`). `job` is a loop whose iterations each do harm: a round
(`TakeTurn`, `Attack`, `EndTurn` are the body of `perform_violence`), an area spell with its
saved successor, a grenade. Nothing else runs until it is over.

Hit points are five bands, cut where `update_pos` cuts them. `Blow` says from which
band to which one call may lead: `damage()` takes 1000 points at most and death is at
-2000, so one blow kills only the mortally wounded. That matters: a mob that has
just been slain was lying there before, so it is not the one who dealt the blow;
`NobodyUsedAfterFree` rests on it, and fails with death at -10 as in the original code base.

`combat` has a player and two mobs: the smallest instance in which somebody fights a third party, a
pet has a master to whom a blow can turn, and the list has a member on either side of the
cursor. It plays in two rooms without peace, so that there are shots from one into the other.
`combat_party` has two players of enemy clans and a mob, for area spells,
grenades, recall and help from friends, in a field and a peaceful haven. The second room stands for the spirit
room, the void, limbo and the temple. Not every band is a target of a blow: the incapacitated are, for the
code, the mortally wounded out of reach of death, and in `combat` (`HeavyBlows`) so are the stunned, whom
`combat_party` has. Up to two attacks in a turn (`MaxAttacks`) are enough
to attack with an opponent lost by the first.

A fighter who loses his opponent and gains another within one blow is taken off the
list and put back at its head, behind the cursor: he loses his turn. `TurnsFair` states
exactly what the code gives: everyone on the list at the start who never left it has one turn.

`ListSound` is the conjunction of `ListIsFighters`, `FoesInGame` and `CursorListed`;
`FallenSound` that of `FallenLieDown` (who lies stunned or worse is off the list) and
`NobodyUsedAfterFree`; `PartySound` has both and `PeaceKept`, for the instance with two players.

`combat_slain` ends in a violation and is a finding of `PROJECT.json`: a player may be brought to
`POS_DEAD` without dying.

*Proved* for every set of players and mobs, rooms, exits, skills, levels, enmities and number of
attacks, and for all blows that `CombatAssumption` admits: the type invariant,
`ListSound`, `TurnsFair` and `PeaceKept`, with all defects of `Mishap` in; and without them (`Mishap = {}`)
`FallenSound` and `PartySound`. None of them is inductive, and no two can be proved apart: that the
round goes on depends on the list, the list on who fights, and who fights on who lies
down. The invariant `Inv` says of the world (`Whole`) that the list has a first member among any
of its members (`Lined`), that fighters and their opponents are in the game (`Facing`) and in no
peaceful room (`Calm`), and that fighters are not stunned except for a set `D` of characters: the victim of a blow, until
`damage()` has taken him off the list (`Down`). Of the loops it says (`JobSound`) that the cursor is the next on the
list, that those behind it are those still due, and that the saved characters of a loop are
in the game. TLC checked `Inv` as an invariant of the instances of `combat` and
`combat_party` before it was proved. Each function of the code, being a set of worlds, has two lemmas: the worlds
are `Good`, and they keep what its callers go on to use. That a player who is being killed
does not free the one who strikes rests on `Blow`, as said above.

`Mishap` names defects that the code has and that break a property directly. The runs
switch them off, so that the property says something of all the rest; with one of
them on (`"grenade"` in `combat_party`, the others in `combat`), TLC finds the violation at once:

* `"bash"`, `FallenSound`: `do_bash` seats whoever `damage()` did not kill, felled or not (act.offensive.c:421).
* `"drown"`, `FallenSound`: water and bleeding take hit points without `update_pos` (limits.c:670-683).
* `"stunned"`, `FallenSound`: fast aggressive mobs and mobs aware of a backstab strike when stunned or worse, and a fire shield kills them in the act.
* `"grenade"`, `PartySound`: a grenade leaves fallen fighters on `combat_list` (fight.c:1789).
* `"affliction"`, `FallenSound`: a mob that fire, frost or acid kills is used by the lines after (limits.c:649-668).
* `"missile"`, `FallenSound`: a mob slain by a missile is asked for its reaction (fight.c:1552).
* `"assist"`, `FallenSound`: a mob may help against itself (act.offensive.c:100).

Abstractions. `POS_RESTING` is taken with `POS_SITTING`; the opponents' statistics,
weapons, experience and loot are gone; heals are the converse of blows; the two hidden guards
of `do_hit` and `do_decapitate` that count player kills are dropped, which allows more. Players
follow nobody, except that a friend with auto-assist may join a fight; every pet is a charmed
mob. A mob attacks once per `mobile_activity` and pounces once per arrival; one
affliction wounds per tick, which takes a hundred points at most (`Floor`). Missiles reach one room
far. Every retreat has a way to go. Left out: mob programs, riding, body hosts, the branch for
players with a maximum of -11 hit points, spells that only set flags, `pk_allowed = NO`, the refusals of
`do_simple_move` other than a pet's and what an immortal does besides slaying and purging mobs.


## The modules of MCRealm

The remaining components keep their state apart. Mail does not read what a board keeps,
nor the other way round, so a product of the two would show nothing new. `MCRealm` is
therefore a *sum*: `part` says which component a behaviour is about, that one takes its
steps, and the others rest in an initial state (`AtRest` picks one where there are
several). Every behaviour of every component's own specification occurs, and the states
add up instead of multiplying. `RealmTypeOK` asks each type invariant in its own part; a
component that rests is as at its start. Three properties put together what concerns one
question: `EditorsSound`, in the module `Editors`, is `TablesSound` and `MenusSound`; `CommandsSound` is
`SearchFinds`, `LinesInOrder` and `ProgramsAsWritten`; `RestartsSound` is
`BelongingsSound`, `HouseFlagsAgree` and `ResumedAsPlayed`. Both of these ask what is said of a state in its own part only.

Where the code breaks a promise in a way that was understood while modelling, the
exception is part of the property, with a comment that names the line; what is left is
everything else. A history variable (`torn` and `mixed`, `misuse`, `miscounted`, `tampered`, `gone`,
`was`) records that such an exception has happened.

### MailFile, Letters, MailImplements, StoresProofs

The file is a function from positions to blocks, as in mail.c; each `write_to_file` is a
step (`store_mail_header`, `store_mail_link`, `store_mail_data`, `read_delete_block`), and
`CrashAndBoot` may come between any two, after which `scan_file` builds the index and the
free list from the file. `Letters` says what this is for: a letter waits, is handed over
whole and once, a crash harms only the letter that is just being posted or handed over, until
two letters are mixed (below).
`MailSound` is `BlocksHaveOneUse` (a free block is deleted in the file and free once, the
index names headers, no block follows two others) and `ImplementsLetters`, the refinement:
the letters that wait are the indexed headers with as many parts as their chain has.

Two addressees, two letters of up to three blocks: a letter is written into the freed
blocks of another, newest first, and behind the end of the file. When a crash comes
between the block that names its successor and the successor, the chain ends in a block
that is free, or in none; `torn` marks this. The code does not notice. When a later letter takes that block,
two chains meet (`mixed`): receiving the torn letter gives out the rest of the later one, deletes its blocks, and may not
end at all (`read_delete_hangs`). This is the exception of both parts of `MailSound`; before it, a torn letter is
a shorter one. Parcels and postage are not modelled.

*Proved* in `StoresProofs` for all addressees, letters and numbers of parts (`MailAssumption`): each
step of the file is a step of `Letters` or none that the box notices. The blocks of a chain
(`BlocksFrom`, `PartsFrom`) are the least set that is closed under `next`, not a walk, so that
a lemma can say what writing or deleting one block does to all chains at once. The invariant
(`MailInv`) says what the handlers rely on between two writes, as long as nothing is mixed: every
block is deleted and free, or in the chain of exactly one header, or the one that is being
written or handed over, whose predecessor names it already; and what a torn letter's last block names
is free or the end of the file.

### Boards, RealmProofs

All boards share `msg_storage`; `find_slot`, `Board_remove_msg`, `Board_save_board` and
`Board_load_board` are inside the actions that call them, and a text ends when
`string_add` sees the end. `BoardsSound`: no two messages share a slot, who writes has the
slot of a message that is still on its board, and a response still names the message that
it answered after others were removed. Three slots for two boards of three messages, so
both limits are met; on the second board only the god writes.

A writer who dies or is purged goes to the menu (`ExtractWriter`) and still has his text: his
lines go into it as before. `Board_remove_msg` looks only at writers who are playing, so that
his message may be removed meanwhile and its slot given to another. What is said of
the slot of a writer is therefore said of those who play; those `at_menu` are the exception.

*Proved* in `RealmProofs` for any list of boards without a repetition, any number of slots and of
messages (`BoardsAssumption`), whatever the levels. The invariant (`BoardInv`) adds that the
messages of a board and of its file are numbered upwards, that a response stands behind what it
answers in the file, too, and that no file has more messages than its board in memory. What is
needed after a stop is that all files together have no more messages than there are slots
(`FilesFit`): while the boards are in memory each message has a slot of its own, so their messages
are no more than the slots (an injection, `FilesCount`), and while they are not, no file changes.
Reading the files then gives each message, in its place in the order of reading, a slot of its own.

### Belongings

Items nest one level, as `[obj, kids]`. A player's file is the sequence of records that
`Crash_save` writes, containers before their contents and an end mark behind; `Crash_load`
reads it back and so does the model, including what it does when a prototype is gone.
`Restart` is a crash or a shutdown; `AutoSave` is the heartbeat's `Crash_save_all` and
`House_save_all`. `BelongingsSound` has two parts: `SavedUnlessFlagged`, what is not
flagged as changed is in the file as it is in memory, with its nesting, and
`NothingDoubled`, until the program stops each thing that can be rented is in exactly one
place: on the floor, with a player, or in the file of one who is out. Two handlings and
one restart: to take, to hand on, and to stop.

### Houses, RealmProofs

`house_control`, its file and the flags of the rooms. `HouseFlagsAgree`: after any
sequence of building, destroying and booting, a room has the flag exactly when it has a
record, an atrium exactly when a house is entered through it, the file says what the
memory says, and a house lets in its owner and guests only. Two records, one guest, three
rooms, two of them with the same atrium; players may delete themselves, and `House_boot`
drops the houses of those, and whatever is a house already.

*Proved* in `RealmProofs` for all rooms, atriums, players and limits, under no assumption. The
invariant (`HouseInv`) says the same of the records themselves: no two are of one room, and in
each the guests are named once and are not the owner. A record that is removed, and a guest,
is followed by where the others were (`Less`, `RemovedAt`), and the boot record by record
(`IterationStays`).

### Clans, StoresProofs

The sorted `clan_index` with its numbers of members, the ranks, the account and the editor
that works on a copy. `ClansSafe`: the search finds every clan, nobody has a rank without
a clan, no two editors work on one number, no member is missing in the count, and gold is
neither made nor lost between purses and accounts, except when an edited record is saved.
One mortal, one god, two numbers, five commands (`MaxDeeds`): enough to apply, be
enlisted, rise, and see the clan deleted and built anew.

*Proved* in `StoresProofs` for finitely many players and all numbers, levels and amounts
(`ClansAssumption`: clan 0 is no clan, and the records of a boot are those of `parse_clan`). The
invariant (`ClansInv`) has four parts: the numbers in the table ascend, so that the search of
`BinarySearch` finds a clan and only that (`ClanFound`); the count of each clan is not below
its members (`MembersCounted`); who names a clan names one that is there (`MembersBelong`);
and open editors are of different numbers and hold no negative count (`EditorsApart`), which is
why a clan that is saved anew can start with no members. That gold only moves is about sums
over a table and over a set: a sum exists and is an integer (`AddingExists`, `SumTyped`), and when
one summand changes the sum does by as much (`SumShifts`), by induction over the sizes of sets.

### TextEditor

A text is the sizes of its lines. `string_add` compares lengths with `max_str`, while
`replace_str`, `format_text`, `parse_action_insert` and `parse_action_edit` change lengths
by other rules. `OverrunsAreKnown`: a text outgrows its memory or its limit only in the
steps that are named there (the refused line whose end is still written, `/a`, and `/ra`, which measures what is
before the last replacement). Lines of
0 and 4 characters with a maximum of 9, so that a text is full after two lines. `format_text` may
fill the memory to the last byte, but the same command goes on to shorten what it leaves (`AfterCommand`), so that this is seen in
no state. A replacement of all that is given up in its middle cuts the text off there (utils.c:598-600);
the instance is too small for it. The module lets two edit one of the game's texts (`tedit`) at once, as the code
does; the instance has one editor, for a second one multiplies the states beyond what a run can take.

### Tracking, RealmProofs

`find_first_step` one dequeued room per step (`SearchStep`). `FirstStepIsShortest`: the
direction it returns begins a shortest path, over worlds of three rooms with two
exits each (the first anywhere or nowhere, the second around), with and without an untrackable
room, against the definition by distances; and no room is queued twice, so that the search ends.
The game is compiled with `TRACK_THROUGH_DOORS` (graph.c 17-19): the path leads through closed
doors as through open ones, so that the model has no doors; at one of them `perform_move` may
refuse the step, and the hunter stays where it is.

*Proved* in `RealmProofs` for every world of finitely many rooms (`TrackingAssumption`), whatever its exits
and untrackable rooms. The invariant (`TrackInv`, `Frontier`) is that of the
textbook, for a queue with a first step in each entry: for some k all that is
within k steps of the start is marked and nothing marked is farther than k + 1; the queue has what is k
steps off before what is k + 1 off, each room once; what has left the queue is not the
target and has all its exits marked; and the first step kept with a room begins a shortest
way to it. `Distance` is defined by an iteration that stops after as many rounds as there are rooms;
that this is enough is proved by counting (`LastIsClosed`).

### Zones, RealmProofs

Ages, `reset_q`, the reset commands with their `if_flag`, doors as `do_gen_door`
works them, and the descriptions of rooms, which are dropped from memory with a deserted
zone unless it is locked by an editor. `ZonesSafe`: a zone that is marked as waiting is in
the queue, a room that a builder keeps in its editor is not dropped with the descriptions
before it is in the file, and the two sides of a door that agree keep agreeing under every
command and reset (a room kept from an earlier time is the exception). That a zone in the queue is
reset at last is not among them, for it is not so: the queue looks only at its head, and one that is never empty
holds up all behind it. Two zones with a
door between them; one resets when deserted, one always.

`ZonesSafe` is *proved* in `RealmProofs` for all rooms, exits, walkers, builders and tables of
commands, under two conditions that the code leaves to builders. One is an assumption on the
constants: a lifespan is below `ZO_DEAD` (zedit stops at 240, the loader does not look; a zone of
999 would grow to the mark of those that wait without being queued, and never be reset). The other,
`PairedResets`, is a hypothesis of the theorem: no door command depends on a load before it,
and the last one for each side of a door says the same. TLC's two zones meet it, as `MCRealm`
assumes and TLC evaluates; of the 614 door commands in `lib/world/zon`, three depend on a load and nine have no fellow
in their zone. The invariant
(`ZonesInv`) adds that what was edited is locked in memory and what is locked is loaded
(`DescFine`), for `ZonesSound` alone does not say why `unload_room_descs` spares it, and that an
editor's copy has the doors of its room. A reset and a minute's queueing are folds over a table; each is
unrolled into the run of its states (`ResetRuns`, `WorldRuns`, `QueueRuns`), along which it is
shown that a door has what the last command for it says (`RunOnDoor`).

### Riding, RealmProofs

`RIDING` and `RIDDEN_BY` under walking (`ride_simple_move`: the mount first, then the
rider, with the death trap, the tunnel and the indoor refusals in between), mounting,
taming, bucking, teleports and extraction. `RidesPaired`: both pointers agree and both
ends are in the game, and nobody rides a rider. *Proved* for every set of characters,
rooms and ways. The code never clears one side alone: all paths go through
`dismount_char`, so one lemma about it carries the proof. That both are in the same room
is false after a teleport and is not claimed.

### WorldTables, OlcMenus, Editors, WorldFiles, RealmProofs, StoresProofs

Three views of the online editors. `OlcMenus` has the six menus as tables of answers
(`Rows`): the mode, the answer, the next mode, whether something was changed and whether
the mark was set. `MenusSound`: in the main menu a changed copy has its mark, so that
quitting asks about it, except for four answers named in the comment; and what can be
saved is finished: no reset command is blank, no extra description of an object lacks its
keyword or text. Three descriptions and two commands suffice for first, middle and last.
`MenusSound` is *proved* in `RealmProofs` for any number of them and any set of these editors
(`MenusAssumption`). A change may be unmarked for a while: an exit is changed while `OLC_VAL` holds
its direction, which may be 0. So the invariant (`MenuInv`) says for each mode whether a change is
marked there (`Carried`), and whether the mark is set before anything is changed (`Certain`);
each row of the tables of answers keeps to that (`RowFine`), and the rows are gone through
menu by menu. Help, which returns to the mode it came from, counts as that mode (`At`); a builder who asks
for help while he reads help has forgotten where he came from and never leaves it (`olc_help_over`).

`WorldTables` has the tables as sequences of virtual numbers and every kind of reference
by index (exits, resets, shops, players' rooms, copies in other editors). `TablesSound`:
the binary search finds every number, a reference means after an insertion what it meant
before it, and what is not in the files is on the save list. The tables have two or three
entries, insertions go to the front, the middle and the end. References that the code
forgets to renumber are left out of `Followed`.
The search itself stands in `BinarySearch`, which `Clans` reads its table with as well.
`TablesSound` is *proved* in `StoresProofs` for all numbers, tables in order and zones
(`TablesAssumption`), and with it `EditorsSound`. The invariant (`TablesInv`) has a part for each table, kind
of reference, open copy, file and save list, and a lemma for each action. That the binary
search of `real_room` and its like finds what is there, and only that, in a table in order is
shown by induction over the length of the span that is left (`SearchFinds`); that an
insertion goes where the order wants it follows (`PlaceSplits`, `InsertedAscends`). Two things the
proof found necessary: the boot refuses a world file without a record (db.c:875-882), and `zedit`
writes the first room of a new zone to the file without having it in memory, so that a room on
disk may have no entry in the table, but always a zone.

`WorldFiles` has one record of each kind of world file with fields cut down to those that
are changed on the way: `save_file` is what the editor writes, `Boot` what `db.c`,
`shop.c` and `guild.c` parse. `FilesKeep`: a boot reads what was saved and the world still
boots, except for the fields that `Kept` leaves out (the timer, the armor of a mobile,
texts with a tilde and others) and the values of `Fatal`, with which the boot is refused.
Two changes and two boots.

### Keywords, Shops

`Keywords` is the two-stack parser of `evaluate_expression`, a turn of its loop per step;
`KeywordsExact` compares its verdict with the value of the tree from which the expression
was written, for all expressions up to two operators deep; where an operation was decided
by its right operand, the code refuses, and the property says so. `Shops` has the keeper's
list with its sorted part, `SHOP_SORT`, the till and the bank. `ShopsSound`: the sorted
part is sorted unless a worthless thing was cleared away or the keeper replaced
(`miscounted`), gold and things only change hands, and expressions are exact. Two
customers, one of them a god, who pays nothing; a kind the shop produces, one that it
buys, one that is worth nothing.

### MobProgs

`mprog_driver` line by line with if, or, else, endif, break and wait, a stack of runs (a
command may trigger the mobile again), and `mpact`, the queue of what waits, which takes
from the head and whose limit is `MAX_PROG_QUEUE`. `Trigger` is speech, a gift or an act;
`mprog_wordlist_check` queues a program that waits for a *phrase* of an act, and runs one that
waits for *words* at once, although `mprog_act_trigger` asks it to queue. A charm may take
hold of the mobile at any time (`Charm`): the driver then returns `NULL`, a trigger does
nothing and the program at the head of the queue is thrown away with what is left of it.
`ProgramsAsWritten`: each program that
ends has executed the lines that its conditions, evaluated by a reference reader, select,
however often it waited or was interrupted; one dropped for a charm a first part of them.
Four programs, two entries in the queue and three triggers, so that the limit is met.

### Affects

The list `ch->affected`, equipment and the values they change; values wrap at `SByte` as
an `sbyte` does at 128. `AffectsSound`: what a character has is what he is plus his
affects and his gear (`EffectsAddUp`), unless `oedit` changed what he wore; and saving him
changes nothing (`SavingIsUnfelt`) but the order and what does not fit. At most two
affects are stored and four events happen: two spells, the same joined, a ring, saving and
loading. A flag that commands set and clear by hand is modelled (`do_hide`), but in the
instance no spell and no gear gives the same flag, and `appear` is left out, so that a flag cleared while it is still
given (fight.c:220-225) is not seen.

### CommandTree, CommandLine

`add_cmd` and `find_command` on the tree of letters. `SearchFinds`: what a word finds
begins with it and is for the player's level; it is the first of the table whenever that
one is usable; and something is found unless all that is usable is hidden behind commands
of a higher level. `CommandLine` reads lines with redo, recall and substitution, queues
them, and takes one per turn. `LinesInOrder`: what was typed is carried out in its order,
each alias expanded once and in place, none lost, none twice: what was done and what the
queue still comes to is what the typed lines come to one after the other. Three lines in a
ring of three.

### Ranks, RealmProofs

Experience, levels, earlier classes, legend, quest points, with the scales cut down in
order. `RanksSound`: the total counts every level of every class unless an immortal
lowered the player, nobody is immortal without all quest points or an immortal's help, and
a legend beyond the names for it comes from spirits alone. *Proved* for every table of
experience, every set of gains and all limits that keep the order of structs.h (`RanksAssumption`): the loop that gains several levels
in one step is followed round by round, by induction over its rounds. Left out: `set level` (act.wizard.c:2584), which
assigns a level and counts nothing.

### Casting, RealmProofs

A command is followed call by call (`call_magic`, then the next target, the next spell,
the payment), with `cast` its local variables: the saved successors and the targets found
at the start. `CastingSound`: fog that a spell made has the node that will end it, a step
does not touch who has left the game except in the places noted (`SpellsTouchTheLiving`),
and no mana is made but by the transfer of one who has none and by the spell that is there to make it
(`SPELL_MANA_BOOST`, magic.c:1373-1376), whose gift is lost again where it exceeds the maximum. What a clone or a summoned creature brings along
(spells.c:1389) is not counted as made, and the special procedure that gives mana (spec_procs.c:1539) is outside. Two players in a group, a
god, a mobile and a pet in two rooms, one peaceful; two casts. One of the things is a staff
of chain lightning, which the world has (lib/world/obj/25.obj, object 2564): its saved successor may
be among those that it struck.

*Proved* in `RealmProofs` for finitely many casters, who are each in one place of one list at first
(`PlacesAssumption`), all spells of `CastSpells`, all magic things and masters. The invariant
(`CastInv`) says of the world that the lists of the rooms hold the living, each of them once; and
of the command under way, while its caster is there and it is no scroll or potion (`Steady`), that the
target at hand, the one whom lightning strikes next and the next of a staff are there or
nobody, but for the exceptions, and that the next of a staff is not the target at hand
(`CastFine`): only disintegration and chain lightning take somebody else away, and the fall of a master takes his pets.
Each operator that changes the world has a lemma that says who is gone after it
(`SameLives`, `Falls`), so that the step of `call_magic` is a case for each kind of spell. That mana
is not made goes through sums: what a gift adds to one it takes from the other, and the boost is the
one call that adds (`Boosting`). The node of a
room's fog is found again after the nodes that ended were taken out of the list.

### ListWalks

The loops that move what they stand on, on pointers instead of sets: `get all`, `dig`,
`decay`, and a ghost's `make_corpse`. `ListsSound`: lists stay chains without loops that
agree with the positions, and only a ghost's death loses objects; loops that never end are
the exceptions named (`endless`). Three objects are enough for a first, a middle and a
last one.

### Copyover

Who plays whom, what is written for each connection, what the new process reads and
resumes; sockets break in between. `ResumedAsPlayed`: who plays his own body and does not
break plays it afterwards, as far as he had come, in the room where the code loads him;
who edited or broke is saved; nobody else is in the game but the linkless whom somebody
else played; and the new process comes up, unless somebody was in the body of a mobile
with a name of several words.

## Runs

| Run | Result | States | Question |
|---|---|---|---|
| `output` | pass | 225 thousand | buffers, pool and snoops, also when levels change; overflow and output end |
| `sessions` | pass | 527 thousand | links and bodies under all orders of commands, deaths and lost links |
| `objects` | pass | 1.2 million | places and totals of objects, corpses, the hourly walk |
| `objects_nested` | pass | 705 thousand | containers in containers, liquids, water, spells |
| `combat` | pass | 680 thousand | the list, its cursor and turns through every chain of blows |
| `combat_party` | pass | 789 thousand | fights between rooms, area harm, peace |
| `realm` | pass | 656 thousand | the components with a state of their own, each in its part |
| `sessions_gedit` | violation | | the guild editor and a lost link |
| `sessions_quit` | violation | | the record that was quit with |
| `sessions_purge` | violation | | purging an animated corpse |
| `objects_stale` | violation | | the successor in the hourly walk |
| `combat_slain` | violation | | at `POS_DEAD` and not dead |

The parts of `realm`, in states: belongings 181 thousand, casting 96, zones 94, mail 73, boards 45,
files 34, programs 20, affects 16, clans 15, menus 14, tracking 11, keywords 9, editor 8, ranks and
shops 7 each, walks and copyover 5 each, houses and lines 4 each, tables 3, riding and commands 2 each.

Deadlock is not checked in `output` and `realm`, where the bounded commands run out, nor
in the `sessions` runs, where the program may have stopped (`exit(1)`).

## What is proved

| Module | For all | Theorems |
|---|---|---|
| `OutputBufferProofs` | finitely many descriptors, levels that change, sizes, texts | types, `QueuesSound`, `SnoopSymmetric`, `SnoopSound`, `RingsAreCrossed`, `LargeBuffersAccounted`, `NothingQueuedIsLost` |
| `SessionsProofs` | connections, players, bodies | types, `LinksSound`, `OneBodyPerPlayer`, `NeverFreesListed` |
| `ObjWorldProofs` | objects, rooms, characters, kinds, weights, capacities | types, `OnePlace` |
| `ObjMovesProofs` | the same | `NoContainerLoop`, `SuccessorLives`, `NothingIsLost` |
| `ObjSumsProofs` | the same, finitely many objects and characters | `SumsAddUp` and its parts, `LiquidsWeighed` |
| `CombatProofs` | players, mobs, rooms, skills, blows | types, `ListSound`, `TurnsFair`, `PeaceKept`, `FallenSound`, `PartySound` |
| `RealmProofs` | tables of experience and gains; worlds of finitely many rooms; boards, players and slots; houses; descriptions and commands in editors; characters, rooms and ways; zones, doors and tables of resets; finitely many casters and magic things | `RanksSound`, `FirstStepIsShortest`, `BoardsSound`, `HouseFlagsAgree`, `MenusSound`, `RidesPaired`, `ZonesSafe`, `CastingSound` |
| `StoresProofs` | addressees, letters and parts; tables of numbers, references and zones; finitely many clansmen | `MailSound` (a refinement), `TablesSound`, `EditorsSound`, `ClansSafe` |

The assumptions are those on the constants, named in the modules that declare them, and
evaluated by TLC in each run. They are of three kinds: names are apart
(`NoneAssumption`, `PlayerAssumption`, `BoardsAssumption`, `MenusAssumption`, `MailAssumption`, ...), sizes and numbers are in the order of structs.h
and of the files of the world (`SizeAssumption`,
`TextAssumption`, `RanksAssumption`, `TablesAssumption`, `ClansAssumption`, `ZonesAssumption`, `CastingAssumption`), and what a process has is finite where something is
counted (`DescAssumption`, `FiniteAssumption`, `TrackingAssumption`, `PlacesAssumption`). Some theorems have a hypothesis
of their own that leaves out a defect which the code has, or a table that it does not check: `EditorsCleanedUp` and
`NobodyPossessesPlayers` in `SessionsProofs`, `NothingSinks`, `Destroyer = {}`, `Careful`,
`Wand = {}` and `Sober` about objects, `Mishap = {}` about combat, `PairedResets` about zones. The passing runs satisfy each
of them where the property is checked; what goes wrong otherwise is said with the switches above.

Each proof has an inductive invariant, one lemma for each operator of the module, and one
for each action. In `OutputBuffer` and `ObjWorld` the lemmas follow the code's own division of
labour; in `Sessions` and `Combat` the invariant had to say what handlers rely on without
checking it. Recursive functions are unfolded by well-founded induction over the natural
numbers, stated for sets (`SetInduction`, `NatSetInduction`), since the induction theorems of the
library take an operator; in the same way it is shown that such a function exists (`SearchExists`).

## What is only model-checked

* Liveness, which needs fairness: `OverflowEnds`, `OutputDrains`, `MarkedLeavesGame`.
* Properties of modules that declare a RECURSIVE operator or extend one that does, for which
  TLAPS has no arithmetic: `AffectsSound`, `CommandsSound`, `ShopsSound`, and
  everything that is put together in `MCRealm` itself (`RealmTypeOK`, `RestartsSound`).
* Properties of components whose state is sequences cut and searched by the community
  modules' operators: `ListsSound`, `FilesKeep`, `OverrunsAreKnown`,
  `BelongingsSound`. To prove them, each of these operators needs its own lemmas first, as
  `WithoutThese` has in `RealmProofs`.
* `ResumedAsPlayed`, whose list of the connections is written and read back in one step each.

## Not modelled

Bans and forbidden names (two text lists), the weather (an automaton of its own), what
only informs or prints (act.informative.c, act.social.c, wizlist.c), tables and utilities
(class.c's and constants.c's data, random.c, external programs). Within the components,
`PROJECT.json` says for each what is left out; in common: wording, dice (they are
choices), skills and spells that only change a number of one character, and the single
special procedures of spec_procs.c, which are scripts of commands. The heartbeat's
functions may come at any time and in any order, which is more than its dividers allow.
`linewrap`'s static copy and the bribe trigger are listed as hazards without a property.

## Plan

1. An abstract specification of `Sessions`: a player is out, linkless or played by one
   connection.
2. A proof of `ListsSound`, whose chains are sets closed under `next_content` as `Climbs` is one under `in_obj`.
3. The dividers of the heartbeat and its missed pulses; the order of the phases of a boot.
4. Parcels in mail, together with `Belongings`; trains and teleporting rooms, with
   `Riding`; followers and groups, with `Casting`.

## Further disagreements met while reading

Places where the code does something other than it, a comment or a document
says, or uses what is gone. Those that a property names as its exception, or that a
model leaves out, are among them.

Output, sessions, copyover

* `linewrap` (comm.c:1562) copies into a static array that a snooped text may outgrow.
* `do_snoop` refuses oneself, one's betters and who snoops oneself (act.wizard.c:1132-1147), so that output is not copied
  for ever; but after a change of level (`do_advance`, `set level`, `do_multi`), of which a snoop takes no
  notice, three immortals may snoop each other in a ring, and it is.
* `create_entry` and `Valid_Name` (ban.c:256-290) leave a hole between the lists of names.
* Two implementors may switch into each other's bodies; the links then disagree.
* `do_copyover` stores the rnum of the room through `save_char(och, och->in_room)`, which takes it so
  (comment at db.c:2574-2578); the menu overrides `GET_LOADROOM` (interpreter.c:2351-2366), so that "If someone is
  quitting in their house, let them load back here" (act.other.c:511) has no effect.
* A copyover with somebody in the body of a mobile named by several words makes `copyover_recover`
  loop for ever (comm.c:365-367); linkless players are not saved; neither copyover nor a
  shutdown (comm.c:500-502) saves houses.
* The comment of `OPT_USEC` (structs.h) speaks of another number of passes per second.

Objects and their lists

* `make_corpse` for ghosts (fight.c:380-404) follows `next_content` after `obj_to_room` has changed it: it never
  ends where something lies in the room, and in an empty room all but the newest object are lost.
* `do_dig` (act.item.c:1655-1680) walks from the room's list on into the inventory.
* `reset_zone` (db.c:2389-2456) leaves an object of a P or E command nowhere when its container is missing
  or the position is taken.
* `make_part` (fight.c, near 163) uses fields of a new object before it sets them; `do_give` and
  `do_chown` follow pointers that may be null.

Combat, spells, affects, ranks

* `affect_remove` and `raw_kill` (handler.c:297, fight.c:501) assign where they mean to compare; limits.c has
  `if (damage(...) == -1);` with an empty body.
* `die_follower` (utils.c:387-410) may extract a pet twice.
* `call_magic` returns 1 after a killing `mag_damage`, so a scroll's next spell goes to who is
  gone (spell_parser.c:455-460, 623-627); a staff's saved successor may be a pet that fell with its
  master, or one whom a staff of chain lightning struck before its turn; who strikes himself down with
  chain lightning is asked for his room afterwards (spells.c:1028-1056); `spell_fear` goes on with a caster who was killed (spells.c:802-842), `spell_disintegrate` prints
  its victim after `extract_char` (spells.c:690-696).
* `mag_groups` reaches a leader anywhere; its comment (magic.c, near 993) says "in the room".
* `affect_join` reads the successor of what it freed; `char_to_store` reverses the list of affects and
  drops those beyond `MAX_AFFECT`; each save dresses the player anew and may zap forbidden gear (handler.c:552-560).
* `do_advance` adds the gain twice; `level_exp(101)` is below `level_exp(100)`; a demotion leaves the
  total of levels (act.wizard.c:1442-1445); fight.c:1210 lets the legend grow beyond the names that `do_who` has.

Movement, zones, tracking

* A death trap that takes rider or mount reads a null pointer (act.movement.c:433-443); teleports leave
  rider and mount linked; a god can mount himself.
* `hunt_victim` frees the hunter and then reads its room (graph.c:252-254).
* The reset queue looks only at its head (building.tex:974-980 says otherwise); `do_zreset` queues a zone twice, and
  "zreset *" asks about a zone beyond the table.
* `redit save` of a zone whose descriptions are not loaded writes "Empty"; `do_copyto` and its like mark rooms
  for saving without locking their descriptions.

Files of players, mail, boards, houses, clans, shops

* A crash between the block that names its successor and the successor (mail.c:373, 380) leaves a torn letter. A later letter
  may take the block that it names; receiving the torn one (mail.c:542-554) then deletes blocks of the other, or does not end.
* "At least wait until the author is finished before removing it!" (boards.c:436) does not wait for an author
  who died and is at the menu; he then writes into a slot that is free, or another message's (handler.c:974-976,
  comm.c:864).
* A board's slot is lost with a writer who never ends; `Board_reset_board` reads index -1 (boards.c:553-568).
* `Crash_crashsave` empties the file before it writes; a bag that is filled on the floor of a house does not flag it; a
  record whose prototype is gone ends the enclosing list.
* `if (OLC_VAL(d) | 2)` is always true (clan.c:1569-1573); "delete" only prints; `build_player_index` counts applicants
  as members (db.c:717-724); a negative deposit is taken; demoting may give a rank of -1.
* `evaluate_operation` leaves an operand on the stack when the right one decides, against
  building.tex:1194-1208; an expression that does not begin with a letter accepts everything (shop.c:258); a
  worthless object is extracted without counting `SHOP_SORT` down.

Editors and world files

* `medit` renumbers with `>` where the others have `>=`; trainers, `world[].zone` and rooms that are being edited are
  not renumbered; index 0 is taken for "new".
* Answers in the menus of values return without the mark of a change; `redit` keeps an unfinished
  extra description, although redit.c:1089 says it removes it; emptying a description drops all behind it.
* `medit` resets the special procedure on saving (medit.c:327); extra descriptions are reversed by
  each boot; a text that ends in a tilde and an empty name of an object make the next boot refuse; a deleted
  trainer makes it read `mob_index[-1]`.
* A second "?" while help is shown overwrites the mode to return to (oedit.c:907-943), and the editor stays in help.
* `replace_str` gives up a replacement in its middle and leaves the text cut (utils.c:598-600), of which the player is told
  "aborted replace" (modify.c:174).
* A refused line writes its end beyond the text (modify.c, `string_add`); replacing all does not measure; `format_text`
  may fill the memory without room for the end.
* The pager gets the input before the editor (comm.c:862-865).

Commands and programs

* The tree finds another command than the table would ("cr" finds cringe, not credits; the comment at
  interpreter.c:377-381 explains the order of the table).
* `!x` skips the oldest line of a full history; parts of an alias become text when
  an earlier part begins to edit.
* The error of a check counts as true; a skipped part with an if in it ends at the wrong else or
  endif (mobprog.c:1114-1232, against the comment at 1062-1070); after "wait" the position points
  into a buffer that is gone; a bribe trigger runs before the gold is subtracted (act.item.c:627).
* `free_char` follows an uninitialised pointer when it frees waiting programs (db.c:2949-2953).
