-------------------------------- MODULE Clans --------------------------------
(***************************************************************************)
(* Clans (clan.c): the sorted table of clans with their gold and their     *)
(* number of members, what its members may do to one another and to its    *)
(* account, and the editor for a clan's record, which works on a copy.     *)
(* The players are below LVL_COIMPL; who is not may do all this to anyone, *)
(* and "set" anything.  Limits on the level of members only refuse.        *)
(***************************************************************************)
EXTENDS Integers, Sequences, FiniteSets, SequencesExt, FiniteSetsExt, BinarySearch

CONSTANTS
  Clansmen,       \* players that are in the game
  ClanLevel,      \* ClanLevel[p]: the level of p
  LVL_GRGOD, CLAN_EDIT_GOD_LEVEL,     \* LVL_CHBUILD is the latter
  ClanNumbers,    \* the virtual numbers that clans may get
  FirstClan,      \* the record of the clan that is there at first
  Amounts,        \* arguments of deposit and withdraw
  MaxWealth,      \* bound on gold in one place
  MaxDeeds        \* bound on the commands given

VARIABLES
  clan_index,     \* the clans in order: [number, owner, gold, nummembers]
  membership,     \* membership[p]: [clan, rank]
  purse,          \* purse[p]: the gold that p carries
  clan_edit,      \* clan_edit[p]: the editor's [mode, val, clan]
  clan_deeds      \* how many commands were given

\* Clan 0 is no clan, and there is one at first.
ASSUME ClansAssumption ==
  /\ IsFiniteSet(Clansmen) /\ ClanNumbers \subseteq Nat /\ Amounts \subseteq Int
  /\ FirstClan \in [number : Nat \ {0}, owner : Clansmen, gold : Int, nummembers : Nat]

clanVars == <<clan_index, membership, purse, clan_edit, clan_deeds>>

CLAN_NORANK == 0    CLAN_APPLY == 1     CLAN_SOLDIER == 2   CLAN_SARGEANT == 3
CLAN_CAPTAIN == 4   CLAN_BUILDER == 5   CLAN_RULER == 6
Outside == [clan |-> 0, rank |-> CLAN_NORANK]
NotInEditor == [mode |-> "none", val |-> FALSE, clan |-> FirstClan]

\* The numbers of the clans, and the place of clan n in the table or 0.
NumbersOf(index) == [i \in DOMAIN index |-> index[i].number]
real_clan(n) == real_number(NumbersOf(clan_index), n)

ClansInit ==
  /\ clan_index = <<FirstClan>>
  /\ membership = [p \in Clansmen |-> Outside]
  /\ purse = [p \in Clansmen |-> 1]
  /\ clan_edit = [p \in Clansmen |-> NotInEditor]
  /\ clan_deeds = 0

NotEditingClan(p) == clan_edit[p].mode = "none"
\* p gives a command.  Bound: MaxDeeds.
Free(p) == NotEditingClan(p) /\ clan_deeds < MaxDeeds /\ clan_deeds' = clan_deeds + 1
\* do_clan: a command is found for those of the level or, in a clan, the rank.
MayUse(p, rank, level) ==
  /\ Free(p)
  /\ \/ ClanLevel[p] >= level
     \/ membership[p].clan # 0 /\ membership[p].rank >= rank
ClanOf(p) == real_clan(membership[p].clan)
Owner(p) == clan_index[ClanOf(p)].owner = p
Counted(c, n) == clan_index' = [clan_index EXCEPT ![c].nummembers = @ + n]
MemberNow(p, clan, rank) == membership' = [membership EXCEPT ![p] = [clan |-> clan, rank |-> rank]]

-----------------------------------------------------------------------------
do_clan_apply(p, n) ==
  /\ MayUse(p, CLAN_NORANK, 0) /\ membership[p].rank = 0
  /\ \E i \in DOMAIN clan_index : clan_index[i].number = n
  /\ MemberNow(p, n, CLAN_APPLY)
  /\ UNCHANGED <<clan_index, purse, clan_edit>>

do_clan_resign(p) ==
  /\ Free(p) /\ membership[p].clan # 0 /\ membership[p].rank >= CLAN_APPLY
  /\ ~Owner(p)
  /\ IF membership[p].rank # CLAN_APPLY THEN Counted(ClanOf(p), -1) ELSE UNCHANGED clan_index
  /\ MemberNow(p, 0, CLAN_NORANK)
  /\ UNCHANGED <<purse, clan_edit>>

\* From LVL_CHBUILD on, enlisting asks for no clan, and makes the owner ruler.
do_clan_enlist(p, v) ==
  /\ MayUse(p, CLAN_SARGEANT, LVL_GRGOD) /\ membership[v].rank = CLAN_APPLY
  /\ \/ /\ ClanLevel[p] >= CLAN_EDIT_GOD_LEVEL
        /\ MemberNow(v, membership[v].clan, IF Owner(v) THEN CLAN_RULER ELSE CLAN_SOLDIER)
     \/ /\ ClanLevel[p] < CLAN_EDIT_GOD_LEVEL
        /\ membership[p].rank >= CLAN_SARGEANT /\ membership[v].clan = membership[p].clan
        /\ MemberNow(v, membership[v].clan, CLAN_SOLDIER)
  /\ Counted(ClanOf(v), 1)
  /\ UNCHANGED <<purse, clan_edit>>

do_clan_promote(p, v) ==
  LET mine == membership[p]
      his == membership[v]
  IN /\ Free(p) /\ mine.clan # 0 /\ mine.rank >= CLAN_CAPTAIN /\ v # p
     /\ his.clan = mine.clan /\ his.rank >= CLAN_SOLDIER /\ his.rank < CLAN_RULER
     /\ his.rank + 1 < mine.rank \/ mine.rank >= CLAN_RULER \/ ClanLevel[p] >= CLAN_EDIT_GOD_LEVEL
     /\ MemberNow(v, his.clan, his.rank + 1)
     /\ UNCHANGED <<clan_index, purse, clan_edit>>

do_clan_demote(p, v) ==
  LET mine == membership[p]
      his == membership[v]
  IN /\ Free(p) /\ mine.clan # 0 /\ mine.rank >= CLAN_CAPTAIN /\ v # p
     /\ his.clan = mine.clan /\ his.rank > CLAN_SOLDIER /\ his.rank < mine.rank
     /\ ~Owner(v)
     /\ MemberNow(v, his.clan, his.rank - 1)
     /\ UNCHANGED <<clan_index, purse, clan_edit>>

\* bug: an applicant who is kicked is counted as one member less.
do_clan_kickApplicant(p, v) ==
  /\ MayUse(p, CLAN_CAPTAIN, LVL_GRGOD)
  /\ membership[v].clan # 0 /\ membership[v].clan = membership[p].clan
  /\ ~Owner(v)
  /\ Counted(ClanOf(p), -1)
  /\ MemberNow(v, 0, CLAN_NORANK)
  /\ UNCHANGED <<purse, clan_edit>>
\* One may kick whoever is in the clan but its owner, of any rank, and oneself.
do_clan_kick(p, v) ==
  /\ MayUse(p, CLAN_CAPTAIN, LVL_GRGOD)
  /\ membership[v].clan # 0 /\ membership[v].clan = membership[p].clan
  /\ ~Owner(v)
  /\ IF membership[v].rank # CLAN_APPLY THEN Counted(ClanOf(p), -1) ELSE UNCHANGED clan_index
  /\ MemberNow(v, 0, CLAN_NORANK)
  /\ UNCHANGED <<purse, clan_edit>>

\* bug: what is withdrawn stays in the account.
TransferTwice(p, n) ==
  /\ ClanOf(p) # 0 /\ purse[p] + n \in 0..MaxWealth
  /\ purse' = [purse EXCEPT ![p] = @ + n]
  /\ clan_index' = IF n < 0 THEN [clan_index EXCEPT ![ClanOf(p)].gold = @ - n] ELSE clan_index
  /\ UNCHANGED <<membership, clan_edit>>
\* n goes from the account of p's clan to p.  Bound: MaxWealth.
Transfer(p, n) ==
  /\ ClanOf(p) # 0 /\ purse[p] + n \in 0..MaxWealth
  /\ clan_index[ClanOf(p)].gold - n \in (-MaxWealth)..MaxWealth
  /\ purse' = [purse EXCEPT ![p] = @ + n]
  /\ clan_index' = [clan_index EXCEPT ![ClanOf(p)].gold = @ - n]
  /\ UNCHANGED <<membership, clan_edit>>
\* In the clan's room.  Deposit takes a value below 0 as well.
do_clan_deposit(p, n) ==
  /\ Free(p) /\ membership[p].clan # 0 /\ membership[p].rank >= CLAN_SOLDIER
  /\ n # 0 /\ purse[p] >= n /\ Transfer(p, -n)
do_clan_withdraw(p, n) ==
  /\ Free(p) /\ membership[p].clan # 0 /\ membership[p].rank >= CLAN_BUILDER
  /\ n > -1 /\ clan_index[ClanOf(p)].gold >= n /\ Transfer(p, n)

-----------------------------------------------------------------------------
InEditor(p, e) == /\ clan_edit' = [clan_edit EXCEPT ![p] = e]
                  /\ UNCHANGED <<clan_index, membership, purse>>
Edits(p, e) == InEditor(p, e) /\ UNCHANGED clan_deeds

\* What clan_save writes and parse_clan reads: all but the number of
\* members, which an editor does not change either.
SavedClans == [i \in DOMAIN clan_index |-> [clan_index[i] EXCEPT !.nummembers = 0]]
\* "clan edit": gods, and the ruler of the clan.
MayEdit(p, n) ==
  /\ MayUse(p, CLAN_RULER, LVL_GRGOD) /\ n # 0
  /\ \/ ClanLevel[p] >= CLAN_EDIT_GOD_LEVEL
     \/ membership[p].clan = n /\ membership[p].rank >= CLAN_RULER /\ real_clan(n) # 0
\* One editor of a number at a time; it works on a copy, or on a new record.
cedit_setup(p, n) ==
  /\ MayEdit(p, n)
  /\ \A q \in Clansmen : NotEditingClan(q) \/ clan_edit[q].clan.number # n
  /\ InEditor(p, [mode |-> "menu", val |-> FALSE,
       clan |-> IF real_clan(n) # 0 THEN SavedClans[real_clan(n)]
                ELSE [number |-> n, owner |-> p, gold |-> 0, nummembers |-> 0]])

\* The main menu.  Some entries ask for LVL_COIMPL, the owner's for that or for
\* being him: others are shown a message and press a key.
parse_clan_edit_menu(p) ==
  LET e == clan_edit[p]
      Mode(m) == Edits(p, [e EXCEPT !.mode = m])
  IN /\ e.mode = "menu"
     /\ \/ \E m \in {"value", "ranks", "delete"} : Mode(m)
        \/ e.clan.owner = p /\ Mode("owner")
        \/ e.val /\ Mode("save")
\* A value for a field, a text from the editor, or a key: changed or not; an owner
\* is not looked up.
parse_clan_edit_value(p) ==
  LET e == clan_edit[p]
      Menu == [e EXCEPT !.mode = "menu"]
  IN \/ e.mode = "value" /\ \E val \in {e.val, TRUE} : Edits(p, [Menu EXCEPT !.val = val])
     \/ /\ e.mode = "owner"
        /\ \E owner \in Clansmen : Edits(p, [Menu EXCEPT !.val = TRUE, !.clan.owner = owner])
\* The titles of the ranks have a menu of their own.
parse_clan_edit_ranks(p) ==
  LET e == clan_edit[p]
  IN \/ e.mode = "ranks" /\ \E m \in {"rank", "menu"} : Edits(p, [e EXCEPT !.mode = m])
     \/ e.mode = "rank" /\ Edits(p, [e EXCEPT !.mode = "ranks", !.val = TRUE])
\* "Clan deleted." is all that happens.
parse_clan_edit_delete(p) ==
  clan_edit[p].mode = "delete" /\ Edits(p, [clan_edit[p] EXCEPT !.mode = "menu"])

\* The table with a new record before the first greater number.
Inserted(index, clan) ==
  LET lower == {i \in DOMAIN index : index[i].number <= clan.number}
  IN InsertAt(index, Cardinality(lower) + 1, clan)
\* An existing record takes the copy's values, the gold as it was when the copy
\* was made ("if (OLC_VAL(d) | 2)" always holds).
cedit_save_internally(p) ==
  LET c == clan_edit[p].clan
      i == real_clan(c.number)
  IN clan_index' = IF i # 0 THEN [clan_index EXCEPT ![i].owner = c.owner, ![i].gold = c.gold]
                   ELSE Inserted(clan_index, c)
\* Saved or not, the editor ends.
parse_clan_edit_save(p) ==
  /\ clan_edit[p].mode = "save"
  /\ cedit_save_internally(p) \/ UNCHANGED clan_index
  /\ clan_edit' = [clan_edit EXCEPT ![p] = NotInEditor]
  /\ UNCHANGED <<membership, purse, clan_deeds>>
\* Nothing was changed, or the link is lost.
cleanup_clan_edit(p) == ~NotEditingClan(p) /\ Edits(p, NotInEditor)

\* A shutdown, which saves the clans and the players, and the next boot, which
\* counts as members all whose record names the clan.
ClanReboot ==
  /\ clan_index' = [i \in DOMAIN clan_index |-> [SavedClans[i] EXCEPT
       !.nummembers = Cardinality({p \in Clansmen : membership[p].clan = clan_index[i].number})]]
  /\ clan_edit' = [p \in Clansmen |-> NotInEditor]
  /\ UNCHANGED <<membership, purse, clan_deeds>>

ClansNext ==
  \/ ClanReboot
  \/ \E p \in Clansmen :
       \/ do_clan_resign(p) \/ parse_clan_edit_menu(p) \/ parse_clan_edit_value(p)
       \/ parse_clan_edit_ranks(p) \/ parse_clan_edit_delete(p)
       \/ parse_clan_edit_save(p) \/ cleanup_clan_edit(p)
       \/ \E n \in ClanNumbers : do_clan_apply(p, n) \/ cedit_setup(p, n)
       \/ \E v \in Clansmen : \/ do_clan_enlist(p, v) \/ do_clan_promote(p, v)
                              \/ do_clan_demote(p, v) \/ do_clan_kick(p, v)
       \/ \E n \in Amounts : do_clan_deposit(p, n) \/ do_clan_withdraw(p, n)

ClansSpec == ClansInit /\ [][ClansNext]_clanVars

-----------------------------------------------------------------------------
ClansTypeOK ==
  /\ \A i \in DOMAIN clan_index : clan_index[i].owner \in Clansmen
  /\ \A p \in Clansmen : membership[p].rank \in CLAN_NORANK..CLAN_RULER /\ purse[p] >= 0

Members(n) == {p \in Clansmen : membership[p].clan = n /\ membership[p].rank > CLAN_APPLY}
\* Whatever order clans are made, edited and left in: the table stays sorted, so
\* that the search finds every clan, also of those who belong to one; nobody has
\* a rank without a clan; no two editors work on one number; and no member is
\* missing in the number of members, though applicants may be in it after a boot
\* (clan.c 313-448, 797-840, 1409-1422, 1551-1606; db.c 717-724, 3716-3736).
ClansSound ==
  /\ \A i \in DOMAIN clan_index :
       /\ real_clan(clan_index[i].number) = i
       /\ clan_index[i].nummembers >= Cardinality(Members(clan_index[i].number))
  /\ \A p \in Clansmen :
       /\ membership[p].clan = 0 <=> membership[p].rank = CLAN_NORANK
       /\ membership[p].clan # 0 => ClanOf(p) # 0
  /\ \A p, q \in Clansmen : p # q /\ ~NotEditingClan(p) /\ ~NotEditingClan(q) =>
       clan_edit[p].clan.number # clan_edit[q].clan.number

Wealth == FoldSeq(LAMBDA c, sum : c.gold + sum, 0, clan_index)
            + FoldSet(LAMBDA p, sum : purse[p] + sum, 0, Clansmen)
\* Gold that goes between players and accounts is neither made nor lost, but when
\* an edited record is saved, which sets the account back (clan.c 723-795, 1569-1573).
GoldIsKept ==
  [][\/ Wealth' = Wealth
     \/ \E p \in Clansmen : clan_edit[p].mode = "save" /\ clan_edit'[p] = NotInEditor]_clanVars
\* The records of the clans, their members and their gold, in every order of deeds.
ClansSafe == []ClansSound /\ GoldIsKept
=============================================================================
