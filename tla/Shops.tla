-------------------------------- MODULE Shops --------------------------------
(***************************************************************************)
(* A shop and its keeper (shop.c): what he has, of which the last lastsort *)
(* things are taken for sorted, his gold and the shop's account, and his   *)
(* customers.  Two things of one kind are "the same" (same_obj), and a     *)
(* kind is produced by the shop or not.  Charisma and bargaining are in    *)
(* the prices; whether an object meets the keywords is in Keywords.        *)
(***************************************************************************)
EXTENDS Keywords, FiniteSets, FiniteSetsExt

CONSTANTS
  Customers, ShopGods,      \* who may trade, and those of them who are IS_GOD
  Unwelcome,                \* those whom is_ok_char refuses
  Wares, Produced,          \* kinds of things, and those that the shop produces
  BuyTypes,                 \* kinds that it trades with (trade_with)
  BuyPrice, SellPrice,      \* what customers pay for a kind, and get; 0: worthless
  CarryLimit,               \* CAN_CARRY_N of every customer
  ShopHours,                \* hours at which the shop is open
  FirstWares, FirstGold,    \* what the keeper is loaded with
  UsesBank,                 \* SHOP_USES_BANK
  MIN_OUTSIDE_BANK, MAX_OUTSIDE_BANK,
  MaxMixups                 \* bound on what happens to the keeper besides trade

VARIABLES
  shelf,         \* keeper->carrying, from its head
  lastsort,      \* SHOP_SORT
  till, bank,    \* GET_GOLD(keeper), SHOP_BANK
  coins, packs,  \* coins[c], packs[c]: gold and things of a customer
  shop_hour,
  mixups,        \* how often the keeper's things changed otherwise
  miscounted     \* lastsort may count what is not sorted, or is not there

shopVars == <<shelf, lastsort, till, bank, coins, packs, shop_hour, mixups, miscounted>>

ShopsInit ==
  /\ shelf = FirstWares /\ lastsort = 0 /\ till = FirstGold /\ bank = 0
  /\ coins = [c \in Customers |-> 2] /\ packs = [c \in Customers |-> <<>>]
  /\ shop_hour \in {0, 12} /\ mixups = 0 /\ miscounted = FALSE

-----------------------------------------------------------------------------
(* The keeper's list.  A stock is [list, sort]: carrying and lastsort. *)

Stock == [list |-> shelf, sort |-> lastsort]
Has(list, k) == \E i \in DOMAIN list : list[i] = k
FirstOf(list, k) == CHOOSE i \in DOMAIN list : list[i] = k /\ \A j \in 1..(i - 1) : list[j] # k
HowMany(list, k) == Cardinality({i \in DOMAIN list : list[i] = k})

\* A thing that the shop produces is extracted; another one is put behind the
\* first that is the same, or at the head.
slide_obj(s, k) ==
  IF k \in Produced THEN s
  ELSE [list |-> IF Has(s.list, k) THEN InsertAt(s.list, FirstOf(s.list, k) + 1, k)
                 ELSE <<k>> \o s.list,
        sort |-> s.sort + 1]

\* What is not sorted is taken off the head and put back, the last one first.
Sorted(s) ==
  LET n == Len(s.list) - s.sort
      PutBack(t, k) == IF k \in Produced /\ ~Has(t.list, k)
                       THEN [list |-> <<k>> \o t.list, sort |-> t.sort + 1]
                       ELSE slide_obj(t, k)
  IN IF n <= 0 THEN s
     ELSE FoldLeft(PutBack, [list |-> SubSeq(s.list, n + 1, Len(s.list)), sort |-> s.sort],
                   Reverse(SubSeq(s.list, 1, n)))

\* get_purchase_obj extracts worthless things of the name that it meets, and
\* lastsort goes on to count them.
Cleared(s, k) ==
  IF BuyPrice[k] > 0 THEN s ELSE [s EXCEPT !.list = SelectSeq(@, LAMBDA x : x # k)]

\* The list without the first n of kind k.
Taken(list, k, n) ==
  LET gone == {i \in DOMAIN list : list[i] = k /\ HowMany(SubSeq(list, 1, i), k) <= n}
  IN [i \in 1..(Len(list) - Cardinality(gone)) |->
        list[CHOOSE j \in DOMAIN list : j \notin gone /\ j - Cardinality({g \in gone : g < j}) = i]]

Stocked(s) == shelf' = s.list /\ lastsort' = s.sort

-----------------------------------------------------------------------------
is_open == shop_hour \in ShopHours
is_ok(c) == is_open /\ (c \in ShopGods \/ c \notin Unwelcome)

Affordable(c, k) == IF c \in ShopGods THEN CarryLimit ELSE coins[c] \div BuyPrice[k]
\* bug: what the shop does not produce is not counted either.
OnSaleUncounted(s, k) == IF ~Has(s.list, k) THEN 0 ELSE CarryLimit
OnSale(s, k) == IF ~Has(s.list, k) THEN 0 ELSE IF k \in Produced THEN CarryLimit ELSE HowMany(s.list, k)

\* "buy <num> <k>": as many as there are, as he can pay and carry; a god pays
\* nothing.  What lies in the till above MAX_OUTSIDE_BANK goes to the account.
shopping_buy(c, k, num) ==
  LET s == Cleared(Sorted(Stock), k)
      bought == Min({num, OnSale(s, k), CarryLimit - Len(packs[c]),
                     IF BuyPrice[k] = 0 THEN 0 ELSE Affordable(c, k)})
      paid == IF c \in ShopGods THEN 0 ELSE bought * BuyPrice[k]
      over == IF UsesBank THEN Max({0, till + paid - MAX_OUTSIDE_BANK}) ELSE 0
  IN /\ is_ok(c)
     /\ IF k \in Produced THEN Stocked(s)
        ELSE Stocked([list |-> Taken(s.list, k, bought), sort |-> s.sort - bought])
     /\ packs' = [packs EXCEPT ![c] = [i \in 1..bought |-> k] \o @]
     /\ coins' = [coins EXCEPT ![c] = @ - paid]
     /\ till' = till + paid - (IF bought > 0 THEN over ELSE 0)
     /\ bank' = bank + (IF bought > 0 THEN over ELSE 0)
     /\ miscounted' = (miscounted \/ s.list # Sorted(Stock).list)
     /\ UNCHANGED <<shop_hour, mixups>>

\* "sell <num> <k>": as many as he has, as the keeper can pay from till and
\* account together; then the till is filled up from the account.
shopping_sell(c, k, num) ==
  LET sold == Min({num, HowMany(packs[c], k), (till + bank) \div SellPrice[k]})
      got == sold * SellPrice[k]
      refill == IF till - got < MIN_OUTSIDE_BANK
                THEN Min({MAX_OUTSIDE_BANK - (till - got), bank}) ELSE 0
  IN /\ is_ok(c)
     /\ k \in BuyTypes /\ SellPrice[k] > 0 /\ sold > 0
     /\ Stocked(FoldLeft(slide_obj, Sorted(Stock), [i \in 1..sold |-> k]))
     /\ packs' = [packs EXCEPT ![c] = Taken(@, k, sold)]
     /\ coins' = [coins EXCEPT ![c] = @ + got]
     /\ till' = till - got + refill /\ bank' = bank - refill
     /\ UNCHANGED <<shop_hour, mixups, miscounted>>

\* "list" sorts; who is not served gets no answer from any of them.
shopping_list(c) ==
  /\ is_ok(c) /\ Stocked(Sorted(Stock))
  /\ UNCHANGED <<till, bank, coins, packs, shop_hour, mixups, miscounted>>

HoursPass ==
  /\ shop_hour' = (shop_hour + 12) % 24
  /\ UNCHANGED <<shelf, lastsort, till, bank, coins, packs, mixups, miscounted>>

-----------------------------------------------------------------------------
(* What happens to the keeper besides.  Bound: MaxMixups. *)

Mixup == mixups < MaxMixups /\ mixups' = mixups + 1

\* A customer gives him something, at any hour; what is added at the head is
\* not sorted, if lastsort does not count more than was there.
do_give_keeper(c, k) ==
  /\ Mixup /\ Has(packs[c], k)
  /\ packs' = [packs EXCEPT ![c] = Taken(@, k, 1)]
  /\ shelf' = <<k>> \o shelf
  /\ UNCHANGED <<lastsort, till, bank, coins, shop_hour, miscounted>>

\* Each command that the keeper is made to give is met by his own special
\* procedure first, which forgets the sorting: "drop <k>".
KeeperDrops(k) ==
  /\ Mixup /\ Has(shelf, k)
  /\ lastsort' = 0 /\ shelf' = Taken(shelf, k, 1) /\ miscounted' = FALSE
  /\ UNCHANGED <<till, bank, coins, packs, shop_hour>>

\* He dies or is purged, and the zone loads another one, whose things lastsort
\* knows nothing of.
KeeperReplaced ==
  /\ Mixup
  /\ shelf' = FirstWares /\ till' = FirstGold /\ miscounted' = (miscounted \/ lastsort > 0)
  /\ UNCHANGED <<lastsort, bank, coins, packs, shop_hour>>

ShopsNext ==
  \/ \E c \in Customers :
       \/ \E k \in Wares, num \in 1..2 : shopping_buy(c, k, num) \/ shopping_sell(c, k, num)
       \/ \E k \in Wares : do_give_keeper(c, k)
       \/ shopping_list(c)
  \/ HoursPass \/ KeeperReplaced \/ \E k \in Wares : KeeperDrops(k)
ShopsSpec == ShopsInit /\ [][ShopsNext]_shopVars

-----------------------------------------------------------------------------
ShopsTypeOK ==
  /\ shelf \in Seq(Wares) /\ lastsort \in Nat
  /\ coins \in [Customers -> Nat] /\ \A c \in Customers : packs[c] \in Seq(Wares)
  /\ shop_hour \in 0..23 /\ mixups \in 0..MaxMixups

\* The part of the list that counts as sorted is: what is the same lies together,
\* so that "list" numbers it once and "buy #n" finds it, and there is one of
\* each produced kind; unless a worthless thing was cleared away or the keeper
\* replaced, which lastsort does not notice (shop.c 451-476, 646-707).  The
\* keeper never owes anything, and has more in the till than he may only
\* without an account (shop.c 571-575, 774-779).
ShelfSound ==
  LET tail == SubSeq(shelf, Len(shelf) - lastsort + 1, Len(shelf))
  IN /\ ~miscounted =>
          /\ lastsort <= Len(shelf)
          /\ \A i, j \in DOMAIN tail : tail[i] = tail[j] /\ i < j =>
               /\ tail[i] \notin Produced
               /\ \A m \in i..j : tail[m] = tail[i]
     /\ till >= 0 /\ bank >= 0
     /\ UsesBank /\ mixups = 0 => till <= MAX_OUTSIDE_BANK \/ bank = 0

Coins == till + bank + FoldSet(LAMBDA c, sum : coins[c] + sum, 0, Customers)
Pieces(k) == HowMany(shelf, k) + FoldSet(LAMBDA c, sum : HowMany(packs[c], k) + sum, 0, Customers)
\* Gold only changes hands, whoever buys or sells however much at once; and so do
\* things that the shop does not produce, but for the worthless, which vanish
\* (shopping_buy, shopping_sell).
TradeIsFair ==
  [][/\ Coins' # Coins => mixups' > mixups
     /\ mixups' = mixups => \A k \in Wares \ Produced : BuyPrice[k] > 0 => Pieces(k)' = Pieces(k)]_shopVars

\* Trade keeps the shelf, the till and all purses and packs in order, and only
\* what the shop buys is offered to the keeper.
ShopsSound == []ShelfSound /\ TradeIsFair /\ []KeywordsExact
=============================================================================
