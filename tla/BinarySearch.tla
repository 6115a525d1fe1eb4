----------------------------- MODULE BinarySearch -----------------------------
(***************************************************************************)
(* The search of db.c for a virtual number in a table that is in order     *)
(* (real_room, real_mobile, real_object, real_clan): the tables of the     *)
(* world and of the clans are read through it and nothing else.            *)
(***************************************************************************)
EXTENDS Integers, Sequences

\* The search goes on with <<bot, top>>; places count from 1.
Spans(tab) == (1..(Len(tab) + 1)) \X (0..Len(tab))
Middle(span) == IF span[2] = 0 THEN 1 ELSE (span[1] + span[2]) \div 2
\* The place of n in the table, or 0.
real_number(tab, n) ==
  LET search[span \in Spans(tab)] ==
        LET mid == Middle(span)
        IN IF tab[mid] = n THEN mid
           ELSE IF span[1] >= span[2] THEN 0
           ELSE IF tab[mid] > n THEN search[<<span[1], mid - 1>>] ELSE search[<<mid + 1, span[2]>>]
  IN search[<<1, Len(tab)>>]
=============================================================================
