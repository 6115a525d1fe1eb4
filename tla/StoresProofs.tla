----------------------------- MODULE StoresProofs -----------------------------
(***************************************************************************)
(* Theorems about what is kept in tables and files: that the mail file     *)
(* keeps the promise of Letters (MailImplements), and that the tables of   *)
(* the world, the references into them, the files and the save list stay   *)
(* in step with what builders do (WorldTables, Editors), and that the      *)
(* table of clans, their members and their gold agree (Clans).             *)
(***************************************************************************)
EXTENDS MailImplements, Editors, Clans, RealmProofs

-----------------------------------------------------------------------------
(* The blocks that are reached from a position, in any file.               *)
Block ==
    [type : Int, next : Int, to : Addressees \cup {NoOne},
     letter : 0..MaxLetters, part : 0..MaxParts]

LEMMA UsedFinite ==
    ASSUME NEW f \in Seq(Block), NEW pos
    PROVE  /\ UsedBlocks(f) \subseteq 1..Len(f)
           /\ BlocksFrom(f, pos) \subseteq UsedBlocks(f)
           /\ IsFiniteSet(BlocksFrom(f, pos))
           /\ Cardinality(BlocksFrom(f, pos)) \in Nat
<1>1. UsedBlocks(f) \subseteq 1..Len(f)
  BY DEF UsedBlocks
<1>2. BlocksFrom(f, pos) \subseteq UsedBlocks(f)
  BY DEF BlocksFrom
<1>3. IsFiniteSet(1..Len(f))
  BY FS_Interval
<1>4. IsFiniteSet(BlocksFrom(f, pos))
  BY <1>1, <1>2, <1>3, FS_Subset
<1>5. QED
  BY <1>1, <1>2, <1>4, FS_CardinalityType

LEMMA UsedNat ==
    ASSUME NEW f \in Seq(Block)
    PROVE  UsedBlocks(f) \subseteq Nat
BY DEF UsedBlocks

(* They are closed under links, and the least such set.                    *)
LEMMA ReachedClosed ==
    ASSUME NEW f, NEW pos
    PROVE  /\ pos \in UsedBlocks(f) => pos \in BlocksFrom(f, pos)
           /\ \A n \in BlocksFrom(f, pos) : NextBlocks(f, n) \subseteq BlocksFrom(f, pos)
<1> DEFINE U == UsedBlocks(f)
           B == BlocksFrom(f, pos)
           Closed(S) == {pos} \cap U \subseteq S /\ \A m \in S : NextBlocks(f, m) \subseteq S
<1>1. B = {n \in U : \A S \in SUBSET U : Closed(S) => n \in S}
  BY DEF BlocksFrom
<1>2. \A m : NextBlocks(f, m) \subseteq U
  BY DEF NextBlocks
<1> HIDE DEF U, B
<1>3. pos \in U => pos \in B
  BY <1>1
<1>4. ASSUME NEW n \in B, NEW m \in NextBlocks(f, n)
      PROVE  m \in B
  <2>1. ASSUME NEW S \in SUBSET U, Closed(S) PROVE m \in S
    <3>1. n \in S
      BY <1>1, <1>4, <2>1
    <3>2. QED
      BY <1>4, <2>1, <3>1
  <2>2. QED
    BY <1>1, <1>2, <1>4, <2>1
<1>5. QED
  BY <1>3, <1>4 DEF U, B

LEMMA ReachedLeast ==
    ASSUME NEW f, NEW pos, NEW S \in SUBSET UsedBlocks(f),
           {pos} \cap UsedBlocks(f) \subseteq S,
           \A m \in S : NextBlocks(f, m) \subseteq S
    PROVE  BlocksFrom(f, pos) \subseteq S
BY DEF BlocksFrom

LEMMA ReachedNone ==
    ASSUME NEW f, NEW pos, pos \notin UsedBlocks(f)
    PROVE  BlocksFrom(f, pos) = {}
<1>1. {pos} \cap UsedBlocks(f) \subseteq {}
  OBVIOUS
<1>2. BlocksFrom(f, pos) \subseteq {}
  BY <1>1, ReachedLeast
<1>3. QED
  BY <1>2

(* A file that differs elsewhere leads to the same blocks.                 *)
LEMMA ReachedSame ==
    ASSUME NEW f, NEW g, NEW pos,
           pos \in UsedBlocks(f) <=> pos \in UsedBlocks(g),
           \A n \in BlocksFrom(f, pos) :
              n \in UsedBlocks(g) /\ NextBlocks(g, n) = NextBlocks(f, n)
    PROVE  BlocksFrom(g, pos) = BlocksFrom(f, pos)
<1> DEFINE S == BlocksFrom(f, pos)
           T == BlocksFrom(g, pos)
<1>1. /\ pos \in UsedBlocks(f) => pos \in S
      /\ \A n \in S : NextBlocks(f, n) \subseteq S
  BY ReachedClosed
<1>2. /\ pos \in UsedBlocks(g) => pos \in T
      /\ \A n \in T : NextBlocks(g, n) \subseteq T
  BY ReachedClosed
<1>3. T \subseteq S
  <2>1. S \subseteq UsedBlocks(g)
    OBVIOUS
  <2>2. {pos} \cap UsedBlocks(g) \subseteq S
    BY <1>1
  <2>3. \A n \in S : NextBlocks(g, n) \subseteq S
    BY <1>1
  <2> HIDE DEF S
  <2>4. QED
    BY <2>1, <2>2, <2>3, ReachedLeast
<1>4. S \subseteq UsedBlocks(f)
  BY DEF BlocksFrom
<1>5. S \subseteq T
  <2>1. S \cap T \subseteq UsedBlocks(f)
    BY <1>4
  <2>2. {pos} \cap UsedBlocks(f) \subseteq S \cap T
    BY <1>1, <1>2
  <2>3. ASSUME NEW n \in S \cap T PROVE NextBlocks(f, n) \subseteq S \cap T
    BY <1>1, <1>2, <2>3
  <2> HIDE DEF T
  <2>4. S \subseteq S \cap T
    BY <2>1, <2>2, <2>3, ReachedLeast
  <2>5. QED
    BY <2>4
<1>6. QED
  BY <1>3, <1>5

(* The first block, and those from its link on.                            *)
LEMMA ReachedStep ==
    ASSUME NEW f, NEW pos \in UsedBlocks(f)
    PROVE  BlocksFrom(f, pos) = {pos} \cup BlocksFrom(f, Link(f[pos]))
<1> DEFINE l == Link(f[pos])
           S == BlocksFrom(f, pos)
           T == BlocksFrom(f, l)
           U == UsedBlocks(f)
<1>1. pos \in S /\ \A n \in S : NextBlocks(f, n) \subseteq S
  BY ReachedClosed
<1>2. (l \in U => l \in T) /\ \A n \in T : NextBlocks(f, n) \subseteq T
  BY ReachedClosed
<1>3. NextBlocks(f, pos) = {l} \cap U
  BY DEF NextBlocks
<1>4. S \subseteq U /\ T \subseteq U
  BY DEF BlocksFrom
<1> HIDE DEF S, T, U, l
<1>5. S \subseteq {pos} \cup T
  <2>1. {pos} \cup T \in SUBSET U
    BY <1>4 DEF U
  <2>2. \A n \in {pos} \cup T : NextBlocks(f, n) \subseteq {pos} \cup T
    BY <1>2, <1>3
  <2>3. QED
    BY <2>1, <2>2, ReachedLeast DEF S, U
<1>6. T \subseteq S
  <2>1. {l} \cap U \subseteq S
    BY <1>1, <1>3
  <2>2. QED
    BY <1>1, <1>4, <2>1, ReachedLeast DEF T, U
<1>7. QED
  BY <1>1, <1>5, <1>6 DEF S, T, l

-----------------------------------------------------------------------------
(* One block of a file is written.                                         *)
Wrote(f, g, block, pos) ==
    g = IF pos = Len(f) + 1 THEN Append(f, block) ELSE [f EXCEPT ![pos] = block]

LEMMA WroteTyped ==
    ASSUME NEW f \in Seq(Block), NEW b \in Block, NEW pos \in 1..(Len(f) + 1), NEW g,
           Wrote(f, g, b, pos)
    PROVE  /\ g \in Seq(Block) /\ pos \in DOMAIN g /\ DOMAIN g = 1..Len(g)
           /\ Len(g) \in Nat /\ Len(g) \in {Len(f), Len(f) + 1}
BY DEF Wrote

LEMMA WroteAt ==
    ASSUME NEW f \in Seq(Block), NEW b \in Block, NEW pos \in 1..(Len(f) + 1), NEW g,
           Wrote(f, g, b, pos)
    PROVE  g[pos] = b
BY DEF Wrote

LEMMA WroteElsewhere ==
    ASSUME NEW f \in Seq(Block), NEW b \in Block, NEW pos \in 1..(Len(f) + 1), NEW g,
           Wrote(f, g, b, pos), NEW n \in 1..Len(f), n # pos
    PROVE  n \in 1..Len(g) /\ g[n] = f[n]
BY DEF Wrote

LEMMA WroteNoMore ==
    ASSUME NEW f \in Seq(Block), NEW b \in Block, NEW pos \in 1..(Len(f) + 1), NEW g,
           Wrote(f, g, b, pos), NEW n \in 1..Len(g), n # pos
    PROVE  n \in 1..Len(f)
BY DEF Wrote

LEMMA WroteUsed ==
    ASSUME NEW f \in Seq(Block), NEW b \in Block, NEW pos \in 1..(Len(f) + 1), NEW g,
           Wrote(f, g, b, pos)
    PROVE  /\ pos \in UsedBlocks(g) <=> b.type # DELETED_BLOCK
           /\ \A n : n # pos => (n \in UsedBlocks(g) <=> n \in UsedBlocks(f))
           /\ \A n \in UsedBlocks(f) : n # pos => g[n] = f[n]
<1>1. g[pos] = b
  BY WroteAt
<1>2. pos \in DOMAIN g /\ DOMAIN g = 1..Len(g) /\ DOMAIN f = 1..Len(f)
  BY WroteTyped
<1>3. pos \in UsedBlocks(g) <=> b.type # DELETED_BLOCK
  BY <1>1, <1>2 DEF UsedBlocks
<1>4. ASSUME NEW n, n # pos, n \in UsedBlocks(f)
      PROVE  n \in UsedBlocks(g) /\ g[n] = f[n]
  <2>1. n \in 1..Len(f) /\ f[n].type # DELETED_BLOCK
    BY <1>2, <1>4 DEF UsedBlocks
  <2>2. n \in 1..Len(g) /\ g[n] = f[n]
    BY <1>4, <2>1, WroteElsewhere
  <2>3. QED
    BY <1>2, <2>1, <2>2 DEF UsedBlocks
<1>5. ASSUME NEW n, n # pos, n \in UsedBlocks(g)
      PROVE  n \in UsedBlocks(f)
  <2>1. n \in 1..Len(g) /\ g[n].type # DELETED_BLOCK
    BY <1>2, <1>5 DEF UsedBlocks
  <2>2. n \in 1..Len(f)
    BY <1>5, <2>1, WroteNoMore
  <2>3. g[n] = f[n]
    BY <1>5, <2>2, WroteElsewhere
  <2>4. QED
    BY <1>2, <2>1, <2>2, <2>3 DEF UsedBlocks
<1>6. QED
  BY <1>3, <1>4, <1>5

-----------------------------------------------------------------------------
(* What is true of the blocks of a file.                                   *)

(* A block that is not deleted is some part of a letter, the header the    *)
(* first, and no two are the same part.                                    *)
NumberedBlock(b, sent) ==
    /\ b.letter \in 1..sent /\ b.part \in 1..MaxParts
    /\ b.type = HEADER_BLOCK <=> b.part = 1
    /\ b.to \in Addressees
NumberedParts(f, sent) ==
    /\ \A n \in UsedBlocks(f) : NumberedBlock(f[n], sent)
    /\ \A m, n \in UsedBlocks(f) : f[m].letter = f[n].letter /\ f[m].part = f[n].part => m = n

(* The link of a part leads to the next part of the same letter, and no    *)
(* other does.  One that leads nowhere was just written, or has been left  *)
(* by a crash.                                                             *)
Linked(f, loose) ==
    /\ \A n \in UsedBlocks(f) : Link(f[n]) \in {LAST_BLOCK} \cup 1..(Len(f) + 1)
    /\ \A m, n \in UsedBlocks(f) :
         Link(f[n]) = m => f[m].letter = f[n].letter /\ f[m].part = f[n].part + 1
    /\ \A m, n \in UsedBlocks(f) : Link(f[m]) = Link(f[n]) /\ Link(f[m]) # LAST_BLOCK => m = n
    /\ \A n \in UsedBlocks(f) : n \notin loose => Link(f[n]) \in UsedBlocks(f) \cup {LAST_BLOCK}

(* The free list names blocks that are deleted, each once.                 *)
FreeBlocks(f, list) ==
    /\ \A m \in DOMAIN list : list[m] \in DOMAIN f /\ list[m] \notin UsedBlocks(f)
    /\ \A m, n \in DOMAIN list : list[m] = list[n] => m = n

(* The index names the headers, but for the one that is about to be read.  *)
Headers(f, taken) == {n \in UsedBlocks(f) : f[n].type = HEADER_BLOCK /\ n \notin taken}
IndexedHeaders(f, index, taken) ==
    /\ \A p \in Addressees : \A i \in DOMAIN index[p] :
         index[p][i] \in Headers(f, taken) /\ f[index[p][i]].to = p
    /\ \A p \in Addressees : \A i, j \in DOMAIN index[p] : index[p][i] = index[p][j] => i = j
    /\ \A n \in Headers(f, taken) : \E p \in Addressees : \E i \in DOMAIN index[p] : index[p][i] = n

(* How a write keeps each of them.                                         *)
LEMMA NumberedKept ==
    ASSUME NEW f \in Seq(Block), NEW b \in Block, NEW pos \in 1..(Len(f) + 1), NEW g,
           Wrote(f, g, b, pos),
           NEW sent \in Nat, NEW more \in Nat, sent <= more, NumberedParts(f, sent),
           b.type # DELETED_BLOCK =>
             /\ NumberedBlock(b, more)
             /\ \A n \in UsedBlocks(f) : n # pos => ~(f[n].letter = b.letter /\ f[n].part = b.part)
    PROVE  NumberedParts(g, more)
<1>1. /\ pos \in UsedBlocks(g) <=> b.type # DELETED_BLOCK
      /\ \A n : n # pos => (n \in UsedBlocks(g) <=> n \in UsedBlocks(f))
      /\ \A n \in UsedBlocks(f) : n # pos => g[n] = f[n]
  BY WroteUsed
<1>2. g[pos] = b
  BY WroteAt
<1>3. \A n \in UsedBlocks(f) : NumberedBlock(f[n], more)
  <2>1. \A k \in 1..sent : k \in 1..more
    OBVIOUS
  <2>2. QED
    BY <2>1 DEF NumberedParts, NumberedBlock
<1>4. \A n \in UsedBlocks(g) : NumberedBlock(g[n], more)
  BY <1>1, <1>2, <1>3
<1>5. ASSUME NEW m \in UsedBlocks(g), NEW n \in UsedBlocks(g), g[m].letter = g[n].letter, g[m].part = g[n].part
      PROVE  m = n
  <2>1. CASE m = pos \/ n = pos
    BY <1>1, <1>2, <1>5, <2>1
  <2>2. CASE m # pos /\ n # pos
    BY <1>1, <1>5, <2>2 DEF NumberedParts
  <2>3. QED
    BY <2>1, <2>2
<1>6. QED
  BY <1>4, <1>5 DEF NumberedParts

LEMMA LinkedKept ==
    ASSUME NEW f \in Seq(Block), NEW b \in Block, NEW pos \in 1..(Len(f) + 1), NEW g,
           Wrote(f, g, b, pos),
           NEW loose, NEW after, Linked(f, loose),
           b.type # DELETED_BLOCK =>
             /\ Link(b) \in {LAST_BLOCK} \cup 1..(Len(g) + 1) /\ Link(b) # pos
             /\ \A m \in UsedBlocks(f) : m # pos /\ Link(b) = m => f[m].letter = b.letter /\ f[m].part = b.part + 1
             /\ \A n \in UsedBlocks(f) :
                  n # pos /\ Link(f[n]) = pos => b.letter = f[n].letter /\ b.part = f[n].part + 1
             /\ \A n \in UsedBlocks(f) : n # pos => Link(f[n]) # Link(b) \/ Link(b) = LAST_BLOCK
             /\ pos \in after \/ Link(b) = LAST_BLOCK \/ Link(b) \in UsedBlocks(f),
           b.type = DELETED_BLOCK => \A n \in UsedBlocks(f) : n # pos /\ n \notin after => Link(f[n]) # pos,
           \A n \in loose : n \in after \/ n \notin UsedBlocks(f) \/ n = pos \/ Link(f[n]) = pos
    PROVE  Linked(g, after)
<1> DEFINE U == UsedBlocks(f)
           V == UsedBlocks(g)
<1>1. /\ pos \in V <=> b.type # DELETED_BLOCK
      /\ \A n : n # pos => (n \in V <=> n \in U)
      /\ \A n \in U : n # pos => g[n] = f[n]
  BY WroteUsed
<1>2. g[pos] = b /\ Len(g) \in {Len(f), Len(f) + 1} /\ Len(f) \in Nat
  BY WroteAt, WroteTyped
<1>3. \A n \in V : Link(g[n]) \in {LAST_BLOCK} \cup 1..(Len(g) + 1)
  <2>1. \A n \in U : Link(f[n]) \in {LAST_BLOCK} \cup 1..(Len(f) + 1)
    BY DEF Linked
  <2>2. \A k \in 1..(Len(f) + 1) : k \in 1..(Len(g) + 1)
    BY <1>2
  <2>3. QED
    BY <1>1, <1>2, <2>1, <2>2
<1>4. ASSUME NEW m \in V, NEW n \in V, Link(g[n]) = m
      PROVE  g[m].letter = g[n].letter /\ g[m].part = g[n].part + 1
  <2>1. CASE m # pos /\ n # pos
    BY <1>1, <1>4, <2>1 DEF Linked
  <2>2. CASE m = pos /\ n # pos
    BY <1>1, <1>2, <1>4, <2>2
  <2>3. CASE m # pos /\ n = pos
    BY <1>1, <1>2, <1>4, <2>3
  <2>4. CASE m = pos /\ n = pos
    BY <1>1, <1>2, <1>4, <2>4
  <2>5. QED
    BY <2>1, <2>2, <2>3, <2>4
<1>5. ASSUME NEW m \in V, NEW n \in V, Link(g[m]) = Link(g[n]), Link(g[m]) # LAST_BLOCK
      PROVE  m = n
  <2>1. CASE m # pos /\ n # pos
    BY <1>1, <1>5, <2>1 DEF Linked
  <2>2. CASE m = pos \/ n = pos
    BY <1>1, <1>2, <1>5, <2>2
  <2>3. QED
    BY <2>1, <2>2
<1>6. ASSUME NEW n \in V, n \notin after
      PROVE  Link(g[n]) \in V \cup {LAST_BLOCK}
  <2>1. CASE n = pos
    BY <1>1, <1>2, <1>6, <2>1
  <2>2. CASE n # pos
    <3>1. n \in U /\ g[n] = f[n]
      BY <1>1, <2>2
    <3>2. CASE b.type = DELETED_BLOCK
      <4>1. Link(f[n]) # pos
        BY <1>6, <2>2, <3>1, <3>2
      <4>2. Link(f[n]) \in U \cup {LAST_BLOCK}
        BY <1>6, <2>2, <3>1, <4>1 DEF Linked
      <4>3. QED
        BY <1>1, <3>1, <4>1, <4>2
    <3>3. CASE b.type # DELETED_BLOCK
      <4>1. Link(f[n]) \in U \cup {LAST_BLOCK} \/ Link(f[n]) = pos
        BY <1>6, <2>2, <3>1 DEF Linked
      <4>2. QED
        BY <1>1, <3>1, <3>3, <4>1
    <3>4. QED
      BY <3>2, <3>3
  <2>3. QED
    BY <2>1, <2>2
<1>7. QED
  BY <1>3, <1>4, <1>5, <1>6 DEF Linked

LEMMA FreeKept ==
    ASSUME NEW f \in Seq(Block), NEW b \in Block, NEW pos \in 1..(Len(f) + 1), NEW g,
           Wrote(f, g, b, pos), NEW list, FreeBlocks(f, list),
           \A m \in DOMAIN list : list[m] # pos
    PROVE  FreeBlocks(g, list)
<1>1. \A n : n # pos => (n \in UsedBlocks(g) <=> n \in UsedBlocks(f))
  BY WroteUsed
<1>2. DOMAIN f = 1..Len(f) /\ DOMAIN g = 1..Len(g)
  BY WroteTyped
<1>3. \A n \in DOMAIN f : n # pos => n \in DOMAIN g
  BY <1>2, WroteElsewhere
<1>4. QED
  BY <1>1, <1>3 DEF FreeBlocks

LEMMA FreePushed ==
    ASSUME NEW f \in Seq(Block), NEW b \in Block, NEW pos \in 1..(Len(f) + 1), NEW g,
           Wrote(f, g, b, pos), NEW list \in Seq(Nat \ {0}), FreeBlocks(f, list),
           b.type = DELETED_BLOCK, \A m \in DOMAIN list : list[m] # pos
    PROVE  FreeBlocks(g, <<pos>> \o list)
<1> DEFINE t == <<pos>> \o list
<1>1. FreeBlocks(g, list)
  BY FreeKept
<1>2. pos \in DOMAIN g /\ pos \notin UsedBlocks(g)
  <2>1. pos \in DOMAIN g
    BY WroteTyped
  <2>2. pos \notin UsedBlocks(g)
    BY WroteUsed
  <2>3. QED
    BY <2>1, <2>2
<1>3. /\ DOMAIN t = 1..(Len(list) + 1) /\ t[1] = pos /\ Len(list) \in Nat
      /\ \A i \in 2..(Len(list) + 1) : t[i] = list[i - 1] /\ i - 1 \in DOMAIN list
  OBVIOUS
<1> HIDE DEF t
<1>4. \A i \in DOMAIN t : i = 1 \/ i \in 2..(Len(list) + 1)
  BY <1>3
<1>5. \A m \in DOMAIN t : t[m] \in DOMAIN g /\ t[m] \notin UsedBlocks(g)
  BY <1>1, <1>2, <1>3, <1>4 DEF FreeBlocks
<1>6. ASSUME NEW m \in DOMAIN t, NEW n \in DOMAIN t, t[m] = t[n]
      PROVE  m = n
  <2>1. CASE m = 1 \/ n = 1
    BY <1>3, <1>4, <1>6, <2>1
  <2>2. CASE m # 1 /\ n # 1
    <3>1. m - 1 \in DOMAIN list /\ n - 1 \in DOMAIN list /\ list[m - 1] = list[n - 1]
      BY <1>3, <1>4, <1>6, <2>2
    <3>2. m - 1 = n - 1
      BY <1>1, <3>1 DEF FreeBlocks
    <3>3. QED
      BY <1>3, <1>4, <2>2, <3>2
  <2>3. QED
    BY <2>1, <2>2
<1>7. QED
  BY <1>5, <1>6 DEF FreeBlocks, t

LEMMA HeadersKept ==
    ASSUME NEW f, NEW g, NEW index, NEW taken, NEW after,
           IndexedHeaders(f, index, taken),
           Headers(g, after) = Headers(f, taken),
           \A n \in Headers(f, taken) : g[n].to = f[n].to
    PROVE  IndexedHeaders(g, index, after)
BY DEF IndexedHeaders

LEMMA IndexPushed ==
    ASSUME NEW f \in Seq(Block), NEW b \in Block, NEW pos \in 1..(Len(f) + 1), NEW g,
           Wrote(f, g, b, pos),
           NEW index \in [Addressees -> Seq(Nat \ {0})], NEW p \in Addressees,
           IndexedHeaders(f, index, {}),
           pos \notin UsedBlocks(f), b.type = HEADER_BLOCK, b.type # DELETED_BLOCK, b.to = p
    PROVE  IndexedHeaders(g, [index EXCEPT ![p] = <<pos>> \o @], {})
<1> DEFINE new == [index EXCEPT ![p] = <<pos>> \o @]
           H == Headers(f, {})
           I == Headers(g, {})
<1>1. /\ pos \in UsedBlocks(g)
      /\ \A n : n # pos => (n \in UsedBlocks(g) <=> n \in UsedBlocks(f))
      /\ \A n \in UsedBlocks(f) : n # pos => g[n] = f[n]
  BY WroteUsed
<1>2. g[pos] = b
  BY WroteAt
<1>3. /\ I = H \cup {pos} /\ pos \notin H /\ g[pos].to = p
      /\ \A n \in H : g[n].to = f[n].to
  BY <1>1, <1>2 DEF Headers
<1>4. \A q \in Addressees : q # p => new[q] = index[q]
  OBVIOUS
<1>5. /\ DOMAIN new[p] = 1..(Len(index[p]) + 1) /\ new[p][1] = pos /\ Len(index[p]) \in Nat
      /\ \A i \in 2..(Len(index[p]) + 1) : new[p][i] = index[p][i - 1] /\ i - 1 \in DOMAIN index[p]
      /\ \A i \in DOMAIN index[p] : i + 1 \in DOMAIN new[p] /\ new[p][i + 1] = index[p][i]
  <2>1. index[p] \in Seq(Nat \ {0}) /\ new[p] = <<pos>> \o index[p]
    OBVIOUS
  <2> HIDE DEF new
  <2>2. QED
    BY <2>1
<1> HIDE DEF new
<1>6. \A i \in DOMAIN new[p] : i = 1 \/ i \in 2..(Len(index[p]) + 1)
  BY <1>5
<1>7. \A q \in Addressees : \A i \in DOMAIN index[q] : index[q][i] \in H /\ f[index[q][i]].to = q
  BY DEF IndexedHeaders
<1>8. ASSUME NEW q \in Addressees, NEW i \in DOMAIN new[q]
      PROVE  new[q][i] \in I /\ g[new[q][i]].to = q
  <2>1. CASE q # p
    BY <1>3, <1>4, <1>7, <1>8, <2>1
  <2>2. CASE q = p /\ i = 1
    BY <1>3, <1>5, <2>2
  <2>3. CASE q = p /\ i # 1
    <3>1. i - 1 \in DOMAIN index[p] /\ new[p][i] = index[p][i - 1]
      BY <1>5, <1>6, <1>8, <2>3
    <3>2. QED
      BY <1>3, <1>7, <2>3, <3>1
  <2>4. QED
    BY <2>1, <2>2, <2>3
<1>9. ASSUME NEW q \in Addressees, NEW i \in DOMAIN new[q], NEW j \in DOMAIN new[q], new[q][i] = new[q][j]
      PROVE  i = j
  <2>1. CASE q # p
    BY <1>4, <1>9, <2>1 DEF IndexedHeaders
  <2>2. CASE q = p
    <3>1. \A k \in DOMAIN new[p] : k # 1 => new[p][k] = index[p][k - 1] /\ k - 1 \in DOMAIN index[p]
      BY <1>5, <1>6
    <3>2. \A k \in DOMAIN new[p] : k # 1 => new[p][k] # pos
      BY <1>3, <1>7, <3>1
    <3>3. CASE i = 1 \/ j = 1
      BY <1>5, <1>9, <2>2, <3>2, <3>3
    <3>4. CASE i # 1 /\ j # 1
      <4>1. i - 1 = j - 1
        BY <1>9, <2>2, <3>1, <3>4 DEF IndexedHeaders
      <4>2. QED
        BY <1>5, <1>9, <2>2, <4>1
    <3>5. QED
      BY <3>3, <3>4
  <2>3. QED
    BY <2>1, <2>2
<1>10. ASSUME NEW n \in I
       PROVE  \E q \in Addressees : \E i \in DOMAIN new[q] : new[q][i] = n
  <2>1. CASE n = pos
    <3>1. 1 \in DOMAIN new[p] /\ new[p][1] = n
      BY <1>5, <2>1
    <3>2. QED
      BY <3>1
  <2>2. CASE n # pos
    <3>1. n \in H
      BY <1>3, <2>2
    <3>2. PICK q \in Addressees : \E i \in DOMAIN index[q] : index[q][i] = n
      BY <3>1 DEF IndexedHeaders
    <3>3. CASE q = p
      BY <1>5, <3>2, <3>3
    <3>4. CASE q # p
      BY <1>4, <3>2, <3>4
    <3>5. QED
      BY <3>3, <3>4
  <2>3. QED
    BY <2>1, <2>2
<1>11. QED
  BY <1>8, <1>9, <1>10 DEF IndexedHeaders, new

LEMMA IndexTaken ==
    ASSUME NEW f \in Seq(Block), NEW index \in [Addressees -> Seq(Nat \ {0})], NEW p \in Addressees,
           IndexedHeaders(f, index, {}), index[p] # <<>>
    PROVE  IndexedHeaders(f, [index EXCEPT ![p] = Front(@)], {Last(index[p])})
<1> DEFINE new == [index EXCEPT ![p] = Front(@)]
           H == Headers(f, {})
           z == Last(index[p])
           k == Len(index[p])
<1>1. /\ k \in Nat \ {0} /\ z = index[p][k] /\ DOMAIN index[p] = 1..k
      /\ DOMAIN new[p] = 1..(k - 1) /\ \A i \in 1..(k - 1) : new[p][i] = index[p][i]
  <2>1. index[p] \in Seq(Nat \ {0}) /\ new[p] = Front(index[p])
    OBVIOUS
  <2> HIDE DEF new
  <2>2. QED
    BY <2>1 DEF Front, Last
<1>2. \A q \in Addressees : q # p => new[q] = index[q]
  OBVIOUS
<1> HIDE DEF new, z, k
<1>3. \A q \in Addressees : \A i \in DOMAIN index[q] : index[q][i] \in H /\ f[index[q][i]].to = q
  BY DEF IndexedHeaders
<1>4. \A q \in Addressees : \A i, j \in DOMAIN index[q] : index[q][i] = index[q][j] => i = j
  BY DEF IndexedHeaders
<1>5. Headers(f, {z}) = H \ {z} /\ f[z].to = p
  <2>1. f[z].to = p
    BY <1>1, <1>3
  <2>2. QED
    BY <2>1 DEF Headers
<1>6. ASSUME NEW q \in Addressees
      PROVE  /\ \A i \in DOMAIN new[q] : i \in DOMAIN index[q] /\ new[q][i] = index[q][i] /\ index[q][i] # z
             /\ \A i \in DOMAIN index[q] : i \in DOMAIN new[q] \/ index[q][i] = z
  <2>1. CASE q # p
    BY <1>2, <1>3, <1>5, <2>1
  <2>2. CASE q = p
    <3>1. \A i \in 1..(k - 1) : i \in 1..k /\ i # k
      BY <1>1
    <3>2. \A i \in 1..k : i \in 1..(k - 1) \/ i = k
      BY <1>1
    <3>3. \A i \in 1..(k - 1) : index[p][i] # z
      BY <1>1, <1>4, <3>1
    <3>4. QED
      BY <1>1, <2>2, <3>1, <3>2, <3>3
  <2>3. QED
    BY <2>1, <2>2
<1>7. ASSUME NEW n \in H \ {z} PROVE \E q \in Addressees : \E i \in DOMAIN new[q] : new[q][i] = n
  <2>1. PICK q \in Addressees : \E i \in DOMAIN index[q] : index[q][i] = n
    BY DEF IndexedHeaders
  <2>2. QED
    BY <1>6, <2>1
<1>8. QED
  <2>1. \A q \in Addressees : \A i \in DOMAIN new[q] : new[q][i] \in H \ {z} /\ f[new[q][i]].to = q
    BY <1>3, <1>6
  <2>2. \A q \in Addressees : \A i, j \in DOMAIN new[q] : new[q][i] = new[q][j] => i = j
    BY <1>4, <1>6
  <2>3. QED
    BY <1>5, <1>7, <2>1, <2>2 DEF IndexedHeaders, new, z

-----------------------------------------------------------------------------
(* The order in which the start of the program pushes them.                *)
Above(S, n) == {m \in S : m > n}

LEMMA AboveCount ==
    ASSUME NEW S \in SUBSET Nat, IsFiniteSet(S)
    PROVE  /\ Cardinality(S) \in Nat
           /\ \A n \in S : IsFiniteSet(Above(S, n)) /\ Cardinality(Above(S, n)) \in 0..(Cardinality(S) - 1)
           /\ \A m, n \in S : Cardinality(Above(S, m)) = Cardinality(Above(S, n)) => m = n
           /\ \A k \in 0..(Cardinality(S) - 1) : \E n \in S : Cardinality(Above(S, n)) = k
<1> DEFINE c == Cardinality(S)
           R == [n \in S |-> Cardinality(Above(S, n))]
<1>1. c \in Nat
  BY FS_CardinalityType
<1>2. ASSUME NEW n \in S
      PROVE  /\ IsFiniteSet(Above(S, n)) /\ Cardinality(Above(S, n)) \in Nat
             /\ Cardinality(Above(S, n)) < c
  <2>1. Above(S, n) \in SUBSET S /\ n \notin Above(S, n)
    BY DEF Above
  <2>2. IsFiniteSet(Above(S, n)) /\ Cardinality(Above(S, n)) <= c /\ (c = Cardinality(Above(S, n)) => S = Above(S, n))
    BY <2>1, FS_Subset
  <2>3. Cardinality(Above(S, n)) \in Nat
    BY <2>2, FS_CardinalityType
  <2>4. QED
    BY <1>1, <2>1, <2>2, <2>3
<1>3. ASSUME NEW m \in S, NEW n \in S, m < n
      PROVE  Cardinality(Above(S, n)) # Cardinality(Above(S, m))
  <2>1. Above(S, n) \in SUBSET Above(S, m) /\ n \in Above(S, m) /\ n \notin Above(S, n)
    <3>1. m \in Nat /\ n \in Nat /\ \A x \in S : x \in Nat
      OBVIOUS
    <3>2. \A x \in S : x > n => x > m
      BY <1>3, <3>1
    <3>3. n > m /\ ~(n > n)
      BY <1>3, <3>1
    <3>4. QED
      BY <3>2, <3>3 DEF Above
  <2>2. Cardinality(Above(S, m)) = Cardinality(Above(S, n)) => Above(S, m) = Above(S, n)
    BY <1>2, <2>1, FS_Subset
  <2>3. QED
    BY <2>1, <2>2
<1>4. \A m, n \in S : Cardinality(Above(S, m)) = Cardinality(Above(S, n)) => m = n
  BY <1>3
<1>5. \A n \in S : Cardinality(Above(S, n)) \in 0..(c - 1)
  BY <1>1, <1>2
<1>6. \A k \in 0..(c - 1) : \E n \in S : Cardinality(Above(S, n)) = k
  <2>1. R \in Injection(S, 0..(c - 1))
    BY <1>4, <1>5 DEF Injection, IsInjective
  <2>2. IsFiniteSet(0..(c - 1)) /\ Cardinality(0..(c - 1)) = c
    <3>1. ASSUME NEW k \in Nat
          PROVE  IsFiniteSet(0..(k - 1)) /\ Cardinality(0..(k - 1)) = k
      <4>1. 0 \in Int /\ k - 1 \in Int /\ (IF 0 > k - 1 THEN 0 ELSE k - 1 - 0 + 1) = k
        OBVIOUS
      <4>2. QED
        BY <4>1, FS_Interval
    <3>2. QED
      BY <1>1, <3>1
  <2>3. R \in Surjection(S, 0..(c - 1))
    BY <2>1, <2>2, FS_Injection
  <2>4. QED
    BY <2>3 DEF Surjection
<1>7. QED
  BY <1>1, <1>2, <1>4, <1>5, <1>6

LEMMA PushedAll ==
    ASSUME NEW S \in SUBSET Nat, IsFiniteSet(S)
    PROVE  /\ Pushed(S) \in Seq(S)
           /\ \A i, j \in DOMAIN Pushed(S) : Pushed(S)[i] = Pushed(S)[j] => i = j
           /\ \A n \in S : \E i \in DOMAIN Pushed(S) : Pushed(S)[i] = n
<1> DEFINE c == Cardinality(S)
           t == Pushed(S)
<1>1. t = [i \in 1..c |-> CHOOSE n \in S : Cardinality(Above(S, n)) = i - 1]
  BY DEF Pushed, Above
<1>2. /\ c \in Nat
      /\ \A n \in S : Cardinality(Above(S, n)) \in 0..(c - 1)
      /\ \A m, n \in S : Cardinality(Above(S, m)) = Cardinality(Above(S, n)) => m = n
      /\ \A k \in 0..(c - 1) : \E n \in S : Cardinality(Above(S, n)) = k
  BY AboveCount
<1>3. ASSUME NEW i \in 1..c
      PROVE  t[i] \in S /\ Cardinality(Above(S, t[i])) = i - 1
  <2>1. i - 1 \in 0..(c - 1)
    BY <1>2
  <2>2. \E n \in S : Cardinality(Above(S, n)) = i - 1
    BY <1>2, <2>1
  <2>3. t[i] = CHOOSE n \in S : Cardinality(Above(S, n)) = i - 1
    BY <1>1
  <2> HIDE DEF t
  <2>4. QED
    BY <2>2, <2>3
<1>4. DOMAIN t = 1..c /\ t \in Seq(S)
  <2>1. DOMAIN t = 1..c /\ t \in [1..c -> S]
    BY <1>1, <1>3
  <2> HIDE DEF t, c
  <2>2. QED
    BY <1>2, <2>1
<1> HIDE DEF t, c
<1>5. ASSUME NEW i \in 1..c, NEW j \in 1..c, t[i] = t[j] PROVE i = j
  <2>1. i - 1 = j - 1
    BY <1>3, <1>5
  <2>2. QED
    BY <1>2, <2>1
<1>6. ASSUME NEW n \in S PROVE \E i \in 1..c : t[i] = n
  <2> DEFINE i == Cardinality(Above(S, n)) + 1
  <2>1. i \in 1..c /\ i - 1 = Cardinality(Above(S, n))
    BY <1>2
  <2> HIDE DEF i
  <2>2. t[i] \in S /\ Cardinality(Above(S, t[i])) = i - 1
    BY <1>3, <2>1
  <2>3. t[i] \in S /\ Cardinality(Above(S, t[i])) = Cardinality(Above(S, n))
    BY <2>1, <2>2
  <2>4. t[i] = n
    BY <1>2, <2>3
  <2>5. QED
    BY <2>1, <2>4
<1>7. QED
  BY <1>4, <1>5, <1>6 DEF t

(* The block that a letter is given next.                                  *)
LEMMA PoppedOne ==
    ASSUME NEW f \in Seq(Block), NEW list \in Seq(Nat \ {0}), FreeBlocks(f, list),
           NEW pos, NEW rest,
           pos = IF list = <<>> THEN Len(f) + 1 ELSE Head(list),
           rest = IF list = <<>> THEN <<>> ELSE Tail(list)
    PROVE  /\ pos \in 1..(Len(f) + 1) /\ pos \notin UsedBlocks(f)
           /\ rest \in Seq(Nat \ {0}) /\ FreeBlocks(f, rest)
           /\ \A m \in DOMAIN rest : rest[m] # pos
<1>1. \A m \in DOMAIN list : list[m] \in DOMAIN f /\ list[m] \notin UsedBlocks(f)
  BY DEF FreeBlocks
<1>2. \A m, n \in DOMAIN list : list[m] = list[n] => m = n
  BY DEF FreeBlocks
<1>3. CASE list = <<>>
  <2>1. pos = Len(f) + 1 /\ rest = <<>>
    BY <1>3
  <2>2. pos \notin UsedBlocks(f)
    BY <2>1 DEF UsedBlocks
  <2>3. QED
    BY <2>1, <2>2 DEF FreeBlocks
<1>4. CASE list # <<>>
  <2>1. pos = list[1] /\ rest = Tail(list) /\ 1 \in DOMAIN list
    BY <1>4
  <2>2. /\ rest \in Seq(Nat \ {0}) /\ DOMAIN rest = 1..(Len(list) - 1) /\ Len(list) \in Nat
        /\ \A m \in DOMAIN rest : rest[m] = list[m + 1] /\ m + 1 \in DOMAIN list /\ m + 1 # 1
        /\ \A m, n \in DOMAIN rest : m + 1 = n + 1 => m = n
    BY <1>4, <2>1
  <2>3. FreeBlocks(f, rest)
    BY <1>1, <1>2, <2>2 DEF FreeBlocks
  <2>4. \A m \in DOMAIN rest : rest[m] # pos
    BY <1>2, <2>1, <2>2
  <2>5. pos \in 1..(Len(f) + 1) /\ pos \notin UsedBlocks(f)
    <3>1. pos \in 1..Len(f) /\ pos \notin UsedBlocks(f)
      BY <1>1, <2>1
    <3>2. QED
      BY <3>1
  <2>6. QED
    BY <2>2, <2>3, <2>4, <2>5
<1>5. QED
  BY <1>3, <1>4

-----------------------------------------------------------------------------
(* From a block on, a file leads to later parts of the same letter, so the *)
(* blocks are no more than the parts that are left.                        *)
LEMMA ChainAscends ==
    ASSUME NEW f \in Seq(Block), NEW sent \in Nat, NEW loose,
           NumberedParts(f, sent), Linked(f, loose), NEW pos \in UsedBlocks(f)
    PROVE  \A n \in BlocksFrom(f, pos) :
             n \in UsedBlocks(f) /\ f[n].letter = f[pos].letter /\ f[n].part >= f[pos].part
<1> DEFINE U == UsedBlocks(f)
           S == {n \in U : f[n].letter = f[pos].letter /\ f[n].part >= f[pos].part}
<1>1. \A n \in U : f[n].part \in Nat
  BY DEF NumberedParts, NumberedBlock
<1>2. pos \in S
  BY <1>1
<1>3. ASSUME NEW m \in S, NEW n \in NextBlocks(f, m) PROVE n \in S
  <2>1. n \in U /\ m \in U /\ Link(f[m]) = n
    BY <1>3 DEF NextBlocks
  <2>2. f[n].letter = f[m].letter /\ f[n].part = f[m].part + 1
    BY <2>1 DEF Linked
  <2>3. QED
    BY <1>1, <1>3, <2>1, <2>2
<1> HIDE DEF S
<1>4. S \in SUBSET UsedBlocks(f) /\ {pos} \cap UsedBlocks(f) \subseteq S
  BY <1>2 DEF S
<1>5. BlocksFrom(f, pos) \subseteq S
  BY <1>3, <1>4, ReachedLeast
<1>6. QED
  BY <1>5 DEF S

LEMMA ChainLength ==
    ASSUME NEW f \in Seq(Block), NEW sent \in Nat, NEW loose,
           NumberedParts(f, sent), Linked(f, loose), NEW pos \in UsedBlocks(f)
    PROVE  /\ Cardinality(BlocksFrom(f, pos)) \in 1..MaxParts
           /\ Cardinality(BlocksFrom(f, pos)) <= MaxParts + 1 - f[pos].part
<1> DEFINE B == BlocksFrom(f, pos)
           from == f[pos].part
           R == [n \in B |-> f[n].part]
<1>1. \A n \in UsedBlocks(f) : f[n].part \in 1..MaxParts
  BY DEF NumberedParts, NumberedBlock
<1>2. \A n \in B : n \in UsedBlocks(f) /\ f[n].letter = f[pos].letter /\ f[n].part >= f[pos].part
  BY ChainAscends
<1>3. from \in 1..MaxParts /\ MaxParts \in Nat /\ IsFiniteSet(B) /\ Cardinality(B) \in Nat /\ pos \in B
  BY <1>1, UsedFinite, ReachedClosed, MailAssumption
<1> HIDE DEF B, from
<1>4. \A n \in B : f[n].part \in from..MaxParts
  BY <1>1, <1>2, <1>3 DEF from
<1>5. R \in Injection(B, from..MaxParts)
  <2>1. \A m, n \in B : f[m].part = f[n].part => m = n
    BY <1>2 DEF NumberedParts
  <2>2. QED
    BY <1>4, <2>1 DEF Injection, IsInjective
<1>6. IsFiniteSet(from..MaxParts) /\ Cardinality(from..MaxParts) = MaxParts + 1 - from
  <2>1. from \in Int /\ MaxParts \in Int /\ (IF from > MaxParts THEN 0 ELSE MaxParts - from + 1) = MaxParts + 1 - from
    BY <1>3
  <2>2. QED
    BY <2>1, FS_Interval
<1>7. Cardinality(B) <= MaxParts + 1 - from
  BY <1>5, <1>6, FS_Injection
<1>8. Cardinality(B) # 0
  BY <1>3, FS_EmptySet
<1>9. QED
  BY <1>3, <1>7, <1>8 DEF B, from

(* A file that is written behind a chain, or to another letter, leads to   *)
(* the same blocks.                                                        *)
LEMMA ChainKept ==
    ASSUME NEW f \in Seq(Block), NEW b \in Block, NEW at \in 1..(Len(f) + 1), NEW g,
           Wrote(f, g, b, at), NEW pos, pos # at,
           at \notin BlocksFrom(f, pos),
           \A n \in BlocksFrom(f, pos) : Link(f[n]) # at
    PROVE  BlocksFrom(g, pos) = BlocksFrom(f, pos)
<1>1. /\ \A n : n # at => (n \in UsedBlocks(g) <=> n \in UsedBlocks(f))
      /\ \A n \in UsedBlocks(f) : n # at => g[n] = f[n]
  BY WroteUsed
<1>2. BlocksFrom(f, pos) \subseteq UsedBlocks(f)
  BY DEF BlocksFrom
<1>3. ASSUME NEW n \in BlocksFrom(f, pos)
      PROVE  n \in UsedBlocks(g) /\ NextBlocks(g, n) = NextBlocks(f, n)
  <2>1. n # at /\ n \in UsedBlocks(f) /\ n \in UsedBlocks(g) /\ g[n] = f[n] /\ Link(f[n]) # at
    BY <1>1, <1>2, <1>3
  <2>2. Link(f[n]) \in UsedBlocks(g) <=> Link(f[n]) \in UsedBlocks(f)
    BY <1>1, <2>1
  <2>3. QED
    BY <2>1, <2>2 DEF NextBlocks
<1>4. pos \in UsedBlocks(f) <=> pos \in UsedBlocks(g)
  BY <1>1
<1>5. QED
  BY <1>3, <1>4, ReachedSame

-----------------------------------------------------------------------------
(* The invariant of the mail file.                                         *)
StoreOp ==
    [op : {"store"}, letter : MailLetter, part : 1..MaxParts,
     last : Nat \ {0}, target : Nat]
ReadOp ==
    [op : {"read", "hung"}, todo : Seq(Addressees), at : Int, parts : Nat,
     letter : 0..MaxLetters]

MailTyped ==
    /\ mail_file \in Seq(Block)
    /\ free_list \in Seq(Nat \ {0})
    /\ mail_index \in [Addressees -> Seq(Nat \ {0})]
    /\ mailing \in [Addressees -> Addressees \cup {NoOne}]
    /\ letters_sent \in 0..MaxLetters
    /\ torn \in BOOLEAN
    /\ mail_op \in {Idle} \cup StoreOp \cup ReadOp
    /\ \A l \in delivered : l.id \in 1..letters_sent

(* The block that a crash, or the one write that is still to come, leaves  *)
(* with a link to nowhere, and the header that was taken to be read.       *)
LooseBlocks(op, crashed) ==
    IF crashed THEN Nat
    ELSE IF op.op = "store" THEN (IF op.target # 0 THEN {op.last} ELSE {}) ELSE {}
TakenBlocks(op) ==
    IF op.op \in {"read", "hung"} THEN (IF op.parts = 0 THEN {op.at} ELSE {}) ELSE {}

FileSound ==
    /\ NumberedParts(mail_file, letters_sent)
    /\ Linked(mail_file, LooseBlocks(mail_op, torn))
    /\ IndexedHeaders(mail_file, mail_index, TakenBlocks(mail_op))
    /\ mail_op.op # "hung" => FreeBlocks(mail_file, free_list)

(* The letter that is being stored has as many blocks as were written.     *)
Stored(f, list, op, sent) ==
    /\ op.letter.id \in 1..sent
    /\ op.part < op.letter.parts
    /\ op.last \in UsedBlocks(f)
    /\ f[op.last].letter = op.letter.id
    /\ f[op.last].part = op.part
    /\ Link(f[op.last]) = IF op.target = 0 THEN LAST_BLOCK ELSE op.target
    /\ op.target # 0 =>
         /\ op.target \in 1..(Len(f) + 1) /\ op.target \notin UsedBlocks(f)
         /\ \A m \in DOMAIN list : list[m] # op.target
    /\ \E h \in UsedBlocks(f) :
         /\ f[h].part = 1 /\ f[h].letter = op.letter.id /\ f[h].to = op.letter.to
         /\ op.last \in BlocksFrom(f, h)
         /\ Cardinality(BlocksFrom(f, h)) = op.part
    /\ \A n \in UsedBlocks(f) : f[n].letter = op.letter.id => f[n].part <= op.part

(* The letter that is being read has lost the blocks that were collected.  *)
Read(f, op, sent) ==
    /\ Len(op.todo) > 0
    /\ op.letter \in 1..sent
    /\ op.at \in {LAST_BLOCK} \cup 1..(Len(f) + 1)
    /\ op.at \in UsedBlocks(f) => f[op.at].letter = op.letter /\ f[op.at].part = op.parts + 1
    /\ \A n \in UsedBlocks(f) : f[n].letter = op.letter => f[n].part > op.parts
    /\ op.parts = 0 => op.at \in UsedBlocks(f) /\ f[op.at].to = op.todo[1]
    /\ op.parts <= MaxParts
    /\ op.op = "hung" => op.at \notin UsedBlocks(f)

MailInv ==
    /\ MailTyped
    /\ FileSound
    /\ mail_op.op = "store" => Stored(mail_file, free_list, mail_op, letters_sent)
    /\ mail_op.op \in {"read", "hung"} => Read(mail_file, mail_op, letters_sent)

LEMMA OpFacts ==
    /\ Idle.op = "idle"
    /\ \A o \in StoreOp : o.op = "store"
    /\ \A o \in ReadOp : o.op \in {"read", "hung"}
    /\ MailTyped /\ mail_op.op = "store" => mail_op \in StoreOp
    /\ MailTyped /\ mail_op.op \in {"read", "hung"} => mail_op \in ReadOp
BY DEF Idle, StoreOp, ReadOp, MailTyped

LEMMA LooseWith ==
    ASSUME NEW op \in StoreOp, NEW crashed \in BOOLEAN
    PROVE  op.target # 0 => LooseBlocks(op, crashed) = LooseBlocks(Idle, crashed) \cup {op.last}
BY OpFacts DEF LooseBlocks, StoreOp

LEMMA Bounds ==
    /\ MaxLetters \in Nat /\ MaxParts \in Nat /\ 1 \in 1..MaxParts
    /\ LAST_BLOCK \in Int /\ LAST_BLOCK \notin Nat /\ LAST_BLOCK # HEADER_BLOCK
    /\ DELETED_BLOCK # HEADER_BLOCK /\ DELETED_BLOCK # LAST_BLOCK
    /\ NoOne \notin Addressees
<1>1. MaxLetters \in Nat /\ MaxParts \in Nat /\ 1 \in 1..MaxParts
  <2>1. MaxLetters \in Nat \ {0} /\ MaxParts \in Nat \ {0}
    BY MailAssumption, Zenon
  <2>2. QED
    BY <2>1
<1>2. LAST_BLOCK \in Int /\ LAST_BLOCK \notin Nat /\ LAST_BLOCK # HEADER_BLOCK
  BY DEF LAST_BLOCK, HEADER_BLOCK
<1>3. DELETED_BLOCK # HEADER_BLOCK /\ DELETED_BLOCK # LAST_BLOCK
  BY DEF LAST_BLOCK, HEADER_BLOCK, DELETED_BLOCK
<1>4. NoOne \notin Addressees
  BY MailAssumption DEF NoOne
<1>5. QED
  BY <1>1, <1>2, <1>3, <1>4

LEMMA HeaderBlock ==
    ASSUME NEW l \in MailLetter, NEW next \in Int
    PROVE  /\ Header(l, next) \in Block
           /\ Header(l, next).type = HEADER_BLOCK /\ Header(l, next).type # DELETED_BLOCK
           /\ Header(l, next).letter = l.id /\ Header(l, next).part = 1
           /\ Header(l, next).to = l.to
           /\ Link(Header(l, next)) = next
<1>1. l.id \in 0..MaxLetters /\ 1 \in 0..MaxParts /\ l.to \in Addressees \cup {NoOne}
  BY Bounds DEF MailLetter
<1>2. HEADER_BLOCK \in Int /\ HEADER_BLOCK # DELETED_BLOCK
  BY DEF HEADER_BLOCK, DELETED_BLOCK
<1>3. Header(l, next) \in Block
  BY <1>1, <1>2 DEF Header, Block
<1>4. QED
  BY <1>2, <1>3 DEF Header, Link

LEMMA DataBlock ==
    ASSUME NEW l \in MailLetter, NEW k \in 1..MaxParts, NEW t \in {LAST_BLOCK} \cup (Nat \ {0})
    PROVE  /\ Data(l, k, t) \in Block
           /\ Data(l, k, t).type # HEADER_BLOCK /\ Data(l, k, t).type # DELETED_BLOCK
           /\ Data(l, k, t).letter = l.id /\ Data(l, k, t).part = k
           /\ Data(l, k, t).to = l.to
           /\ Link(Data(l, k, t)) = t
<1>1. l.id \in 0..MaxLetters /\ k \in 0..MaxParts /\ l.to \in Addressees \cup {NoOne}
  BY Bounds DEF MailLetter
<1>2. t \in Int /\ t # HEADER_BLOCK /\ t # DELETED_BLOCK /\ LAST_BLOCK \in Int
  BY DEF HEADER_BLOCK, DELETED_BLOCK, LAST_BLOCK
<1>3. Data(l, k, t) \in Block
  BY <1>1, <1>2 DEF Data, Block
<1>4. QED
  BY <1>2, <1>3 DEF Data, Link

(* The file after a header was written for a new letter.                   *)
HeaderAdded(f, g, sent, index, l, pos, loose) ==
    /\ NumberedParts(g, sent + 1)
    /\ Linked(g, loose)
    /\ IndexedHeaders(g, [index EXCEPT ![l.to] = <<pos>> \o @], {})
    /\ BlocksFrom(g, pos) = {pos}
    /\ \A n \in UsedBlocks(g) : g[n].letter = sent + 1 => n = pos
    /\ \A h \in UsedBlocks(f) : BlocksFrom(g, h) = BlocksFrom(f, h)

LEMMA HeaderWritten ==
    ASSUME NEW f \in Seq(Block), NEW sent \in Nat, NEW index \in [Addressees -> Seq(Nat \ {0})],
           NEW l \in MailLetter, l.id = sent + 1,
           NEW pos \in 1..(Len(f) + 1), pos \notin UsedBlocks(f), NEW g,
           Wrote(f, g, Header(l, LAST_BLOCK), pos), NEW loose, ~LedTo(f, pos),
           NumberedParts(f, sent), Linked(f, loose), IndexedHeaders(f, index, {})
    PROVE  HeaderAdded(f, g, sent, index, l, pos, loose)
<1> DEFINE b == Header(l, LAST_BLOCK)
<1>1. /\ b \in Block /\ b.type = HEADER_BLOCK /\ b.type # DELETED_BLOCK
      /\ b.letter = sent + 1 /\ b.part = 1 /\ b.to = l.to /\ Link(b) = LAST_BLOCK
  BY HeaderBlock, Bounds
<1>2. l.to \in Addressees
  BY DEF MailLetter
<1>3. Wrote(f, g, b, pos)
  OBVIOUS
<1> HIDE DEF b
<1>4. /\ pos \in UsedBlocks(g)
      /\ \A n : n # pos => (n \in UsedBlocks(g) <=> n \in UsedBlocks(f))
      /\ \A n \in UsedBlocks(f) : n # pos => g[n] = f[n]
  BY <1>1, <1>3, WroteUsed
<1>5. g[pos] = b
  BY <1>1, <1>3, WroteAt
<1>6. \A n \in UsedBlocks(f) : n # pos /\ f[n].letter # sent + 1
  BY DEF NumberedParts, NumberedBlock
<1>7. NumberedParts(g, sent + 1)
  <2>1. NumberedBlock(b, sent + 1)
    BY <1>1, <1>2, Bounds DEF NumberedBlock
  <2>2. sent + 1 \in Nat /\ sent <= sent + 1
    OBVIOUS
  <2>3. \A n \in UsedBlocks(f) : n # pos => ~(f[n].letter = b.letter /\ f[n].part = b.part)
    BY <1>1, <1>6
  <2>4. QED
    BY <1>1, <1>3, <2>1, <2>2, <2>3, NumberedKept
<1>8. \A n \in UsedBlocks(f) : Link(f[n]) # pos
  BY DEF LedTo
<1>9. pos # LAST_BLOCK
  BY Bounds
<1>10. Linked(g, loose)
  <2>1. \A n \in UsedBlocks(f) : Link(f[n]) # pos /\ LAST_BLOCK # n
    <3>1. UsedBlocks(f) \subseteq Nat
      BY UsedNat
    <3>2. QED
      BY <1>8, <3>1, Bounds
  <2>2. QED
    BY <1>1, <1>3, <1>9, <2>1, LinkedKept
<1>11. IndexedHeaders(g, [index EXCEPT ![l.to] = <<pos>> \o @], {})
  BY <1>1, <1>2, <1>3, IndexPushed
<1>12. BlocksFrom(g, pos) = {pos}
  <2>1. BlocksFrom(g, pos) = {pos} \cup BlocksFrom(g, LAST_BLOCK)
    BY <1>1, <1>4, <1>5, ReachedStep
  <2>2. LAST_BLOCK \notin UsedBlocks(g)
    <3>1. g \in Seq(Block)
      BY <1>1, <1>3, WroteTyped
    <3>2. QED
      BY <3>1, UsedNat, Bounds
  <2>3. QED
    BY <2>1, <2>2, ReachedNone
<1>13. \A n \in UsedBlocks(g) : g[n].letter = sent + 1 => n = pos
  BY <1>4, <1>6
<1>14. ASSUME NEW h \in UsedBlocks(f) PROVE BlocksFrom(g, h) = BlocksFrom(f, h)
  <2>1. BlocksFrom(f, h) \subseteq UsedBlocks(f)
    BY DEF BlocksFrom
  <2>2. h # pos /\ pos \notin BlocksFrom(f, h) /\ \A n \in BlocksFrom(f, h) : Link(f[n]) # pos
    BY <1>8, <1>9, <2>1
  <2>3. QED
    BY <1>1, <1>3, <2>2, ChainKept
<1>15. QED
  BY <1>7, <1>10, <1>11, <1>12, <1>13, <1>14 DEF HeaderAdded

(* A letter is begun: its header is written.                               *)
LEMMA HeaderKeeps ==
    ASSUME MailInv, NEW p \in Addressees, NEW parts \in 1..MaxParts,
           store_mail_header(p, parts), ~mixed'
    PROVE  MailInv'
<1> DEFINE l == [id |-> letters_sent + 1, to |-> mailing[p], parts |-> parts]
           f == mail_file
           g == mail_file'
           pos == PoppedPos
           loose == LooseBlocks(Idle, torn)
<1>1. /\ mail_op = Idle /\ mailing[p] # NoOne /\ letters_sent < MaxLetters
      /\ mailing' = [mailing EXCEPT ![p] = NoOne]
      /\ letters_sent' = letters_sent + 1
      /\ mail_index' = [mail_index EXCEPT ![l.to] = <<pos>> \o @]
      /\ mail_op' = IF parts = 1 THEN Idle
                    ELSE [op |-> "store", letter |-> l, part |-> 1, last |-> pos, target |-> 0]
      /\ delivered' = delivered /\ torn' = torn /\ ~LedTo(f, pos)
  BY DEF store_mail_header, index_mail
<1>2. /\ f \in Seq(Block) /\ free_list \in Seq(Nat \ {0}) /\ mail_index \in [Addressees -> Seq(Nat \ {0})]
      /\ mailing \in [Addressees -> Addressees \cup {NoOne}]
      /\ letters_sent \in 0..MaxLetters /\ letters_sent \in Nat /\ torn \in BOOLEAN
      /\ \A x \in delivered : x.id \in 1..letters_sent
  BY DEF MailInv, MailTyped
<1>3. NumberedParts(f, letters_sent) /\ Linked(f, loose) /\ IndexedHeaders(f, mail_index, {}) /\ FreeBlocks(f, free_list)
  BY <1>1, OpFacts DEF MailInv, FileSound, TakenBlocks
<1>4. /\ l \in MailLetter /\ l.id = letters_sent + 1 /\ l.to \in Addressees /\ l.parts = parts
      /\ letters_sent + 1 \in 0..MaxLetters
  <2>1. mailing[p] \in Addressees /\ letters_sent + 1 \in 1..MaxLetters /\ letters_sent + 1 \in 0..MaxLetters
    BY <1>1, <1>2, Bounds
  <2>2. QED
    BY <2>1 DEF MailLetter
<1>5. Wrote(f, g, Header(l, LAST_BLOCK), pos)
  BY DEF store_mail_header, write_to_file, Wrote, file_end_pos
<1>6. pos = (IF free_list = <<>> THEN Len(f) + 1 ELSE Head(free_list))
      /\ free_list' = IF free_list = <<>> THEN <<>> ELSE Tail(free_list)
  BY DEF store_mail_header, PoppedPos, pop_free_list, file_end_pos
<1> HIDE DEF l, f, g, pos, loose
<1>7. /\ pos \in 1..(Len(f) + 1) /\ pos \notin UsedBlocks(f)
      /\ free_list' \in Seq(Nat \ {0}) /\ FreeBlocks(f, free_list')
      /\ \A m \in DOMAIN free_list' : free_list'[m] # pos
  BY <1>2, <1>3, <1>6, PoppedOne
<1>8. /\ NumberedParts(g, letters_sent + 1) /\ Linked(g, loose)
      /\ IndexedHeaders(g, [mail_index EXCEPT ![l.to] = <<pos>> \o @], {})
      /\ BlocksFrom(g, pos) = {pos}
      /\ \A n \in UsedBlocks(g) : g[n].letter = letters_sent + 1 => n = pos
  <2>1. HeaderAdded(f, g, letters_sent, mail_index, l, pos, loose)
    BY <1>1, <1>2, <1>3, <1>4, <1>5, <1>7, HeaderWritten
  <2>2. QED
    BY <2>1 DEF HeaderAdded
<1>9. Header(l, LAST_BLOCK) \in Block
      /\ Header(l, LAST_BLOCK).letter = l.id /\ Header(l, LAST_BLOCK).part = 1
      /\ Header(l, LAST_BLOCK).to = l.to
      /\ Link(Header(l, LAST_BLOCK)) = LAST_BLOCK
      /\ Header(l, LAST_BLOCK).type # DELETED_BLOCK
  BY <1>4, Bounds, HeaderBlock
<1>10. FreeBlocks(g, free_list')
  BY <1>2, <1>5, <1>7, <1>9, FreeKept
<1>11. pos \in Nat \ {0} /\ pos \in UsedBlocks(g)
  BY <1>2, <1>5, <1>7, <1>9, WroteUsed
<1>12. g[pos] = Header(l, LAST_BLOCK)
  BY <1>2, <1>5, <1>7, <1>9, WroteAt
<1>13. mail_op' = Idle \/ (mail_op' \in StoreOp /\ parts # 1 /\ mail_op' = [op |-> "store", letter |-> l, part |-> 1, last |-> pos, target |-> 0])
  BY <1>1, <1>4, <1>11, Bounds DEF StoreOp
<1>14. MailTyped'
  <2>1. g \in Seq(Block)
    BY <1>2, <1>5, <1>7, <1>9, WroteTyped
  <2>2. mail_index' \in [Addressees -> Seq(Nat \ {0})]
    <3>1. <<pos>> \o mail_index[l.to] \in Seq(Nat \ {0})
      BY <1>2, <1>4, <1>11
    <3>2. QED
      BY <1>1, <1>2, <1>4, <3>1
  <2>3. mailing' \in [Addressees -> Addressees \cup {NoOne}]
    BY <1>1, <1>2
  <2>4. letters_sent' \in 0..MaxLetters /\ \A x \in delivered' : x.id \in 1..letters_sent'
    <3>1. \A k \in 1..letters_sent : k \in 1..(letters_sent + 1)
      BY <1>2
    <3>2. QED
      BY <1>1, <1>2, <1>4, <3>1
  <2>5. QED
    BY <1>1, <1>2, <1>7, <1>13, <2>1, <2>2, <2>3, <2>4 DEF MailTyped, g
<1>15. LooseBlocks(mail_op', torn') = loose /\ TakenBlocks(mail_op') = {} /\ mail_op'.op \notin {"read", "hung"}
  <2>1. CASE mail_op' = Idle
    BY <1>1, <2>1, OpFacts DEF LooseBlocks, TakenBlocks, loose
  <2>2. CASE mail_op' = [op |-> "store", letter |-> l, part |-> 1, last |-> pos, target |-> 0]
    BY <1>1, <2>2, OpFacts DEF LooseBlocks, TakenBlocks, loose
  <2>3. QED
    BY <1>13, <2>1, <2>2
<1>16. FileSound'
  BY <1>1, <1>8, <1>10, <1>15 DEF FileSound, g
<1>17. ASSUME mail_op'.op = "store"
       PROVE  Stored(g, free_list', mail_op', letters_sent')
  <2>1. parts # 1 /\ mail_op' = [op |-> "store", letter |-> l, part |-> 1, last |-> pos, target |-> 0]
    BY <1>13, <1>17, OpFacts
  <2>2. /\ mail_op'.letter = l /\ mail_op'.part = 1 /\ mail_op'.last = pos /\ mail_op'.target = 0
    BY <2>1
  <2>3. Cardinality(BlocksFrom(g, pos)) = 1 /\ pos \in BlocksFrom(g, pos)
    BY <1>8, FS_Singleton
  <2>4. l.id \in 1..letters_sent' /\ 1 < l.parts
    BY <1>1, <1>2, <1>4, <2>1
  <2>5. \A n \in UsedBlocks(g) : g[n].letter = l.id => g[n].part <= 1
    BY <1>4, <1>8, <1>9, <1>12
  <2>6. \E h \in UsedBlocks(g) :
         /\ g[h].part = 1 /\ g[h].letter = l.id /\ g[h].to = l.to
         /\ pos \in BlocksFrom(g, h) /\ Cardinality(BlocksFrom(g, h)) = 1
    BY <1>9, <1>11, <1>12, <2>3
  <2>7. QED
    BY <1>1, <1>9, <1>11, <1>12, <2>2, <2>4, <2>5, <2>6 DEF Stored
<1>18. QED
  BY <1>14, <1>15, <1>16, <1>17 DEF MailInv, g

(* The file after the last block was linked to the next.                   *)
LinkAdded(f, g, sent, index, op, t, loose) ==
    /\ NumberedParts(g, sent)
    /\ Linked(g, loose \cup {op.last})
    /\ IndexedHeaders(g, index, {})
    /\ UsedBlocks(g) = UsedBlocks(f)
    /\ g[op.last].letter = op.letter.id /\ g[op.last].part = op.part /\ Link(g[op.last]) = t
    /\ \A n \in UsedBlocks(f) : g[n].letter = f[n].letter /\ g[n].part = f[n].part
    /\ \A n \in UsedBlocks(f) : f[n].part = 1 => g[n].to = f[n].to
    /\ \A h \in UsedBlocks(f) : BlocksFrom(g, h) = BlocksFrom(f, h)

LEMMA LinkBlock ==
    ASSUME NEW op \in StoreOp, NEW t \in Nat \ {0},
           NEW b, b = IF op.part = 1 THEN Header(op.letter, t) ELSE Data(op.letter, op.part, t)
    PROVE  /\ b \in Block /\ b.type # DELETED_BLOCK
           /\ b.type = HEADER_BLOCK <=> op.part = 1
           /\ b.letter = op.letter.id /\ b.part = op.part /\ b.to = op.letter.to /\ Link(b) = t
<1>1. op.letter \in MailLetter /\ op.part \in 1..MaxParts
  BY DEF StoreOp
<1>2. CASE op.part = 1
  BY <1>1, <1>2, HeaderBlock
<1>3. CASE op.part # 1
  BY <1>1, <1>3, DataBlock
<1>4. QED
  BY <1>2, <1>3

LEMMA LinkWritten ==
    ASSUME NEW f \in Seq(Block), NEW sent \in Nat, NEW index,
           NEW op \in StoreOp, op.target = 0, NEW list, Stored(f, list, op, sent),
           NEW t \in 1..(Len(f) + 1), t \notin UsedBlocks(f), NEW g, NEW b,
           b = IF op.part = 1 THEN Header(op.letter, t) ELSE Data(op.letter, op.part, t),
           Wrote(f, g, b, op.last), NEW loose, ~LedTo(f, t),
           NumberedParts(f, sent), Linked(f, loose), IndexedHeaders(f, index, {})
    PROVE  LinkAdded(f, g, sent, index, op, t, loose)
<1> DEFINE last == op.last
           U == UsedBlocks(f)
<1>1. /\ b \in Block /\ b.type # DELETED_BLOCK
      /\ b.type = HEADER_BLOCK <=> op.part = 1
      /\ b.letter = op.letter.id /\ b.part = op.part /\ b.to = op.letter.to /\ Link(b) = t
  BY LinkBlock
<1>2. /\ op.letter.id \in 1..sent /\ last \in U
      /\ f[last].letter = op.letter.id /\ f[last].part = op.part /\ Link(f[last]) = LAST_BLOCK
      /\ \E h \in U : f[h].part = 1 /\ f[h].letter = op.letter.id /\ f[h].to = op.letter.to
  BY DEF Stored
<1>3. last \in 1..(Len(f) + 1) /\ t # last /\ t # LAST_BLOCK
  BY <1>2, Bounds, UsedNat DEF UsedBlocks
<1>4. op.letter.to \in Addressees /\ op.part \in 1..MaxParts
  BY DEF StoreOp, MailLetter
<1>5. Wrote(f, g, b, last)
  OBVIOUS
<1> HIDE DEF last
<1>6. /\ UsedBlocks(g) = U
      /\ \A n \in U : n # last => g[n] = f[n]
  <2>1. /\ last \in UsedBlocks(g)
        /\ \A n : n # last => (n \in UsedBlocks(g) <=> n \in U)
        /\ \A n \in U : n # last => g[n] = f[n]
    BY <1>1, <1>3, <1>5, WroteUsed
  <2>2. UsedBlocks(g) \subseteq U /\ U \subseteq UsedBlocks(g)
    BY <1>2, <2>1
  <2>3. QED
    BY <2>1, <2>2
<1>7. g[last] = b
  BY <1>1, <1>3, <1>5, WroteAt
<1>8. NumberedParts(g, sent)
  <2>1. NumberedBlock(b, sent)
    BY <1>1, <1>2, <1>4 DEF NumberedBlock
  <2>2. \A n \in U : n # last => ~(f[n].letter = b.letter /\ f[n].part = b.part)
    BY <1>1, <1>2 DEF NumberedParts
  <2>3. QED
    BY <1>1, <1>3, <1>5, <2>1, <2>2, NumberedKept
<1>9. \A n \in U : Link(f[n]) # t
  BY DEF LedTo
<1>10. \A n \in loose : n \in loose \cup {last}
  OBVIOUS
<1>11. Linked(g, loose \cup {last})
  <2>1. Len(g) \in Nat /\ Len(g) \in {Len(f), Len(f) + 1} /\ Len(f) \in Nat
    BY <1>1, <1>3, <1>5, WroteTyped
  <2>2. Link(b) \in {LAST_BLOCK} \cup 1..(Len(g) + 1) /\ Link(b) # last
    BY <1>1, <1>3, <2>1
  <2>3. \A m \in U : m # last /\ Link(b) = m => f[m].letter = b.letter /\ f[m].part = b.part + 1
    BY <1>1
  <2>4. \A n \in U : n # last /\ Link(f[n]) = last => b.letter = f[n].letter /\ b.part = f[n].part + 1
    BY <1>1, <1>2 DEF Linked
  <2>5. \A n \in U : n # last => Link(f[n]) # Link(b) \/ Link(b) = LAST_BLOCK
    BY <1>1, <1>9
  <2>6. QED
    BY <1>1, <1>3, <1>5, <1>10, <2>2, <2>3, <2>4, <2>5, LinkedKept
<1>12. \A n \in U : f[n].part = 1 => g[n].to = f[n].to
  BY <1>1, <1>2, <1>6, <1>7 DEF NumberedParts
<1>13. IndexedHeaders(g, index, {})
  <2>1. \A n \in U : f[n].type = HEADER_BLOCK <=> g[n].type = HEADER_BLOCK
    BY <1>1, <1>2, <1>6, <1>7 DEF NumberedParts, NumberedBlock
  <2>2. Headers(g, {}) = Headers(f, {})
    BY <1>6, <2>1 DEF Headers
  <2>3. \A n \in Headers(f, {}) : g[n].to = f[n].to
    BY <1>12 DEF Headers, NumberedParts, NumberedBlock
  <2>4. QED
    BY <2>2, <2>3, HeadersKept
<1>14. \A n \in U : g[n].letter = f[n].letter /\ g[n].part = f[n].part
  BY <1>1, <1>2, <1>6, <1>7
<1>15. ASSUME NEW h \in U PROVE BlocksFrom(g, h) = BlocksFrom(f, h)
  <2>1. BlocksFrom(f, h) \subseteq U
    BY DEF BlocksFrom
  <2>2. NextBlocks(g, last) = {} /\ NextBlocks(f, last) = {}
    <3>1. LAST_BLOCK \notin U
      BY UsedNat, Bounds
    <3>2. QED
      BY <1>1, <1>2, <1>6, <1>7, <3>1 DEF NextBlocks
  <2>3. \A n \in U : NextBlocks(g, n) = NextBlocks(f, n)
    BY <1>6, <2>2 DEF NextBlocks
  <2>4. QED
    BY <1>6, <2>1, <2>3, ReachedSame
<1>16. QED
  BY <1>1, <1>7, <1>8, <1>11, <1>12, <1>13, <1>6, <1>14, <1>15 DEF LinkAdded, last

LEMMA LinkKeeps ==
    ASSUME MailInv, store_mail_link, ~mixed'
    PROVE  MailInv'
<1> DEFINE f == mail_file
           g == mail_file'
           op == mail_op
           t == PoppedPos
           b == IF op.part = 1 THEN Header(op.letter, t) ELSE Data(op.letter, op.part, t)
           loose == LooseBlocks(Idle, torn)
<1>1. /\ op.op = "store" /\ op.target = 0
      /\ mail_op' = [op EXCEPT !.target = t]
      /\ mail_index' = mail_index /\ mailing' = mailing /\ delivered' = delivered
      /\ letters_sent' = letters_sent /\ torn' = torn /\ ~LedTo(f, t)
  BY DEF store_mail_link
<1>2. /\ f \in Seq(Block) /\ free_list \in Seq(Nat \ {0}) /\ op \in StoreOp
      /\ letters_sent \in Nat
  BY <1>1, OpFacts DEF MailInv, MailTyped
<1>3. torn \in BOOLEAN /\ Stored(f, free_list, op, letters_sent)
  BY <1>1 DEF MailInv, MailTyped
<1>4. NumberedParts(f, letters_sent) /\ Linked(f, loose) /\ IndexedHeaders(f, mail_index, {}) /\ FreeBlocks(f, free_list)
  BY <1>1, <1>3, OpFacts DEF MailInv, FileSound, LooseBlocks, TakenBlocks
<1>5. Wrote(f, g, b, op.last)
  BY DEF store_mail_link, write_to_file, Wrote, file_end_pos
<1>6. /\ t = (IF free_list = <<>> THEN Len(f) + 1 ELSE Head(free_list))
      /\ free_list' = IF free_list = <<>> THEN <<>> ELSE Tail(free_list)
  BY DEF store_mail_link, PoppedPos, pop_free_list, file_end_pos
<1>7. mail_op' \in StoreOp \/ t \notin Nat
  BY <1>1, <1>2 DEF StoreOp
<1>8. /\ mail_op'.op = "store" /\ mail_op'.letter = op.letter /\ mail_op'.part = op.part
      /\ mail_op'.last = op.last /\ mail_op'.target = t
  BY <1>1, <1>2 DEF StoreOp
<1> HIDE DEF f, g, op, t, b, loose
<1>9. /\ t \in 1..(Len(f) + 1) /\ t \notin UsedBlocks(f)
      /\ free_list' \in Seq(Nat \ {0}) /\ FreeBlocks(f, free_list')
      /\ \A m \in DOMAIN free_list' : free_list'[m] # t
  BY <1>2, <1>4, <1>6, PoppedOne
<1>10. t \in Nat \ {0} /\ t # 0
  BY <1>2, <1>9
<1>11. LinkAdded(f, g, letters_sent, mail_index, op, t, loose)
  BY <1>1, <1>2, <1>3, <1>4, <1>5, <1>9, LinkWritten DEF b
<1>12. /\ NumberedParts(g, letters_sent) /\ Linked(g, loose \cup {op.last}) /\ IndexedHeaders(g, mail_index, {})
       /\ UsedBlocks(g) = UsedBlocks(f)
  BY <1>11 DEF LinkAdded
<1>13. b \in Block /\ b.type # DELETED_BLOCK
  BY <1>2, <1>10, LinkBlock DEF b
<1>14. op.last \in UsedBlocks(f) /\ op.last \in 1..(Len(f) + 1)
  BY <1>3 DEF Stored, UsedBlocks
<1>15. g \in Seq(Block) /\ Len(g) \in Nat /\ Len(g) \in {Len(f), Len(f) + 1}
  BY <1>2, <1>5, <1>13, <1>14, WroteTyped
<1>16. FreeBlocks(g, free_list')
  <2>1. \A m \in DOMAIN free_list' : free_list'[m] # op.last
    BY <1>9, <1>14 DEF FreeBlocks
  <2>2. QED
    BY <1>2, <1>5, <1>9, <1>13, <1>14, <2>1, FreeKept
<1>17. MailTyped'
  BY <1>1, <1>7, <1>9, <1>10, <1>15 DEF MailInv, MailTyped, g
<1>18. FileSound'
  <2>1. LooseBlocks(mail_op', torn') = loose \cup {op.last} /\ TakenBlocks(mail_op') = {}
    BY <1>1, <1>3, <1>7, <1>8, <1>10, LooseWith DEF TakenBlocks, loose
  <2>2. QED
    BY <1>1, <1>12, <1>16, <2>1 DEF FileSound, g
<1>19. Stored(g, free_list', mail_op', letters_sent')
  <2>1. /\ op.letter.id \in 1..letters_sent /\ op.part < op.letter.parts /\ op.last \in UsedBlocks(f)
        /\ \E h \in UsedBlocks(f) :
             /\ f[h].part = 1 /\ f[h].letter = op.letter.id /\ f[h].to = op.letter.to
             /\ op.last \in BlocksFrom(f, h)
             /\ Cardinality(BlocksFrom(f, h)) = op.part
        /\ \A n \in UsedBlocks(f) : f[n].letter = op.letter.id => f[n].part <= op.part
    BY <1>3 DEF Stored
  <2>2. /\ g[op.last].letter = op.letter.id /\ g[op.last].part = op.part /\ Link(g[op.last]) = t
        /\ \A n \in UsedBlocks(f) : g[n].letter = f[n].letter /\ g[n].part = f[n].part
        /\ \A n \in UsedBlocks(f) : f[n].part = 1 => g[n].to = f[n].to
        /\ \A h \in UsedBlocks(f) : BlocksFrom(g, h) = BlocksFrom(f, h)
    BY <1>11 DEF LinkAdded
  <2>3. t \in 1..(Len(g) + 1) /\ t \notin UsedBlocks(g)
    BY <1>2, <1>9, <1>12, <1>15
  <2>4. \E h \in UsedBlocks(g) :
          /\ g[h].part = 1 /\ g[h].letter = op.letter.id /\ g[h].to = op.letter.to
          /\ op.last \in BlocksFrom(g, h)
          /\ Cardinality(BlocksFrom(g, h)) = op.part
    BY <1>12, <2>1, <2>2
  <2>5. \A n \in UsedBlocks(g) : g[n].letter = op.letter.id => g[n].part <= op.part
    BY <1>12, <2>1, <2>2
  <2>6. QED
    BY <1>1, <1>8, <1>9, <1>10, <1>12, <2>1, <2>2, <2>3, <2>4, <2>5 DEF Stored
<1>20. QED
  BY <1>1, <1>3, <1>8, <1>17, <1>18, <1>19 DEF MailInv, g

(* The file after the next block was written.                              *)
DataAdded(f, g, sent, index, op, loose) ==
    /\ NumberedParts(g, sent)
    /\ Linked(g, loose)
    /\ IndexedHeaders(g, index, {})
    /\ UsedBlocks(g) = UsedBlocks(f) \cup {op.target} /\ op.target \notin UsedBlocks(f)
    /\ g[op.target].letter = op.letter.id /\ g[op.target].part = op.part + 1
    /\ Link(g[op.target]) = LAST_BLOCK
    /\ \A n \in UsedBlocks(f) : g[n] = f[n]
    /\ \A h \in UsedBlocks(f) :
         BlocksFrom(g, h) = IF op.last \in BlocksFrom(f, h) THEN BlocksFrom(f, h) \cup {op.target}
                            ELSE BlocksFrom(f, h)

LEMMA DataWritten ==
    ASSUME NEW f \in Seq(Block), NEW sent \in Nat, NEW index,
           NEW op \in StoreOp, op.target # 0, NEW list, Stored(f, list, op, sent),
           op.part + 1 \in 1..MaxParts, NEW g,
           Wrote(f, g, Data(op.letter, op.part + 1, LAST_BLOCK), op.target), NEW loose,
           NumberedParts(f, sent), Linked(f, loose \cup {op.last}), IndexedHeaders(f, index, {})
    PROVE  DataAdded(f, g, sent, index, op, loose)
<1> DEFINE last == op.last
           t == op.target
           k == op.part + 1
           b == Data(op.letter, k, LAST_BLOCK)
           U == UsedBlocks(f)
<1>1. /\ op.letter.id \in 1..sent /\ last \in U
      /\ f[last].letter = op.letter.id /\ f[last].part = op.part /\ Link(f[last]) = t
      /\ t \in 1..(Len(f) + 1) /\ t \notin U
      /\ \A n \in U : f[n].letter = op.letter.id => f[n].part <= op.part
  BY DEF Stored
<1>2. op.letter \in MailLetter /\ op.letter.to \in Addressees /\ op.part \in 1..MaxParts
  BY DEF StoreOp, MailLetter
<1>3. k \in 1..MaxParts /\ k # 1 /\ k = op.part + 1 /\ ~(k <= op.part)
  BY <1>2, Bounds
<1>4. /\ b \in Block /\ b.type # DELETED_BLOCK /\ b.type # HEADER_BLOCK
      /\ b.letter = op.letter.id /\ b.part = k /\ b.to = op.letter.to /\ Link(b) = LAST_BLOCK
  <2> HIDE DEF k
  <2>1. QED
    BY <1>2, <1>3, DataBlock
<1>5. Wrote(f, g, b, t)
  OBVIOUS
<1> HIDE DEF last, t, k, b
<1>6. t # LAST_BLOCK
  BY <1>1, Bounds
<1>7. /\ t \in UsedBlocks(g)
      /\ \A n : n # t => (n \in UsedBlocks(g) <=> n \in U)
      /\ \A n \in U : n # t => g[n] = f[n]
  BY <1>1, <1>4, <1>5, WroteUsed
<1>8. g[t] = b
  BY <1>1, <1>4, <1>5, WroteAt
<1>9. UsedBlocks(g) = U \cup {t} /\ \A n \in U : g[n] = f[n]
  <2>1. UsedBlocks(g) \subseteq U \cup {t} /\ U \cup {t} \subseteq UsedBlocks(g)
    BY <1>1, <1>7
  <2>2. QED
    BY <1>1, <1>7, <2>1
<1>10. NumberedParts(g, sent)
  <2>1. NumberedBlock(b, sent)
    BY <1>1, <1>2, <1>3, <1>4 DEF NumberedBlock
  <2>2. \A n \in U : n # t => ~(f[n].letter = b.letter /\ f[n].part = b.part)
    BY <1>1, <1>3, <1>4
  <2>3. QED
    BY <1>1, <1>4, <1>5, <2>1, <2>2, NumberedKept
<1>11. \A n \in U : Link(f[n]) = t <=> n = last
  BY <1>1, <1>6 DEF Linked
<1>12. Linked(g, loose)
  <2>1. Linked(f, loose \cup {last})
    BY DEF last
  <2>2. LAST_BLOCK \notin U
    BY UsedNat, Bounds
  <2>3. \A n \in U : n # t /\ Link(f[n]) = t => b.letter = f[n].letter /\ b.part = f[n].part + 1
    BY <1>1, <1>3, <1>4, <1>11
  <2>4. \A n \in loose \cup {last} : n \in loose \/ Link(f[n]) = t
    BY <1>1
  <2>5. QED
    BY <1>1, <1>4, <1>5, <1>6, <2>1, <2>2, <2>3, <2>4, LinkedKept
<1>13. IndexedHeaders(g, index, {})
  <2>1. Headers(g, {}) = Headers(f, {})
    BY <1>4, <1>8, <1>9 DEF Headers
  <2>2. \A n \in Headers(f, {}) : g[n].to = f[n].to
    BY <1>9 DEF Headers
  <2>3. QED
    BY <2>1, <2>2, HeadersKept
<1>14. ASSUME NEW h \in U, last \notin BlocksFrom(f, h)
       PROVE  BlocksFrom(g, h) = BlocksFrom(f, h)
  <2>1. BlocksFrom(f, h) \subseteq U
    BY DEF BlocksFrom
  <2>2. h # t /\ t \notin BlocksFrom(f, h) /\ \A n \in BlocksFrom(f, h) : Link(f[n]) # t
    BY <1>1, <1>11, <1>14, <2>1
  <2>3. QED
    BY <1>1, <1>4, <1>5, <2>2, ChainKept
<1>15. ASSUME NEW h \in U, last \in BlocksFrom(f, h)
       PROVE  BlocksFrom(g, h) = BlocksFrom(f, h) \cup {t}
  <2> DEFINE B == BlocksFrom(f, h)
             T == BlocksFrom(g, h)
  <2>1. B \subseteq U /\ T \subseteq UsedBlocks(g)
    BY DEF BlocksFrom
  <2>2. h \in B /\ \A n \in B : NextBlocks(f, n) \subseteq B
    BY ReachedClosed
  <2>3. h \in T /\ \A n \in T : NextBlocks(g, n) \subseteq T
    BY <1>9, ReachedClosed
  <2>4. \A n \in U : NextBlocks(f, n) \subseteq NextBlocks(g, n) /\ NextBlocks(g, n) \subseteq NextBlocks(f, n) \cup {t}
    BY <1>9 DEF NextBlocks
  <2>5. NextBlocks(g, t) = {} /\ t \in NextBlocks(g, last)
    <3>1. LAST_BLOCK \notin UsedBlocks(g)
      BY <1>6, <1>7, UsedNat, Bounds
    <3>2. QED
      BY <1>1, <1>4, <1>7, <1>8, <1>9, <3>1 DEF NextBlocks
  <2>6. T \subseteq B \cup {t}
    <3>1. B \cup {t} \in SUBSET UsedBlocks(g) /\ {h} \cap UsedBlocks(g) \subseteq B \cup {t}
      BY <1>9, <2>1, <2>2
    <3>2. \A m \in B \cup {t} : NextBlocks(g, m) \subseteq B \cup {t}
      BY <2>1, <2>2, <2>4, <2>5
    <3> HIDE DEF B
    <3>3. QED
      BY <3>1, <3>2, ReachedLeast
  <2>7. B \subseteq T
    <3>1. B \cap T \in SUBSET UsedBlocks(f) /\ {h} \cap UsedBlocks(f) \subseteq B \cap T
      BY <2>1, <2>2, <2>3
    <3>2. \A m \in B \cap T : NextBlocks(f, m) \subseteq B \cap T
      BY <2>1, <2>2, <2>3, <2>4
    <3> HIDE DEF T
    <3>3. B \subseteq B \cap T
      BY <3>1, <3>2, ReachedLeast
    <3>4. QED
      BY <3>3
  <2>8. t \in T
    BY <1>15, <2>3, <2>5, <2>7
  <2>9. QED
    BY <2>6, <2>7, <2>8
<1>16. QED
  BY <1>1, <1>4, <1>8, <1>9, <1>10, <1>12, <1>13, <1>14, <1>15 DEF DataAdded, last, t, k

LEMMA DataKeeps ==
    ASSUME MailInv, store_mail_data
    PROVE  MailInv'
<1> DEFINE f == mail_file
           g == mail_file'
           op == mail_op
           t == op.target
           k == op.part + 1
           next == [op EXCEPT !.part = @ + 1, !.last = op.target, !.target = 0]
           loose == LooseBlocks(Idle, torn)
<1>1. /\ op.op = "store" /\ op.target # 0
      /\ mail_op' = IF k = op.letter.parts THEN Idle ELSE next
      /\ free_list' = free_list /\ mail_index' = mail_index /\ mailing' = mailing
      /\ delivered' = delivered /\ letters_sent' = letters_sent /\ torn' = torn
  BY DEF store_mail_data
<1>2. /\ f \in Seq(Block) /\ free_list \in Seq(Nat \ {0}) /\ op \in StoreOp
      /\ letters_sent \in Nat
  BY <1>1, OpFacts DEF MailInv, MailTyped
<1>3. torn \in BOOLEAN /\ Stored(f, free_list, op, letters_sent)
  BY <1>1 DEF MailInv, MailTyped
<1>4. NumberedParts(f, letters_sent) /\ Linked(f, loose \cup {op.last}) /\ IndexedHeaders(f, mail_index, {}) /\ FreeBlocks(f, free_list)
  BY <1>1, <1>2, <1>3, LooseWith DEF MailInv, FileSound, TakenBlocks
<1>5. Wrote(f, g, Data(op.letter, k, LAST_BLOCK), t)
  BY DEF store_mail_data, write_to_file, Wrote, file_end_pos
<1>6. /\ op.letter.id \in 1..letters_sent /\ op.part < op.letter.parts /\ op.last \in UsedBlocks(f)
      /\ t \in 1..(Len(f) + 1) /\ t \notin UsedBlocks(f)
      /\ \A m \in DOMAIN free_list : free_list[m] # t
      /\ \E h \in UsedBlocks(f) :
           /\ f[h].part = 1 /\ f[h].letter = op.letter.id /\ f[h].to = op.letter.to
           /\ op.last \in BlocksFrom(f, h)
           /\ Cardinality(BlocksFrom(f, h)) = op.part
      /\ \A n \in UsedBlocks(f) : f[n].letter = op.letter.id => f[n].part <= op.part
  BY <1>1, <1>3 DEF Stored
<1>7. op.letter \in MailLetter /\ op.letter.parts \in 1..MaxParts /\ op.part \in 1..MaxParts
  BY <1>2 DEF StoreOp, MailLetter
<1>8. k # op.letter.parts => k < op.letter.parts
  BY <1>6, <1>7, Bounds
<1>9. t \in Nat \ {0} /\ k \in 1..MaxParts
  BY <1>2, <1>6, <1>7, Bounds
<1>10. /\ next \in StoreOp /\ next.op = "store" /\ next.letter = op.letter /\ next.part = k
       /\ next.last = t /\ next.target = 0
  BY <1>1, <1>2, <1>9 DEF StoreOp
<1> HIDE DEF f, g, op, t, next, loose
<1>11. DataAdded(f, g, letters_sent, mail_index, op, loose)
  BY <1>1, <1>2, <1>3, <1>4, <1>5, <1>9, DataWritten DEF t
<1> HIDE DEF k
<1>12. /\ NumberedParts(g, letters_sent) /\ Linked(g, loose) /\ IndexedHeaders(g, mail_index, {})
       /\ UsedBlocks(g) = UsedBlocks(f) \cup {t}
       /\ g[t].letter = op.letter.id /\ g[t].part = k /\ Link(g[t]) = LAST_BLOCK
       /\ \A n \in UsedBlocks(f) : g[n] = f[n]
       /\ \A h \in UsedBlocks(f) : op.last \in BlocksFrom(f, h) => BlocksFrom(g, h) = BlocksFrom(f, h) \cup {t}
  BY <1>11 DEF DataAdded, t, k
<1>13. Data(op.letter, k, LAST_BLOCK) \in Block
  BY <1>7, <1>9, DataBlock
<1>14. g \in Seq(Block)
  BY <1>2, <1>5, <1>6, <1>13, WroteTyped
<1>15. FreeBlocks(g, free_list)
  BY <1>2, <1>4, <1>5, <1>6, <1>13, FreeKept
<1>16. mail_op' = Idle \/ mail_op' = next
  BY <1>1
<1>17. MailTyped'
  BY <1>1, <1>10, <1>14, <1>16 DEF MailInv, MailTyped, g
<1>18. LooseBlocks(mail_op', torn') = loose /\ TakenBlocks(mail_op') = {} /\ mail_op'.op \notin {"read", "hung"}
  BY <1>1, <1>3, <1>10, <1>16, OpFacts DEF LooseBlocks, TakenBlocks, loose
<1>19. FileSound'
  BY <1>1, <1>12, <1>15, <1>18 DEF FileSound, g
<1>20. ASSUME mail_op'.op = "store" PROVE Stored(g, free_list', mail_op', letters_sent')
  <2>1. mail_op' = next /\ k # op.letter.parts
    <3>1. mail_op' # Idle
      BY <1>20, OpFacts
    <3>2. QED
      BY <1>1, <1>16, <3>1
  <2>2. PICK h \in UsedBlocks(f) :
           /\ f[h].part = 1 /\ f[h].letter = op.letter.id /\ f[h].to = op.letter.to
           /\ op.last \in BlocksFrom(f, h)
           /\ Cardinality(BlocksFrom(f, h)) = op.part
    BY <1>6
  <2>3. BlocksFrom(g, h) = BlocksFrom(f, h) \cup {t} /\ t \notin BlocksFrom(f, h) /\ IsFiniteSet(BlocksFrom(f, h))
    <3>1. BlocksFrom(f, h) \subseteq UsedBlocks(f) /\ IsFiniteSet(BlocksFrom(f, h))
      BY <1>2, UsedFinite
    <3>2. QED
      BY <1>6, <1>12, <2>2, <3>1
  <2>4. Cardinality(BlocksFrom(g, h)) = k
    BY <2>2, <2>3, FS_AddElement DEF k
  <2>5. /\ h \in UsedBlocks(g) /\ g[h].part = 1 /\ g[h].letter = op.letter.id /\ g[h].to = op.letter.to
        /\ t \in BlocksFrom(g, h)
    BY <1>12, <2>2, <2>3
  <2>6. \A n \in UsedBlocks(g) : g[n].letter = op.letter.id => g[n].part <= k
    <3>1. \A n \in UsedBlocks(f) : f[n].part \in Nat
      BY <1>4 DEF NumberedParts, NumberedBlock
    <3>2. \A n \in UsedBlocks(f) : f[n].letter = op.letter.id => f[n].part <= k
      BY <1>6, <1>7, <3>1 DEF k
    <3>3. QED
      BY <1>9, <1>12, <3>2
  <2>7. t \in UsedBlocks(g) /\ k < op.letter.parts
    BY <1>8, <1>12, <2>1
  <2>8. Stored(g, free_list, next, letters_sent)
    BY <1>6, <1>10, <1>12, <2>4, <2>5, <2>6, <2>7 DEF Stored
  <2>9. QED
    BY <1>1, <1>3, <2>1, <2>8
<1>21. QED
  BY <1>17, <1>18, <1>19, <1>20 DEF MailInv, g

(* The next letter is taken from the index.                                *)
LEMMA TakeFacts ==
    ASSUME NEW todo \in Seq(Addressees), TakeNext(todo),
           mail_index \in [Addressees -> Seq(Nat \ {0})]
    PROVE  \/ mail_op' = Idle /\ mail_index' = mail_index
           \/ \E p \in Addressees : \E rest \in Seq(Addressees) :
                /\ mail_index[p] # <<>>
                /\ mail_index' = [mail_index EXCEPT ![p] = Front(@)]
                /\ mail_op' = [op |-> "read", todo |-> rest, at |-> Last(mail_index[p]),
                               parts |-> 0, letter |-> mail_file[Last(mail_index[p])].letter]
                /\ Len(rest) > 0 /\ rest[1] = p
<1>1. CASE mail_op' = Idle /\ mail_index' = mail_index
  BY <1>1
<1>2. CASE \E i \in DOMAIN todo :
             /\ has_mail(todo[i])
             /\ mail_index' = [mail_index EXCEPT ![todo[i]] = Front(@)]
             /\ mail_op' = [op |-> "read", todo |-> SubSeq(todo, i, Len(todo)), at |-> Last(mail_index[todo[i]]),
                            parts |-> 0, letter |-> mail_file[Last(mail_index[todo[i]])].letter]
  <2>1. PICK i \in DOMAIN todo :
             /\ has_mail(todo[i])
             /\ mail_index' = [mail_index EXCEPT ![todo[i]] = Front(@)]
             /\ mail_op' = [op |-> "read", todo |-> SubSeq(todo, i, Len(todo)), at |-> Last(mail_index[todo[i]]),
                            parts |-> 0, letter |-> mail_file[Last(mail_index[todo[i]])].letter]
    BY <1>2
  <2> DEFINE rest == SubSeq(todo, i, Len(todo))
             p == todo[i]
  <2>2. p \in Addressees /\ i \in 1..Len(todo) /\ Len(todo) \in Nat
    OBVIOUS
  <2>3. rest \in Seq(Addressees) /\ Len(rest) > 0 /\ rest[1] = p
    BY <2>2
  <2>4. mail_index[p] # <<>>
    BY <2>1 DEF has_mail
  <2> HIDE DEF rest, p
  <2>5. /\ mail_index' = [mail_index EXCEPT ![p] = Front(@)]
        /\ mail_op' = [op |-> "read", todo |-> rest, at |-> Last(mail_index[p]),
                       parts |-> 0, letter |-> mail_file[Last(mail_index[p])].letter]
    BY <2>1 DEF rest, p
  <2>6. QED
    BY <2>2, <2>3, <2>4, <2>5
<1>3. QED
  BY <1>1, <1>2 DEF TakeNext

LEMMA TakeKeeps ==
    ASSUME MailTyped,
           NumberedParts(mail_file, letters_sent), Linked(mail_file, LooseBlocks(Idle, torn)),
           IndexedHeaders(mail_file, mail_index, {}), FreeBlocks(mail_file, free_list),
           NEW todo \in Seq(Addressees), TakeNext(todo),
           UNCHANGED <<mail_file, free_list, mailing, letters_sent, torn>>,
           \A l \in delivered' : l.id \in 1..letters_sent
    PROVE  MailInv'
<1> DEFINE f == mail_file
<1>1. /\ f \in Seq(Block) /\ mail_index \in [Addressees -> Seq(Nat \ {0})]
      /\ letters_sent \in Nat /\ letters_sent \in 0..MaxLetters
  BY DEF MailTyped
<1>2. CASE mail_op' = Idle /\ mail_index' = mail_index
  <2>1. MailTyped'
    BY <1>2 DEF MailTyped
  <2>2. TakenBlocks(Idle) = {} /\ Idle.op \notin {"store", "read", "hung"}
    BY OpFacts DEF TakenBlocks
  <2>3. FileSound'
    BY <1>2, <2>2 DEF FileSound
  <2>4. QED
    BY <1>2, <2>1, <2>2, <2>3 DEF MailInv
<1>3. ASSUME NEW p \in Addressees, NEW rest \in Seq(Addressees),
             mail_index[p] # <<>>,
             mail_index' = [mail_index EXCEPT ![p] = Front(@)],
             mail_op' = [op |-> "read", todo |-> rest, at |-> Last(mail_index[p]),
                         parts |-> 0, letter |-> f[Last(mail_index[p])].letter],
             Len(rest) > 0, rest[1] = p
      PROVE  MailInv'
  <2> DEFINE pos == Last(mail_index[p])
  <2>1. /\ mail_op'.op = "read" /\ mail_op'.todo = rest /\ mail_op'.at = pos /\ mail_op'.parts = 0
        /\ mail_op'.letter = f[pos].letter
    BY <1>3
  <2>2. pos = mail_index[p][Len(mail_index[p])] /\ Len(mail_index[p]) \in DOMAIN mail_index[p]
    <3>1. mail_index[p] \in Seq(Nat \ {0})
      BY <1>1
    <3>2. QED
      BY <1>3, <3>1 DEF Last
  <2>3. pos \in Headers(f, {}) /\ f[pos].to = p
    BY <2>2 DEF IndexedHeaders
  <2>4. /\ pos \in UsedBlocks(f) /\ f[pos].part = 1
        /\ f[pos].letter \in 1..letters_sent
        /\ \A n \in UsedBlocks(f) : f[n].part > 0
    BY <2>3, Bounds DEF Headers, NumberedParts, NumberedBlock
  <2>5. pos \in Int /\ pos \in 1..(Len(f) + 1) /\ f[pos].letter \in 0..MaxLetters
    BY <1>1, <2>4, Bounds DEF UsedBlocks
  <2>6. IndexedHeaders(f, mail_index', {pos})
    BY <1>1, <1>3, IndexTaken
  <2>7. mail_index' \in [Addressees -> Seq(Nat \ {0})]
    <3>1. Front(mail_index[p]) \in Seq(Nat \ {0})
      BY <1>1, <1>3 DEF Front
    <3>2. QED
      BY <1>1, <1>3, <3>1
  <2> HIDE DEF pos
  <2>8. mail_op' \in ReadOp
    BY <1>3, <2>1, <2>5 DEF ReadOp, pos
  <2>9. MailTyped'
    BY <2>7, <2>8 DEF MailTyped
  <2>10. LooseBlocks(mail_op', torn) = LooseBlocks(Idle, torn) /\ TakenBlocks(mail_op') = {pos}
    BY <2>1, OpFacts DEF LooseBlocks, TakenBlocks
  <2>11. FileSound'
    BY <2>6, <2>10 DEF FileSound
  <2>12. Read(f, mail_op', letters_sent)
    BY <1>3, <2>1, <2>3, <2>4, <2>5, Bounds DEF Read
  <2>13. QED
    BY <2>1, <2>9, <2>11, <2>12 DEF MailInv
<1>4. QED
  BY <1>1, <1>2, <1>3, TakeFacts

LEMMA ReceiveKeeps ==
    ASSUME MailInv, mail_op = Idle, NEW todo \in Seq(Addressees), TakeNext(todo),
           UNCHANGED <<mail_file, free_list, no_mail, mailing, delivered, letters_sent, torn>>
    PROVE  MailInv'
<1>1. /\ MailTyped /\ NumberedParts(mail_file, letters_sent) /\ Linked(mail_file, LooseBlocks(Idle, torn))
      /\ IndexedHeaders(mail_file, mail_index, {}) /\ FreeBlocks(mail_file, free_list)
  BY OpFacts DEF MailInv, FileSound, TakenBlocks
<1>2. \A l \in delivered' : l.id \in 1..letters_sent
  BY DEF MailInv, MailTyped
<1>3. QED
  BY <1>1, <1>2, TakeKeeps

(* The facts about a letter that is being read.                            *)
LEMMA ReadFacts ==
    ASSUME MailInv, mail_op.op = "read"
    PROVE  /\ mail_file \in Seq(Block) /\ free_list \in Seq(Nat \ {0}) /\ mail_op \in ReadOp
           /\ letters_sent \in Nat /\ torn \in BOOLEAN
           /\ NumberedParts(mail_file, letters_sent) /\ Linked(mail_file, LooseBlocks(Idle, torn))
           /\ IndexedHeaders(mail_file, mail_index, TakenBlocks(mail_op))
           /\ FreeBlocks(mail_file, free_list)
           /\ Read(mail_file, mail_op, letters_sent)
<1>1. LooseBlocks(Idle, torn) = LooseBlocks(mail_op, torn)
  BY OpFacts DEF LooseBlocks
<1>2. mail_op \in ReadOp
  BY OpFacts DEF MailInv
<1>3. QED
  BY <1>1, <1>2 DEF MailInv, MailTyped, FileSound

LEMMA GivenKeeps ==
    ASSUME MailInv, read_delete_end
    PROVE  MailInv'
<1>1. /\ mail_op.op = "read" /\ mail_op.at = LAST_BLOCK
      /\ delivered' = delivered \cup {[id |-> mail_op.letter, to |-> Head(mail_op.todo), parts |-> mail_op.parts]}
      /\ TakeNext(mail_op.todo)
      /\ UNCHANGED <<mail_file, free_list, mailing, letters_sent, torn>>
  BY DEF read_delete_end
<1>2. /\ mail_op \in ReadOp /\ mail_file \in Seq(Block)
      /\ NumberedParts(mail_file, letters_sent) /\ Linked(mail_file, LooseBlocks(Idle, torn))
      /\ IndexedHeaders(mail_file, mail_index, TakenBlocks(mail_op))
      /\ FreeBlocks(mail_file, free_list)
      /\ Read(mail_file, mail_op, letters_sent)
  BY <1>1, ReadFacts
<1>3. mail_op.parts # 0
  BY <1>1, <1>2, UsedNat, Bounds DEF Read
<1>4. TakenBlocks(mail_op) = {} /\ mail_op.todo \in Seq(Addressees)
  BY <1>2, <1>3 DEF TakenBlocks, ReadOp
<1>5. \A l \in delivered' : l.id \in 1..letters_sent
  BY <1>1, <1>2 DEF MailInv, MailTyped, Read
<1>6. MailTyped
  BY DEF MailInv
<1>7. QED
  BY <1>1, <1>2, <1>4, <1>5, <1>6, TakeKeeps

LEMMA ReadOn ==
    ASSUME NEW op \in ReadOp, op.op = "read", NEW x \in Int
    PROVE  /\ [op EXCEPT !.at = x, !.parts = @ + 1] \in ReadOp
           /\ op.parts \in Nat
<1>1. /\ op.op \in {"read", "hung"} /\ op.todo \in Seq(Addressees) /\ op.parts \in Nat
      /\ op.parts + 1 \in Nat /\ op.letter \in 0..MaxLetters
  BY DEF ReadOp
<1> DEFINE q == [op EXCEPT !.at = x]
<1>2. q \in ReadOp /\ q.parts = op.parts
  BY DEF ReadOp
<1> HIDE DEF q
<1>3. [q EXCEPT !.parts = op.parts + 1] \in ReadOp
  BY <1>1, <1>2 DEF ReadOp
<1>4. QED
  BY <1>1, <1>3 DEF q

LEMMA DeletedBlock ==
    ASSUME NEW x \in Block
    PROVE  /\ [x EXCEPT !.type = DELETED_BLOCK] \in Block
           /\ [x EXCEPT !.type = DELETED_BLOCK].type = DELETED_BLOCK
BY DEF Block, DELETED_BLOCK

(* The file after a block of the letter was deleted.                       *)
BlockGone(f, g, sent, loose, index, op) ==
    /\ NumberedParts(g, sent)
    /\ Linked(g, loose)
    /\ IndexedHeaders(g, index, {})
    /\ UsedBlocks(g) = UsedBlocks(f) \ {op.at}
    /\ \A n \in UsedBlocks(g) : g[n] = f[n]
    /\ \A n \in UsedBlocks(f) : Link(f[n]) # op.at

LEMMA BlockDeleted ==
    ASSUME NEW f \in Seq(Block), NEW sent \in Nat, NEW index, NEW loose,
           NEW op \in ReadOp, op.op = "read", op.at \in UsedBlocks(f), Read(f, op, sent), NEW g,
           Wrote(f, g, [f[op.at] EXCEPT !.type = DELETED_BLOCK], op.at),
           NumberedParts(f, sent), Linked(f, loose), IndexedHeaders(f, index, TakenBlocks(op))
    PROVE  BlockGone(f, g, sent, loose, index, op)
<1> DEFINE at == op.at
           b == [f[at] EXCEPT !.type = DELETED_BLOCK]
           U == UsedBlocks(f)
<1>1. /\ at \in U /\ at \in 1..(Len(f) + 1) /\ f[at] \in Block
  BY DEF UsedBlocks
<1>2. b \in Block /\ b.type = DELETED_BLOCK
  BY <1>1, DeletedBlock
<1>3. Wrote(f, g, b, at)
  OBVIOUS
<1>4. /\ f[at].letter = op.letter /\ f[at].part = op.parts + 1
      /\ \A n \in U : f[n].letter = op.letter => f[n].part > op.parts
      /\ op.parts \in Nat
  BY <1>1 DEF Read, ReadOp
<1> HIDE DEF at, b
<1>5. /\ at \notin UsedBlocks(g)
      /\ \A n : n # at => (n \in UsedBlocks(g) <=> n \in U)
      /\ \A n \in U : n # at => g[n] = f[n]
  BY <1>1, <1>2, <1>3, WroteUsed
<1>6. UsedBlocks(g) = U \ {at} /\ \A n \in UsedBlocks(g) : g[n] = f[n]
  <2>1. UsedBlocks(g) \subseteq U \ {at} /\ U \ {at} \subseteq UsedBlocks(g)
    BY <1>5
  <2>2. QED
    BY <1>5, <2>1
<1>7. ASSUME NEW n \in U PROVE Link(f[n]) # at
  <2>1. f[n].part \in Nat
    BY DEF NumberedParts, NumberedBlock
  <2>2. Link(f[n]) = at => op.letter = f[n].letter /\ op.parts + 1 = f[n].part + 1
    BY <1>1, <1>4 DEF Linked
  <2>3. QED
    BY <1>4, <2>1, <2>2
<1>8. NumberedParts(g, sent)
  <2>1. sent <= sent
    OBVIOUS
  <2>2. QED
    BY <1>1, <1>2, <1>3, <2>1, NumberedKept
<1>9. Linked(g, loose)
  <2>1. \A n \in loose : n \in loose
    OBVIOUS
  <2>2. \A n \in U : n # at /\ n \notin loose => Link(f[n]) # at
    BY <1>7
  <2>3. QED
    BY <1>1, <1>2, <1>3, <2>1, <2>2, LinkedKept
<1>10. IndexedHeaders(g, index, {})
  <2>1. Headers(g, {}) = Headers(f, TakenBlocks(op))
    <3>1. CASE op.parts = 0
      <4>1. TakenBlocks(op) = {at}
        BY <3>1 DEF TakenBlocks, at
      <4>2. QED
        BY <1>6, <4>1 DEF Headers
    <3>2. CASE op.parts # 0
      <4>1. TakenBlocks(op) = {}
        BY <3>2 DEF TakenBlocks
      <4>2. f[at].part # 1
        BY <1>4, <3>2
      <4>3. f[at].type # HEADER_BLOCK
        BY <1>1, <4>2 DEF NumberedParts, NumberedBlock
      <4>4. QED
        BY <1>6, <4>1, <4>3 DEF Headers
    <3>3. QED
      BY <3>1, <3>2
  <2>2. \A n \in Headers(g, {}) : g[n].to = f[n].to
    BY <1>6 DEF Headers
  <2>3. QED
    BY <2>1, <2>2, HeadersKept
<1>11. QED
  BY <1>6, <1>7, <1>8, <1>9, <1>10 DEF BlockGone, at

LEMMA DeleteKeeps ==
    ASSUME MailInv, read_delete_block
    PROVE  MailInv'
<1> DEFINE f == mail_file
           g == mail_file'
           op == mail_op
           at == op.at
           b == [f[at] EXCEPT !.type = DELETED_BLOCK]
           loose == LooseBlocks(Idle, torn)
<1>1. /\ op.op = "read" /\ at \in DOMAIN f /\ f[at].type # DELETED_BLOCK
      /\ free_list' = <<at>> \o free_list
      /\ mail_op' = [op EXCEPT !.at = Link(f[at]), !.parts = @ + 1]
      /\ mail_index' = mail_index /\ mailing' = mailing /\ delivered' = delivered
      /\ letters_sent' = letters_sent /\ torn' = torn
  BY DEF read_delete_block, push_free_list, Follows
<1>2. Wrote(f, g, b, at)
  BY DEF read_delete_block, write_to_file, Wrote, file_end_pos
<1>3. /\ f \in Seq(Block) /\ free_list \in Seq(Nat \ {0}) /\ op \in ReadOp
      /\ letters_sent \in Nat /\ torn \in BOOLEAN
      /\ NumberedParts(f, letters_sent) /\ Linked(f, loose)
      /\ IndexedHeaders(f, mail_index, TakenBlocks(op))
      /\ FreeBlocks(f, free_list)
      /\ Read(f, op, letters_sent)
  BY <1>1, ReadFacts
<1>4. at \in UsedBlocks(f)
  BY <1>1 DEF UsedBlocks
<1>5. b \in Block /\ b.type = DELETED_BLOCK /\ at \in 1..(Len(f) + 1) /\ at \in Nat \ {0}
  <2>1. f[at] \in Block /\ at \in 1..(Len(f) + 1) /\ at \in Nat \ {0}
    BY <1>1, <1>3
  <2>2. b \in Block /\ b.type = DELETED_BLOCK
    BY <2>1, DeletedBlock
  <2>3. QED
    BY <2>1, <2>2
<1>6. /\ mail_op'.op = "read" /\ mail_op'.at = Link(f[at]) /\ mail_op'.parts = op.parts + 1
      /\ mail_op'.todo = op.todo /\ mail_op'.letter = op.letter
  BY <1>1, <1>3 DEF ReadOp
<1>7. Link(f[at]) \in {LAST_BLOCK} \cup 1..(Len(f) + 1) /\ Link(f[at]) \in Int
  BY <1>3, <1>4, Bounds DEF Linked
<1>8. mail_op' \in ReadOp /\ op.parts \in Nat
  BY <1>1, <1>3, <1>7, ReadOn
<1> HIDE DEF f, g, op, at, b, loose
<1>9. BlockGone(f, g, letters_sent, loose, mail_index, op)
  BY <1>1, <1>2, <1>3, <1>4, BlockDeleted DEF b, at
<1>10. /\ NumberedParts(g, letters_sent) /\ Linked(g, loose) /\ IndexedHeaders(g, mail_index, {})
       /\ UsedBlocks(g) = UsedBlocks(f) \ {at}
       /\ \A n \in UsedBlocks(g) : g[n] = f[n]
       /\ \A n \in UsedBlocks(f) : Link(f[n]) # at
  BY <1>9 DEF BlockGone, at
<1>11. g \in Seq(Block) /\ Len(g) \in {Len(f), Len(f) + 1} /\ Len(g) \in Nat
  BY <1>2, <1>3, <1>5, WroteTyped
<1>12. FreeBlocks(g, free_list')
  <2>1. \A m \in DOMAIN free_list : free_list[m] # at
    BY <1>3, <1>4 DEF FreeBlocks
  <2>2. QED
    BY <1>1, <1>2, <1>3, <1>5, <2>1, FreePushed
<1>13. free_list' \in Seq(Nat \ {0})
  BY <1>1, <1>3, <1>5
<1>14. MailTyped'
  BY <1>1, <1>8, <1>11, <1>13 DEF MailInv, MailTyped, g
<1>15. FileSound'
  <2>1. LooseBlocks(mail_op', torn') = loose
    BY <1>1, <1>6, OpFacts DEF LooseBlocks, loose
  <2>2. TakenBlocks(mail_op') = {}
    BY <1>6, <1>8 DEF TakenBlocks
  <2>3. QED
    BY <1>1, <1>10, <1>12, <2>1, <2>2 DEF FileSound, g
<1>16. Read(g, mail_op', letters_sent)
  <2>1. /\ Len(op.todo) > 0 /\ op.letter \in 1..letters_sent
        /\ f[at].letter = op.letter /\ f[at].part = op.parts + 1
        /\ \A n \in UsedBlocks(f) : f[n].letter = op.letter => f[n].part > op.parts
    BY <1>3, <1>4 DEF Read, at
  <2>2. /\ \A n \in UsedBlocks(f) : f[n].part \in 1..MaxParts
        /\ \A m, n \in UsedBlocks(f) : f[m].letter = f[n].letter /\ f[m].part = f[n].part => m = n
    BY <1>3 DEF NumberedParts, NumberedBlock
  <2>3. op.parts + 1 <= MaxParts /\ op.parts + 1 # 0 /\ op.parts + 1 \in Nat
    BY <1>4, <1>8, <2>1, <2>2, Bounds
  <2>4. Link(f[at]) \in {LAST_BLOCK} \cup 1..(Len(g) + 1)
    BY <1>3, <1>7, <1>11
  <2>5. Link(f[at]) \in UsedBlocks(g) =>
          g[Link(f[at])].letter = op.letter /\ g[Link(f[at])].part = (op.parts + 1) + 1
    BY <1>3, <1>4, <1>10, <2>1 DEF Linked
  <2>6. ASSUME NEW n \in UsedBlocks(g), g[n].letter = op.letter PROVE g[n].part > op.parts + 1
    <3>1. n \in UsedBlocks(f) /\ n # at /\ g[n] = f[n]
      BY <1>10
    <3>2. f[n].part > op.parts /\ f[n].part # op.parts + 1 /\ f[n].part \in Nat
      BY <1>4, <2>1, <2>2, <2>6, <3>1
    <3>3. QED
      BY <1>8, <3>1, <3>2
  <2>7. QED
    BY <1>6, <2>1, <2>3, <2>4, <2>5, <2>6 DEF Read
<1>17. QED
  BY <1>1, <1>6, <1>14, <1>15, <1>16 DEF MailInv, g

LEMMA HangsAtDeleted ==
    ASSUME MailInv, read_delete_hangs
    PROVE  mail_file[mail_op.at].type = DELETED_BLOCK /\ mail_file' = mail_file
<1> DEFINE f == mail_file
           at == mail_op.at
<1>1. /\ mail_op.op = "read" /\ at \in DOMAIN f /\ ~Follows(f[at], mail_op.parts)
      /\ mail_file' = IF at = Len(f) + 1 THEN Append(f, [f[at] EXCEPT !.type = DELETED_BLOCK])
                      ELSE [f EXCEPT ![at] = [f[at] EXCEPT !.type = DELETED_BLOCK]]
  BY DEF read_delete_hangs, write_to_file, file_end_pos
<1>2. f \in Seq(Block) /\ NumberedParts(f, letters_sent) /\ Read(f, mail_op, letters_sent) /\ mail_op \in ReadOp
  BY <1>1, ReadFacts
<1>3. mail_op.parts \in Nat
  BY <1>2 DEF ReadOp
<1> HIDE DEF f, at
<1>4. at \in UsedBlocks(f) => (f[at].part = mail_op.parts + 1 /\ (f[at].type = HEADER_BLOCK <=> f[at].part = 1))
  BY <1>2 DEF Read, NumberedParts, NumberedBlock, at
<1>5. at \notin UsedBlocks(f)
  BY <1>1, <1>3, <1>4 DEF Follows, UsedBlocks
<1>6. f[at].type = DELETED_BLOCK
  BY <1>1, <1>5 DEF UsedBlocks
<1>7. at # Len(f) + 1 /\ f[at] \in Block
  BY <1>1, <1>2
<1>8. [f[at] EXCEPT !.type = DELETED_BLOCK] = f[at]
  BY <1>6, <1>7 DEF Block
<1>9. mail_file' = f
  BY <1>1, <1>2, <1>7, <1>8
<1>10. QED
  BY <1>6, <1>9 DEF f, at

LEMMA HangKeeps ==
    ASSUME MailInv, read_delete_hangs
    PROVE  MailInv'
<1>1. /\ mail_op.op = "read" /\ mail_op.at \in DOMAIN mail_file
      /\ mail_file[mail_op.at].type = DELETED_BLOCK
      /\ free_list' = <<mail_op.at>> \o free_list
      /\ mail_op' = [mail_op EXCEPT !.op = "hung"]
      /\ UNCHANGED <<mail_file, mail_index, mailing, delivered, letters_sent, torn>>
  BY HangsAtDeleted DEF read_delete_hangs, push_free_list
<1>2. /\ mail_file \in Seq(Block) /\ free_list \in Seq(Nat \ {0}) /\ mail_op \in ReadOp
      /\ NumberedParts(mail_file, letters_sent) /\ Linked(mail_file, LooseBlocks(Idle, torn))
      /\ IndexedHeaders(mail_file, mail_index, TakenBlocks(mail_op))
      /\ Read(mail_file, mail_op, letters_sent)
  BY <1>1, ReadFacts
<1>3. mail_op.at \notin UsedBlocks(mail_file) /\ mail_op.at \in Nat \ {0}
  BY <1>1, <1>2 DEF UsedBlocks
<1>4. /\ mail_op'.op = "hung" /\ mail_op'.at = mail_op.at /\ mail_op'.parts = mail_op.parts
      /\ mail_op'.todo = mail_op.todo /\ mail_op'.letter = mail_op.letter
      /\ mail_op' \in ReadOp
  BY <1>1, <1>2 DEF ReadOp
<1>5. free_list' \in Seq(Nat \ {0})
  BY <1>1, <1>2, <1>3
<1>6. MailTyped'
  BY <1>1, <1>4, <1>5 DEF MailInv, MailTyped
<1>7. LooseBlocks(mail_op', torn) = LooseBlocks(Idle, torn) /\ TakenBlocks(mail_op') = TakenBlocks(mail_op)
  BY <1>1, <1>4, OpFacts DEF LooseBlocks, TakenBlocks
<1>8. FileSound'
  BY <1>1, <1>2, <1>4, <1>7 DEF FileSound
<1>9. Read(mail_file, mail_op', letters_sent)
  BY <1>2, <1>3, <1>4 DEF Read
<1>10. QED
  BY <1>1, <1>4, <1>6, <1>8, <1>9 DEF MailInv

LEMMA PastEndKeeps ==
    ASSUME MailInv, read_delete_past_end
    PROVE  MailInv'
<1> DEFINE f == mail_file
           g == mail_file'
           op == mail_op
           at == op.at
           b == Data([id |-> 0, to |-> NoOne], 0, DELETED_BLOCK)
           loose == LooseBlocks(Idle, torn)
<1>1. /\ op.op = "read" /\ at = Len(f) + 1
      /\ free_list' = <<at>> \o free_list
      /\ mail_op' = [op EXCEPT !.at = LAST_BLOCK] \/ mail_op' = [op EXCEPT !.op = "hung"]
      /\ mail_index' = mail_index /\ mailing' = mailing /\ delivered' = delivered
      /\ letters_sent' = letters_sent /\ torn' = torn
  BY DEF read_delete_past_end, push_free_list, file_end_pos
<1>2. Wrote(f, g, b, at)
  BY DEF read_delete_past_end, write_to_file, Wrote, file_end_pos
<1>3. /\ f \in Seq(Block) /\ free_list \in Seq(Nat \ {0}) /\ op \in ReadOp
      /\ letters_sent \in Nat /\ torn \in BOOLEAN
      /\ NumberedParts(f, letters_sent) /\ Linked(f, loose)
      /\ IndexedHeaders(f, mail_index, TakenBlocks(op))
      /\ FreeBlocks(f, free_list)
      /\ Read(f, op, letters_sent)
  BY <1>1, ReadFacts
<1>4. at \notin UsedBlocks(f) /\ at \in 1..(Len(f) + 1) /\ at \in Nat \ {0} /\ at \notin DOMAIN f /\ at # LAST_BLOCK
  BY <1>1, <1>3, Bounds DEF UsedBlocks
<1>5. b \in Block /\ b.type = DELETED_BLOCK
  <2>1. 0 \in 0..MaxLetters /\ 0 \in 0..MaxParts
    BY Bounds
  <2>2. DELETED_BLOCK \in Int /\ LAST_BLOCK \in Int
    BY DEF DELETED_BLOCK, LAST_BLOCK
  <2>3. QED
    BY <2>1, <2>2 DEF Data, Block
<1>6. op.parts # 0 /\ TakenBlocks(op) = {}
  BY <1>3, <1>4 DEF Read, TakenBlocks
<1>7. /\ mail_op'.op \in {"read", "hung"} /\ mail_op'.at \in {at, LAST_BLOCK} /\ mail_op'.parts = op.parts
      /\ mail_op'.todo = op.todo /\ mail_op'.letter = op.letter
      /\ mail_op' \in ReadOp
  <2>1. CASE mail_op' = [op EXCEPT !.at = LAST_BLOCK]
    BY <1>1, <1>3, <2>1, Bounds DEF ReadOp
  <2>2. CASE mail_op' = [op EXCEPT !.op = "hung"]
    BY <1>1, <1>3, <2>2 DEF ReadOp
  <2>3. QED
    BY <1>1, <2>1, <2>2
<1> HIDE DEF f, g, op, at, b, loose
<1>8. g \in Seq(Block) /\ Len(g) \in {Len(f), Len(f) + 1} /\ Len(g) \in Nat /\ at \in 1..Len(g)
  BY <1>2, <1>3, <1>4, <1>5, WroteTyped
<1>9. UsedBlocks(g) = UsedBlocks(f) /\ \A n \in UsedBlocks(f) : g[n] = f[n]
  <2>1. /\ at \notin UsedBlocks(g)
        /\ \A n : n # at => (n \in UsedBlocks(g) <=> n \in UsedBlocks(f))
        /\ \A n \in UsedBlocks(f) : n # at => g[n] = f[n]
    BY <1>2, <1>3, <1>4, <1>5, WroteUsed
  <2>2. UsedBlocks(g) \subseteq UsedBlocks(f) /\ UsedBlocks(f) \subseteq UsedBlocks(g)
    BY <1>4, <2>1
  <2>3. QED
    BY <1>4, <2>1, <2>2
<1>10. NumberedParts(g, letters_sent)
  BY <1>3, <1>9 DEF NumberedParts
<1>11. Linked(g, loose)
  <2>1. \A k \in 1..(Len(f) + 1) : k \in 1..(Len(g) + 1)
    BY <1>3, <1>8
  <2>2. QED
    BY <1>3, <1>9, <2>1 DEF Linked
<1>12. IndexedHeaders(g, mail_index, {})
  <2>1. Headers(g, {}) = Headers(f, {}) /\ \A n \in Headers(f, {}) : g[n].to = f[n].to
    BY <1>9 DEF Headers
  <2>2. QED
    BY <1>3, <1>6, <2>1, HeadersKept
<1>13. FreeBlocks(g, free_list')
  <2>1. \A m \in DOMAIN free_list : free_list[m] # at
    BY <1>3, <1>4 DEF FreeBlocks
  <2>2. QED
    BY <1>1, <1>2, <1>3, <1>4, <1>5, <2>1, FreePushed
<1>14. free_list' \in Seq(Nat \ {0})
  BY <1>1, <1>3, <1>4
<1>15. MailTyped'
  BY <1>1, <1>7, <1>8, <1>14 DEF MailInv, MailTyped, g
<1>16. FileSound'
  <2>1. LooseBlocks(mail_op', torn') = loose /\ TakenBlocks(mail_op') = {}
    BY <1>1, <1>6, <1>7, OpFacts DEF LooseBlocks, TakenBlocks, loose
  <2>2. QED
    BY <1>1, <1>10, <1>11, <1>12, <1>13, <2>1 DEF FileSound, g
<1>17. Read(g, mail_op', letters_sent)
  <2>1. LAST_BLOCK \notin UsedBlocks(g) /\ at \notin UsedBlocks(g)
    BY <1>4, <1>8, <1>9, UsedNat, Bounds
  <2>2. /\ Len(op.todo) > 0 /\ op.letter \in 1..letters_sent /\ op.parts <= MaxParts
        /\ \A n \in UsedBlocks(f) : f[n].letter = op.letter => f[n].part > op.parts
    BY <1>3 DEF Read
  <2>3. \A n \in UsedBlocks(g) : g[n].letter = op.letter => g[n].part > op.parts
    BY <1>9, <2>2
  <2>4. mail_op'.at \in {LAST_BLOCK} \cup 1..(Len(g) + 1) /\ mail_op'.at \notin UsedBlocks(g)
    BY <1>7, <1>8, <2>1
  <2>5. QED
    BY <1>6, <1>7, <2>2, <2>3, <2>4 DEF Read
<1>18. QED
  BY <1>1, <1>7, <1>15, <1>16, <1>17 DEF MailInv, g

-----------------------------------------------------------------------------
(* A crash: the index and the free list are made again from the file.      *)
LEMMA LinkedLooser ==
    ASSUME NEW f, NEW loose, NEW after, Linked(f, loose), loose \subseteq after
    PROVE  Linked(f, after)
BY DEF Linked

LEMMA ScannedIndex ==
    ASSUME NEW f \in Seq(Block), NEW sent, NumberedParts(f, sent), NEW index,
           index = [p \in Addressees |->
                      Pushed({n \in DOMAIN f : f[n].type = HEADER_BLOCK /\ f[n].to = p})]
    PROVE  /\ index \in [Addressees -> Seq(Nat \ {0})]
           /\ IndexedHeaders(f, index, {})
<1> DEFINE H(p) == {n \in DOMAIN f : f[n].type = HEADER_BLOCK /\ f[n].to = p}
<1>1. \A p \in Addressees : index[p] = Pushed(H(p))
  OBVIOUS
<1>2. ASSUME NEW p \in Addressees
      PROVE  /\ H(p) \in SUBSET (1..Len(f)) /\ H(p) \in SUBSET Nat /\ IsFiniteSet(H(p))
             /\ H(p) \in SUBSET (Nat \ {0})
             /\ H(p) = {n \in Headers(f, {}) : f[n].to = p}
  <2>1. H(p) \in SUBSET (1..Len(f)) /\ Len(f) \in Nat
    OBVIOUS
  <2>2. IsFiniteSet(1..Len(f))
    BY <2>1, FS_Interval
  <2>3. IsFiniteSet(H(p))
    BY <2>1, <2>2, FS_Subset
  <2>4. H(p) = {n \in Headers(f, {}) : f[n].to = p}
    BY DEF Headers, UsedBlocks, HEADER_BLOCK, DELETED_BLOCK
  <2>5. H(p) \in SUBSET Nat /\ H(p) \in SUBSET (Nat \ {0})
    BY <2>1
  <2>6. QED
    BY <2>1, <2>3, <2>4, <2>5
<1> HIDE DEF H
<1>3. ASSUME NEW p \in Addressees
      PROVE  /\ Pushed(H(p)) \in Seq(H(p))
             /\ \A i, j \in DOMAIN Pushed(H(p)) : Pushed(H(p))[i] = Pushed(H(p))[j] => i = j
             /\ \A n \in H(p) : \E i \in DOMAIN Pushed(H(p)) : Pushed(H(p))[i] = n
  BY <1>2, PushedAll
<1>4. \A p \in Addressees : index[p] \in Seq(H(p))
  BY <1>1, <1>3
<1>5. \A p \in Addressees : index[p] \in Seq(Nat \ {0})
  <2>1. ASSUME NEW p \in Addressees PROVE index[p] \in Seq(Nat \ {0})
    <3>1. index[p] \in Seq(H(p)) /\ H(p) \in SUBSET (Nat \ {0})
      BY <1>2, <1>4
    <3>2. QED
      BY <3>1
  <2>2. QED
    BY <2>1
<1>6. index \in [Addressees -> Seq(Nat \ {0})]
  <2>1. DOMAIN index = Addressees /\ index = [p \in Addressees |-> index[p]]
    OBVIOUS
  <2>2. QED
    BY <1>5, <2>1
<1>7. \A p \in Addressees : \A i \in DOMAIN index[p] : index[p][i] \in Headers(f, {}) /\ f[index[p][i]].to = p
  <2>1. ASSUME NEW p \in Addressees, NEW i \in DOMAIN index[p] PROVE index[p][i] \in H(p)
    BY <1>4
  <2>2. QED
    BY <1>2, <2>1
<1>8. \A p \in Addressees : \A i, j \in DOMAIN index[p] : index[p][i] = index[p][j] => i = j
  BY <1>1, <1>3
<1>9. ASSUME NEW n \in Headers(f, {})
      PROVE  \E p \in Addressees : \E i \in DOMAIN index[p] : index[p][i] = n
  <2>1. f[n].to \in Addressees
    BY DEF Headers, NumberedParts, NumberedBlock
  <2>2. n \in H(f[n].to)
    BY <1>2, <2>1
  <2>3. \E i \in DOMAIN Pushed(H(f[n].to)) : Pushed(H(f[n].to))[i] = n
    BY <1>3, <2>1, <2>2
  <2>4. index[f[n].to] = Pushed(H(f[n].to))
    BY <1>1, <2>1
  <2>5. \E i \in DOMAIN index[f[n].to] : index[f[n].to][i] = n
    BY <2>3, <2>4
  <2>6. QED
    BY <2>1, <2>5
<1>10. QED
  BY <1>6, <1>7, <1>8, <1>9 DEF IndexedHeaders

LEMMA ScannedFree ==
    ASSUME NEW f \in Seq(Block), NEW list,
           list = Pushed({n \in DOMAIN f : f[n].type = DELETED_BLOCK})
    PROVE  list \in Seq(Nat \ {0}) /\ FreeBlocks(f, list)
<1> DEFINE D == {n \in DOMAIN f : f[n].type = DELETED_BLOCK}
<1>1. D \in SUBSET (1..Len(f)) /\ Len(f) \in Nat
  OBVIOUS
<1>2. IsFiniteSet(1..Len(f))
  BY <1>1, FS_Interval
<1>3. IsFiniteSet(D)
  BY <1>1, <1>2, FS_Subset
<1>4. D \in SUBSET Nat /\ D \in SUBSET (Nat \ {0})
  BY <1>1
<1>5. list = Pushed(D)
  OBVIOUS
<1>6. \A n \in D : n \in DOMAIN f /\ n \notin UsedBlocks(f)
  BY DEF UsedBlocks
<1> HIDE DEF D
<1>7. /\ list \in Seq(D)
      /\ \A i, j \in DOMAIN list : list[i] = list[j] => i = j
  BY <1>3, <1>4, <1>5, PushedAll
<1>8. list \in Seq(Nat \ {0}) /\ \A i \in DOMAIN list : list[i] \in D
  <2>1. \A i \in DOMAIN list : list[i] \in D
    BY <1>7
  <2>2. list \in Seq(Nat \ {0})
    <3>1. list \in Seq(D) /\ D \in SUBSET (Nat \ {0})
      BY <1>4, <1>7
    <3>2. QED
      BY <3>1, SeqMonotonic
  <2>3. QED
    BY <2>1, <2>2
<1>9. QED
  BY <1>6, <1>7, <1>8 DEF FreeBlocks

LEMMA BootKeeps ==
    ASSUME MailInv, CrashAndBoot
    PROVE  MailInv'
<1>1. /\ mail_op' = Idle /\ mail_file' = mail_file /\ delivered' = delivered /\ letters_sent' = letters_sent
      /\ mailing' = [p \in Addressees |-> NoOne]
      /\ torn' = (torn \/ (mail_op.op = "store" /\ mail_op.target # 0))
      /\ mail_index' = [p \in Addressees |->
           Pushed({n \in DOMAIN mail_file : mail_file[n].type = HEADER_BLOCK /\ mail_file[n].to = p})]
      /\ free_list' = Pushed({n \in DOMAIN mail_file : mail_file[n].type = DELETED_BLOCK})
  BY DEF CrashAndBoot, scan_file
<1>2. mail_file \in Seq(Block) /\ NumberedParts(mail_file, letters_sent) /\ torn \in BOOLEAN
      /\ Linked(mail_file, LooseBlocks(mail_op, torn))
  BY DEF MailInv, MailTyped, FileSound
<1>3. mail_index' \in [Addressees -> Seq(Nat \ {0})] /\ IndexedHeaders(mail_file, mail_index', {})
  BY <1>1, <1>2, ScannedIndex
<1>4. free_list' \in Seq(Nat \ {0}) /\ FreeBlocks(mail_file, free_list')
  BY <1>1, <1>2, ScannedFree
<1>5. torn' \in BOOLEAN
  BY <1>1, <1>2
<1>6. MailTyped'
  BY <1>1, <1>3, <1>4, <1>5 DEF MailInv, MailTyped
<1>7. Linked(mail_file, LooseBlocks(Idle, torn'))
  <2>1. CASE torn'
    <3>1. LooseBlocks(Idle, torn') = Nat
      BY <2>1 DEF LooseBlocks
    <3>2. LooseBlocks(mail_op, torn) \subseteq Nat
      <4>1. mail_op.op = "store" => mail_op.last \in Nat
        BY OpFacts DEF MailInv, StoreOp
      <4>2. QED
        BY <4>1 DEF LooseBlocks
    <3>3. QED
      BY <1>2, <3>1, <3>2, LinkedLooser
  <2>2. CASE ~torn'
    <3>1. LooseBlocks(mail_op, torn) = {}
      BY <1>1, <2>2 DEF LooseBlocks
    <3>2. QED
      BY <1>2, <3>1, LinkedLooser
  <2>3. QED
    BY <2>1, <2>2
<1>8. TakenBlocks(Idle) = {} /\ Idle.op \notin {"store", "read", "hung"}
  BY OpFacts DEF TakenBlocks
<1>9. FileSound'
  BY <1>1, <1>2, <1>3, <1>4, <1>7, <1>8 DEF FileSound
<1>10. QED
  BY <1>1, <1>6, <1>8, <1>9 DEF MailInv

(* Steps that change nothing of the file.                                  *)
LEMMA MailingKeeps ==
    ASSUME MailInv, mailing' \in [Addressees -> Addressees \cup {NoOne}],
           UNCHANGED <<mail_file, free_list, mail_index, mail_op, delivered, letters_sent, torn>>
    PROVE  MailInv'
<1>1. MailTyped'
  BY DEF MailInv, MailTyped
<1>2. FileSound'
  BY DEF MailInv, FileSound
<1>3. QED
  BY <1>1, <1>2 DEF MailInv

LEMMA MailStarts ==
    ASSUME MailInit
    PROVE  MailInv
<1>1. /\ mail_file = <<>> /\ free_list = <<>> /\ delivered = {} /\ mail_index = [p \in Addressees |-> <<>>]
      /\ mailing = [p \in Addressees |-> NoOne] /\ torn = FALSE /\ mail_op = Idle /\ letters_sent = 0
  BY DEF MailInit
<1>2. MailTyped
  <2>1. mail_file \in Seq(Block) /\ free_list \in Seq(Nat \ {0})
    BY <1>1
  <2>2. mail_index \in [Addressees -> Seq(Nat \ {0})]
    BY <1>1
  <2>3. mailing \in [Addressees -> Addressees \cup {NoOne}] /\ letters_sent \in 0..MaxLetters
    BY <1>1, Bounds
  <2>4. QED
    BY <1>1, <2>1, <2>2, <2>3 DEF MailTyped
<1>3. UsedBlocks(mail_file) = {}
  BY <1>1 DEF UsedBlocks
<1>4. Headers(mail_file, TakenBlocks(mail_op)) = {}
  BY <1>3 DEF Headers
<1>5. FileSound
  BY <1>1, <1>3, <1>4 DEF FileSound, NumberedParts, Linked, IndexedHeaders, FreeBlocks
<1>6. QED
  BY <1>1, <1>2, <1>5, OpFacts DEF MailInv

LEMMA KPermutations ==
    \A todo \in SetToAllKPermutations(Addressees) : todo \in Seq(Addressees)
<1> SUFFICES ASSUME NEW S \in SUBSET Addressees, NEW todo \in SetToSeqs(S) PROVE todo \in Seq(Addressees)
  BY DEF SetToAllKPermutations
<1>1. IsFiniteSet(S)
  BY MailAssumption, FS_Subset
<1>2. Cardinality(S) \in Nat
  BY <1>1, FS_CardinalityType
<1>3. todo \in [1..Cardinality(S) -> S]
  BY DEF SetToSeqs
<1>4. todo \in Seq(S)
  BY <1>2, <1>3
<1>5. QED
  BY <1>4

LEMMA MailStep ==
    ASSUME MailInv, [MailNext]_mailVars, ~mixed'
    PROVE  MailInv'
<1>1. CASE UNCHANGED mailVars
  <2>1. mailing' \in [Addressees -> Addressees \cup {NoOne}]
    BY <1>1 DEF MailInv, MailTyped, mailVars
  <2>2. QED
    BY <1>1, <2>1, MailingKeeps DEF mailVars
<1>2. ASSUME NEW p \in Addressees, NEW to \in Addressees, postmaster_send_mail(p, to) PROVE MailInv'
  <2>1. mailing' \in [Addressees -> Addressees \cup {NoOne}]
    BY <1>2 DEF MailInv, MailTyped, postmaster_send_mail
  <2>2. QED
    BY <1>2, <2>1, MailingKeeps DEF postmaster_send_mail
<1>3. ASSUME NEW p \in Addressees, AbortMail(p) PROVE MailInv'
  <2>1. mailing' \in [Addressees -> Addressees \cup {NoOne}]
    BY <1>3 DEF MailInv, MailTyped, AbortMail
  <2>2. QED
    BY <1>3, <2>1, MailingKeeps DEF AbortMail
<1>4. ASSUME NEW p \in Addressees, postmaster_receive_mail(p) PROVE MailInv'
  <2>1. <<p>> \in Seq(Addressees)
    OBVIOUS
  <2>2. QED
    BY <1>4, <2>1, ReceiveKeeps DEF postmaster_receive_mail
<1>5. ASSUME NEW todo \in SetToAllKPermutations(Addressees), pmail_check(todo) PROVE MailInv'
  BY <1>5, KPermutations, ReceiveKeeps DEF pmail_check
<1>6. QED
  BY <1>1, <1>2, <1>3, <1>4, <1>5, HeaderKeeps, LinkKeeps, DataKeeps, DeleteKeeps, GivenKeeps,
     HangKeeps, PastEndKeeps, BootKeeps DEF MailNext

-----------------------------------------------------------------------------
(* The blocks have one use.                                                *)
LEMMA OneUse ==
    ASSUME MailInv
    PROVE  BlocksHaveOneUse
<1> DEFINE f == mail_file
           L == {n \in DOMAIN f : f[n].type # DELETED_BLOCK /\ Link(f[n]) # LAST_BLOCK}
<1>1. ASSUME mail_op.op # "hung", NEW m \in DOMAIN free_list, NEW n \in DOMAIN free_list
      PROVE  /\ free_list[m] = free_list[n] => m = n
             /\ f[free_list[m]].type = DELETED_BLOCK
  <2>1. FreeBlocks(f, free_list)
    BY <1>1 DEF MailInv, FileSound
  <2>2. QED
    BY <2>1 DEF FreeBlocks, UsedBlocks
<1>2. IndexedHeaders(f, mail_index, TakenBlocks(mail_op)) /\ Linked(f, LooseBlocks(mail_op, torn))
  BY DEF MailInv, FileSound
<1>3. \A p \in Addressees : \A n \in DOMAIN mail_index[p] : f[mail_index[p][n]].type = HEADER_BLOCK
  BY <1>2 DEF IndexedHeaders, Headers
<1>4. \A m, n \in L : Link(f[m]) = Link(f[n]) => m = n
  BY <1>2 DEF Linked, UsedBlocks
<1>5. QED
  BY <1>1, <1>3, <1>4 DEF BlocksHaveOneUse

-----------------------------------------------------------------------------
(* The letters of a file: one for each header that is not just taken.      *)
LetterIn(f, n) == [id |-> f[n].letter, to |-> f[n].to, parts |-> Cardinality(BlocksFrom(f, n))]
LettersIn(f, taken) == {LetterIn(f, n) : n \in Headers(f, taken)}
IndexedIn(f, index) ==
    UNION {{[id |-> f[index[p][i]].letter, to |-> p,
             parts |-> Cardinality(BlocksFrom(f, index[p][i]))] : i \in DOMAIN index[p]} : p \in Addressees}

WaitingIn(f, op) == {l \in LettersIn(f, TakenBlocks(op)) : op.op = "store" => l.id # op.letter.id}
PostingIn(op) == IF op.op = "store" THEN {op.letter} ELSE {}
GivingIn(f, op) ==
    IF op.op \in {"read", "hung"}
    THEN {[id |-> op.letter, to |-> Head(op.todo), parts |-> op.parts + Cardinality(BlocksFrom(f, op.at))]}
    ELSE {}

Waiting == {l \in Indexed : \A s \in BeingStored : l.id # s.id}

LEMMA IndexedLetters ==
    ASSUME NEW f, NEW index, NEW taken, IndexedHeaders(f, index, taken)
    PROVE  IndexedIn(f, index) = LettersIn(f, taken)
<1>1. ASSUME NEW p \in Addressees, NEW i \in DOMAIN index[p]
      PROVE  /\ index[p][i] \in Headers(f, taken)
             /\ LetterIn(f, index[p][i]) = [id |-> f[index[p][i]].letter, to |-> p,
                                            parts |-> Cardinality(BlocksFrom(f, index[p][i]))]
  BY DEF IndexedHeaders, LetterIn
<1>2. IndexedIn(f, index) \subseteq LettersIn(f, taken)
  BY <1>1 DEF IndexedIn, LettersIn
<1>3. ASSUME NEW n \in Headers(f, taken) PROVE LetterIn(f, n) \in IndexedIn(f, index)
  <2>1. PICK p \in Addressees : \E i \in DOMAIN index[p] : index[p][i] = n
    BY DEF IndexedHeaders
  <2>2. PICK i \in DOMAIN index[p] : index[p][i] = n
    BY <2>1
  <2>3. LetterIn(f, n) = [id |-> f[index[p][i]].letter, to |-> p,
                          parts |-> Cardinality(BlocksFrom(f, index[p][i]))]
    BY <1>1, <2>2
  <2>4. QED
    BY <2>3 DEF IndexedIn
<1>4. LettersIn(f, taken) \subseteq IndexedIn(f, index)
  BY <1>3 DEF LettersIn
<1>5. QED
  BY <1>2, <1>4

LEMMA Mapped ==
    ASSUME MailInv
    PROVE  /\ Waiting = WaitingIn(mail_file, mail_op)
           /\ BeingStored = PostingIn(mail_op)
           /\ BeingRead = GivingIn(mail_file, mail_op)
<1>1. Indexed = IndexedIn(mail_file, mail_index)
  BY DEF Indexed, IndexedIn, LetterAt, PartsFrom
<1>2. Indexed = LettersIn(mail_file, TakenBlocks(mail_op))
  BY <1>1, IndexedLetters DEF MailInv, FileSound
<1>3. BeingStored = PostingIn(mail_op)
  BY DEF BeingStored, PostingIn
<1>4. BeingRead = GivingIn(mail_file, mail_op)
  BY DEF BeingRead, GivingIn, PartsFrom
<1>5. Waiting = WaitingIn(mail_file, mail_op)
  BY <1>2, <1>3 DEF Waiting, WaitingIn, PostingIn
<1>6. QED
  BY <1>3, <1>4, <1>5

LEMMA MappedNext ==
    ASSUME MailInv'
    PROVE  /\ Waiting' = WaitingIn(mail_file', mail_op')
           /\ BeingStored' = PostingIn(mail_op')
           /\ BeingRead' = GivingIn(mail_file', mail_op')
<1>1. Indexed' = IndexedIn(mail_file', mail_index')
  BY DEF Indexed, IndexedIn, LetterAt, PartsFrom
<1>2. Indexed' = LettersIn(mail_file', TakenBlocks(mail_op'))
  BY <1>1, IndexedLetters DEF MailInv, FileSound
<1>3. BeingStored' = PostingIn(mail_op')
  BY DEF BeingStored, PostingIn
<1>4. BeingRead' = GivingIn(mail_file', mail_op')
  BY DEF BeingRead, GivingIn, PartsFrom
<1>5. Waiting' = WaitingIn(mail_file', mail_op')
  BY <1>2, <1>3 DEF Waiting, WaitingIn, PostingIn
<1>6. QED
  BY <1>3, <1>4, <1>5

(* A block that no other leads to is in no chain but its own.              *)
LEMMA NotReached ==
    ASSUME NEW f, NEW pos, NEW at, pos # at, \A n \in UsedBlocks(f) : Link(f[n]) # at
    PROVE  at \notin BlocksFrom(f, pos)
<1> DEFINE B == BlocksFrom(f, pos)
<1>1. (pos \in UsedBlocks(f) => pos \in B) /\ \A n \in B : NextBlocks(f, n) \subseteq B
  BY ReachedClosed
<1>2. B \subseteq UsedBlocks(f)
  BY DEF BlocksFrom
<1>3. \A n \in B \ {at} : NextBlocks(f, n) \subseteq B \ {at}
  BY <1>1, <1>2 DEF NextBlocks
<1>4. B \ {at} \in SUBSET UsedBlocks(f) /\ {pos} \cap UsedBlocks(f) \subseteq B \ {at}
  BY <1>1, <1>2
<1> HIDE DEF B
<1>5. BlocksFrom(f, pos) \subseteq B \ {at}
  BY <1>3, <1>4, ReachedLeast
<1>6. QED
  BY <1>5 DEF B

(* The letters are records of the kind that Letters speaks of.             *)
LEMMA LetterTyped ==
    ASSUME NEW f \in Seq(Block), NEW sent \in 0..MaxLetters, NEW loose,
           NumberedParts(f, sent), Linked(f, loose), NEW n \in Headers(f, {})
    PROVE  LetterIn(f, n) \in MailLetter /\ f[n].part = 1 /\ n \in UsedBlocks(f)
<1>1. sent \in Nat /\ \A k \in 1..sent : k \in 1..MaxLetters
  BY Bounds
<1>2. n \in UsedBlocks(f) /\ f[n].letter \in 1..sent /\ f[n].to \in Addressees /\ f[n].part = 1
  BY DEF Headers, NumberedParts, NumberedBlock
<1>3. Cardinality(BlocksFrom(f, n)) \in 1..MaxParts
  BY <1>1, <1>2, ChainLength
<1>4. QED
  BY <1>1, <1>2, <1>3 DEF LetterIn, MailLetter

-----------------------------------------------------------------------------
(* Each step of the file is a step of the promise.                         *)
LEMMA HeaderLetters ==
    ASSUME NEW f \in Seq(Block), NEW sent \in Nat, NEW index \in [Addressees -> Seq(Nat \ {0})],
           NEW l \in MailLetter, l.id = sent + 1,
           NEW pos \in 1..(Len(f) + 1), pos \notin UsedBlocks(f), NEW g,
           Wrote(f, g, Header(l, LAST_BLOCK), pos), NEW loose, ~LedTo(f, pos),
           NumberedParts(f, sent), Linked(f, loose), IndexedHeaders(f, index, {})
    PROVE  /\ LettersIn(g, {}) = LettersIn(f, {}) \cup {[id |-> l.id, to |-> l.to, parts |-> 1]}
           /\ \A k \in LettersIn(f, {}) : k.id # l.id
<1> DEFINE b == Header(l, LAST_BLOCK)
           new == [id |-> l.id, to |-> l.to, parts |-> 1]
<1>1. /\ b \in Block /\ b.type = HEADER_BLOCK /\ b.type # DELETED_BLOCK
      /\ b.letter = l.id /\ b.to = l.to
  BY HeaderBlock, Bounds
<1>2. HeaderAdded(f, g, sent, index, l, pos, loose)
  BY HeaderWritten
<1>3. Wrote(f, g, b, pos)
  OBVIOUS
<1> HIDE DEF b, new
<1>4. /\ pos \in UsedBlocks(g)
      /\ \A n : n # pos => (n \in UsedBlocks(g) <=> n \in UsedBlocks(f))
      /\ \A n \in UsedBlocks(f) : n # pos => g[n] = f[n]
  BY <1>1, <1>3, WroteUsed
<1>5. g[pos] = b
  BY <1>1, <1>3, WroteAt
<1>6. pos \in Headers(g, {}) /\ \A n : n # pos => (n \in Headers(g, {}) <=> n \in Headers(f, {}))
  BY <1>1, <1>4, <1>5 DEF Headers
<1>7. pos \notin Headers(f, {})
  BY DEF Headers
<1>8. \A n \in Headers(f, {}) : LetterIn(g, n) = LetterIn(f, n)
  <2>1. \A n \in Headers(f, {}) : n \in UsedBlocks(f) /\ g[n] = f[n]
    BY <1>4 DEF Headers
  <2>2. \A n \in UsedBlocks(f) : BlocksFrom(g, n) = BlocksFrom(f, n)
    BY <1>2 DEF HeaderAdded
  <2>3. QED
    BY <2>1, <2>2 DEF LetterIn
<1>9. LetterIn(g, pos) = new
  <2>1. Cardinality(BlocksFrom(g, pos)) = 1
    BY <1>2, FS_Singleton DEF HeaderAdded
  <2>2. QED
    BY <1>1, <1>5, <2>1 DEF LetterIn, new
<1>10. LettersIn(g, {}) \subseteq LettersIn(f, {}) \cup {new}
  BY <1>6, <1>8, <1>9 DEF LettersIn
<1>11. LettersIn(f, {}) \cup {new} \subseteq LettersIn(g, {})
  BY <1>6, <1>7, <1>8, <1>9 DEF LettersIn
<1>12. \A k \in LettersIn(f, {}) : k.id # l.id
  <2>1. \A n \in Headers(f, {}) : f[n].letter # l.id
    BY DEF Headers, NumberedParts, NumberedBlock
  <2>2. QED
    BY <2>1 DEF LettersIn, LetterIn
<1>13. QED
  BY <1>10, <1>11, <1>12 DEF new

LEMMA HeaderImplements ==
    ASSUME MailInv, MailInv', NEW p \in Addressees, NEW parts \in 1..MaxParts,
           store_mail_header(p, parts), ~mixed'
    PROVE  Promise!BeginPost
<1> DEFINE l == [id |-> letters_sent + 1, to |-> mailing[p], parts |-> parts]
           f == mail_file
           g == mail_file'
           pos == PoppedPos
           loose == LooseBlocks(Idle, torn)
<1>1. /\ mail_op = Idle /\ mailing[p] # NoOne /\ letters_sent < MaxLetters
      /\ mail_op' = IF parts = 1 THEN Idle
                    ELSE [op |-> "store", letter |-> l, part |-> 1, last |-> pos, target |-> 0]
      /\ delivered' = delivered /\ ~LedTo(f, pos)
  BY DEF store_mail_header
<1>2. /\ f \in Seq(Block) /\ free_list \in Seq(Nat \ {0}) /\ mail_index \in [Addressees -> Seq(Nat \ {0})]
      /\ mailing \in [Addressees -> Addressees \cup {NoOne}]
      /\ letters_sent \in 0..MaxLetters /\ letters_sent \in Nat
      /\ \A x \in delivered : x.id \in 1..letters_sent
  BY DEF MailInv, MailTyped
<1>3. NumberedParts(f, letters_sent) /\ Linked(f, loose) /\ IndexedHeaders(f, mail_index, {}) /\ FreeBlocks(f, free_list)
  BY <1>1, OpFacts DEF MailInv, FileSound, TakenBlocks
<1>4. l \in MailLetter /\ l.id = letters_sent + 1 /\ l.parts = parts
      /\ l = [id |-> l.id, to |-> l.to, parts |-> parts]
  <2>1. mailing[p] \in Addressees /\ letters_sent + 1 \in 1..MaxLetters
    BY <1>1, <1>2, Bounds
  <2>2. QED
    BY <2>1 DEF MailLetter
<1>5. Wrote(f, g, Header(l, LAST_BLOCK), pos)
  BY DEF store_mail_header, write_to_file, Wrote, file_end_pos
<1>6. pos = (IF free_list = <<>> THEN Len(f) + 1 ELSE Head(free_list))
      /\ free_list' = IF free_list = <<>> THEN <<>> ELSE Tail(free_list)
  BY DEF store_mail_header, PoppedPos, pop_free_list, file_end_pos
<1> HIDE DEF l, f, g, pos, loose
<1>7. pos \in 1..(Len(f) + 1) /\ pos \notin UsedBlocks(f)
  BY <1>2, <1>3, <1>6, PoppedOne
<1> DEFINE new == [id |-> l.id, to |-> l.to, parts |-> 1]
           W == LettersIn(f, {})
<1>8. LettersIn(g, {}) = W \cup {new} /\ \A k \in W : k.id # l.id
  BY <1>1, <1>2, <1>3, <1>4, <1>5, <1>7, HeaderLetters
<1>9. \A k \in delivered : k.id # l.id
  BY <1>2, <1>4
<1> HIDE DEF W
<1>10. Waiting = W /\ BeingStored = {} /\ BeingRead = {}
  <2>1. WaitingIn(f, Idle) = W /\ PostingIn(Idle) = {} /\ GivingIn(f, Idle) = {}
    BY OpFacts DEF WaitingIn, PostingIn, GivingIn, TakenBlocks, W
  <2>2. QED
    BY <1>1, <2>1, Mapped DEF f
<1>11. BeingRead' = {} /\ \/ BeingStored' = {l} /\ Waiting' = W
                          \/ BeingStored' = {} /\ Waiting' = W \cup {l}
  <2>1. CASE parts = 1
    <3>1. mail_op' = Idle /\ new = l
      BY <1>1, <1>4, <2>1
    <3>2. WaitingIn(g, Idle) = W \cup {new} /\ PostingIn(Idle) = {} /\ GivingIn(g, Idle) = {}
      BY <1>8, OpFacts DEF WaitingIn, PostingIn, GivingIn, TakenBlocks
    <3>3. QED
      BY <3>1, <3>2, MappedNext DEF g
  <2>2. CASE parts # 1
    <3>1. mail_op'.op = "store" /\ mail_op'.letter = l
      BY <1>1, <2>2
    <3>2. PostingIn(mail_op') = {l} /\ GivingIn(g, mail_op') = {}
      BY <3>1 DEF PostingIn, GivingIn
    <3>3. WaitingIn(g, mail_op') = {k \in W \cup {new} : k.id # l.id}
      BY <1>8, <3>1 DEF WaitingIn, TakenBlocks
    <3>4. {k \in W \cup {new} : k.id # l.id} = W
      BY <1>8
    <3>5. QED
      BY <3>2, <3>3, <3>4, MappedNext DEF g
  <2>3. QED
    BY <2>1, <2>2
<1>12. \A k \in Waiting \cup delivered : k.id # l.id
  BY <1>8, <1>9, <1>10
<1>13. QED
  BY <1>1, <1>4, <1>10, <1>11, <1>12 DEF Promise!BeginPost, Waiting

(* What no one can tell: the letters that wait, are posted and are given   *)
(* stay what they were.                                                    *)
LEMMA SameLetters ==
    ASSUME NEW f, NEW g, NEW taken, NEW after,
           Headers(g, after) = Headers(f, taken),
           \A n \in Headers(f, taken) : LetterIn(g, n) = LetterIn(f, n)
    PROVE  LettersIn(g, after) = LettersIn(f, taken)
BY DEF LettersIn

LEMMA Unseen ==
    ASSUME Waiting' = Waiting, BeingStored' = BeingStored, BeingRead' = BeingRead, delivered' = delivered
    PROVE  UNCHANGED Promise!letterVars
BY DEF Promise!letterVars, Waiting

LEMMA LinkImplements ==
    ASSUME MailInv, MailInv', store_mail_link, ~mixed'
    PROVE  UNCHANGED Promise!letterVars
<1> DEFINE f == mail_file
           g == mail_file'
           op == mail_op
           t == PoppedPos
           b == IF op.part = 1 THEN Header(op.letter, t) ELSE Data(op.letter, op.part, t)
           loose == LooseBlocks(Idle, torn)
<1>1. /\ op.op = "store" /\ op.target = 0
      /\ mail_op' = [op EXCEPT !.target = t]
      /\ mail_index' = mail_index /\ delivered' = delivered
      /\ letters_sent' = letters_sent /\ ~LedTo(f, t)
  BY DEF store_mail_link
<1>2. /\ f \in Seq(Block) /\ free_list \in Seq(Nat \ {0}) /\ op \in StoreOp
      /\ letters_sent \in Nat
  BY <1>1, OpFacts DEF MailInv, MailTyped
<1>3. torn \in BOOLEAN /\ Stored(f, free_list, op, letters_sent)
  BY <1>1 DEF MailInv, MailTyped
<1>4. NumberedParts(f, letters_sent) /\ Linked(f, loose) /\ IndexedHeaders(f, mail_index, {}) /\ FreeBlocks(f, free_list)
  BY <1>1, <1>3, OpFacts DEF MailInv, FileSound, LooseBlocks, TakenBlocks
<1>5. Wrote(f, g, b, op.last)
  BY DEF store_mail_link, write_to_file, Wrote, file_end_pos
<1>6. /\ t = (IF free_list = <<>> THEN Len(f) + 1 ELSE Head(free_list))
      /\ free_list' = IF free_list = <<>> THEN <<>> ELSE Tail(free_list)
  BY DEF store_mail_link, PoppedPos, pop_free_list, file_end_pos
<1>7. /\ mail_op'.op = "store" /\ mail_op'.letter = op.letter
  BY <1>1, <1>2 DEF StoreOp
<1> HIDE DEF f, g, op, t, b, loose
<1>8. t \in 1..(Len(f) + 1) /\ t \notin UsedBlocks(f)
  BY <1>2, <1>4, <1>6, PoppedOne
<1>9. LinkAdded(f, g, letters_sent, mail_index, op, t, loose)
  BY <1>1, <1>2, <1>3, <1>4, <1>5, <1>8, LinkWritten DEF b
<1>10. /\ NumberedParts(g, letters_sent) /\ UsedBlocks(g) = UsedBlocks(f)
       /\ \A n \in UsedBlocks(f) : g[n].letter = f[n].letter /\ g[n].part = f[n].part
       /\ \A n \in UsedBlocks(f) : f[n].part = 1 => g[n].to = f[n].to
       /\ \A h \in UsedBlocks(f) : BlocksFrom(g, h) = BlocksFrom(f, h)
  BY <1>9 DEF LinkAdded
<1>11. Headers(g, {}) = Headers(f, {})
  <2>1. \A n \in UsedBlocks(f) : g[n].type = HEADER_BLOCK <=> f[n].type = HEADER_BLOCK
    BY <1>4, <1>10 DEF NumberedParts, NumberedBlock
  <2>2. QED
    BY <1>10, <2>1 DEF Headers
<1>12. \A n \in Headers(f, {}) : LetterIn(g, n) = LetterIn(f, n)
  <2>1. \A n \in Headers(f, {}) : n \in UsedBlocks(f) /\ f[n].part = 1
    BY <1>4 DEF Headers, NumberedParts, NumberedBlock
  <2>2. QED
    BY <1>10, <2>1 DEF LetterIn
<1>13. LettersIn(g, {}) = LettersIn(f, {})
  BY <1>11, <1>12, SameLetters
<1>14. TakenBlocks(op) = {} /\ TakenBlocks(mail_op') = {}
  BY <1>1, <1>7 DEF TakenBlocks
<1>15. WaitingIn(g, mail_op') = WaitingIn(f, op)
  BY <1>1, <1>7, <1>13, <1>14 DEF WaitingIn
<1>16. PostingIn(mail_op') = PostingIn(op) /\ GivingIn(g, mail_op') = {} /\ GivingIn(f, op) = {}
  BY <1>1, <1>7 DEF PostingIn, GivingIn
<1>17. Waiting' = Waiting /\ BeingStored' = BeingStored /\ BeingRead' = BeingRead
  BY <1>15, <1>16, Mapped, MappedNext DEF f, g, op
<1>18. QED
  BY <1>1, <1>17, Unseen

(* The letters of a file with one more block of the letter that is stored. *)
OneMorePart(f, g, op) ==
    /\ {l \in LettersIn(g, {}) : l.id # op.letter.id} = {l \in LettersIn(f, {}) : l.id # op.letter.id}
    /\ {l \in LettersIn(g, {}) : l.id = op.letter.id} =
         {[id |-> op.letter.id, to |-> op.letter.to, parts |-> op.part + 1]}

LEMMA DataLetters ==
    ASSUME NEW f \in Seq(Block), NEW sent \in Nat, NEW index,
           NEW op \in StoreOp, op.target # 0, NEW list, Stored(f, list, op, sent),
           op.part + 1 \in 1..MaxParts, NEW g,
           Wrote(f, g, Data(op.letter, op.part + 1, LAST_BLOCK), op.target), NEW loose,
           NumberedParts(f, sent), Linked(f, loose \cup {op.last}), IndexedHeaders(f, index, {})
    PROVE  OneMorePart(f, g, op)
<1> DEFINE last == op.last
           t == op.target
           k == op.part + 1
           U == UsedBlocks(f)
           id == op.letter.id
<1>1. DataAdded(f, g, sent, index, op, loose)
  BY DataWritten
<1>2. /\ UsedBlocks(g) = U \cup {t} /\ t \notin U
      /\ NumberedParts(g, sent) /\ g[t].part = k /\ \A n \in U : g[n] = f[n]
      /\ \A h \in U : BlocksFrom(g, h) = IF last \in BlocksFrom(f, h) THEN BlocksFrom(f, h) \cup {t}
                                        ELSE BlocksFrom(f, h)
  BY <1>1 DEF DataAdded
<1>3. /\ last \in U /\ f[last].letter = id
      /\ \E h \in U : /\ f[h].part = 1 /\ f[h].letter = id /\ f[h].to = op.letter.to
                      /\ last \in BlocksFrom(f, h) /\ Cardinality(BlocksFrom(f, h)) = op.part
  BY DEF Stored
<1>4. k # 1
  BY Bounds DEF StoreOp
<1> HIDE DEF last, t, k, id
<1>5. Headers(g, {}) = Headers(f, {})
  <2>1. g[t].type # HEADER_BLOCK
    BY <1>2, <1>4 DEF NumberedParts, NumberedBlock
  <2>2. QED
    BY <1>2, <2>1 DEF Headers
<1>6. \A n \in Headers(f, {}) : n \in U /\ g[n] = f[n] /\ f[n].part = 1
  BY <1>2 DEF Headers, NumberedParts, NumberedBlock
<1>7. ASSUME NEW n \in Headers(f, {}), f[n].letter # id
      PROVE  LetterIn(g, n) = LetterIn(f, n)
  <2>1. last \notin BlocksFrom(f, n)
    BY <1>3, <1>6, <1>7, ChainAscends
  <2>2. QED
    BY <1>2, <1>6, <2>1 DEF LetterIn
<1>8. PICK h \in U : /\ f[h].part = 1 /\ f[h].letter = id /\ f[h].to = op.letter.to
                     /\ last \in BlocksFrom(f, h) /\ Cardinality(BlocksFrom(f, h)) = op.part
  BY <1>3
<1>9. h \in Headers(f, {}) /\ \A n \in Headers(f, {}) : f[n].letter = id => n = h
  <2>1. f[h].type = HEADER_BLOCK
    BY <1>8 DEF NumberedParts, NumberedBlock
  <2>2. h \in Headers(f, {})
    BY <2>1 DEF Headers
  <2>3. QED
    BY <1>6, <1>8, <2>2 DEF NumberedParts
<1>10. LetterIn(g, h) = [id |-> id, to |-> op.letter.to, parts |-> k]
  <2>1. BlocksFrom(g, h) = BlocksFrom(f, h) \cup {t} /\ IsFiniteSet(BlocksFrom(f, h)) /\ BlocksFrom(f, h) \subseteq U
    BY <1>2, <1>8, UsedFinite
  <2>2. Cardinality(BlocksFrom(g, h)) = k
    BY <1>2, <1>8, <2>1, FS_AddElement DEF k
  <2>3. QED
    BY <1>6, <1>8, <1>9, <2>2 DEF LetterIn
<1>11. \A n : LetterIn(f, n).id = f[n].letter /\ LetterIn(g, n).id = g[n].letter
  BY DEF LetterIn
<1>12. {l \in LettersIn(g, {}) : l.id # id} = {l \in LettersIn(f, {}) : l.id # id}
  <2>1. ASSUME NEW l, l.id # id
        PROVE  l \in LettersIn(g, {}) <=> l \in LettersIn(f, {})
    BY <1>5, <1>6, <1>7, <1>11, <2>1 DEF LettersIn
  <2>2. QED
    BY <2>1
<1>13. {l \in LettersIn(g, {}) : l.id = id} = {[id |-> id, to |-> op.letter.to, parts |-> k]}
  <2>1. LetterIn(g, h) \in LettersIn(g, {}) /\ LetterIn(g, h).id = id
    BY <1>5, <1>9, <1>10 DEF LettersIn
  <2>2. ASSUME NEW l \in LettersIn(g, {}), l.id = id PROVE l = LetterIn(g, h)
    <3>1. PICK n \in Headers(f, {}) : l = LetterIn(g, n)
      BY <1>5, <2>2 DEF LettersIn
    <3>2. f[n].letter = id
      BY <1>6, <1>11, <2>2, <3>1
    <3>3. QED
      BY <1>9, <3>1, <3>2
  <2>3. QED
    BY <1>10, <2>1, <2>2
<1>14. QED
  BY <1>12, <1>13 DEF OneMorePart, id, k

LEMMA DataImplements ==
    ASSUME MailInv, MailInv', store_mail_data
    PROVE  Promise!EndPost \/ UNCHANGED Promise!letterVars
<1> DEFINE f == mail_file
           g == mail_file'
           op == mail_op
           t == op.target
           k == op.part + 1
           next == [op EXCEPT !.part = @ + 1, !.last = op.target, !.target = 0]
           loose == LooseBlocks(Idle, torn)
<1>1. /\ op.op = "store" /\ op.target # 0
      /\ mail_op' = IF k = op.letter.parts THEN Idle ELSE next
      /\ delivered' = delivered
  BY DEF store_mail_data
<1>2. /\ f \in Seq(Block) /\ op \in StoreOp /\ letters_sent \in Nat
  BY <1>1, OpFacts DEF MailInv, MailTyped
<1>3. torn \in BOOLEAN /\ Stored(f, free_list, op, letters_sent)
  BY <1>1 DEF MailInv, MailTyped
<1>4. NumberedParts(f, letters_sent) /\ Linked(f, loose \cup {op.last}) /\ IndexedHeaders(f, mail_index, {})
  BY <1>1, <1>2, <1>3, LooseWith DEF MailInv, FileSound, TakenBlocks
<1>5. Wrote(f, g, Data(op.letter, k, LAST_BLOCK), t)
  BY DEF store_mail_data, write_to_file, Wrote, file_end_pos
<1>6. op.letter \in MailLetter /\ k \in 1..MaxParts
      /\ op.letter = [id |-> op.letter.id, to |-> op.letter.to, parts |-> op.letter.parts]
  <2>1. op.letter \in MailLetter /\ op.part \in 1..MaxParts /\ op.part < op.letter.parts
    BY <1>2, <1>3 DEF StoreOp, Stored
  <2>2. op.letter.parts \in 1..MaxParts
    BY <2>1 DEF MailLetter
  <2>3. QED
    BY <2>1, <2>2, Bounds DEF MailLetter
<1>7. next.op = "store" /\ next.letter = op.letter
  BY <1>1, <1>2 DEF StoreOp
<1> HIDE DEF f, g, op, next, loose
<1>8. /\ {l \in LettersIn(g, {}) : l.id # op.letter.id} = {l \in LettersIn(f, {}) : l.id # op.letter.id}
      /\ {l \in LettersIn(g, {}) : l.id = op.letter.id} =
           {[id |-> op.letter.id, to |-> op.letter.to, parts |-> k]}
  <2>1. OneMorePart(f, g, op)
    BY <1>1, <1>2, <1>3, <1>4, <1>5, <1>6, DataLetters
  <2>2. QED
    BY <2>1 DEF OneMorePart
<1> HIDE DEF t, k
<1> DEFINE W == {l \in LettersIn(f, {}) : l.id # op.letter.id}
<1>9. Waiting = W /\ BeingStored = {op.letter} /\ BeingRead = {}
  <2>1. WaitingIn(f, op) = W /\ PostingIn(op) = {op.letter} /\ GivingIn(f, op) = {}
    BY <1>1 DEF WaitingIn, PostingIn, GivingIn, TakenBlocks
  <2>2. QED
    BY <2>1, Mapped DEF f, op
<1>10. CASE k = op.letter.parts
  <2>1. mail_op' = Idle
    BY <1>1, <1>10
  <2>2. PostingIn(Idle) = {} /\ GivingIn(g, Idle) = {} /\ WaitingIn(g, Idle) = LettersIn(g, {})
    BY OpFacts DEF PostingIn, GivingIn, WaitingIn, TakenBlocks
  <2>3. LettersIn(g, {}) = W \cup {op.letter}
    BY <1>6, <1>8, <1>10
  <2>4. Waiting' = Waiting \cup BeingStored /\ BeingStored' = {} /\ BeingRead' = BeingRead /\ BeingStored # {}
    BY <1>9, <2>1, <2>2, <2>3, MappedNext DEF g
  <2>5. QED
    BY <1>1, <2>4 DEF Promise!EndPost, Waiting
<1>11. CASE k # op.letter.parts
  <2>1. mail_op' = next
    BY <1>1, <1>11
  <2>2. PostingIn(next) = {op.letter} /\ GivingIn(g, next) = {}
    BY <1>7 DEF PostingIn, GivingIn
  <2>3. WaitingIn(g, next) = W
    BY <1>7, <1>8 DEF WaitingIn, TakenBlocks
  <2>4. Waiting' = Waiting /\ BeingStored' = BeingStored /\ BeingRead' = BeingRead
    BY <1>9, <2>1, <2>2, <2>3, MappedNext DEF g
  <2>5. QED
    BY <1>1, <2>4, Unseen
<1>12. QED
  BY <1>10, <1>11

(* The letters that are left when one is taken.                            *)
LEMMA LettersLess ==
    ASSUME NEW f, NEW sent, NumberedParts(f, sent), NEW pos \in Headers(f, {})
    PROVE  /\ LetterIn(f, pos) \in LettersIn(f, {})
           /\ LettersIn(f, {pos}) = LettersIn(f, {}) \ {LetterIn(f, pos)}
<1>1. Headers(f, {pos}) = Headers(f, {}) \ {pos}
  BY DEF Headers
<1>2. ASSUME NEW n \in Headers(f, {}), LetterIn(f, n) = LetterIn(f, pos) PROVE n = pos
  <2>1. f[n].letter = f[pos].letter
    BY <1>2 DEF LetterIn
  <2>2. n \in UsedBlocks(f) /\ pos \in UsedBlocks(f) /\ f[n].part = 1 /\ f[pos].part = 1
    BY DEF Headers, NumberedParts, NumberedBlock
  <2>3. QED
    BY <2>1, <2>2 DEF NumberedParts
<1>3. LettersIn(f, {pos}) \subseteq LettersIn(f, {}) \ {LetterIn(f, pos)}
  BY <1>1, <1>2 DEF LettersIn
<1>4. LettersIn(f, {}) \ {LetterIn(f, pos)} \subseteq LettersIn(f, {pos})
  BY <1>1 DEF LettersIn
<1>5. QED
  BY <1>3, <1>4 DEF LettersIn

LEMMA TakeLetters ==
    ASSUME MailInv', mail_file' = mail_file,
           mail_file \in Seq(Block), mail_index \in [Addressees -> Seq(Nat \ {0})],
           NumberedParts(mail_file, letters_sent), IndexedHeaders(mail_file, mail_index, {}),
           NEW todo \in Seq(Addressees), TakeNext(todo)
    PROVE  /\ BeingStored' = {}
           /\ \/ BeingRead' = {} /\ Waiting' = LettersIn(mail_file, {})
              \/ \E l \in LettersIn(mail_file, {}) :
                   BeingRead' = {l} /\ Waiting' = LettersIn(mail_file, {}) \ {l}
<1> DEFINE f == mail_file
           W == LettersIn(f, {})
<1>1. CASE mail_op' = Idle
  <2>1. PostingIn(Idle) = {} /\ GivingIn(f, Idle) = {} /\ WaitingIn(f, Idle) = W
    BY OpFacts DEF PostingIn, GivingIn, WaitingIn, TakenBlocks
  <2>2. QED
    BY <1>1, <2>1, MappedNext
<1>2. ASSUME NEW p \in Addressees, NEW rest \in Seq(Addressees),
             mail_index[p] # <<>>,
             mail_op' = [op |-> "read", todo |-> rest, at |-> Last(mail_index[p]),
                         parts |-> 0, letter |-> f[Last(mail_index[p])].letter],
             Len(rest) > 0, rest[1] = p
      PROVE  /\ BeingStored' = {}
             /\ \E l \in W : BeingRead' = {l} /\ Waiting' = W \ {l}
  <2> DEFINE pos == Last(mail_index[p])
             l == LetterIn(f, pos)
  <2>1. /\ mail_op'.op = "read" /\ mail_op'.todo = rest /\ mail_op'.at = pos /\ mail_op'.parts = 0
        /\ mail_op'.letter = f[pos].letter
    BY <1>2
  <2>2. pos = mail_index[p][Len(mail_index[p])] /\ Len(mail_index[p]) \in DOMAIN mail_index[p]
    <3>1. mail_index[p] \in Seq(Nat \ {0})
      OBVIOUS
    <3>2. QED
      BY <1>2, <3>1 DEF Last
  <2>3. pos \in Headers(f, {}) /\ f[pos].to = p
    BY <2>2 DEF IndexedHeaders
  <2>4. Head(rest) = p /\ 0 + Cardinality(BlocksFrom(f, pos)) = Cardinality(BlocksFrom(f, pos))
    <3>1. Cardinality(BlocksFrom(f, pos)) \in Nat
      BY UsedFinite
    <3>2. Head(rest) = rest[1]
      BY <1>2
    <3>3. QED
      BY <1>2, <3>1, <3>2
  <2> HIDE DEF pos
  <2>5. GivingIn(f, mail_op') = {l}
    BY <2>1, <2>3, <2>4 DEF GivingIn, LetterIn
  <2>6. PostingIn(mail_op') = {} /\ WaitingIn(f, mail_op') = LettersIn(f, {pos})
    BY <2>1 DEF PostingIn, WaitingIn, TakenBlocks
  <2>7. l \in W /\ LettersIn(f, {pos}) = W \ {l}
    BY <2>3, LettersLess
  <2>8. BeingStored' = {} /\ BeingRead' = {l} /\ Waiting' = W \ {l}
    BY <2>5, <2>6, <2>7, MappedNext
  <2>9. QED
    BY <2>7, <2>8
<1>3. QED
  BY <1>1, <1>2, TakeFacts

LEMMA ReceiveImplements ==
    ASSUME MailInv, MailInv', mail_op = Idle, NEW todo \in Seq(Addressees), TakeNext(todo),
           UNCHANGED <<mail_file, free_list, no_mail, mailing, delivered, letters_sent, torn>>
    PROVE  Promise!BeginGive \/ UNCHANGED Promise!letterVars
<1> DEFINE W == LettersIn(mail_file, {})
<1>1. /\ mail_file \in Seq(Block) /\ mail_index \in [Addressees -> Seq(Nat \ {0})]
      /\ NumberedParts(mail_file, letters_sent) /\ IndexedHeaders(mail_file, mail_index, {})
  BY OpFacts DEF MailInv, MailTyped, FileSound, TakenBlocks
<1>2. /\ BeingStored' = {}
      /\ \/ BeingRead' = {} /\ Waiting' = W
         \/ \E l \in W : BeingRead' = {l} /\ Waiting' = W \ {l}
  BY <1>1, TakeLetters
<1>3. Waiting = W /\ BeingStored = {} /\ BeingRead = {}
  <2>1. PostingIn(Idle) = {} /\ GivingIn(mail_file, Idle) = {} /\ WaitingIn(mail_file, Idle) = W
    BY OpFacts DEF PostingIn, GivingIn, WaitingIn, TakenBlocks
  <2>2. QED
    BY <2>1, Mapped
<1> HIDE DEF W
<1>4. CASE BeingRead' = {} /\ Waiting' = W
  BY <1>2, <1>3, <1>4, Unseen
<1>5. CASE \E l \in W : BeingRead' = {l} /\ Waiting' = W \ {l}
  BY <1>2, <1>3, <1>5 DEF Promise!BeginGive, Waiting
<1>6. QED
  BY <1>2, <1>4, <1>5

LEMMA GivenImplements ==
    ASSUME MailInv, MailInv', read_delete_end
    PROVE  Promise!EndGive
<1> DEFINE W == LettersIn(mail_file, {})
           l == [id |-> mail_op.letter, to |-> Head(mail_op.todo), parts |-> mail_op.parts]
<1>1. /\ mail_op.op = "read" /\ mail_op.at = LAST_BLOCK
      /\ delivered' = delivered \cup {l}
      /\ TakeNext(mail_op.todo)
      /\ UNCHANGED <<mail_file, free_list, mailing, letters_sent, torn>>
  BY DEF read_delete_end
<1>2. /\ mail_op \in ReadOp /\ mail_file \in Seq(Block)
      /\ NumberedParts(mail_file, letters_sent)
      /\ IndexedHeaders(mail_file, mail_index, TakenBlocks(mail_op))
      /\ Read(mail_file, mail_op, letters_sent)
  BY <1>1, ReadFacts
<1>3. mail_op.at \notin UsedBlocks(mail_file)
  BY <1>1, <1>2, UsedNat, Bounds
<1>4. mail_op.parts # 0
  BY <1>2, <1>3 DEF Read
<1>5. TakenBlocks(mail_op) = {} /\ mail_op.todo \in Seq(Addressees) /\ mail_op.parts \in Nat
  BY <1>2, <1>4 DEF TakenBlocks, ReadOp
<1>6. mail_index \in [Addressees -> Seq(Nat \ {0})]
  BY DEF MailInv, MailTyped
<1>7. /\ BeingStored' = {}
      /\ \/ BeingRead' = {} /\ Waiting' = W
         \/ \E k \in W : BeingRead' = {k} /\ Waiting' = W \ {k}
  BY <1>1, <1>2, <1>5, <1>6, TakeLetters
<1>8. GivingIn(mail_file, mail_op) = {l}
  <2>1. Cardinality(BlocksFrom(mail_file, mail_op.at)) = 0
    BY <1>3, ReachedNone, FS_EmptySet
  <2>2. mail_op.parts + 0 = mail_op.parts
    BY <1>5
  <2>3. QED
    BY <1>1, <2>1, <2>2 DEF GivingIn
<1>9. PostingIn(mail_op) = {} /\ WaitingIn(mail_file, mail_op) = W
  BY <1>1, <1>5 DEF PostingIn, WaitingIn
<1> HIDE DEF W, l
<1>10. Waiting = W /\ BeingStored = {} /\ BeingRead = {l}
  BY <1>8, <1>9, Mapped
<1>11. delivered' = delivered \cup BeingRead /\ BeingRead # {} /\ BeingStored' = BeingStored
  BY <1>1, <1>7, <1>10
<1>12. (BeingRead' = {} /\ Waiting' = Waiting) \/ \E k \in Waiting : BeingRead' = {k} /\ Waiting' = Waiting \ {k}
  BY <1>7, <1>10
<1>13. QED
  BY <1>11, <1>12 DEF Promise!EndGive, Waiting

(* The letters after a block of the one that is read was collected.        *)
LEMMA DeletedLetters ==
    ASSUME NEW f \in Seq(Block), NEW sent \in Nat, NEW index, NEW loose, NEW g,
           NEW op \in ReadOp, op.at \in UsedBlocks(f), Read(f, op, sent), NumberedParts(f, sent),
           Wrote(f, g, [f[op.at] EXCEPT !.type = DELETED_BLOCK], op.at),
           BlockGone(f, g, sent, loose, index, op)
    PROVE  /\ LettersIn(g, {}) = LettersIn(f, TakenBlocks(op))
           /\ op.parts + 1 + Cardinality(BlocksFrom(g, Link(f[op.at])))
                = op.parts + Cardinality(BlocksFrom(f, op.at))
<1> DEFINE at == op.at
           b == [f[at] EXCEPT !.type = DELETED_BLOCK]
           U == UsedBlocks(f)
           l == Link(f[at])
<1>1. /\ at \in U /\ at \in 1..(Len(f) + 1) /\ b \in Block
      /\ Wrote(f, g, b, at)
  <2>1. at \in 1..Len(f) /\ f[at] \in Block
    BY DEF UsedBlocks
  <2>2. QED
    BY <2>1, DeletedBlock
<1>2. /\ UsedBlocks(g) = U \ {at} /\ \A n \in UsedBlocks(g) : g[n] = f[n]
      /\ \A n \in U : Link(f[n]) # at
  BY DEF BlockGone
<1>3. op.parts \in Nat /\ f[at].part = op.parts + 1 /\ f[at].letter = op.letter
  BY DEF ReadOp, Read
<1> HIDE DEF at, b, l
<1>4. ASSUME NEW n, n # at PROVE BlocksFrom(g, n) = BlocksFrom(f, n) /\ at \notin BlocksFrom(f, n)
  <2>1. at \notin BlocksFrom(f, n)
    BY <1>2, <1>4, NotReached
  <2>2. \A m \in BlocksFrom(f, n) : Link(f[m]) # at
    BY <1>2, UsedFinite
  <2>3. QED
    BY <1>1, <1>4, <2>1, <2>2, ChainKept
<1>5. Headers(g, {}) = Headers(f, TakenBlocks(op))
  <2>1. CASE op.parts = 0
    <3>1. TakenBlocks(op) = {at}
      BY <2>1 DEF TakenBlocks, at, ReadOp
    <3>2. QED
      BY <1>2, <3>1 DEF Headers
  <2>2. CASE op.parts # 0
    <3>1. TakenBlocks(op) = {} /\ f[at].part # 1
      BY <1>3, <2>2 DEF TakenBlocks
    <3>2. f[at].type # HEADER_BLOCK
      BY <1>1, <3>1 DEF NumberedParts, NumberedBlock
    <3>3. QED
      BY <1>2, <3>1, <3>2 DEF Headers
  <2>3. QED
    BY <2>1, <2>2
<1>6. \A n \in Headers(g, {}) : LetterIn(g, n) = LetterIn(f, n)
  <2>1. \A n \in Headers(g, {}) : n # at /\ g[n] = f[n]
    BY <1>2 DEF Headers
  <2>2. QED
    BY <1>4, <2>1 DEF LetterIn
<1>7. LettersIn(g, {}) = LettersIn(f, TakenBlocks(op))
  BY <1>5, <1>6, SameLetters
<1>8. op.parts + 1 + Cardinality(BlocksFrom(g, l)) = op.parts + Cardinality(BlocksFrom(f, at))
  <2>1. l # at
    BY <1>1, <1>2 DEF l
  <2>2. BlocksFrom(g, l) = BlocksFrom(f, l) /\ at \notin BlocksFrom(f, l)
    BY <1>4, <2>1
  <2>3. BlocksFrom(f, at) = BlocksFrom(f, l) \cup {at}
    BY <1>1, ReachedStep DEF l
  <2>4. IsFiniteSet(BlocksFrom(f, l)) /\ Cardinality(BlocksFrom(f, l)) \in Nat
    BY UsedFinite
  <2>5. Cardinality(BlocksFrom(f, at)) = Cardinality(BlocksFrom(f, l)) + 1
    BY <2>2, <2>3, <2>4, FS_AddElement
  <2>6. QED
    BY <1>3, <2>2, <2>4, <2>5
<1>9. QED
  BY <1>7, <1>8 DEF at, l

LEMMA DeleteImplements ==
    ASSUME MailInv, MailInv', read_delete_block
    PROVE  UNCHANGED Promise!letterVars
<1> DEFINE f == mail_file
           g == mail_file'
           op == mail_op
           at == op.at
           loose == LooseBlocks(Idle, torn)
<1>1. /\ op.op = "read" /\ at \in DOMAIN f /\ f[at].type # DELETED_BLOCK
      /\ mail_op' = [op EXCEPT !.at = Link(f[at]), !.parts = @ + 1]
      /\ delivered' = delivered
  BY DEF read_delete_block, Follows
<1>2. Wrote(f, g, [f[at] EXCEPT !.type = DELETED_BLOCK], at)
  BY DEF read_delete_block, write_to_file, Wrote, file_end_pos
<1>3. /\ f \in Seq(Block) /\ op \in ReadOp /\ letters_sent \in Nat
      /\ NumberedParts(f, letters_sent) /\ Linked(f, loose)
      /\ IndexedHeaders(f, mail_index, TakenBlocks(op))
      /\ Read(f, op, letters_sent)
  BY <1>1, ReadFacts
<1>4. at \in UsedBlocks(f)
  BY <1>1 DEF UsedBlocks
<1>5. /\ mail_op'.op = "read" /\ mail_op'.at = Link(f[at]) /\ mail_op'.parts = op.parts + 1
      /\ mail_op'.todo = op.todo /\ mail_op'.letter = op.letter /\ op.parts \in Nat
  BY <1>1, <1>3 DEF ReadOp
<1> HIDE DEF f, g, op, at, loose
<1>6. BlockGone(f, g, letters_sent, loose, mail_index, op)
  BY <1>1, <1>2, <1>3, <1>4, BlockDeleted DEF at
<1>7. /\ LettersIn(g, {}) = LettersIn(f, TakenBlocks(op))
      /\ op.parts + 1 + Cardinality(BlocksFrom(g, Link(f[at]))) = op.parts + Cardinality(BlocksFrom(f, at))
  BY <1>2, <1>3, <1>4, <1>6, DeletedLetters DEF at
<1>8. TakenBlocks(mail_op') = {}
  BY <1>5 DEF TakenBlocks
<1>9. WaitingIn(g, mail_op') = WaitingIn(f, op) /\ PostingIn(mail_op') = PostingIn(op)
  BY <1>1, <1>5, <1>7, <1>8 DEF WaitingIn, PostingIn
<1>10. GivingIn(g, mail_op') = GivingIn(f, op)
  BY <1>1, <1>5, <1>7 DEF GivingIn, at
<1>11. Waiting' = Waiting /\ BeingStored' = BeingStored /\ BeingRead' = BeingRead
  BY <1>9, <1>10, Mapped, MappedNext DEF f, g, op
<1>12. QED
  BY <1>1, <1>11, Unseen

LEMMA HangImplements ==
    ASSUME MailInv, MailInv', read_delete_hangs
    PROVE  UNCHANGED Promise!letterVars
<1>1. /\ mail_op.op = "read" /\ mail_op' = [mail_op EXCEPT !.op = "hung"]
      /\ mail_file' = mail_file /\ delivered' = delivered
  BY HangsAtDeleted DEF read_delete_hangs
<1>2. mail_op \in ReadOp
  BY <1>1, ReadFacts
<1>3. /\ mail_op'.op = "hung" /\ mail_op'.at = mail_op.at /\ mail_op'.parts = mail_op.parts
      /\ mail_op'.todo = mail_op.todo /\ mail_op'.letter = mail_op.letter
  BY <1>1, <1>2 DEF ReadOp
<1>4. TakenBlocks(mail_op') = TakenBlocks(mail_op)
  BY <1>1, <1>3 DEF TakenBlocks
<1>5. /\ WaitingIn(mail_file, mail_op') = WaitingIn(mail_file, mail_op)
      /\ PostingIn(mail_op') = PostingIn(mail_op)
      /\ GivingIn(mail_file, mail_op') = GivingIn(mail_file, mail_op)
  BY <1>1, <1>3, <1>4 DEF WaitingIn, PostingIn, GivingIn
<1>6. QED
  BY <1>1, <1>5, Mapped, MappedNext, Unseen

LEMMA PastEndImplements ==
    ASSUME MailInv, MailInv', read_delete_past_end
    PROVE  UNCHANGED Promise!letterVars
<1> DEFINE f == mail_file
           g == mail_file'
           op == mail_op
           at == op.at
           b == Data([id |-> 0, to |-> NoOne], 0, DELETED_BLOCK)
<1>1. /\ op.op = "read" /\ at = Len(f) + 1
      /\ mail_op' = [op EXCEPT !.at = LAST_BLOCK] \/ mail_op' = [op EXCEPT !.op = "hung"]
      /\ delivered' = delivered
  BY DEF read_delete_past_end, file_end_pos
<1>2. Wrote(f, g, b, at)
  BY DEF read_delete_past_end, write_to_file, Wrote, file_end_pos
<1>3. f \in Seq(Block) /\ op \in ReadOp /\ Read(f, op, letters_sent)
  BY <1>1, ReadFacts
<1>4. at \notin UsedBlocks(f) /\ at \in 1..(Len(f) + 1) /\ LAST_BLOCK \notin UsedBlocks(f)
  BY <1>1, <1>3, UsedNat, Bounds DEF UsedBlocks
<1>5. b \in Block /\ b.type = DELETED_BLOCK
  <2>1. 0 \in 0..MaxLetters /\ 0 \in 0..MaxParts
    BY Bounds
  <2>2. DELETED_BLOCK \in Int /\ LAST_BLOCK \in Int
    BY DEF DELETED_BLOCK, LAST_BLOCK
  <2>3. QED
    BY <2>1, <2>2 DEF Data, Block
<1>6. op.parts # 0 /\ TakenBlocks(op) = {}
  BY <1>3, <1>4 DEF Read, TakenBlocks
<1>7. /\ mail_op'.op \in {"read", "hung"} /\ mail_op'.at \in {at, LAST_BLOCK} /\ mail_op'.parts = op.parts
      /\ mail_op'.todo = op.todo /\ mail_op'.letter = op.letter
  <2>1. CASE mail_op' = [op EXCEPT !.at = LAST_BLOCK]
    BY <1>1, <1>3, <2>1 DEF ReadOp
  <2>2. CASE mail_op' = [op EXCEPT !.op = "hung"]
    BY <1>1, <1>3, <2>2 DEF ReadOp
  <2>3. QED
    BY <1>1, <2>1, <2>2
<1> HIDE DEF f, g, op, at, b
<1>8. UsedBlocks(g) = UsedBlocks(f) /\ \A n \in UsedBlocks(f) : g[n] = f[n]
  <2>1. /\ at \notin UsedBlocks(g)
        /\ \A n : n # at => (n \in UsedBlocks(g) <=> n \in UsedBlocks(f))
        /\ \A n \in UsedBlocks(f) : n # at => g[n] = f[n]
    BY <1>2, <1>3, <1>4, <1>5, WroteUsed
  <2>2. UsedBlocks(g) \subseteq UsedBlocks(f) /\ UsedBlocks(f) \subseteq UsedBlocks(g)
    BY <1>4, <2>1
  <2>3. QED
    BY <1>4, <2>1, <2>2
<1>9. ASSUME NEW n PROVE BlocksFrom(g, n) = BlocksFrom(f, n)
  <2>1. \A m \in BlocksFrom(f, n) : m \in UsedBlocks(g) /\ NextBlocks(g, m) = NextBlocks(f, m)
    BY <1>3, <1>8, UsedFinite DEF NextBlocks
  <2>2. QED
    BY <1>8, <2>1, ReachedSame
<1>10. LettersIn(g, {}) = LettersIn(f, {})
  <2>1. Headers(g, {}) = Headers(f, {}) /\ \A n \in Headers(f, {}) : g[n] = f[n]
    BY <1>8 DEF Headers
  <2>2. \A n \in Headers(f, {}) : LetterIn(g, n) = LetterIn(f, n)
    BY <1>9, <2>1 DEF LetterIn
  <2>3. QED
    BY <2>1, <2>2, SameLetters
<1>11. BlocksFrom(g, mail_op'.at) = {} /\ BlocksFrom(f, at) = {}
  BY <1>4, <1>7, <1>9, ReachedNone
<1>12. GivingIn(g, mail_op') = GivingIn(f, op)
  BY <1>1, <1>7, <1>11 DEF GivingIn, at
<1>13. TakenBlocks(mail_op') = {}
  BY <1>6, <1>7 DEF TakenBlocks
<1>14. WaitingIn(g, mail_op') = WaitingIn(f, op) /\ PostingIn(mail_op') = PostingIn(op)
  BY <1>1, <1>6, <1>7, <1>10, <1>13 DEF WaitingIn, PostingIn
<1>15. Waiting' = Waiting /\ BeingStored' = BeingStored /\ BeingRead' = BeingRead
  BY <1>12, <1>14, Mapped, MappedNext DEF f, g, op
<1>16. QED
  BY <1>1, <1>15, Unseen

LEMMA BootImplements ==
    ASSUME MailInv, MailInv', CrashAndBoot
    PROVE  Promise!Crash
<1> DEFINE f == mail_file
           op == mail_op
           W == LettersIn(f, {})
           loose == LooseBlocks(op, torn)
<1>1. mail_op' = Idle /\ mail_file' = f /\ delivered' = delivered
  BY DEF CrashAndBoot
<1>2. /\ f \in Seq(Block) /\ NumberedParts(f, letters_sent) /\ Linked(f, loose)
      /\ letters_sent \in 0..MaxLetters
  BY DEF MailInv, MailTyped, FileSound
<1>3. Waiting' = W /\ BeingStored' = {} /\ BeingRead' = {}
  <2>1. WaitingIn(f, Idle) = W /\ PostingIn(Idle) = {} /\ GivingIn(f, Idle) = {}
    BY OpFacts DEF WaitingIn, PostingIn, GivingIn, TakenBlocks
  <2>2. QED
    BY <1>1, <2>1, MappedNext
<1>4. Waiting = WaitingIn(f, op) /\ BeingStored = PostingIn(op) /\ BeingRead = GivingIn(f, op)
  BY Mapped
<1> HIDE DEF f, op, W, loose
<1>5. CASE op.op \notin {"store", "read", "hung"}
  <2>1. WaitingIn(f, op) = W
    BY <1>5 DEF WaitingIn, TakenBlocks, W
  <2>2. QED
    BY <1>1, <1>3, <1>4, <2>1 DEF Promise!Crash, Waiting
<1>6. CASE op.op = "store"
  <2>1. op \in StoreOp /\ Stored(f, free_list, op, letters_sent)
    BY <1>6, OpFacts DEF MailInv, op, f
  <2>2. /\ op.letter \in MailLetter /\ op.part < op.letter.parts
    BY <2>1 DEF Stored, StoreOp
  <2>3. PICK h \in UsedBlocks(f) :
          /\ f[h].part = 1 /\ f[h].letter = op.letter.id /\ f[h].to = op.letter.to
          /\ Cardinality(BlocksFrom(f, h)) = op.part
    BY <2>1 DEF Stored
  <2>4. h \in Headers(f, {})
    BY <1>2, <2>3 DEF Headers, NumberedParts, NumberedBlock
  <2>5. LetterIn(f, h) \in MailLetter
    BY <1>2, <2>4, LetterTyped
  <2>6. LetterIn(f, h).id = op.letter.id /\ LetterIn(f, h).to = op.letter.to /\ LetterIn(f, h).parts = op.part
    BY <2>3 DEF LetterIn
  <2>7. op.part <= op.letter.parts
    BY <2>1, <2>2 DEF StoreOp, MailLetter
  <2>8. WaitingIn(f, op) = {l \in W : l.id # op.letter.id} /\ PostingIn(op) = {op.letter}
    BY <1>6 DEF WaitingIn, PostingIn, TakenBlocks, W
  <2>9. ASSUME NEW l \in W, l.id = op.letter.id PROVE l = LetterIn(f, h)
    <3>1. PICK n \in Headers(f, {}) : l = LetterIn(f, n)
      BY DEF LettersIn, W
    <3>2. f[n].letter = f[h].letter /\ n \in UsedBlocks(f) /\ f[n].part = 1
      BY <1>2, <2>3, <2>9, <3>1, LetterTyped DEF LetterIn
    <3>3. n = h
      BY <1>2, <2>3, <3>2 DEF NumberedParts
    <3>4. QED
      BY <3>1, <3>3
  <2>10. LetterIn(f, h) \in W
    BY <2>4 DEF LettersIn, W
  <2>11. W = Waiting \cup {LetterIn(f, h)}
    BY <1>4, <2>8, <2>9, <2>10
  <2>12. \E l \in BeingStored, k \in MailLetter :
           k.id = l.id /\ k.to = l.to /\ k.parts <= l.parts /\ Waiting' = Waiting \cup {k}
    BY <1>3, <1>4, <2>5, <2>6, <2>7, <2>8, <2>11
  <2>13. QED
    BY <1>1, <1>3, <2>12 DEF Promise!Crash, Waiting
<1>7. CASE op.op \in {"read", "hung"}
  <2>1. op \in ReadOp /\ Read(f, op, letters_sent)
    BY <1>7, OpFacts DEF MailInv, op, f
  <2>2. PostingIn(op) = {} /\ WaitingIn(f, op) = LettersIn(f, TakenBlocks(op))
    BY <1>7 DEF PostingIn, WaitingIn
  <2>3. CASE op.parts # 0
    <3>1. WaitingIn(f, op) = W
      BY <2>2, <2>3 DEF TakenBlocks, W
    <3>2. QED
      BY <1>1, <1>3, <1>4, <3>1 DEF Promise!Crash, Waiting
  <2>4. CASE op.parts = 0
    <3>1. /\ op.at \in UsedBlocks(f) /\ f[op.at].to = op.todo[1] /\ f[op.at].letter = op.letter
          /\ f[op.at].part = 1 /\ Len(op.todo) > 0 /\ op.todo \in Seq(Addressees)
      BY <2>1, <2>4 DEF Read, ReadOp
    <3>2. op.at \in Headers(f, {})
      BY <1>2, <3>1 DEF Headers, NumberedParts, NumberedBlock
    <3>3. TakenBlocks(op) = {op.at}
      BY <1>7, <2>4 DEF TakenBlocks
    <3>4. WaitingIn(f, op) = W \ {LetterIn(f, op.at)} /\ LetterIn(f, op.at) \in W
      BY <1>2, <2>2, <3>2, <3>3, LettersLess DEF W
    <3>5. GivingIn(f, op) = {LetterIn(f, op.at)}
      <4>1. Head(op.todo) = op.todo[1]
        BY <3>1
      <4>2. op.parts + Cardinality(BlocksFrom(f, op.at)) = Cardinality(BlocksFrom(f, op.at))
        BY <1>2, <2>4, UsedFinite
      <4>3. QED
        BY <1>7, <3>1, <4>1, <4>2 DEF GivingIn, LetterIn
    <3>6. Waiting' = Waiting \cup BeingRead
      BY <1>3, <1>4, <3>4, <3>5
    <3>7. QED
      BY <1>1, <1>3, <3>6 DEF Promise!Crash, Waiting
  <2>5. QED
    BY <2>3, <2>4
<1>8. QED
  BY <1>5, <1>6, <1>7

LEMMA MailImplementsStep ==
    ASSUME MailInv, MailInv', [MailNext]_mailVars, ~mixed'
    PROVE  [Promise!LettersNext]_(Promise!letterVars)
<1>1. ASSUME UNCHANGED <<mail_file, mail_index, mail_op, delivered>>
      PROVE  UNCHANGED Promise!letterVars
  <2>1. Waiting' = Waiting /\ BeingStored' = BeingStored /\ BeingRead' = BeingRead
    BY <1>1, Mapped, MappedNext
  <2>2. QED
    BY <1>1, <2>1, Unseen
<1>2. CASE UNCHANGED mailVars
  BY <1>1, <1>2 DEF mailVars
<1>3. ASSUME NEW p \in Addressees, NEW to \in Addressees, postmaster_send_mail(p, to)
      PROVE  UNCHANGED Promise!letterVars
  BY <1>1, <1>3 DEF postmaster_send_mail
<1>4. ASSUME NEW p \in Addressees, AbortMail(p)
      PROVE  UNCHANGED Promise!letterVars
  BY <1>1, <1>4 DEF AbortMail
<1>5. ASSUME NEW p \in Addressees, postmaster_receive_mail(p)
      PROVE  Promise!BeginGive \/ UNCHANGED Promise!letterVars
  <2>1. <<p>> \in Seq(Addressees)
    OBVIOUS
  <2>2. QED
    BY <1>5, <2>1, ReceiveImplements DEF postmaster_receive_mail
<1>6. ASSUME NEW todo \in SetToAllKPermutations(Addressees), pmail_check(todo)
      PROVE  Promise!BeginGive \/ UNCHANGED Promise!letterVars
  BY <1>6, KPermutations, ReceiveImplements DEF pmail_check
<1>7. QED
  BY <1>2, <1>3, <1>4, <1>5, <1>6, HeaderImplements, LinkImplements, DataImplements, DeleteImplements,
     GivenImplements, HangImplements, PastEndImplements, BootImplements
     DEF MailNext, Promise!LettersNext

LEMMA MailImplementsInit ==
    ASSUME MailInit
    PROVE  Promise!LettersInit
<1>1. mail_index = [p \in Addressees |-> <<>>] /\ mail_op = Idle /\ delivered = {} /\ ~mixed
  BY DEF MailInit
<1>2. Indexed = {}
  BY <1>1 DEF Indexed
<1>3. BeingStored = {} /\ BeingRead = {}
  BY <1>1, OpFacts DEF BeingStored, BeingRead
<1>4. QED
  BY <1>1, <1>2, <1>3 DEF Promise!LettersInit

(* Once a letter has taken the block that a torn one leads to, it stays so. *)
LEMMA MixedStays ==
    ASSUME mixed, [MailNext]_mailVars
    PROVE  mixed'
BY DEF MailNext, mailVars, postmaster_send_mail, AbortMail, store_mail_header, store_mail_link,
       store_mail_data, postmaster_receive_mail, pmail_check, read_delete_block, read_delete_end,
       read_delete_hangs, read_delete_past_end, CrashAndBoot

(* Whatever store_mail, read_delete, the heartbeat and crashes between any *)
(* two of their writes do, a block has one use, and the file is the box    *)
(* that Letters describes: letters are handed over whole and at most once, *)
(* and a crash spoils only the one that is being written or read           *)
(* (mail.c 86-123, 289-374, 453-550).  It holds until a letter takes the   *)
(* block that a torn one leads to: one whose link was written before a     *)
(* crash, and whose next block was not (373-380).                          *)
THEOREM MailAlwaysSound == MailSpec => MailSound
<1>1. MailInit => mixed \/ MailInv
  BY MailStarts
<1>2. (mixed \/ MailInv) /\ [MailNext]_mailVars => (mixed \/ MailInv)'
  BY MailStep, MixedStays
<1>3. MailInit => Promise!LettersInit
  BY MailImplementsInit
<1>4. (mixed \/ MailInv) /\ (mixed \/ MailInv)' /\ [MailNext]_mailVars
        => [Promise!LettersNext \/ mixed']_(Promise!letterVars)
  BY MailImplementsStep, MixedStays
<1>5. mixed \/ MailInv => BlocksHaveOneUse
  BY OneUse DEF BlocksHaveOneUse
<1>6. QED
  BY <1>1, <1>2, <1>3, <1>4, <1>5, PTL DEF MailSpec, MailSound, ImplementsLetters, Promise!LettersSpec

-----------------------------------------------------------------------------
(* The binary search of real_room, real_mobile and real_object: a number   *)
(* that it returns is the place of the number that was asked for, and in a *)
(* table in order it finds every number.                                   *)
Ascending(s) == \A i, j \in 1..Len(s) : i < j => s[i] < s[j]

BinaryStep(tab, n, f, span) ==
    LET mid == Middle(span)
    IN IF tab[mid] = n THEN mid
       ELSE IF span[1] >= span[2] THEN 0
       ELSE IF tab[mid] > n THEN f[<<span[1], mid - 1>>] ELSE f[<<mid + 1, span[2]>>]

Searches(tab, n, f) == \A span \in Spans(tab) : f[span] = BinaryStep(tab, n, f, span)

LEMMA SearchOf ==
    ASSUME NEW tab, NEW n
    PROVE  real_number(tab, n)
             = (CHOOSE f : f = [span \in Spans(tab) |-> BinaryStep(tab, n, f, span)])[<<1, Len(tab)>>]
BY DEF real_number, BinaryStep

LEMMA SpanFacts ==
    ASSUME NEW tab \in Seq(Nat), tab # <<>>, NEW span \in Spans(tab)
    PROVE  /\ span[1] \in 1..(Len(tab) + 1) /\ span[2] \in 0..Len(tab)
           /\ Middle(span) \in 1..Len(tab)
           /\ span[1] < span[2] =>
                /\ span[1] <= Middle(span) /\ Middle(span) < span[2]
                /\ <<span[1], Middle(span) - 1>> \in Spans(tab)
                /\ <<Middle(span) + 1, span[2]>> \in Spans(tab)
           /\ <<1, Len(tab)>> \in Spans(tab)
           /\ span[1] \in Int /\ span[2] \in Int /\ Middle(span) \in Int /\ Len(tab) \in Nat
           /\ span[2] - span[1] < Len(tab) + 1
<1> DEFINE b == span[1]
           t == span[2]
           L == Len(tab)
<1>1. L \in Nat /\ L # 0
  BY LenProperties, EmptySeq
<1>2. b \in 1..(L + 1) /\ t \in 0..L
  BY DEF Spans
<1>3. Middle(span) = IF t = 0 THEN 1 ELSE (b + t) \div 2
  BY DEF Middle
<1>4. Spans(tab) = (1..(L + 1)) \X (0..L)
  BY DEF Spans
<1> HIDE DEF b, t, L
<1>5. Middle(span) \in 1..L
  <2>1. CASE t = 0
    BY <1>1, <1>3, <2>1
  <2>2. CASE t # 0
    <3>1. (b + t) \div 2 \in 1..L
      BY <1>1, <1>2, <2>2
    <3>2. QED
      BY <1>3, <2>2, <3>1
  <2>3. QED
    BY <2>1, <2>2
<1>6. ASSUME b < t PROVE b <= Middle(span) /\ Middle(span) < t
  <2>1. t # 0
    BY <1>2, <1>6
  <2>2. b <= (b + t) \div 2 /\ (b + t) \div 2 < t
    BY <1>2, <1>6
  <2>3. QED
    BY <1>3, <2>1, <2>2
<1>7. ASSUME b < t PROVE Middle(span) - 1 \in 0..L /\ Middle(span) + 1 \in 1..(L + 1)
  BY <1>1, <1>2, <1>5
<1>8. b < t => <<b, Middle(span) - 1>> \in Spans(tab) /\ <<Middle(span) + 1, t>> \in Spans(tab)
  BY <1>2, <1>4, <1>7
<1>9. <<1, L>> \in Spans(tab)
  BY <1>1, <1>4
<1>10. b \in Int /\ t \in Int /\ Middle(span) \in Int /\ t - b < L + 1
  BY <1>1, <1>2, <1>5
<1>11. QED
  BY <1>1, <1>2, <1>5, <1>6, <1>8, <1>9, <1>10 DEF b, t, L

LEMMA StepOnly ==
    ASSUME NEW tab \in Seq(Nat), tab # <<>>, NEW n, NEW f, NEW g, NEW span \in Spans(tab), NEW m \in Nat,
           span[2] - span[1] < m + 1,
           \A s \in Spans(tab) : s[2] - s[1] < m => f[s] = g[s]
    PROVE  BinaryStep(tab, n, f, span) = BinaryStep(tab, n, g, span)
<1> DEFINE mid == Middle(span)
<1>1. CASE span[1] >= span[2]
  BY <1>1, SpanFacts DEF BinaryStep
<1>2. CASE span[1] < span[2]
  <2>1. /\ <<span[1], mid - 1>> \in Spans(tab) /\ <<mid + 1, span[2]>> \in Spans(tab)
        /\ span[1] <= mid /\ mid < span[2] /\ mid \in Int /\ span[1] \in Int /\ span[2] \in Int
    BY <1>2, SpanFacts
  <2>2. (mid - 1) - span[1] < m /\ span[2] - (mid + 1) < m
    BY <2>1
  <2>3. f[<<span[1], mid - 1>>] = g[<<span[1], mid - 1>>] /\ f[<<mid + 1, span[2]>>] = g[<<mid + 1, span[2]>>]
    BY <2>1, <2>2
  <2>4. QED
    BY <1>2, <2>1, <2>3 DEF BinaryStep
<1>3. span[1] \in Int /\ span[2] \in Int
  BY SpanFacts
<1>4. QED
  BY <1>1, <1>2, <1>3

LEMMA SearchExists ==
    ASSUME NEW tab \in Seq(Nat), tab # <<>>, NEW n
    PROVE  \E f : f = [span \in Spans(tab) |-> BinaryStep(tab, n, f, span)]
<1> DEFINE To(m, f) == \A s \in Spans(tab) : s[2] - s[1] < m => f[s] = BinaryStep(tab, n, f, s)
           P == {m \in Nat : \E f : To(m, f)}
           Next(f) == [s \in Spans(tab) |-> BinaryStep(tab, n, f, s)]
<1>1. ASSUME NEW m \in Nat, NEW f, To(m, f) PROVE To(m + 1, Next(f))
  <2>1. \A s \in Spans(tab) : s[2] - s[1] < m => f[s] = Next(f)[s]
    BY <1>1
  <2> HIDE DEF To
  <2>2. ASSUME NEW s \in Spans(tab), s[2] - s[1] < m + 1
        PROVE  BinaryStep(tab, n, f, s) = BinaryStep(tab, n, Next(f), s)
    <3> HIDE DEF Next
    <3>1. QED
      BY <2>1, <2>2, StepOnly
  <2>3. \A s \in Spans(tab) : Next(f)[s] = BinaryStep(tab, n, f, s)
    OBVIOUS
  <2> HIDE DEF Next
  <2>4. QED
    BY <2>2, <2>3 DEF To
<1>2. 0 \in P
  <2> DEFINE f0 == Next(<<>>)
  <2>1. ASSUME NEW s \in Spans(tab), s[2] - s[1] < 0
        PROVE  f0[s] = BinaryStep(tab, n, f0, s)
    <3>0. s[1] \in Int /\ s[2] \in Int
      BY SpanFacts
    <3>1. s[1] >= s[2]
      BY <2>1, <3>0
    <3>2. f0[s] = BinaryStep(tab, n, <<>>, s)
      OBVIOUS
    <3> HIDE DEF f0
    <3>3. QED
      BY <3>1, <3>2 DEF BinaryStep
  <2>2. To(0, f0)
    BY <2>1
  <2> HIDE DEF f0, To
  <2>3. QED
    BY <2>2
<1>3. \A m \in P : m + 1 \in P
  <2> HIDE DEF To, Next
  <2>1. QED
    BY <1>1
<1>4. P = Nat
  <2>1. P \in SUBSET Nat
    OBVIOUS
  <2> HIDE DEF P
  <2>2. QED
    BY <1>2, <1>3, <2>1, NatSetInduction
<1>5. PICK f : To(Len(tab) + 1, f)
  <2>1. Len(tab) + 1 \in Nat
    BY LenProperties
  <2> HIDE DEF To
  <2>2. QED
    BY <1>4, <2>1
<1>6. \A s \in Spans(tab) : s[2] - s[1] < Len(tab) + 1
  <2>1. ASSUME NEW s \in Spans(tab) PROVE s[2] - s[1] < Len(tab) + 1
    BY SpanFacts
  <2>2. QED
    BY <2>1
<1>7. \A s \in Spans(tab) : f[s] = BinaryStep(tab, n, f, s)
  BY <1>5, <1>6
<1> DEFINE g == Next(f)
<1>8. \A s \in Spans(tab) : g[s] = f[s]
  BY <1>7
<1>9. \A s \in Spans(tab) : BinaryStep(tab, n, f, s) = BinaryStep(tab, n, g, s)
  <2> HIDE DEF g
  <2>1. ASSUME NEW s \in Spans(tab) PROVE BinaryStep(tab, n, f, s) = BinaryStep(tab, n, g, s)
    <3>1. Len(tab) + 1 \in Nat /\ s[2] - s[1] < Len(tab) + 1 + 1
      <4>1. s[1] \in Int /\ s[2] \in Int /\ Len(tab) \in Nat /\ s[2] - s[1] < Len(tab) + 1
        BY SpanFacts
      <4>2. QED
        BY <4>1
    <3>2. QED
      BY <1>8, <3>1, StepOnly
  <2>2. QED
    BY <2>1
<1>10. g = [s \in Spans(tab) |-> BinaryStep(tab, n, g, s)]
  <2>1. g = [s \in Spans(tab) |-> BinaryStep(tab, n, f, s)]
    OBVIOUS
  <2> HIDE DEF g
  <2>2. QED
    BY <1>9, <2>1
<1> HIDE DEF g
<1>11. QED
  BY <1>10

LEMMA SearchFunction ==
    ASSUME NEW tab \in Seq(Nat), tab # <<>>, NEW n
    PROVE  \E f : Searches(tab, n, f) /\ real_number(tab, n) = f[<<1, Len(tab)>>]
<1> DEFINE f == CHOOSE f : f = [span \in Spans(tab) |-> BinaryStep(tab, n, f, span)]
<1>1. f = [span \in Spans(tab) |-> BinaryStep(tab, n, f, span)]
  BY SearchExists
<1>2. real_number(tab, n) = f[<<1, Len(tab)>>]
  BY SearchOf
<1> HIDE DEF f
<1>3. Searches(tab, n, f)
  BY <1>1 DEF Searches
<1>4. QED
  BY <1>2, <1>3

LEMMA SearchSound ==
    ASSUME NEW tab \in Seq(Nat), tab # <<>>, NEW n, NEW f, Searches(tab, n, f), NEW span \in Spans(tab)
    PROVE  f[span] \in 0..Len(tab) /\ (f[span] # 0 => tab[f[span]] = n)
<1> DEFINE Right(s) == f[s] \in 0..Len(tab) /\ (f[s] # 0 => tab[f[s]] = n)
           P == {m \in Nat : \A s \in Spans(tab) : s[2] - s[1] < m => Right(s)}
<1>1. ASSUME NEW s \in Spans(tab), s[1] >= s[2] PROVE Right(s)
  <2>1. f[s] = BinaryStep(tab, n, f, s) /\ Middle(s) \in 1..Len(tab) /\ Middle(s) \in Int /\ Len(tab) \in Nat
    BY SpanFacts DEF Searches
  <2>2. f[s] = IF tab[Middle(s)] = n THEN Middle(s) ELSE 0
    BY <1>1, <2>1 DEF BinaryStep
  <2>3. QED
    BY <2>1, <2>2
<1>2. ASSUME NEW s \in Spans(tab), s[1] < s[2],
             Right(<<s[1], Middle(s) - 1>>), Right(<<Middle(s) + 1, s[2]>>)
      PROVE  Right(s)
  <2>1. f[s] = BinaryStep(tab, n, f, s) /\ Middle(s) \in 1..Len(tab) /\ Middle(s) \in Int /\ Len(tab) \in Nat
    BY SpanFacts DEF Searches
  <2>2. \/ f[s] = Middle(s) /\ tab[Middle(s)] = n
        \/ f[s] = f[<<s[1], Middle(s) - 1>>]
        \/ f[s] = f[<<Middle(s) + 1, s[2]>>]
        \/ f[s] = 0
    BY <2>1 DEF BinaryStep
  <2>3. QED
    BY <1>2, <2>1, <2>2
<1>3. 0 \in P
  <2>1. ASSUME NEW s \in Spans(tab), s[2] - s[1] < 0 PROVE s[1] >= s[2]
    <3>1. s[1] \in Int /\ s[2] \in Int
      BY SpanFacts
    <3>2. QED
      BY <2>1, <3>1
  <2> HIDE DEF Right
  <2>2. QED
    BY <1>1, <2>1
<1>4. ASSUME NEW m \in P PROVE m + 1 \in P
  <2> HIDE DEF Right
  <2>1. SUFFICES ASSUME NEW s \in Spans(tab), s[2] - s[1] < m + 1 PROVE Right(s)
    OBVIOUS
  <2>2. CASE s[1] < s[2]
    <3>1. /\ <<s[1], Middle(s) - 1>> \in Spans(tab) /\ <<Middle(s) + 1, s[2]>> \in Spans(tab)
          /\ s[1] <= Middle(s) /\ Middle(s) < s[2] /\ Middle(s) \in Int /\ s[1] \in Int /\ s[2] \in Int
      BY <2>2, SpanFacts
    <3>2. Middle(s) - 1 - s[1] < m /\ s[2] - (Middle(s) + 1) < m
      BY <2>1, <3>1
    <3>3. Right(<<s[1], Middle(s) - 1>>) /\ Right(<<Middle(s) + 1, s[2]>>)
      BY <1>4, <3>1, <3>2
    <3>4. QED
      BY <1>2, <2>2, <3>3
  <2>3. CASE s[1] >= s[2]
    BY <1>1, <2>3
  <2>4. s[1] \in Int /\ s[2] \in Int
    BY SpanFacts
  <2>5. QED
    BY <2>2, <2>3, <2>4
<1>5. P = Nat
  <2>1. P \in SUBSET Nat
    OBVIOUS
  <2> HIDE DEF P
  <2>2. QED
    BY <1>3, <1>4, <2>1, NatSetInduction
<1>6. Len(tab) + 1 \in P /\ span[2] - span[1] < Len(tab) + 1
  <2>1. Len(tab) \in Nat /\ span[2] - span[1] < Len(tab) + 1
    BY SpanFacts
  <2> HIDE DEF P
  <2>2. QED
    BY <1>5, <2>1
<1>7. QED
  BY <1>6

LEMMA SearchFinds ==
    ASSUME NEW tab \in Seq(Nat), Ascending(tab), NEW i \in 1..Len(tab), NEW f, Searches(tab, tab[i], f),
           NEW span \in Spans(tab), span[1] <= i, i <= span[2]
    PROVE  f[span] = i
<1> DEFINE n == tab[i]
           Right(s) == s[1] <= i /\ i <= s[2] => f[s] = i
           P == {m \in Nat : \A s \in Spans(tab) : s[2] - s[1] < m => Right(s)}
<1>0. tab # <<>> /\ Len(tab) \in Nat /\ i \in Int
  BY LenProperties, EmptySeq
<1>1. ASSUME NEW s \in Spans(tab), s[2] - s[1] < 1 PROVE Right(s)
  <2>1. SUFFICES ASSUME s[1] <= i, i <= s[2] PROVE f[s] = i
    OBVIOUS
  <2>2. s[1] \in 1..(Len(tab) + 1) /\ s[2] \in 0..Len(tab) /\ s[1] \in Int /\ s[2] \in Int
    BY <1>0, SpanFacts
  <2>3. s[1] = i /\ s[2] = i /\ s[2] # 0
    BY <1>0, <1>1, <2>1, <2>2
  <2>4. Middle(s) = (i + i) \div 2
    BY <2>3 DEF Middle
  <2>5. Middle(s) = i
    BY <1>0, <2>4
  <2>6. f[s] = BinaryStep(tab, n, f, s)
    BY DEF Searches
  <2>7. QED
    BY <2>5, <2>6 DEF BinaryStep
<1>2. ASSUME NEW s \in Spans(tab), s[1] < s[2],
             Right(<<s[1], Middle(s) - 1>>), Right(<<Middle(s) + 1, s[2]>>)
      PROVE  Right(s)
  <2>1. SUFFICES ASSUME s[1] <= i, i <= s[2] PROVE f[s] = i
    OBVIOUS
  <2> DEFINE mid == Middle(s)
  <2>2. /\ f[s] = BinaryStep(tab, n, f, s) /\ mid \in 1..Len(tab) /\ mid \in Int /\ Len(tab) \in Nat
    BY <1>0, SpanFacts DEF Searches
  <2>3. f[s] = IF tab[mid] = n THEN mid
               ELSE IF tab[mid] > n THEN f[<<s[1], mid - 1>>] ELSE f[<<mid + 1, s[2]>>]
    <3>1. s[1] \in Int /\ s[2] \in Int
      BY <1>0, SpanFacts
    <3>2. QED
      BY <1>2, <2>2, <3>1 DEF BinaryStep
  <2> HIDE DEF mid
  <2>4. s[1] \in Int /\ s[2] \in Int /\ n \in Nat /\ tab[mid] \in Nat
    BY <1>0, <2>2, SpanFacts, ElementOfSeq
  <2>5. CASE mid = i
    BY <2>3, <2>5
  <2>6. CASE mid < i
    <3>1. tab[mid] < n
      BY <2>2, <2>6 DEF Ascending
    <3>2. mid + 1 <= i
      BY <1>0, <2>2, <2>6
    <3>3. f[<<mid + 1, s[2]>>] = i
      BY <1>2, <2>1, <3>2 DEF mid
    <3>4. tab[mid] # n /\ ~ (tab[mid] > n)
      BY <2>4, <3>1
    <3>5. QED
      BY <2>3, <3>3, <3>4
  <2>7. CASE i < mid
    <3>1. n < tab[mid]
      BY <2>2, <2>7 DEF Ascending
    <3>2. i <= mid - 1
      BY <1>0, <2>2, <2>7
    <3>3. f[<<s[1], mid - 1>>] = i
      BY <1>2, <2>1, <3>2 DEF mid
    <3>4. tab[mid] # n /\ tab[mid] > n
      BY <2>4, <3>1
    <3>5. QED
      BY <2>3, <3>3, <3>4
  <2>8. QED
    BY <1>0, <2>2, <2>5, <2>6, <2>7
<1>3. 0 \in P
  <2>1. ASSUME NEW s \in Spans(tab), s[2] - s[1] < 0 PROVE s[2] - s[1] < 1
    <3>1. s[1] \in Int /\ s[2] \in Int
      BY <1>0, SpanFacts
    <3>2. QED
      BY <2>1, <3>1
  <2> HIDE DEF Right
  <2>2. QED
    BY <1>1, <2>1
<1>4. ASSUME NEW m \in P PROVE m + 1 \in P
  <2> HIDE DEF Right
  <2>1. SUFFICES ASSUME NEW s \in Spans(tab), s[2] - s[1] < m + 1 PROVE Right(s)
    OBVIOUS
  <2>0. s[1] \in Int /\ s[2] \in Int
    BY <1>0, SpanFacts
  <2>2. CASE s[1] < s[2]
    <3>1. /\ <<s[1], Middle(s) - 1>> \in Spans(tab) /\ <<Middle(s) + 1, s[2]>> \in Spans(tab)
          /\ s[1] <= Middle(s) /\ Middle(s) < s[2] /\ Middle(s) \in Int
      BY <1>0, <2>2, SpanFacts
    <3>2. Middle(s) - 1 - s[1] < m /\ s[2] - (Middle(s) + 1) < m
      BY <2>0, <2>1, <3>1
    <3>3. Right(<<s[1], Middle(s) - 1>>) /\ Right(<<Middle(s) + 1, s[2]>>)
      BY <1>4, <3>1, <3>2
    <3>4. QED
      BY <1>2, <2>2, <3>3
  <2>3. CASE s[1] >= s[2]
    <3>1. s[2] - s[1] < 1
      BY <2>0, <2>3
    <3>2. QED
      BY <1>1, <3>1
  <2>4. QED
    BY <2>0, <2>2, <2>3
<1>5. P = Nat
  <2>1. P \in SUBSET Nat
    OBVIOUS
  <2> HIDE DEF P
  <2>2. QED
    BY <1>3, <1>4, <2>1, NatSetInduction
<1>6. Len(tab) + 1 \in P /\ span[2] - span[1] < Len(tab) + 1
  <2>1. Len(tab) \in Nat /\ span[2] - span[1] < Len(tab) + 1
    BY <1>0, SpanFacts
  <2> HIDE DEF P
  <2>2. QED
    BY <1>5, <2>1
<1>7. QED
  BY <1>6

LEMMA RealNumber ==
    ASSUME NEW tab \in Seq(Nat), tab # <<>>, NEW n
    PROVE  /\ real_number(tab, n) \in 0..Len(tab)
           /\ real_number(tab, n) # 0 => tab[real_number(tab, n)] = n
<1>1. PICK f : Searches(tab, n, f) /\ real_number(tab, n) = f[<<1, Len(tab)>>]
  BY SearchFunction
<1>2. <<1, Len(tab)>> \in Spans(tab)
  <2>1. Len(tab) \in Nat
    BY LenProperties
  <2>2. QED
    BY <2>1 DEF Spans
<1>3. QED
  BY <1>1, <1>2, SearchSound

LEMMA RealFinds ==
    ASSUME NEW tab \in Seq(Nat), Ascending(tab), NEW i \in 1..Len(tab)
    PROVE  real_number(tab, tab[i]) = i
<1>1. tab # <<>> /\ Len(tab) \in Nat /\ i \in Int
  BY LenProperties, EmptySeq
<1>2. PICK f : Searches(tab, tab[i], f) /\ real_number(tab, tab[i]) = f[<<1, Len(tab)>>]
  BY <1>1, SearchFunction
<1> DEFINE span == <<1, Len(tab)>>
<1>3. span \in Spans(tab) /\ span[1] <= i /\ i <= span[2]
  BY <1>1 DEF Spans
<1> HIDE DEF span
<1>4. f[span] = i
  BY <1>2, <1>3, SearchFinds
<1>5. QED
  BY <1>2, <1>4 DEF span

-----------------------------------------------------------------------------
(* What an insertion does to a table.                                      *)
Fills(t, s, p, v) ==
    /\ s \in Seq(Nat) /\ p \in 1..(Len(s) + 1)
    /\ t \in Seq(Nat) /\ Len(t) = Len(s) + 1 /\ t[p] = v
    /\ \A j \in 1..Len(s) : t[Up(j, p)] = s[j] /\ Up(j, p) \in 1..(Len(s) + 1) /\ Up(j, p) # p
    /\ \A i \in 1..(Len(s) + 1) : i # p => \E j \in 1..Len(s) : i = Up(j, p)

LEMMA InsertedFills ==
    ASSUME NEW s \in Seq(Nat), NEW p \in 1..(Len(s) + 1), NEW v \in Nat
    PROVE  Fills(InsertAt(s, p, v), s, p, v)
<1> DEFINE a == SubSeq(s, 1, p - 1)
           b == SubSeq(s, p, Len(s))
           c == a \o <<v>>
           t == InsertAt(s, p, v)
<1>0. Len(s) \in Nat /\ p \in Int /\ 1 <= p /\ p <= Len(s) + 1
  BY LenProperties
<1>1. /\ a \in Seq(Nat) /\ Len(a) = p - 1 /\ \A i \in 1..(p - 1) : a[i] = s[i]
      /\ b \in Seq(Nat) /\ Len(b) = Len(s) - p + 1 /\ \A i \in 1..(Len(s) - p + 1) : b[i] = s[p + i - 1]
  BY <1>0
<1>2. t = c \o b
  BY DEF InsertAt
<1> HIDE DEF a, b
<1>3. c \in Seq(Nat) /\ Len(c) = p
  BY <1>0, <1>1
<1>4. \A i \in 1..p : c[i] = IF i = p THEN v ELSE s[i]
  BY <1>0, <1>1
<1> HIDE DEF c, t
<1>5. t \in Seq(Nat) /\ Len(t) = Len(s) + 1
  BY <1>0, <1>1, <1>2, <1>3
<1>6. \A i \in 1..(Len(s) + 1) : t[i] = IF i < p THEN s[i] ELSE IF i = p THEN v ELSE s[i - 1]
  <2>1. SUFFICES ASSUME NEW i \in 1..(Len(s) + 1)
                 PROVE  t[i] = IF i < p THEN s[i] ELSE IF i = p THEN v ELSE s[i - 1]
    OBVIOUS
  <2>2. CASE i <= p
    <3>1. i \in 1..p /\ t[i] = c[i]
      BY <1>0, <1>1, <1>2, <1>3, <2>2
    <3>2. QED
      BY <1>0, <1>4, <2>2, <3>1
  <2>3. CASE i > p
    <3>1. i - p \in 1..(Len(s) - p + 1) /\ t[i] = b[i - p]
      <4>1. i - p \in 1..(Len(s) - p + 1) /\ i - p \in 1..Len(b) /\ i = Len(c) + (i - p)
        BY <1>0, <1>1, <1>3, <2>3
      <4>2. b \in Seq(Nat) /\ c \in Seq(Nat) /\ t = c \o b
        BY <1>1, <1>2, <1>3
      <4>3. \A j \in 1..Len(b) : (c \o b)[Len(c) + j] = b[j]
        BY <4>2, LenProperties
      <4> HIDE DEF t
      <4>4. QED
        BY <4>1, <4>2, <4>3
    <3>2. p + (i - p) - 1 = i - 1
      BY <1>0
    <3>3. b[i - p] = s[i - 1]
      BY <1>1, <3>1, <3>2
    <3>4. QED
      BY <1>0, <2>3, <3>1, <3>3
  <2>4. QED
    BY <1>0, <2>2, <2>3

<1>7. t[p] = v
  BY <1>0, <1>6
<1>8. ASSUME NEW j \in 1..Len(s) PROVE t[Up(j, p)] = s[j] /\ Up(j, p) \in 1..(Len(s) + 1) /\ Up(j, p) # p
  <2>1. Up(j, p) = IF j >= p THEN j + 1 ELSE j
    BY DEF Up
  <2>2. QED
    BY <1>0, <1>6, <2>1
<1>9. ASSUME NEW i \in 1..(Len(s) + 1), i # p PROVE \E j \in 1..Len(s) : i = Up(j, p)
  <2>1. CASE i < p
    BY <1>0, <2>1 DEF Up
  <2>2. CASE i > p
    <3>1. i - 1 \in 1..Len(s) /\ i - 1 >= p /\ i = (i - 1) + 1
      BY <1>0, <2>2
    <3>2. QED
      BY <3>1 DEF Up
  <2>3. QED
    BY <1>0, <1>9, <2>1, <2>2
<1>10. QED
  BY <1>0, <1>5, <1>7, <1>8, <1>9 DEF t, Fills

LEMMA Greatest ==
    ASSUME NEW n \in Nat, NEW S \in SUBSET (1..n), S # {}
    PROVE  \E m \in S : \A i \in S : i <= m
<1> DEFINE Has(T) == \E m \in T : \A i \in T : i <= m
           P == {k \in Nat : \A T \in SUBSET (1..k) : T # {} => Has(T)}
<1>1. 0 \in P
  <2>1. 1..0 = {}
    OBVIOUS
  <2>2. \A T \in SUBSET (1..0) : T = {}
    BY <2>1
  <2>3. QED
    BY <2>2
<1>2. ASSUME NEW k \in P PROVE k + 1 \in P
  <2>1. SUFFICES ASSUME NEW T \in SUBSET (1..(k + 1)), T # {} PROVE Has(T)
    OBVIOUS
  <2>2. CASE k + 1 \in T
    BY <2>2
  <2>3. CASE k + 1 \notin T
    <3>1. T \in SUBSET (1..k)
      BY <2>3
    <3>2. QED
      BY <2>1, <3>1
  <2>4. QED
    BY <2>2, <2>3
<1>3. P = Nat
  <2>1. P \in SUBSET Nat
    OBVIOUS
  <2> HIDE DEF P
  <2>2. QED
    BY <1>1, <1>2, <2>1, NatSetInduction
<1>4. QED
  BY <1>3

LEMMA PlaceSplits ==
    ASSUME NEW s \in Seq(Nat), Ascending(s), NEW v \in Nat
    PROVE  /\ PlaceFor(s, v) \in 1..(Len(s) + 1)
           /\ \A i \in 1..Len(s) : s[i] < v <=> i < PlaceFor(s, v)
<1> DEFINE Below == {i \in DOMAIN s : s[i] < v}
<1>0. Len(s) \in Nat /\ DOMAIN s = 1..Len(s) /\ \A i \in 1..Len(s) : s[i] \in Nat
  BY LenProperties, ElementOfSeq
<1>1. PICK m \in 0..Len(s) : Below = 1..m
  <2>1. CASE Below = {}
    <3>1. Below = 1..0
      BY <2>1
    <3>2. QED
      BY <1>0, <3>1
  <2>2. CASE Below # {}
    <3>1. Below \subseteq 1..Len(s) /\ IsFiniteSet(Below)
      <4>1. Below \subseteq 1..Len(s)
        BY <1>0
      <4> HIDE DEF Below
      <4>2. IsFiniteSet(1..Len(s))
        BY <1>0, FS_Interval
      <4>3. QED
        BY <4>1, <4>2, FS_Subset
    <3>2. PICK m \in Below : \A i \in Below : i <= m
      BY <1>0, <2>2, <3>1, Greatest
    <3>3. m \in 1..Len(s) /\ s[m] < v
      BY <1>0
    <3>4. Below = 1..m
      <4>1. ASSUME NEW i \in 1..m PROVE i \in Below
        <5>1. i \in 1..Len(s) /\ (i < m \/ i = m)
          BY <1>0, <3>3
        <5>2. s[i] <= s[m]
          BY <1>0, <3>3, <5>1 DEF Ascending
        <5>3. QED
          BY <1>0, <3>3, <5>1, <5>2
      <4>2. ASSUME NEW i \in Below PROVE i \in 1..m
        BY <1>0, <3>1, <3>2, <3>3
      <4>3. QED
        BY <4>1, <4>2
    <3>5. QED
      BY <1>0, <3>3, <3>4
  <2>3. QED
    BY <2>1, <2>2
<1>2. Cardinality(Below) = m
  <2> HIDE DEF Below
  <2>1. Cardinality(1..m) = m
    BY FS_Interval
  <2>2. QED
    BY <1>1, <2>1
<1>3. PlaceFor(s, v) = 1 + m
  BY <1>2 DEF PlaceFor
<1>4. QED
  BY <1>0, <1>1, <1>3

LEMMA InsertedAscends ==
    ASSUME NEW s \in Seq(Nat), Ascending(s), NEW v \in Nat, \A i \in 1..Len(s) : s[i] # v
    PROVE  Ascending(InsertAt(s, PlaceFor(s, v), v))
<1> DEFINE p == PlaceFor(s, v)
           t == InsertAt(s, p, v)
<1>0. Len(s) \in Nat /\ p \in 1..(Len(s) + 1) /\ p \in Int
  BY PlaceSplits, LenProperties
<1>1. \A i \in 1..Len(s) : s[i] < v <=> i < p
  BY PlaceSplits
<1> HIDE DEF p
<1>2. Fills(t, s, p, v)
  BY <1>0, InsertedFills
<1> USE DEF Fills
<1> HIDE DEF t
<1>3. ASSUME NEW i \in 1..Len(t), NEW j \in 1..Len(t), i < j PROVE t[i] < t[j]
  <2>0. \A k \in 1..Len(s) : s[k] \in Nat
    BY ElementOfSeq
  <2>1. CASE i = p
    <3>1. PICK b \in 1..Len(s) : j = Up(b, p)
      BY <1>0, <1>2, <1>3, <2>1
    <3>2. b >= p
      BY <1>0, <1>3, <2>1, <3>1 DEF Up
    <3>3. s[b] # v /\ ~ (s[b] < v) /\ s[b] \in Nat
      BY <1>0, <1>1, <2>0, <3>2
    <3>4. t[i] = v /\ t[j] = s[b]
      BY <1>2, <2>1, <3>1
    <3>5. QED
      BY <3>3, <3>4
  <2>2. CASE i # p /\ j = p
    <3>1. PICK a \in 1..Len(s) : i = Up(a, p)
      BY <1>0, <1>2, <1>3, <2>2
    <3>2. a < p
      BY <1>0, <1>3, <2>2, <3>1 DEF Up
    <3>3. t[i] = s[a] /\ t[j] = v /\ s[a] < v
      BY <1>0, <1>1, <1>2, <2>2, <3>1, <3>2
    <3>4. QED
      BY <3>3
  <2>3. CASE i # p /\ j # p
    <3>1. PICK a \in 1..Len(s) : i = Up(a, p)
      BY <1>0, <1>2, <1>3, <2>3
    <3>2. PICK b \in 1..Len(s) : j = Up(b, p)
      BY <1>0, <1>2, <1>3, <2>3
    <3>3. a < b
      BY <1>0, <1>3, <3>1, <3>2 DEF Up
    <3>4. s[a] < s[b] /\ t[i] = s[a] /\ t[j] = s[b]
      BY <1>2, <3>1, <3>2, <3>3 DEF Ascending
    <3>5. QED
      BY <3>4
  <2>4. QED
    BY <2>1, <2>2, <2>3
<1>4. QED
  BY <1>3 DEF Ascending, t, p

-----------------------------------------------------------------------------
(* The order in which a boot reads a table from the files.                 *)
Below(S, n) == {m \in S : m < n}

LEMMA BelowCount ==
    ASSUME NEW S \in SUBSET Nat, IsFiniteSet(S)
    PROVE  /\ Cardinality(S) \in Nat
           /\ \A n \in S : Cardinality(Below(S, n)) \in 0..(Cardinality(S) - 1)
           /\ \A m, n \in S : m < n => Cardinality(Below(S, m)) < Cardinality(Below(S, n))
           /\ \A k \in 0..(Cardinality(S) - 1) : \E n \in S : Cardinality(Below(S, n)) = k
<1> DEFINE c == Cardinality(S)
           R == [n \in S |-> Cardinality(Below(S, n))]
<1>1. c \in Nat
  BY FS_CardinalityType
<1>2. ASSUME NEW n \in S
      PROVE  /\ IsFiniteSet(Below(S, n)) /\ Cardinality(Below(S, n)) \in Nat
             /\ Cardinality(Below(S, n)) < c
  <2>1. Below(S, n) \in SUBSET S /\ n \notin Below(S, n)
    BY DEF Below
  <2>2. IsFiniteSet(Below(S, n)) /\ Cardinality(Below(S, n)) <= c /\ (c = Cardinality(Below(S, n)) => S = Below(S, n))
    BY <2>1, FS_Subset
  <2>3. Cardinality(Below(S, n)) \in Nat
    BY <2>2, FS_CardinalityType
  <2>4. QED
    BY <1>1, <2>1, <2>2, <2>3
<1>3. ASSUME NEW m \in S, NEW n \in S, m < n
      PROVE  Cardinality(Below(S, m)) < Cardinality(Below(S, n))
  <2>1. Below(S, m) \in SUBSET Below(S, n) /\ m \in Below(S, n) /\ m \notin Below(S, m)
    <3>1. m \in Nat /\ n \in Nat /\ \A x \in S : x \in Nat
      OBVIOUS
    <3>2. \A x \in S : x < m => x < n
      BY <1>3, <3>1
    <3>3. ~(m < m)
      BY <3>1
    <3>4. QED
      BY <1>3, <3>2, <3>3 DEF Below
  <2>2. /\ Cardinality(Below(S, m)) <= Cardinality(Below(S, n))
        /\ Cardinality(Below(S, n)) = Cardinality(Below(S, m)) => Below(S, m) = Below(S, n)
    BY <1>2, <2>1, FS_Subset
  <2>3. Cardinality(Below(S, m)) \in Nat /\ Cardinality(Below(S, n)) \in Nat
    BY <1>2
  <2>4. QED
    BY <2>1, <2>2, <2>3
<1>4. \A m, n \in S : Cardinality(Below(S, m)) = Cardinality(Below(S, n)) => m = n
  <2>1. ASSUME NEW m \in S, NEW n \in S, Cardinality(Below(S, m)) = Cardinality(Below(S, n)) PROVE m = n
    <3>1. m \in Nat /\ n \in Nat /\ Cardinality(Below(S, m)) \in Nat /\ Cardinality(Below(S, n)) \in Nat
      BY <1>2
    <3>2. ~ (m < n) /\ ~ (n < m)
      BY <1>3, <2>1, <3>1
    <3>3. QED
      BY <3>1, <3>2
  <2>2. QED
    BY <2>1
<1>5. \A n \in S : Cardinality(Below(S, n)) \in 0..(c - 1)
  BY <1>1, <1>2
<1>6. \A k \in 0..(c - 1) : \E n \in S : Cardinality(Below(S, n)) = k
  <2>1. R \in Injection(S, 0..(c - 1))
    BY <1>4, <1>5 DEF Injection, IsInjective
  <2>2. IsFiniteSet(0..(c - 1)) /\ Cardinality(0..(c - 1)) = c
    <3>1. ASSUME NEW k \in Nat
          PROVE  IsFiniteSet(0..(k - 1)) /\ Cardinality(0..(k - 1)) = k
      <4>1. 0 \in Int /\ k - 1 \in Int /\ (IF 0 > k - 1 THEN 0 ELSE k - 1 - 0 + 1) = k
        OBVIOUS
      <4>2. QED
        BY <4>1, FS_Interval
    <3>2. QED
      BY <1>1, <3>1
  <2>3. R \in Surjection(S, 0..(c - 1))
    BY <2>1, <2>2, FS_Injection
  <2>4. QED
    BY <2>3 DEF Surjection
<1>7. QED
  BY <1>1, <1>3, <1>5, <1>6

LEMMA InOrderFacts ==
    ASSUME NEW S \in SUBSET Nat, IsFiniteSet(S)
    PROVE  /\ InOrder(S) \in Seq(Nat) /\ Ascending(InOrder(S))
           /\ S # {} => InOrder(S) # <<>>
           /\ \A i \in 1..Len(InOrder(S)) : InOrder(S)[i] \in S
           /\ \A n \in S : \E i \in 1..Len(InOrder(S)) : InOrder(S)[i] = n
<1> DEFINE c == Cardinality(S)
           t == InOrder(S)
<1>1. t = [i \in 1..c |-> CHOOSE n \in S : Cardinality(Below(S, n)) = i - 1]
  BY DEF InOrder, Below
<1>2. /\ c \in Nat
      /\ \A n \in S : Cardinality(Below(S, n)) \in 0..(c - 1)
      /\ \A m, n \in S : m < n => Cardinality(Below(S, m)) < Cardinality(Below(S, n))
      /\ \A k \in 0..(c - 1) : \E n \in S : Cardinality(Below(S, n)) = k
  BY BelowCount
<1>3. ASSUME NEW i \in 1..c
      PROVE  t[i] \in S /\ Cardinality(Below(S, t[i])) = i - 1
  <2>1. i - 1 \in 0..(c - 1)
    BY <1>2
  <2>2. \E n \in S : Cardinality(Below(S, n)) = i - 1
    BY <1>2, <2>1
  <2>3. t[i] = CHOOSE n \in S : Cardinality(Below(S, n)) = i - 1
    BY <1>1
  <2> HIDE DEF t
  <2>4. QED
    BY <2>2, <2>3
<1>4. DOMAIN t = 1..c /\ t \in Seq(Nat) /\ Len(t) = c
  <2>1. DOMAIN t = 1..c /\ t \in [1..c -> Nat]
    BY <1>1, <1>3
  <2> HIDE DEF t, c
  <2>2. QED
    BY <1>2, <2>1
<1> HIDE DEF t, c
<1>5. ASSUME NEW i \in 1..c, NEW j \in 1..c, i < j PROVE t[i] < t[j]
  <2>1. t[i] \in S /\ t[j] \in S /\ t[i] \in Nat /\ t[j] \in Nat
    BY <1>3
  <2>2. CASE t[i] = t[j]
    <3>1. i - 1 = j - 1
      BY <1>3, <2>2
    <3>2. QED
      BY <1>2, <1>5, <3>1
  <2>3. CASE t[j] < t[i]
    <3>1. j - 1 < i - 1
      BY <1>2, <1>3, <2>1, <2>3
    <3>2. QED
      BY <1>2, <1>5, <3>1
  <2>4. QED
    BY <2>1, <2>2, <2>3
<1>6. ASSUME NEW n \in S PROVE \E i \in 1..c : t[i] = n
  <2> DEFINE i == Cardinality(Below(S, n)) + 1
  <2>1. i \in 1..c /\ i - 1 = Cardinality(Below(S, n))
    BY <1>2
  <2> HIDE DEF i
  <2>2. t[i] \in S /\ Cardinality(Below(S, t[i])) = Cardinality(Below(S, n))
    BY <1>3, <2>1
  <2>3. t[i] \in Nat /\ n \in Nat /\ Cardinality(Below(S, n)) \in Nat
    <3>1. t[i] \in Nat /\ n \in Nat
      BY <2>2
    <3>2. Cardinality(Below(S, n)) \in 0..(c - 1)
      BY <1>2
    <3>3. QED
      BY <1>2, <3>1, <3>2
  <2>4. ~ (t[i] < n) /\ ~ (n < t[i])
    BY <1>2, <2>2, <2>3
  <2>5. t[i] = n
    BY <2>3, <2>4
  <2>6. QED
    BY <2>1, <2>5
<1>7. S # {} => t # <<>>
  <2>1. ASSUME NEW n \in S PROVE t # <<>>
    <3>1. PICK i \in 1..c : t[i] = n
      BY <1>6
    <3>2. QED
      BY <1>2, <1>4, <3>1
  <2>2. QED
    BY <2>1
<1>8. Ascending(t)
  BY <1>4, <1>5 DEF Ascending
<1>9. QED
  BY <1>3, <1>4, <1>6, <1>7, <1>8 DEF t

LEMMA TableFinite ==
    ASSUME NEW s \in Seq(Nat)
    PROVE  IsFiniteSet(ToSet(s)) /\ ToSet(s) \subseteq Nat
<1>1. Len(s) \in Nat /\ s \in [1..Len(s) -> Nat] /\ DOMAIN s = 1..Len(s)
  BY LenProperties
<1>2. ToSet(s) = {s[i] : i \in 1..Len(s)}
  BY <1>1 DEF ToSet
<1>3. s \in Surjection(1..Len(s), ToSet(s))
  BY <1>1, <1>2 DEF Surjection
<1>4. IsFiniteSet(1..Len(s))
  BY <1>1, FS_Interval
<1>5. IsFiniteSet(ToSet(s))
  BY <1>3, <1>4, FS_Surjection
<1>6. QED
  BY <1>1, <1>2, <1>5

-----------------------------------------------------------------------------
(* The inductive invariant: what the tables, the references into them, the *)
(* copies in the editors, the files and the save list have to do with each *)
(* other.                                                                  *)
Has(tabs, k, n) == \E i \in 1..Len(tabs[k]) : tabs[k][i] = n

TablesRight(tabs) ==
    tabs \in [TableKinds -> Seq(Nat)] /\ \A k \in TableKinds : tabs[k] # <<>> /\ Ascending(tabs[k])

RefTo(x, num, means) ==
    [at |-> FirstRefs[x].at, kind |-> FirstRefs[x].kind, num |-> num, file |-> FirstRefs[x].file, means |-> means]

RefsRight(r, tabs) ==
    /\ r = [x \in DOMAIN FirstRefs |-> RefTo(x, r[x].num, r[x].means)]
    /\ \A x \in DOMAIN FirstRefs :
         /\ r[x].num \in 0..Len(tabs[FirstRefs[x].kind]) /\ r[x].means \in Nat
         /\ FirstRefs[x].at \in Followed /\ r[x].num # 0 => tabs[FirstRefs[x].kind][r[x].num] = r[x].means

CopiesRight(c, r, tabs) ==
    /\ c = [x \in DOMAIN FirstRefs |-> [num |-> c[x].num, means |-> c[x].means]]
    /\ \A x \in DOMAIN FirstRefs :
         c[x] # NotEdited =>
           /\ FirstRefs[x].at \in {"edited_exit", "keeper", "product"}
           /\ c[x].num \in 0..Len(tabs[FirstRefs[x].kind])
           /\ FirstRefs[x].at = "product" /\ c[x].num # 0 => tabs[FirstRefs[x].kind][c[x].num] = r[x].means

DiskRight(d, tabs) ==
    /\ d = [protos |-> d.protos, refs |-> d.refs]
    /\ d.protos \in SUBSET (TableKinds \X Nat) /\ IsFiniteSet(d.protos)
    /\ \A n \in Nat : <<"zone", n>> \in d.protos <=> Has(tabs, "zone", n)
    /\ \A v \in Nat : <<"room", v>> \in d.protos \/ Has(tabs, "room", v) => Has(tabs, "zone", ZoneNumberOf(v))

AllListed(tabs, protos, del, list) ==
    \A k \in TableKinds \ {"zone"} : \A v \in Nat :
       Has(tabs, k, v) /\ (<<k, v>> \in protos <=> <<k, v>> \in del) => <<ZoneNumberOf(v), k>> \in list

AllPairs(list) == \A e \in list : e = <<e[1], e[2]>>

TablesInv ==
    /\ edits \in 0..MaxEdits
    /\ AllPairs(save_list) /\ deleted \in SUBSET (TableKinds \X Nat)
    /\ TablesRight(tables)
    /\ RefsRight(refs, tables)
    /\ CopiesRight(copies, refs, tables)
    /\ DiskRight(on_disk, tables)
    /\ AllListed(tables, on_disk.protos, deleted, save_list)

(* The search says whether a number is in a table that is right.           *)
LEMMA SearchHas ==
    ASSUME NEW tabs, TablesRight(tabs), NEW k \in TableKinds, NEW n
    PROVE  /\ real_number(tabs[k], n) \in 0..Len(tabs[k])
           /\ real_number(tabs[k], n) # 0 <=> Has(tabs, k, n)
           /\ real_number(tabs[k], n) # 0 => tabs[k][real_number(tabs[k], n)] = n
<1>1. tabs[k] \in Seq(Nat) /\ tabs[k] # <<>> /\ Ascending(tabs[k])
  BY DEF TablesRight
<1>2. Len(tabs[k]) \in Nat
  BY <1>1, LenProperties
<1>3. /\ real_number(tabs[k], n) \in 0..Len(tabs[k])
      /\ real_number(tabs[k], n) # 0 => tabs[k][real_number(tabs[k], n)] = n
  BY <1>1, RealNumber
<1>4. real_number(tabs[k], n) # 0 => Has(tabs, k, n)
  <2>1. real_number(tabs[k], n) # 0 => real_number(tabs[k], n) \in 1..Len(tabs[k])
    BY <1>2, <1>3
  <2>2. QED
    BY <1>3, <2>1 DEF Has
<1>5. ASSUME Has(tabs, k, n) PROVE real_number(tabs[k], n) # 0
  <2>1. PICK i \in 1..Len(tabs[k]) : tabs[k][i] = n
    BY <1>5 DEF Has
  <2>2. real_number(tabs[k], tabs[k][i]) = i
    BY <1>1, RealFinds
  <2>3. QED
    BY <1>2, <2>1, <2>2
<1>6. QED
  BY <1>3, <1>4, <1>5

LEMMA HasAsSet ==
    ASSUME NEW tabs, TablesRight(tabs), NEW k \in TableKinds
    PROVE  /\ \A n : n \in ToSet(tabs[k]) <=> Has(tabs, k, n)
           /\ ToSet(tabs[k]) \subseteq Nat /\ IsFiniteSet(ToSet(tabs[k]))
<1>1. tabs[k] \in Seq(Nat)
  BY DEF TablesRight
<1>2. DOMAIN tabs[k] = 1..Len(tabs[k])
  BY <1>1, LenProperties
<1>3. \A n : n \in ToSet(tabs[k]) <=> Has(tabs, k, n)
  BY <1>2 DEF ToSet, Has
<1>4. QED
  BY <1>1, <1>3, TableFinite

(* An insertion of a number that is not in the table.                      *)
Grows(tabs, k, v, new) ==
    /\ TablesRight(tabs) /\ k \in TableKinds /\ v \in Nat /\ ~ Has(tabs, k, v)
    /\ new = [tabs EXCEPT ![k] = InsertAt(@, PlaceFor(tabs[k], v), v)]

LEMMA InsertTables ==
    ASSUME NEW tabs, NEW k, NEW v, NEW new, Grows(tabs, k, v, new)
    PROVE  /\ TablesRight(new) /\ k \in TableKinds
           /\ PlaceFor(tabs[k], v) \in 1..(Len(tabs[k]) + 1)
           /\ Fills(new[k], tabs[k], PlaceFor(tabs[k], v), v)
           /\ \A j \in TableKinds : j # k => new[j] = tabs[j]
           /\ \A j \in TableKinds : \A n : Has(new, j, n) <=> Has(tabs, j, n) \/ (j = k /\ n = v)
<1> DEFINE p == PlaceFor(tabs[k], v)
           t == InsertAt(tabs[k], p, v)
<1>0. /\ TablesRight(tabs) /\ k \in TableKinds /\ v \in Nat /\ ~ Has(tabs, k, v)
      /\ new = [tabs EXCEPT ![k] = InsertAt(@, PlaceFor(tabs[k], v), v)]
  BY DEF Grows
<1>1. /\ tabs \in [TableKinds -> Seq(Nat)] /\ tabs[k] \in Seq(Nat) /\ Ascending(tabs[k])
      /\ \A j \in TableKinds : tabs[j] # <<>> /\ Ascending(tabs[j])
  BY <1>0 DEF TablesRight
<1>2. p \in 1..(Len(tabs[k]) + 1)
  BY <1>0, <1>1, PlaceSplits
<1>3. \A i \in 1..Len(tabs[k]) : tabs[k][i] # v
  BY <1>0 DEF Has
<1>4. Ascending(t)
  BY <1>0, <1>1, <1>3, InsertedAscends
<1>5. new = [tabs EXCEPT ![k] = t]
  BY <1>0
<1> HIDE DEF p
<1>6. Fills(t, tabs[k], p, v)
  BY <1>0, <1>1, <1>2, InsertedFills
<1> HIDE DEF t
<1>7. new[k] = t /\ \A j \in TableKinds : j # k => new[j] = tabs[j]
  BY <1>0, <1>1, <1>5
<1>8. t \in Seq(Nat) /\ Len(t) = Len(tabs[k]) + 1 /\ t # <<>> /\ Len(tabs[k]) \in Nat
  <2>1. t \in Seq(Nat) /\ Len(t) = Len(tabs[k]) + 1
    BY <1>6 DEF Fills
  <2>2. Len(tabs[k]) \in Nat
    BY <1>1, LenProperties
  <2>3. QED
    BY <2>1, <2>2
<1>9. TablesRight(new)
  <2>1. new \in [TableKinds -> Seq(Nat)]
    BY <1>0, <1>1, <1>5, <1>8
  <2>2. \A j \in TableKinds : new[j] # <<>> /\ Ascending(new[j])
    BY <1>1, <1>4, <1>7, <1>8
  <2>3. QED
    BY <2>1, <2>2 DEF TablesRight
<1>10. \A n : Has(new, k, n) <=> Has(tabs, k, n) \/ n = v
  <2>1. ASSUME NEW n, Has(new, k, n) PROVE Has(tabs, k, n) \/ n = v
    <3>1. PICK i \in 1..(Len(tabs[k]) + 1) : t[i] = n
      BY <1>7, <1>8, <2>1 DEF Has
    <3>2. CASE i = p
      BY <1>6, <3>1, <3>2 DEF Fills
    <3>3. CASE i # p
      <4>1. PICK j \in 1..Len(tabs[k]) : i = Up(j, p)
        BY <1>6, <3>3 DEF Fills
      <4>2. t[i] = tabs[k][j]
        BY <1>6, <4>1 DEF Fills
      <4>3. QED
        BY <3>1, <4>2 DEF Has
    <3>4. QED
      BY <3>2, <3>3
  <2>2. ASSUME NEW n, Has(tabs, k, n) PROVE Has(new, k, n)
    <3>1. PICK j \in 1..Len(tabs[k]) : tabs[k][j] = n
      BY <2>2 DEF Has
    <3>2. t[Up(j, p)] = n /\ Up(j, p) \in 1..Len(t)
      BY <1>6, <1>8, <3>1 DEF Fills
    <3>3. QED
      BY <1>7, <3>2 DEF Has
  <2>3. Has(new, k, v)
    <3>1. t[p] = v /\ p \in 1..Len(t)
      BY <1>2, <1>6, <1>8 DEF Fills
    <3>2. QED
      BY <1>7, <3>1 DEF Has
  <2>4. QED
    BY <2>1, <2>2, <2>3
<1>11. \A j \in TableKinds : j # k => \A n : Has(new, j, n) <=> Has(tabs, j, n)
  BY <1>7 DEF Has
<1>12. QED
  BY <1>0, <1>2, <1>6, <1>7, <1>9, <1>10, <1>11 DEF p

(* A reference that goes after an insertion names what it named.           *)
LEMMA MovedPlace ==
    ASSUME NEW s, NEW p, NEW v, NEW t, Fills(t, s, p, v), NEW n, n \in 0..Len(s)
    PROVE  /\ n \in 0..Len(t) /\ Up(n, p) \in 0..Len(t) /\ UpAfter(n, p) \in 0..Len(t)
           /\ Up(n, p) = 0 <=> n = 0
           /\ n # 0 => t[Up(n, p)] = s[n]
<1>1. Len(s) \in Nat /\ Len(t) = Len(s) + 1 /\ p \in Int /\ p >= 1 /\ n \in Int
  BY LenProperties DEF Fills
<1>2. n # 0 => n \in 1..Len(s)
  BY <1>1
<1>3. n # 0 => t[Up(n, p)] = s[n]
  BY <1>2 DEF Fills
<1>4. QED
  BY <1>1, <1>3 DEF Up, UpAfter

LEMMA FollowedKinds ==
    ASSUME NEW x \in DOMAIN FirstRefs, FirstRefs[x].at \in Followed
    PROVE  /\ FirstRefs[x].kind \in {"room", "obj"}
           /\ FirstRefs[x].kind = "room" => FirstRefs[x].at \in RoomRefs
           /\ FirstRefs[x].kind = "obj" => FirstRefs[x].at \in ObjRefs
<1>1. FirstRefs[x].at \in RoomRefs \/ FirstRefs[x].at \in ObjRefs
  BY DEF Followed, RoomRefs, ObjRefs
<1>2. /\ FirstRefs[x].at \in RoomRefs => FirstRefs[x].kind = "room"
      /\ FirstRefs[x].at \in ObjRefs => FirstRefs[x].kind = "obj"
  BY TablesAssumption
<1>3. QED
  BY <1>1, <1>2

LEMMA InsertRefs ==
    ASSUME NEW tabs, NEW k, NEW v, NEW new, Grows(tabs, k, v, new),
           NEW r, RefsRight(r, tabs),
           NEW s, s = [x \in DOMAIN r |-> Renumbered(k, PlaceFor(tabs[k], v), r[x])]
    PROVE  RefsRight(s, new) /\ \A x \in DOMAIN FirstRefs : s[x].means = r[x].means
<1> DEFINE p == PlaceFor(tabs[k], v)
<1>1. /\ p \in 1..(Len(tabs[k]) + 1) /\ Fills(new[k], tabs[k], p, v)
      /\ \A j \in TableKinds : j # k => new[j] = tabs[j]
      /\ k \in TableKinds
  BY InsertTables
<1>2. s = [x \in DOMAIN r |-> Renumbered(k, p, r[x])]
  OBVIOUS
<1> HIDE DEF p
<1>3. DOMAIN r = DOMAIN FirstRefs /\ \A x \in DOMAIN FirstRefs : r[x] = RefTo(x, r[x].num, r[x].means)
  BY DEF RefsRight
<1>4. ASSUME NEW x \in DOMAIN FirstRefs
      PROVE  /\ s[x] = RefTo(x, s[x].num, s[x].means) /\ s[x].means = r[x].means
             /\ s[x].num \in 0..Len(new[FirstRefs[x].kind])
             /\ FirstRefs[x].at \in Followed /\ s[x].num # 0
                  => new[FirstRefs[x].kind][s[x].num] = r[x].means
  <2> DEFINE kind == FirstRefs[x].kind
             at == FirstRefs[x].at
             num == r[x].num
  <2>1. r[x] = RefTo(x, num, r[x].means) /\ r[x].kind = kind /\ r[x].at = at /\ kind \in TableKinds
    BY <1>3, TablesAssumption DEF RefTo
  <2>2. s[x] = Renumbered(k, p, r[x])
    BY <1>2, <1>3
  <2>3. num \in 0..Len(tabs[kind]) /\ (at \in Followed /\ num # 0 => tabs[kind][num] = r[x].means)
    BY DEF RefsRight
  <2>4. \A n : [r[x] EXCEPT !.num = n] = RefTo(x, n, r[x].means)
    <3>1. ASSUME NEW n, NEW a, NEW m PROVE [RefTo(x, a, m) EXCEPT !.num = n] = RefTo(x, n, m)
      BY DEF RefTo
    <3>2. QED
      BY <2>1, <3>1
  <2>5. \A n : RefTo(x, n, r[x].means).num = n /\ RefTo(x, n, r[x].means).means = r[x].means
    BY DEF RefTo
  <2> HIDE DEF kind, at
  <2>6. CASE kind # k \/ num = 0
    <3>1. s[x] = r[x]
      BY <2>1, <2>2, <2>6 DEF Renumbered, Disabled
    <3>2. num \in 0..Len(new[kind])
      BY <1>1, <2>1, <2>3, <2>6, MovedPlace
    <3>3. kind # k => new[kind] = tabs[kind]
      BY <1>1, <2>1
    <3>4. QED
      BY <2>1, <2>3, <2>6, <3>1, <3>2, <3>3 DEF kind, at
  <2>7. CASE kind = k /\ num # 0
    <3>1. PICK n \in {num, Up(num, p), UpAfter(num, p)} : s[x] = RefTo(x, n, r[x].means)
      BY <2>1, <2>2, <2>4, <2>7 DEF Renumbered, Disabled
    <3>0. num \in 0..Len(tabs[k])
      BY <2>3, <2>7
    <3>2. n \in 0..Len(new[k])
      BY <1>1, <3>0, MovedPlace
    <3>3. ASSUME at \in Followed PROVE s[x] = RefTo(x, Up(num, p), r[x].means)
      <4>1. k \in {"room", "obj"} /\ (k = "room" => at \in RoomRefs) /\ (k = "obj" => at \in ObjRefs)
        BY <2>7, <3>3, FollowedKinds DEF kind, at
      <4>2. s[x] = [r[x] EXCEPT !.num = Up(num, p)]
        BY <2>1, <2>2, <2>7, <4>1 DEF Renumbered, Disabled
      <4>3. QED
        BY <2>4, <4>2
    <3>4. new[k][Up(num, p)] = tabs[k][num]
      BY <1>1, <2>7, <3>0, MovedPlace
    <3>5. QED
      BY <2>3, <2>5, <2>7, <3>1, <3>2, <3>3, <3>4 DEF kind, at
  <2>8. QED
    BY <2>6, <2>7
<1>5. DOMAIN s = DOMAIN FirstRefs
  BY <1>2, <1>3
<1>6. s = [x \in DOMAIN FirstRefs |-> RefTo(x, s[x].num, s[x].means)]
  <2>1. s = [x \in DOMAIN FirstRefs |-> s[x]]
    BY <1>2, <1>3
  <2>2. \A x \in DOMAIN FirstRefs : s[x] = RefTo(x, s[x].num, s[x].means)
    BY <1>4
  <2>3. QED
    BY <2>1, <2>2
<1>7. QED
  BY <1>4, <1>6 DEF RefsRight

LEMMA InsertCopies ==
    ASSUME NEW tabs, NEW k, NEW v, NEW new, Grows(tabs, k, v, new),
           RefsRight(refs, tabs), CopiesRight(copies, refs, tabs),
           NEW c, c = [x \in DOMAIN copies |-> RenumberedCopy(k, PlaceFor(tabs[k], v), x)],
           NEW r, \A x \in DOMAIN FirstRefs : r[x].means = refs[x].means
    PROVE  CopiesRight(c, r, new)
<1> DEFINE p == PlaceFor(tabs[k], v)
<1>1. /\ p \in 1..(Len(tabs[k]) + 1) /\ Fills(new[k], tabs[k], p, v)
      /\ \A j \in TableKinds : j # k => new[j] = tabs[j]
      /\ k \in TableKinds
  BY InsertTables
<1>2. c = [x \in DOMAIN copies |-> RenumberedCopy(k, p, x)]
  OBVIOUS
<1> HIDE DEF p
<1>3. DOMAIN copies = DOMAIN FirstRefs /\ \A x \in DOMAIN FirstRefs : copies[x] = [num |-> copies[x].num, means |-> copies[x].means]
  BY DEF CopiesRight
<1>4. ASSUME NEW x \in DOMAIN FirstRefs
      PROVE  /\ c[x] = [num |-> c[x].num, means |-> c[x].means]
             /\ c[x] # NotEdited =>
                  /\ FirstRefs[x].at \in {"edited_exit", "keeper", "product"}
                  /\ c[x].num \in 0..Len(new[FirstRefs[x].kind])
                  /\ FirstRefs[x].at = "product" /\ c[x].num # 0
                       => new[FirstRefs[x].kind][c[x].num] = r[x].means
  <2> DEFINE kind == FirstRefs[x].kind
             at == FirstRefs[x].at
             num == copies[x].num
  <2>1. refs[x].kind = kind /\ refs[x].at = at /\ kind \in TableKinds
    BY TablesAssumption DEF RefTo, RefsRight
  <2>2. c[x] = RenumberedCopy(k, p, x)
    BY <1>2, <1>3
  <2>3. copies[x] # NotEdited =>
           /\ at \in {"edited_exit", "keeper", "product"} /\ num \in 0..Len(tabs[kind])
           /\ at = "product" /\ num # 0 => tabs[kind][num] = refs[x].means
    BY DEF CopiesRight
  <2>4. copies[x] = [num |-> num, means |-> copies[x].means]
    BY <1>3
  <2>5. [copies[x] EXCEPT !.num = Up(@, p)] = [num |-> Up(num, p), means |-> copies[x].means]
    BY <2>4
  <2> HIDE DEF kind, at
  <2>6. CASE copies[x] # NotEdited /\ kind = k /\ at \in {"keeper", "product"}
    <3>1. c[x] = [num |-> Up(num, p), means |-> copies[x].means]
      BY <2>1, <2>2, <2>5, <2>6 DEF RenumberedCopy
    <3>2. num \in 0..Len(tabs[k])
      BY <2>3, <2>6
    <3>3. Up(num, p) \in 0..Len(new[k]) /\ (Up(num, p) = 0 <=> num = 0) /\ (num # 0 => new[k][Up(num, p)] = tabs[k][num])
      BY <1>1, <3>2, MovedPlace
    <3>4. at = "product" /\ num # 0 => new[k][Up(num, p)] = r[x].means
      BY <2>3, <2>6, <3>3
    <3>5. c[x].num = Up(num, p) /\ c[x].means = copies[x].means
      BY <3>1
    <3>6. QED
      BY <2>3, <2>6, <3>1, <3>3, <3>4, <3>5 DEF kind, at
  <2>7. CASE ~ (copies[x] # NotEdited /\ kind = k /\ at \in {"keeper", "product"})
    <3>1. c[x] = copies[x]
      BY <2>1, <2>2, <2>7 DEF RenumberedCopy
    <3>2. copies[x] # NotEdited => num \in 0..Len(new[kind])
      <4>1. CASE kind = k
        BY <1>1, <2>3, <4>1, MovedPlace
      <4>2. CASE kind # k
        BY <1>1, <2>1, <2>3, <4>2
      <4>3. QED
        BY <4>1, <4>2
    <3>3. copies[x] # NotEdited /\ at = "product" /\ num # 0 => new[kind][num] = r[x].means
      BY <1>1, <2>1, <2>3, <2>7
    <3>4. QED
      BY <2>3, <2>4, <3>1, <3>2, <3>3 DEF kind, at
  <2>8. QED
    BY <2>6, <2>7
<1>5. c = [x \in DOMAIN FirstRefs |-> [num |-> c[x].num, means |-> c[x].means]]
  <2>1. c = [x \in DOMAIN FirstRefs |-> c[x]]
    BY <1>2, <1>3
  <2>2. \A x \in DOMAIN FirstRefs : c[x] = [num |-> c[x].num, means |-> c[x].means]
    BY <1>4
  <2>3. QED
    BY <2>1, <2>2
<1>6. QED
  BY <1>4, <1>5 DEF CopiesRight

-----------------------------------------------------------------------------
(* Every command of a builder, save and boot keeps it.                     *)
LEMMA ZoneFacts ==
    ASSUME NEW z \in Nat
    PROVE  ZoneNumberOf(z) \in Nat /\ z * ZoneSize \in Nat /\ ZoneNumberOf(z * ZoneSize) = z
<1>1. ZoneSize \in Nat /\ ZoneSize > 0
  BY TablesAssumption
<1>2. ZoneNumberOf(z) \in Nat
  BY <1>1 DEF ZoneNumberOf
<1>3. z * ZoneSize \in Nat
  BY <1>1
<1>4. (z * ZoneSize) \div ZoneSize = z
  BY <1>1
<1>5. QED
  BY <1>2, <1>3, <1>4 DEF ZoneNumberOf

LEMMA ZoneOfExisting ==
    ASSUME TablesInv, NEW v, ZoneExists(v)
    PROVE  Has(tables, "zone", ZoneNumberOf(v))
<1>1. tables["zone"] \in Seq(Nat)
  BY DEF TablesInv, TablesRight, TableKinds
<1>2. DOMAIN tables["zone"] = 1..Len(tables["zone"])
  BY <1>1, LenProperties
<1>3. QED
  BY <1>2 DEF ZoneExists, Has

LEMMA InsertKeeps ==
    ASSUME TablesInv, NEW k \in TableKinds, NEW v \in Nat, ~ Has(tables, k, v),
           InsertedAt(k, v, PlaceFor(tables[k], v))
    PROVE  /\ TablesRight(tables') /\ RefsRight(refs', tables') /\ CopiesRight(copies', refs', tables')
           /\ \A j \in TableKinds : \A n : Has(tables', j, n) <=> Has(tables, j, n) \/ (j = k /\ n = v)
<1>1. Grows(tables, k, v, tables')
  BY DEF TablesInv, Grows, InsertedAt
<1>2. refs' = [x \in DOMAIN refs |-> Renumbered(k, PlaceFor(tables[k], v), refs[x])]
  BY DEF InsertedAt
<1>3. copies' = [x \in DOMAIN copies |-> RenumberedCopy(k, PlaceFor(tables[k], v), x)]
  BY DEF InsertedAt
<1>4. TablesRight(tables') /\ \A j \in TableKinds : \A n : Has(tables', j, n) <=> Has(tables, j, n) \/ (j = k /\ n = v)
  BY <1>1, InsertTables
<1>5. RefsRight(refs, tables) /\ CopiesRight(copies, refs, tables)
  BY DEF TablesInv
<1>6. RefsRight(refs', tables') /\ \A x \in DOMAIN FirstRefs : refs'[x].means = refs[x].means
  BY <1>1, <1>2, <1>5, InsertRefs
<1>7. CopiesRight(copies', refs', tables')
  BY <1>1, <1>3, <1>5, <1>6, InsertCopies
<1>8. QED
  BY <1>4, <1>6, <1>7

LEMMA NewKeeps ==
    ASSUME TablesInv, NEW k \in TableKinds \ {"zone"}, NEW v \in Nat,
           Edit, real_number(tables[k], v) = 0, ZoneExists(v),
           InsertedAt(k, v, PlaceFor(tables[k], v)),
           save_list' = save_list \union {<<ZoneNumberOf(v), k>>},
           UNCHANGED <<deleted, on_disk>>
    PROVE  TablesInv'
<1>1. ~ Has(tables, k, v)
  BY SearchHas DEF TablesInv
<1>2. /\ TablesRight(tables') /\ RefsRight(refs', tables') /\ CopiesRight(copies', refs', tables')
      /\ \A j \in TableKinds : \A n : Has(tables', j, n) <=> Has(tables, j, n) \/ (j = k /\ n = v)
  BY <1>1, InsertKeeps
<1>3. edits' \in 0..MaxEdits
  BY TablesAssumption DEF TablesInv, Edit
<1>4. AllPairs(save_list')
  BY DEF TablesInv, AllPairs
<1>5. DiskRight(on_disk, tables')
  <2>1. DiskRight(on_disk, tables) /\ "zone" \in TableKinds /\ "room" \in TableKinds /\ k # "zone"
    BY DEF TablesInv, TableKinds
  <2>2. \A n : Has(tables', "zone", n) <=> Has(tables, "zone", n)
    BY <1>2, <2>1
  <2>3. \A n : Has(tables', "room", n) => Has(tables, "room", n) \/ n = v
    BY <1>2, <2>1
  <2>4. Has(tables, "zone", ZoneNumberOf(v))
    BY ZoneOfExisting
  <2>5. QED
    BY <2>1, <2>2, <2>3, <2>4 DEF DiskRight
<1>6. AllListed(tables', on_disk.protos, deleted, save_list')
  <2>1. AllListed(tables, on_disk.protos, deleted, save_list)
    BY DEF TablesInv
  <2>2. SUFFICES ASSUME NEW j \in TableKinds \ {"zone"}, NEW n \in Nat, Has(tables', j, n),
                        <<j, n>> \in on_disk.protos <=> <<j, n>> \in deleted
                 PROVE  <<ZoneNumberOf(n), j>> \in save_list'
    BY DEF AllListed
  <2>3. Has(tables, j, n) \/ (j = k /\ n = v)
    BY <1>2, <2>2
  <2>4. QED
    BY <2>1, <2>2, <2>3 DEF AllListed
<1>7. QED
  BY <1>2, <1>3, <1>4, <1>5, <1>6 DEF TablesInv

LEMMA NewZoneKeeps ==
    ASSUME TablesInv, NEW z \in Nat, zedit_new_zone(z)
    PROVE  TablesInv'
<1> DEFINE k == "zone"
           w == z * ZoneSize
<1>0. /\ Edit /\ ~ \E i \in DOMAIN tables["zone"] : tables["zone"][i] = z
      /\ InsertedAt("zone", z, PlaceFor(tables["zone"], z))
      /\ on_disk' = [on_disk EXCEPT !.protos = @ \union {<<"zone", z>>, <<"room", w>>}]
      /\ UNCHANGED <<deleted, save_list>>
  BY DEF zedit_new_zone
<1>1. ~ Has(tables, "zone", z)
  <2>1. tables["zone"] \in Seq(Nat)
    BY DEF TablesInv, TablesRight, TableKinds
  <2>2. DOMAIN tables["zone"] = 1..Len(tables["zone"])
    BY <2>1, LenProperties
  <2>3. QED
    BY <1>0, <2>2 DEF Has
<1>2. /\ TablesRight(tables') /\ RefsRight(refs', tables') /\ CopiesRight(copies', refs', tables')
      /\ \A j \in TableKinds : \A n : Has(tables', j, n) <=> Has(tables, j, n) \/ (j = "zone" /\ n = z)
  <2>1. "zone" \in TableKinds
    BY DEF TableKinds
  <2>2. QED
    BY <1>0, <1>1, <2>1, InsertKeeps
<1>3. edits' \in 0..MaxEdits
  BY <1>0, TablesAssumption DEF TablesInv, Edit
<1>4. w \in Nat /\ ZoneNumberOf(w) = z
  BY ZoneFacts
<1> HIDE DEF w
<1>5. /\ on_disk = [protos |-> on_disk.protos, refs |-> on_disk.refs]
      /\ on_disk.protos \in SUBSET (TableKinds \X Nat) /\ IsFiniteSet(on_disk.protos)
      /\ \A n \in Nat : <<"zone", n>> \in on_disk.protos <=> Has(tables, "zone", n)
      /\ \A v \in Nat : <<"room", v>> \in on_disk.protos \/ Has(tables, "room", v) => Has(tables, "zone", ZoneNumberOf(v))
  BY DEF TablesInv, DiskRight
<1>6. /\ on_disk' = [protos |-> on_disk'.protos, refs |-> on_disk'.refs]
      /\ on_disk'.protos = on_disk.protos \union {<<"zone", z>>, <<"room", w>>}
  BY <1>0, <1>5
<1>7. "zone" \in TableKinds /\ "room" \in TableKinds
  BY DEF TableKinds
<1>8. DiskRight(on_disk', tables')
  <2>1. on_disk'.protos \in SUBSET (TableKinds \X Nat)
    BY <1>4, <1>5, <1>6, <1>7
  <2>2. IsFiniteSet(on_disk'.protos)
    <3>1. IsFiniteSet(on_disk.protos \union {<<"zone", z>>})
      BY <1>5, FS_AddElement
    <3>2. IsFiniteSet((on_disk.protos \union {<<"zone", z>>}) \union {<<"room", w>>})
      BY <3>1, FS_AddElement
    <3>3. on_disk'.protos = (on_disk.protos \union {<<"zone", z>>}) \union {<<"room", w>>}
      BY <1>6
    <3>4. QED
      BY <3>2, <3>3
  <2>3. \A n \in Nat : <<"zone", n>> \in on_disk'.protos <=> Has(tables', "zone", n)
    <3>1. ASSUME NEW n \in Nat PROVE <<"zone", n>> \in on_disk'.protos <=> <<"zone", n>> \in on_disk.protos \/ n = z
      BY <1>6
    <3>2. QED
      BY <1>2, <1>5, <1>7, <3>1
  <2>4. \A v \in Nat : <<"room", v>> \in on_disk'.protos \/ Has(tables', "room", v) => Has(tables', "zone", ZoneNumberOf(v))
    <3>1. ASSUME NEW v \in Nat PROVE <<"room", v>> \in on_disk'.protos <=> <<"room", v>> \in on_disk.protos \/ v = w
      BY <1>6
    <3>2. Has(tables', "zone", ZoneNumberOf(w))
      BY <1>2, <1>4, <1>7
    <3>3. QED
      BY <1>2, <1>5, <1>7, <3>1, <3>2
  <2>5. QED
    BY <1>6, <2>1, <2>2, <2>3, <2>4 DEF DiskRight
<1>9. ~ Has(tables, "room", w)
  BY <1>1, <1>4, <1>5
<1>10. AllListed(tables', on_disk'.protos, deleted, save_list)
  <2>1. AllListed(tables, on_disk.protos, deleted, save_list)
    BY DEF TablesInv
  <2>2. SUFFICES ASSUME NEW j \in TableKinds \ {"zone"}, NEW n \in Nat, Has(tables', j, n),
                        <<j, n>> \in on_disk'.protos <=> <<j, n>> \in deleted
                 PROVE  <<ZoneNumberOf(n), j>> \in save_list
    BY DEF AllListed
  <2>3. Has(tables, j, n)
    BY <1>2, <2>2
  <2>4. <<j, n>> # <<"zone", z>> /\ <<j, n>> # <<"room", w>>
    BY <1>9, <2>3
  <2>5. <<j, n>> \in on_disk'.protos <=> <<j, n>> \in on_disk.protos
    BY <1>6, <2>4
  <2>6. QED
    BY <2>1, <2>2, <2>3, <2>5 DEF AllListed
<1>11. QED
  BY <1>0, <1>2, <1>3, <1>8, <1>10 DEF TablesInv

LEMMA SetupKeeps ==
    ASSUME TablesInv, NEW x \in DOMAIN refs, setup_existing(x)
    PROVE  TablesInv'
<1>0. /\ Edit /\ refs[x].at \in {"edited_exit", "keeper", "product"}
      /\ copies' = [copies EXCEPT ![x] = [num |-> refs[x].num, means |-> refs[x].means]]
      /\ UNCHANGED <<tables, deleted, refs, save_list, on_disk>>
  BY DEF setup_existing
<1>1. edits' \in 0..MaxEdits
  BY <1>0, TablesAssumption DEF TablesInv, Edit
<1>2. RefsRight(refs, tables) /\ CopiesRight(copies, refs, tables)
  BY DEF TablesInv
<1>3. x \in DOMAIN FirstRefs /\ refs[x] = RefTo(x, refs[x].num, refs[x].means)
  BY <1>2 DEF RefsRight
<1>4. refs[x].at = FirstRefs[x].at
  BY <1>3 DEF RefTo
<1>5. DOMAIN copies = DOMAIN FirstRefs
  BY <1>2 DEF CopiesRight
<1>6. copies'[x] = [num |-> refs[x].num, means |-> refs[x].means]
  BY <1>0, <1>3, <1>5
<1>7. DOMAIN copies' = DOMAIN FirstRefs /\ \A y \in DOMAIN FirstRefs : y # x => copies'[y] = copies[y]
  BY <1>0, <1>5
<1>8. copies' = [y \in DOMAIN FirstRefs |-> [num |-> copies'[y].num, means |-> copies'[y].means]]
  <2>1. copies' = [y \in DOMAIN FirstRefs |-> copies'[y]]
    BY <1>0, <1>5
  <2>2. ASSUME NEW y \in DOMAIN FirstRefs PROVE copies'[y] = [num |-> copies'[y].num, means |-> copies'[y].means]
    <3>1. CASE y = x
      BY <1>6, <3>1
    <3>2. CASE y # x
      BY <1>2, <1>7, <3>2 DEF CopiesRight
    <3>3. QED
      BY <3>1, <3>2
  <2>3. QED
    BY <2>1, <2>2
<1>9. ASSUME NEW y \in DOMAIN FirstRefs, copies'[y] # NotEdited
      PROVE  /\ FirstRefs[y].at \in {"edited_exit", "keeper", "product"}
             /\ copies'[y].num \in 0..Len(tables[FirstRefs[y].kind])
             /\ FirstRefs[y].at = "product" /\ copies'[y].num # 0
                  => tables[FirstRefs[y].kind][copies'[y].num] = refs[y].means
  <2>1. CASE y = x
    <3>1. copies'[y].num = refs[x].num
      BY <1>6, <2>1
    <3>2. "product" \in Followed
      BY DEF Followed
    <3>3. QED
      BY <1>0, <1>2, <1>4, <2>1, <3>1, <3>2 DEF RefsRight
  <2>2. CASE y # x
    BY <1>2, <1>7, <1>9, <2>2 DEF CopiesRight
  <2>3. QED
    BY <2>1, <2>2
<1>10. CopiesRight(copies', refs, tables)
  BY <1>8, <1>9 DEF CopiesRight
<1>11. QED
  BY <1>0, <1>1, <1>10 DEF TablesInv

LEMMA QuitCopies ==
    ASSUME TablesInv, NEW x, copies' = [copies EXCEPT ![x] = NotEdited],
           NEW r, \A y \in DOMAIN FirstRefs : r[y].means = refs[y].means
    PROVE  CopiesRight(copies', r, tables)
<1>1. CopiesRight(copies, refs, tables)
  BY DEF TablesInv
<1>2. DOMAIN copies = DOMAIN FirstRefs
  BY <1>1 DEF CopiesRight
<1>3. DOMAIN copies' = DOMAIN FirstRefs /\ \A y \in DOMAIN FirstRefs : copies'[y] = IF y = x THEN NotEdited ELSE copies[y]
  BY <1>2
<1>4. copies' = [y \in DOMAIN FirstRefs |-> [num |-> copies'[y].num, means |-> copies'[y].means]]
  <2>1. copies' = [y \in DOMAIN FirstRefs |-> copies'[y]]
    BY <1>2, <1>3
  <2>2. NotEdited = [num |-> NotEdited.num, means |-> NotEdited.means]
    BY DEF NotEdited
  <2>3. \A y \in DOMAIN FirstRefs : copies[y] = [num |-> copies[y].num, means |-> copies[y].means]
    BY <1>1 DEF CopiesRight
  <2>4. \A y \in DOMAIN FirstRefs : copies'[y] = [num |-> copies'[y].num, means |-> copies'[y].means]
    BY <1>3, <2>2, <2>3
  <2>5. QED
    BY <2>1, <2>4
<1>5. ASSUME NEW y \in DOMAIN FirstRefs, copies'[y] # NotEdited
      PROVE  /\ FirstRefs[y].at \in {"edited_exit", "keeper", "product"}
             /\ copies'[y].num \in 0..Len(tables[FirstRefs[y].kind])
             /\ FirstRefs[y].at = "product" /\ copies'[y].num # 0
                  => tables[FirstRefs[y].kind][copies'[y].num] = r[y].means
  <2>1. copies'[y] = copies[y] /\ copies[y] # NotEdited
    BY <1>3, <1>5
  <2>2. QED
    BY <1>1, <2>1 DEF CopiesRight
<1>6. QED
  BY <1>4, <1>5 DEF CopiesRight

LEMMA SaveInternallyKeeps ==
    ASSUME TablesInv, NEW x \in DOMAIN refs, save_internally(x)
    PROVE  TablesInv'
<1>0. /\ copies[x] # NotEdited
      /\ refs' = [refs EXCEPT ![x].num = copies[x].num]
      /\ copies' = [copies EXCEPT ![x] = NotEdited]
      /\ save_list' = save_list \union {refs[x].file}
      /\ UNCHANGED <<tables, deleted, edits, on_disk>>
  BY DEF save_internally
<1>1. RefsRight(refs, tables) /\ CopiesRight(copies, refs, tables)
  BY DEF TablesInv
<1>2. DOMAIN refs = DOMAIN FirstRefs /\ \A y \in DOMAIN FirstRefs : refs[y] = RefTo(y, refs[y].num, refs[y].means)
  BY <1>1 DEF RefsRight
<1>3. refs'[x] = RefTo(x, copies[x].num, refs[x].means)
  <2>1. refs'[x] = [refs[x] EXCEPT !.num = copies[x].num]
    BY <1>0
  <2>2. ASSUME NEW n, NEW a, NEW m PROVE [RefTo(x, a, m) EXCEPT !.num = n] = RefTo(x, n, m)
    BY DEF RefTo
  <2>3. QED
    BY <1>2, <2>1, <2>2
<1>4. DOMAIN refs' = DOMAIN FirstRefs /\ \A y \in DOMAIN FirstRefs : y # x => refs'[y] = refs[y]
  BY <1>0, <1>2
<1>5. refs'[x].num = copies[x].num /\ refs'[x].means = refs[x].means
  BY <1>3 DEF RefTo
<1>6. refs' = [y \in DOMAIN FirstRefs |-> RefTo(y, refs'[y].num, refs'[y].means)]
  <2>1. refs' = [y \in DOMAIN FirstRefs |-> refs'[y]]
    BY <1>0, <1>2
  <2>2. ASSUME NEW y \in DOMAIN FirstRefs PROVE refs'[y] = RefTo(y, refs'[y].num, refs'[y].means)
    BY <1>2, <1>3, <1>4, <1>5
  <2>3. QED
    BY <2>1, <2>2
<1>7. /\ FirstRefs[x].at \in {"edited_exit", "keeper", "product"}
      /\ copies[x].num \in 0..Len(tables[FirstRefs[x].kind])
      /\ FirstRefs[x].at = "product" /\ copies[x].num # 0
           => tables[FirstRefs[x].kind][copies[x].num] = refs[x].means
  BY <1>0, <1>1, <1>2 DEF CopiesRight
<1>8. ASSUME NEW y \in DOMAIN FirstRefs
      PROVE  /\ refs'[y].num \in 0..Len(tables[FirstRefs[y].kind]) /\ refs'[y].means \in Nat
             /\ FirstRefs[y].at \in Followed /\ refs'[y].num # 0
                  => tables[FirstRefs[y].kind][refs'[y].num] = refs'[y].means
  <2>1. CASE y = x
    <3>1. FirstRefs[x].at \in Followed => FirstRefs[x].at = "product"
      BY <1>7 DEF Followed
    <3>2. refs[x].means \in Nat
      BY <1>1, <1>2 DEF RefsRight
    <3>3. QED
      BY <1>5, <1>7, <2>1, <3>1, <3>2
  <2>2. CASE y # x
    BY <1>1, <1>4, <2>2 DEF RefsRight
  <2>3. QED
    BY <2>1, <2>2
<1>9. RefsRight(refs', tables)
  BY <1>6, <1>8 DEF RefsRight
<1>10. \A y \in DOMAIN FirstRefs : refs'[y].means = refs[y].means
  BY <1>4, <1>5
<1>11. CopiesRight(copies', refs', tables)
  BY <1>0, <1>10, QuitCopies
<1>12. refs[x].file = <<refs[x].file[1], refs[x].file[2]>>
  <2>1. refs[x].file = FirstRefs[x].file
    BY <1>2 DEF RefTo
  <2>2. QED
    BY <1>2, <2>1, TablesAssumption
<1>13. AllPairs(save_list')
  BY <1>0, <1>12 DEF TablesInv, AllPairs
<1>14. AllListed(tables, on_disk.protos, deleted, save_list')
  BY <1>0 DEF TablesInv, AllListed
<1>15. QED
  BY <1>0, <1>9, <1>11, <1>13, <1>14 DEF TablesInv

LEMMA QuitKeeps ==
    ASSUME TablesInv, NEW x \in DOMAIN refs, editor_quit(x)
    PROVE  TablesInv'
<1>0. copies' = [copies EXCEPT ![x] = NotEdited] /\ UNCHANGED <<tables, deleted, refs, save_list, edits, on_disk>>
  BY DEF editor_quit
<1>1. CopiesRight(copies', refs, tables)
  BY <1>0, QuitCopies
<1>2. QED
  BY <1>0, <1>1 DEF TablesInv

LEMMA FlagKeeps ==
    ASSUME TablesInv, NEW k \in TableKinds, NEW v \in Nat, Edit,
           deleted' = deleted \union {<<k, v>>} \/ deleted' = deleted \ {<<k, v>>},
           save_list' = save_list \union {<<ZoneNumberOf(v), k>>},
           UNCHANGED <<tables, refs, copies, on_disk>>
    PROVE  TablesInv'
<1>1. edits' \in 0..MaxEdits
  BY TablesAssumption DEF TablesInv, Edit
<1>2. AllPairs(save_list')
  BY DEF TablesInv, AllPairs
<1>3. deleted' \in SUBSET (TableKinds \X Nat)
  BY DEF TablesInv
<1>4. AllListed(tables, on_disk.protos, deleted', save_list')
  <2>1. AllListed(tables, on_disk.protos, deleted, save_list)
    BY DEF TablesInv
  <2>2. SUFFICES ASSUME NEW j \in TableKinds \ {"zone"}, NEW n \in Nat, Has(tables, j, n),
                        <<j, n>> \in on_disk.protos <=> <<j, n>> \in deleted'
                 PROVE  <<ZoneNumberOf(n), j>> \in save_list'
    BY DEF AllListed
  <2>3. CASE j = k /\ n = v
    BY <2>3
  <2>4. CASE ~ (j = k /\ n = v)
    <3>1. <<j, n>> # <<k, v>>
      BY <2>4
    <3>2. <<j, n>> \in deleted' <=> <<j, n>> \in deleted
      BY <3>1
    <3>3. QED
      BY <2>1, <2>2, <3>2 DEF AllListed
  <2>5. QED
    BY <2>3, <2>4
<1>5. QED
  BY <1>1, <1>2, <1>3, <1>4 DEF TablesInv

(* What a table and the files hold, as sets of pairs.                      *)
PairsOf(tabs, K) == UNION {{k} \X ToSet(tabs[k]) : k \in K}

LEMMA PairsFacts ==
    ASSUME NEW tabs, TablesRight(tabs), NEW K \in SUBSET TableKinds
    PROVE  /\ \A q : q \in PairsOf(tabs, K) <=> \E k \in K : \E n \in Nat : q = <<k, n>> /\ Has(tabs, k, n)
           /\ PairsOf(tabs, K) \in SUBSET (TableKinds \X Nat)
           /\ IsFiniteSet(PairsOf(tabs, K))
<1> DEFINE P(k) == {k} \X ToSet(tabs[k])
<1>1. ASSUME NEW q PROVE q \in PairsOf(tabs, K) <=> \E k \in K : \E n \in Nat : q = <<k, n>> /\ Has(tabs, k, n)
  <2>1. q \in PairsOf(tabs, K) <=> \E k \in K : q \in P(k)
    BY DEF PairsOf
  <2>2. ASSUME NEW k \in K PROVE q \in P(k) <=> \E n \in Nat : q = <<k, n>> /\ Has(tabs, k, n)
    <3>1. q \in P(k) <=> \E n \in ToSet(tabs[k]) : q = <<k, n>>
      OBVIOUS
    <3>2. \A n : n \in ToSet(tabs[k]) <=> Has(tabs, k, n)
      BY HasAsSet
    <3>3. ToSet(tabs[k]) \subseteq Nat
      BY HasAsSet
    <3> HIDE DEF P
    <3>4. QED
      BY <3>1, <3>2, <3>3
  <2> HIDE DEF P
  <2>3. QED
    BY <2>1, <2>2
<1>2. PairsOf(tabs, K) \in SUBSET (TableKinds \X Nat)
  BY <1>1
<1>3. \A k \in TableKinds : IsFiniteSet(P(k))
  <2>1. ASSUME NEW k \in TableKinds PROVE IsFiniteSet(P(k))
    <3>1. IsFiniteSet({k}) /\ IsFiniteSet(ToSet(tabs[k]))
      BY HasAsSet, FS_Singleton
    <3>2. QED
      BY <3>1, FS_Product
  <2>2. QED
    BY <2>1
<1>4. PairsOf(tabs, K) \subseteq ((P("room") \union P("mob")) \union P("obj")) \union P("zone")
  <2>1. ASSUME NEW q \in PairsOf(tabs, K)
        PROVE  q \in P("room") \/ q \in P("mob") \/ q \in P("obj") \/ q \in P("zone")
    <3>1. PICK k \in K : q \in P(k)
      BY DEF PairsOf
    <3>2. k = "room" \/ k = "mob" \/ k = "obj" \/ k = "zone"
      BY DEF TableKinds
    <3> HIDE DEF P
    <3>3. QED
      BY <3>1, <3>2
  <2> HIDE DEF P
  <2>2. QED
    BY <2>1
<1>5. IsFiniteSet(((P("room") \union P("mob")) \union P("obj")) \union P("zone"))
  <2>1. IsFiniteSet(P("room")) /\ IsFiniteSet(P("mob")) /\ IsFiniteSet(P("obj")) /\ IsFiniteSet(P("zone"))
    BY <1>3 DEF TableKinds
  <2> HIDE DEF P
  <2>2. IsFiniteSet(P("room") \union P("mob"))
    BY <2>1, FS_Union
  <2>3. IsFiniteSet((P("room") \union P("mob")) \union P("obj"))
    BY <2>1, <2>2, FS_Union
  <2>4. QED
    BY <2>1, <2>3, FS_Union
<1> HIDE DEF P
<1>6. IsFiniteSet(PairsOf(tabs, K))
  BY <1>4, <1>5, FS_Subset
<1>7. QED
  BY <1>1, <1>2, <1>6

LEMMA WrittenKeeps ==
    ASSUME TablesInv, NEW files, on_disk' = WrittenFiles(files), save_list' = save_list \ files,
           UNCHANGED <<tables, deleted, refs, copies, edits>>
    PROVE  TablesInv'
<1> DEFINE old == {q \in on_disk.protos : q[1] = "zone" \/ FileOf(q) \notin files}
           new == {q \in Prototypes \ deleted : FileOf(q) \in files}
           K == TableKinds \ {"zone"}
<1>1. on_disk' = [protos |-> on_disk'.protos, refs |-> on_disk'.refs] /\ on_disk'.protos = old \union new
  BY DEF WrittenFiles
<1>2. Prototypes = PairsOf(tables, K) /\ TablesRight(tables)
  BY DEF Prototypes, PairsOf, TablesInv
<1>3. /\ \A q : q \in Prototypes <=> \E k \in K : \E n \in Nat : q = <<k, n>> /\ Has(tables, k, n)
      /\ Prototypes \in SUBSET (TableKinds \X Nat)
      /\ IsFiniteSet(Prototypes)
  <2>1. K \in SUBSET TableKinds
    OBVIOUS
  <2> HIDE DEF K
  <2>2. QED
    BY <1>2, <2>1, PairsFacts
<1>4. ASSUME NEW k \in K, NEW n \in Nat
      PROVE  <<k, n>> \in Prototypes <=> Has(tables, k, n)
  <2> HIDE DEF K
  <2>1. \A j, m : <<k, n>> = <<j, m>> => k = j /\ n = m
    OBVIOUS
  <2>2. QED
    BY <1>3, <2>1
<1>5. /\ on_disk.protos \in SUBSET (TableKinds \X Nat) /\ IsFiniteSet(on_disk.protos)
      /\ \A n \in Nat : <<"zone", n>> \in on_disk.protos <=> Has(tables, "zone", n)
      /\ \A v \in Nat : <<"room", v>> \in on_disk.protos \/ Has(tables, "room", v) => Has(tables, "zone", ZoneNumberOf(v))
  BY DEF TablesInv, DiskRight
<1>6. ASSUME NEW k \in TableKinds, NEW n \in Nat
      PROVE  /\ <<k, n>> \in old <=> <<k, n>> \in on_disk.protos /\ (k = "zone" \/ FileOf(<<k, n>>) \notin files)
             /\ <<k, n>> \in new <=> /\ k # "zone" /\ Has(tables, k, n)
                                     /\ <<k, n>> \notin deleted /\ FileOf(<<k, n>>) \in files
  <2>1. <<k, n>> \in old <=> <<k, n>> \in on_disk.protos /\ (k = "zone" \/ FileOf(<<k, n>>) \notin files)
    OBVIOUS
  <2>2. <<k, n>> \in new <=> <<k, n>> \in Prototypes /\ <<k, n>> \notin deleted /\ FileOf(<<k, n>>) \in files
    OBVIOUS
  <2>3. <<k, n>> \in Prototypes => k # "zone"
    <3>1. \A j, m : <<k, n>> = <<j, m>> => k = j
      OBVIOUS
    <3>2. QED
      BY <1>3, <3>1
  <2> HIDE DEF old, new
  <2>4. QED
    BY <1>4, <2>1, <2>2, <2>3
<1>7. IsFiniteSet(old \union new)
  <2>1. old \in SUBSET on_disk.protos /\ new \in SUBSET Prototypes
    OBVIOUS
  <2> HIDE DEF old, new
  <2>2. IsFiniteSet(old) /\ IsFiniteSet(new)
    BY <1>3, <1>5, <2>1, FS_Subset
  <2>3. QED
    BY <2>2, FS_Union
<1>8. old \union new \in SUBSET (TableKinds \X Nat)
  BY <1>3, <1>5
<1> HIDE DEF old, new
<1>9. DiskRight(on_disk', tables)
  <2>1. "zone" \in TableKinds /\ "room" \in TableKinds
    BY DEF TableKinds
  <2>2. \A n \in Nat : <<"zone", n>> \in on_disk'.protos <=> Has(tables, "zone", n)
    BY <1>1, <1>5, <1>6, <2>1
  <2>3. \A v \in Nat : <<"room", v>> \in on_disk'.protos \/ Has(tables, "room", v) => Has(tables, "zone", ZoneNumberOf(v))
    BY <1>1, <1>5, <1>6, <2>1
  <2>4. QED
    BY <1>1, <1>7, <1>8, <2>2, <2>3 DEF DiskRight
<1>10. AllListed(tables, on_disk'.protos, deleted, save_list')
  <2>1. AllListed(tables, on_disk.protos, deleted, save_list)
    BY DEF TablesInv
  <2>2. SUFFICES ASSUME NEW j \in TableKinds \ {"zone"}, NEW n \in Nat, Has(tables, j, n),
                        <<j, n>> \in on_disk'.protos <=> <<j, n>> \in deleted
                 PROVE  <<ZoneNumberOf(n), j>> \in save_list'
    BY DEF AllListed
  <2>3. FileOf(<<j, n>>) = <<ZoneNumberOf(n), j>>
    BY DEF FileOf
  <2>4. FileOf(<<j, n>>) \notin files
    BY <1>1, <1>6, <2>2
  <2>5. <<j, n>> \in on_disk'.protos <=> <<j, n>> \in on_disk.protos
    BY <1>1, <1>6, <2>4
  <2>6. <<ZoneNumberOf(n), j>> \in save_list
    BY <2>1, <2>2, <2>5 DEF AllListed
  <2>7. QED
    BY <2>3, <2>4, <2>6
<1>11. AllPairs(save_list')
  BY DEF TablesInv, AllPairs
<1>12. QED
  BY <1>9, <1>10, <1>11 DEF TablesInv

LEMMA OnDiskFacts ==
    ASSUME TablesInv, NEW k \in TableKinds
    PROVE  /\ \A n \in Nat : n \in OnDisk(k) <=> <<k, n>> \in on_disk.protos
           /\ OnDisk(k) \in SUBSET Nat /\ IsFiniteSet(OnDisk(k))
<1> DEFINE P == {p \in on_disk.protos : p[1] = k}
           f == [q \in P |-> q[2]]
<1>1. on_disk.protos \in SUBSET (TableKinds \X Nat) /\ IsFiniteSet(on_disk.protos)
  BY DEF TablesInv, DiskRight
<1>2. OnDisk(k) = {q[2] : q \in P}
  BY DEF OnDisk
<1>3. OnDisk(k) \in SUBSET Nat
  BY <1>1, <1>2
<1>4. ASSUME NEW n \in Nat PROVE n \in OnDisk(k) <=> <<k, n>> \in on_disk.protos
  <2>1. ASSUME n \in OnDisk(k) PROVE <<k, n>> \in on_disk.protos
    <3>1. PICK q \in P : q[2] = n
      BY <1>2, <2>1
    <3>2. q \in on_disk.protos /\ q = <<q[1], q[2]>> /\ q[1] = k
      BY <1>1
    <3>3. QED
      BY <3>1, <3>2
  <2>2. ASSUME <<k, n>> \in on_disk.protos PROVE n \in OnDisk(k)
    <3>1. <<k, n>> \in P /\ <<k, n>>[2] = n
      BY <2>2
    <3> HIDE DEF P
    <3>2. QED
      BY <1>2, <3>1
  <2>3. QED
    BY <2>1, <2>2
<1>5. IsFiniteSet(P)
  <2>1. P \in SUBSET on_disk.protos
    OBVIOUS
  <2> HIDE DEF P
  <2>2. QED
    BY <1>1, <2>1, FS_Subset
<1> HIDE DEF P
<1>6. f \in Surjection(P, OnDisk(k))
  BY <1>2 DEF Surjection
<1> HIDE DEF f
<1>7. IsFiniteSet(OnDisk(k))
  BY <1>5, <1>6, FS_Surjection
<1>8. QED
  BY <1>3, <1>4, <1>7

LEMMA BootTables ==
    ASSUME TablesInv, \A k \in TableKinds : OnDisk(k) # {},
           NEW tabs, tabs = [k \in TableKinds |-> Booted(k)]
    PROVE  /\ TablesRight(tabs)
           /\ \A k \in TableKinds : \A n \in Nat : Has(tabs, k, n) <=> <<k, n>> \in on_disk.protos
<1>1. ASSUME NEW k \in TableKinds
      PROVE  /\ tabs[k] \in Seq(Nat) /\ tabs[k] # <<>> /\ Ascending(tabs[k])
             /\ \A n \in Nat : Has(tabs, k, n) <=> <<k, n>> \in on_disk.protos
  <2>1. tabs[k] = InOrder(OnDisk(k))
    BY DEF Booted
  <2>2. OnDisk(k) \in SUBSET Nat /\ IsFiniteSet(OnDisk(k)) /\ OnDisk(k) # {}
    BY OnDiskFacts
  <2>3. /\ tabs[k] \in Seq(Nat) /\ tabs[k] # <<>> /\ Ascending(tabs[k])
        /\ \A i \in 1..Len(tabs[k]) : tabs[k][i] \in OnDisk(k)
        /\ \A n \in OnDisk(k) : \E i \in 1..Len(tabs[k]) : tabs[k][i] = n
    BY <2>1, <2>2, InOrderFacts
  <2>4. \A n : Has(tabs, k, n) <=> n \in OnDisk(k)
    BY <2>3 DEF Has
  <2>5. QED
    BY <2>3, <2>4, OnDiskFacts
<1>2. tabs \in [TableKinds -> Seq(Nat)]
  BY <1>1
<1>3. QED
  BY <1>1, <1>2 DEF TablesRight

LEMMA BootWorldKeeps ==
    ASSUME TablesInv, boot_world
    PROVE  TablesInv'
<1> DEFINE Vnum(x) == IF refs[x].at \in {"live_mob", "live_obj"} THEN on_disk.refs[FromCommand(x)] ELSE on_disk.refs[x]
           Found(x) == real_number(tables'[refs[x].kind], Vnum(x))
           Means(x) == IF Found(x) = 0 THEN 0 ELSE Vnum(x)
<1>0. /\ \A k \in TableKinds : OnDisk(k) # {}
      /\ tables' = [k \in TableKinds |-> Booted(k)] /\ deleted' = {} /\ save_list' = {}
      /\ refs' = [x \in DOMAIN refs |-> [refs[x] EXCEPT !.num = Found(x), !.means = Means(x)]]
      /\ copies' = [x \in DOMAIN copies |-> NotEdited]
      /\ UNCHANGED <<edits, on_disk>>
  <2> DEFINE tabs == [k \in TableKinds |-> Booted(k)]
             Place(x) == real_number(tabs[refs[x].kind], Vnum(x))
  <2>1. /\ \A k \in TableKinds : OnDisk(k) # {}
        /\ tables' = tabs /\ deleted' = {} /\ save_list' = {}
        /\ refs' = [x \in DOMAIN refs |-> [refs[x] EXCEPT !.num = Place(x), !.means = IF Place(x) = 0 THEN 0 ELSE Vnum(x)]]
        /\ copies' = [x \in DOMAIN copies |-> NotEdited]
        /\ edits' = edits /\ on_disk' = on_disk
    BY DEF boot_world, Vnum, Place
  <2> HIDE DEF tabs, Vnum
  <2>2. tables' = tabs
    BY <2>1
  <2>3. \A x \in DOMAIN refs : Found(x) = Place(x)
    BY <2>2
  <2>4. \A x \in DOMAIN refs : [refs[x] EXCEPT !.num = Place(x), !.means = IF Place(x) = 0 THEN 0 ELSE Vnum(x)]
                               = [refs[x] EXCEPT !.num = Found(x), !.means = Means(x)]
    BY <2>3
  <2> HIDE DEF Found, Place, Means
  <2>5. refs' = [x \in DOMAIN refs |-> [refs[x] EXCEPT !.num = Found(x), !.means = Means(x)]]
    BY <2>1, <2>4
  <2>6. QED
    BY <2>1, <2>5 DEF tabs
<1>1. /\ TablesRight(tables')
      /\ \A k \in TableKinds : \A n \in Nat : Has(tables', k, n) <=> <<k, n>> \in on_disk.protos
  BY <1>0, BootTables
<1>2. RefsRight(refs, tables) /\ CopiesRight(copies, refs, tables) /\ DiskRight(on_disk, tables)
  BY DEF TablesInv
<1>3. DOMAIN refs = DOMAIN FirstRefs /\ \A x \in DOMAIN FirstRefs : refs[x] = RefTo(x, refs[x].num, refs[x].means)
  BY <1>2 DEF RefsRight
<1>4. ASSUME NEW x \in DOMAIN FirstRefs
      PROVE  refs'[x] = RefTo(x, Found(x), Means(x))
  <2>1. refs'[x] = [refs[x] EXCEPT !.num = Found(x), !.means = Means(x)]
    BY <1>0, <1>3
  <2> HIDE DEF Found, Means
  <2>2. ASSUME NEW a, NEW b, NEW n PROVE [RefTo(x, a, b) EXCEPT !.num = n] = RefTo(x, n, b)
    BY DEF RefTo
  <2>3. ASSUME NEW a, NEW b, NEW m PROVE [RefTo(x, a, b) EXCEPT !.means = m] = RefTo(x, a, m)
    BY DEF RefTo
  <2>4. [refs[x] EXCEPT !.num = Found(x)] = RefTo(x, Found(x), refs[x].means)
    BY <1>3, <2>2
  <2>5. [RefTo(x, Found(x), refs[x].means) EXCEPT !.means = Means(x)] = RefTo(x, Found(x), Means(x))
    BY <2>3
  <2>6. QED
    BY <2>1, <2>4, <2>5
<1>5. ASSUME NEW x \in DOMAIN FirstRefs
      PROVE  /\ Found(x) \in 0..Len(tables'[FirstRefs[x].kind]) /\ Means(x) \in Nat
             /\ Found(x) # 0 => tables'[FirstRefs[x].kind][Found(x)] = Means(x)
  <2>1. refs[x].kind = FirstRefs[x].kind /\ FirstRefs[x].kind \in TableKinds
    BY <1>3, TablesAssumption DEF RefTo
  <2> HIDE DEF Vnum
  <2>2. /\ Found(x) \in 0..Len(tables'[FirstRefs[x].kind])
        /\ Found(x) # 0 => tables'[FirstRefs[x].kind][Found(x)] = Vnum(x)
    BY <1>1, <2>1, SearchHas
  <2>3. Found(x) # 0 => Vnum(x) \in Nat
    <3>1. tables'[FirstRefs[x].kind] \in Seq(Nat)
      BY <1>1, <2>1 DEF TablesRight
    <3>2. Len(tables'[FirstRefs[x].kind]) \in Nat
      BY <3>1, LenProperties
    <3> HIDE DEF Found
    <3>3. Found(x) # 0 => Found(x) \in 1..Len(tables'[FirstRefs[x].kind])
      BY <2>2, <3>2
    <3>4. QED
      BY <2>2, <3>1, <3>3, ElementOfSeq
  <2> HIDE DEF Found
  <2>4. QED
    BY <2>2, <2>3
<1> HIDE DEF Found, Means
<1>6. ASSUME NEW x \in DOMAIN FirstRefs PROVE refs'[x].num = Found(x) /\ refs'[x].means = Means(x)
  <2>1. \A n, m : RefTo(x, n, m).num = n /\ RefTo(x, n, m).means = m
    BY DEF RefTo
  <2>2. QED
    BY <1>4, <2>1
<1>7. RefsRight(refs', tables')
  <2>1. refs' = [x \in DOMAIN FirstRefs |-> refs'[x]]
    BY <1>0, <1>3
  <2>2. refs' = [x \in DOMAIN FirstRefs |-> RefTo(x, refs'[x].num, refs'[x].means)]
    BY <1>4, <1>6, <2>1
  <2>3. QED
    BY <1>5, <1>6, <2>2 DEF RefsRight
<1>8. CopiesRight(copies', refs', tables')
  <2>1. DOMAIN copies = DOMAIN FirstRefs
    BY <1>2 DEF CopiesRight
  <2>2. copies' = [x \in DOMAIN FirstRefs |-> NotEdited]
    BY <1>0, <2>1
  <2>3. NotEdited = [num |-> NotEdited.num, means |-> NotEdited.means]
    BY DEF NotEdited
  <2>4. copies' = [x \in DOMAIN FirstRefs |-> [num |-> copies'[x].num, means |-> copies'[x].means]]
    BY <2>2, <2>3
  <2>5. QED
    BY <2>2, <2>4 DEF CopiesRight
<1>9. DiskRight(on_disk, tables')
  <2>1. "zone" \in TableKinds /\ "room" \in TableKinds
    BY DEF TableKinds
  <2>2. \A n \in Nat : Has(tables', "zone", n) <=> Has(tables, "zone", n)
    BY <1>1, <1>2, <2>1 DEF DiskRight
  <2>3. \A n \in Nat : Has(tables', "room", n) <=> <<"room", n>> \in on_disk.protos
    BY <1>1, <2>1
  <2>4. \A n \in Nat : ZoneNumberOf(n) \in Nat
    BY ZoneFacts
  <2>5. QED
    BY <1>2, <2>2, <2>3, <2>4 DEF DiskRight
<1>10. AllListed(tables', on_disk.protos, {}, {})
  BY <1>1 DEF AllListed
<1>11. AllPairs({})
  BY DEF AllPairs
<1>12. QED
  BY <1>0, <1>1, <1>7, <1>8, <1>9, <1>10, <1>11 DEF TablesInv

LEMMA TablesStart ==
    ASSUME TablesInit
    PROVE  TablesInv
<1>0. /\ tables = FirstTable /\ deleted = {} /\ save_list = {} /\ edits = 0
      /\ refs = [x \in DOMAIN FirstRefs |->
                   RefTo(x, FirstRefs[x].num, FirstTable[FirstRefs[x].kind][FirstRefs[x].num])]
      /\ copies = [x \in DOMAIN FirstRefs |-> NotEdited]
      /\ on_disk = [protos |-> PairsOf(FirstTable, TableKinds), refs |-> on_disk.refs]
  BY DEF TablesInit, RefTo, PairsOf
<1>1. /\ FirstTable \in [TableKinds -> Seq(Nat) \ {<<>>}]
      /\ \A k \in TableKinds : \A i, j \in DOMAIN FirstTable[k] : i < j => FirstTable[k][i] < FirstTable[k][j]
      /\ \A i \in DOMAIN FirstTable["room"] : ZoneNumberOf(FirstTable["room"][i]) \in ToSet(FirstTable["zone"])
      /\ MaxEdits \in Nat
  BY TablesAssumption
<1>2. \A k \in TableKinds : FirstTable[k] \in Seq(Nat) /\ FirstTable[k] # <<>> /\ DOMAIN FirstTable[k] = 1..Len(FirstTable[k])
  <2>1. \A k \in TableKinds : FirstTable[k] \in Seq(Nat) /\ FirstTable[k] # <<>>
    BY <1>1
  <2>2. QED
    BY <2>1, LenProperties
<1>3. TablesRight(FirstTable)
  <2>1. FirstTable \in [TableKinds -> Seq(Nat)]
    BY <1>1, <1>2
  <2>2. QED
    BY <1>1, <1>2, <2>1 DEF TablesRight, Ascending
<1>4. RefsRight(refs, tables)
  <2>1. ASSUME NEW x \in DOMAIN FirstRefs
        PROVE  /\ FirstRefs[x].kind \in TableKinds /\ FirstRefs[x].num \in 1..Len(FirstTable[FirstRefs[x].kind])
               /\ FirstTable[FirstRefs[x].kind][FirstRefs[x].num] \in Nat
               /\ FirstRefs[x].num \in 0..Len(FirstTable[FirstRefs[x].kind])
    <3>1. FirstRefs[x].kind \in TableKinds /\ FirstRefs[x].num \in DOMAIN FirstTable[FirstRefs[x].kind]
      BY TablesAssumption
    <3>2. FirstRefs[x].num \in 1..Len(FirstTable[FirstRefs[x].kind]) /\ FirstTable[FirstRefs[x].kind] \in Seq(Nat)
      BY <1>2, <3>1
    <3>3. FirstTable[FirstRefs[x].kind][FirstRefs[x].num] \in Nat
      BY <3>2, ElementOfSeq
    <3>4. QED
      BY <3>1, <3>2, <3>3
  <2>2. \A x \in DOMAIN FirstRefs : /\ refs[x].num = FirstRefs[x].num
                                    /\ refs[x].means = FirstTable[FirstRefs[x].kind][FirstRefs[x].num]
    BY <1>0 DEF RefTo
  <2>3. refs = [x \in DOMAIN FirstRefs |-> RefTo(x, refs[x].num, refs[x].means)]
    BY <1>0, <2>2
  <2>4. QED
    BY <1>0, <2>1, <2>2, <2>3 DEF RefsRight
<1>5. CopiesRight(copies, refs, tables)
  <2>1. NotEdited = [num |-> NotEdited.num, means |-> NotEdited.means]
    BY DEF NotEdited
  <2>2. copies = [x \in DOMAIN FirstRefs |-> [num |-> copies[x].num, means |-> copies[x].means]]
    BY <1>0, <2>1
  <2>3. QED
    BY <1>0, <2>2 DEF CopiesRight
<1>6. /\ on_disk.protos = PairsOf(FirstTable, TableKinds)
      /\ \A k \in TableKinds : \A n \in Nat : <<k, n>> \in on_disk.protos <=> Has(FirstTable, k, n)
  <2>1. \A q : q \in PairsOf(FirstTable, TableKinds) <=> \E k \in TableKinds : \E n \in Nat : q = <<k, n>> /\ Has(FirstTable, k, n)
    BY <1>3, PairsFacts
  <2>2. on_disk.protos = PairsOf(FirstTable, TableKinds)
    BY <1>0
  <2>3. ASSUME NEW k \in TableKinds, NEW n \in Nat PROVE <<k, n>> \in on_disk.protos <=> Has(FirstTable, k, n)
    <3>1. \A j, m : <<k, n>> = <<j, m>> => k = j /\ n = m
      OBVIOUS
    <3>2. QED
      BY <2>1, <2>2, <3>1
  <2>4. QED
    BY <2>2, <2>3
<1>7. DiskRight(on_disk, tables)
  <2>1. on_disk.protos \in SUBSET (TableKinds \X Nat) /\ IsFiniteSet(on_disk.protos)
    BY <1>3, <1>6, PairsFacts
  <2>2. "zone" \in TableKinds /\ "room" \in TableKinds
    BY DEF TableKinds
  <2>3. \A n : n \in ToSet(FirstTable["zone"]) <=> Has(FirstTable, "zone", n)
    BY <1>3, <2>2, HasAsSet
  <2>4. \A v \in Nat : Has(FirstTable, "room", v) => Has(FirstTable, "zone", ZoneNumberOf(v))
    <3>1. ASSUME NEW v \in Nat, Has(FirstTable, "room", v) PROVE ZoneNumberOf(v) \in ToSet(FirstTable["zone"])
      <4>1. PICK i \in 1..Len(FirstTable["room"]) : FirstTable["room"][i] = v
        BY <3>1 DEF Has
      <4>2. i \in DOMAIN FirstTable["room"]
        BY <1>2, <2>2
      <4>3. QED
        BY <1>1, <4>1, <4>2
    <3>2. QED
      BY <2>3, <3>1
  <2>5. QED
    BY <1>0, <1>6, <2>1, <2>2, <2>4 DEF DiskRight
<1>8. AllListed(tables, on_disk.protos, deleted, save_list)
  BY <1>0, <1>6 DEF AllListed
<1>9. QED
  BY <1>0, <1>1, <1>3, <1>4, <1>5, <1>7, <1>8 DEF TablesInv, AllPairs

LEMMA TablesStep ==
    ASSUME TablesInv, TablesNext
    PROVE  TablesInv'
<1>0. /\ NewNumbers \in [TableKinds -> SUBSET Nat]
      /\ \A k \in TableKinds : NewNumbers[k] \in SUBSET Nat
      /\ "room" \in TableKinds /\ "mob" \in TableKinds /\ "obj" \in TableKinds /\ "zone" \in TableKinds
  BY TablesAssumption DEF TableKinds
<1>1. ASSUME NEW v \in NewNumbers["room"], redit_new(v) PROVE TablesInv'
  <2>1. "room" \in TableKinds \ {"zone"} /\ v \in Nat
    BY <1>0
  <2>2. QED
    BY <1>1, <2>1, NewKeeps DEF redit_new
<1>2. ASSUME NEW v \in NewNumbers["mob"], medit_new(v) PROVE TablesInv'
  <2>1. "mob" \in TableKinds \ {"zone"} /\ v \in Nat
    BY <1>0
  <2>2. QED
    BY <1>2, <2>1, NewKeeps DEF medit_new
<1>3. ASSUME NEW v \in NewNumbers["obj"], oedit_new(v) PROVE TablesInv'
  <2>1. "obj" \in TableKinds \ {"zone"} /\ v \in Nat
    BY <1>0
  <2>2. QED
    BY <1>3, <2>1, NewKeeps DEF oedit_new
<1>4. ASSUME NEW z \in NewNumbers["zone"], zedit_new_zone(z) PROVE TablesInv'
  <2>1. z \in Nat
    BY <1>0
  <2>2. QED
    BY <1>4, <2>1, NewZoneKeeps
<1>5. ASSUME NEW k \in TableKinds, NEW v \in ToSet(tables[k]), do_delete(k, v) \/ do_undelete(k, v) PROVE TablesInv'
  <2>1. v \in Nat
    BY HasAsSet DEF TablesInv
  <2>2. CASE do_delete(k, v)
    BY <2>1, <2>2, FlagKeeps DEF do_delete
  <2>3. CASE do_undelete(k, v)
    BY <2>1, <2>3, FlagKeeps DEF do_undelete
  <2>4. QED
    BY <1>5, <2>2, <2>3
<1>6. ASSUME NEW e \in save_list, save_to_disk(e[1], e[2]) PROVE TablesInv'
  <2>1. /\ on_disk' = WrittenFiles({<<e[1], e[2]>>}) /\ save_list' = save_list \ {<<e[1], e[2]>>}
        /\ UNCHANGED <<tables, deleted, refs, copies, edits>>
    BY <1>6 DEF save_to_disk
  <2>2. QED
    BY <2>1, WrittenKeeps
<1>7. ASSUME olc_saveall PROVE TablesInv'
  <2>1. /\ on_disk' = WrittenFiles(save_list) /\ save_list' = save_list \ save_list
        /\ UNCHANGED <<tables, deleted, refs, copies, edits>>
    BY <1>7 DEF olc_saveall
  <2>2. QED
    BY <2>1, WrittenKeeps
<1>8. QED
  BY <1>1, <1>2, <1>3, <1>4, <1>5, <1>6, <1>7, SetupKeeps, SaveInternallyKeeps, QuitKeeps, BootWorldKeeps DEF TablesNext

LEMMA TablesStutter ==
    ASSUME TablesInv, UNCHANGED tableVars
    PROVE  TablesInv'
BY DEF tableVars, TablesInv

LEMMA TablesInvSound ==
    ASSUME TablesInv
    PROVE  TablesSound
<1>1. TablesRight(tables) /\ RefsRight(refs, tables) /\ AllListed(tables, on_disk.protos, deleted, save_list)
  BY DEF TablesInv
<1>2. \A k \in TableKinds : tables[k] \in Seq(Nat) /\ Ascending(tables[k]) /\ DOMAIN tables[k] = 1..Len(tables[k])
  <2>1. \A k \in TableKinds : tables[k] \in Seq(Nat) /\ Ascending(tables[k])
    BY <1>1 DEF TablesRight
  <2>2. QED
    BY <2>1, LenProperties
<1>3. PrototypesFound
  BY <1>2, RealFinds DEF PrototypesFound
<1>4. ReferencesKept
  <2>1. DOMAIN refs = DOMAIN FirstRefs
    BY <1>1 DEF RefsRight
  <2>2. ASSUME NEW x \in DOMAIN FirstRefs PROVE refs[x].at = FirstRefs[x].at /\ refs[x].kind = FirstRefs[x].kind
    <3>1. refs[x] = RefTo(x, refs[x].num, refs[x].means)
      BY <1>1 DEF RefsRight
    <3>2. QED
      BY <3>1 DEF RefTo
  <2>3. QED
    BY <1>1, <2>1, <2>2 DEF ReferencesKept, RefsRight, Disabled
<1>5. UnsavedIsListed
  <2>1. ASSUME NEW k \in TableKinds \ {"zone"}, NEW i \in DOMAIN tables[k],
               (<<k, tables[k][i]>> \in on_disk.protos) = (<<k, tables[k][i]>> \in deleted)
        PROVE  <<ZoneNumberOf(tables[k][i]), k>> \in save_list
    <3>1. i \in 1..Len(tables[k]) /\ tables[k] \in Seq(Nat)
      BY <1>2
    <3>2. tables[k][i] \in Nat /\ Has(tables, k, tables[k][i])
      BY <3>1, ElementOfSeq DEF Has
    <3>3. QED
      BY <1>1, <2>1, <3>2 DEF AllListed
  <2>2. QED
    BY <2>1 DEF UnsavedIsListed
<1>6. QED
  BY <1>3, <1>4, <1>5 DEF TablesSound

(* However builders add and delete rooms, mobiles, objects and zones, save *)
(* them and boot: the binary searches find every number in their tables,   *)
(* what an insertion has to renumber names what it named, and what is not  *)
(* in the files is on the save list (redit.c, medit.c, oedit.c, zedit.c,   *)
(* olc.c, and db.c at a boot).                                             *)
THEOREM TablesAlwaysSound == TablesSpec => []TablesSound
<1>1. TablesInit => TablesInv
  BY TablesStart
<1>2. TablesInv /\ [TablesNext]_tableVars => TablesInv'
  BY TablesStep, TablesStutter
<1>3. TablesInv => TablesSound
  BY TablesInvSound
<1>4. QED
  BY <1>1, <1>2, <1>3, PTL DEF TablesSpec

(* What the editors keep beside their copies is right: the numbers that    *)
(* the rest of the program holds into the tables, and the mark that        *)
(* decides whether a change is asked about before it is lost.              *)
THEOREM EditorsAlwaysSound == TablesSpec /\ MenusSpec => []EditorsSound
<1>1. TablesSound /\ MenusSound => EditorsSound
  BY DEF EditorsSound
<1>2. QED
  BY <1>1, TablesAlwaysSound, MenusAlwaysSound, PTL

-----------------------------------------------------------------------------
(* The gold of everybody, in any table and any purses.                     *)
GoldOf(index) == [i \in DOMAIN index |-> index[i].gold]
InAccounts(index) == FoldSeq(LAMBDA c, sum : c.gold + sum, 0, index)
InPurses(p) == FoldSet(LAMBDA x, sum : p[x] + sum, 0, Clansmen)

LEMMA WealthIs ==
    Wealth = InAccounts(clan_index) + InPurses(purse)
BY DEF Wealth, InAccounts, InPurses

LEMMA PursesAre ==
    ASSUME NEW p
    PROVE  InPurses(p) = (CHOOSE h : h = [s \in SUBSET Clansmen |-> Added(p, h, s)])[Clansmen]
BY Zenon DEF InPurses, FoldSet, MapThenFoldSet, Added, One

AddedGold(index, h, s) == IF s = {} THEN 0 ELSE index[One(s)].gold + h[s \ {One(s)}]

LEMMA AccountsAre ==
    ASSUME NEW x
    PROVE  InAccounts(x) = (CHOOSE h : h = [s \in SUBSET DOMAIN x |-> AddedGold(x, h, s)])[DOMAIN x]
BY Zenon DEF InAccounts, FoldSeq, FoldFunction, FoldFunctionOnSet, MapThenFoldSet, AddedGold, One

LEMMA PursesAdd ==
    ASSUME NEW p
    PROVE  \E h : AddsUp(Clansmen, p, h) /\ InPurses(p) = h[Clansmen]
<1> DEFINE h == CHOOSE h : h = [s \in SUBSET Clansmen |-> Added(p, h, s)]
<1>1. h = [s \in SUBSET Clansmen |-> Added(p, h, s)]
  BY AddingExists, ClansAssumption
<1>2. InPurses(p) = h[Clansmen]
  BY PursesAre
<1> HIDE DEF h
<1>3. AddsUp(Clansmen, p, h)
  BY <1>1 DEF AddsUp
<1>4. QED
  BY <1>2, <1>3

LEMMA AccountsAdd ==
    ASSUME NEW x, IsFiniteSet(DOMAIN x)
    PROVE  \E h : AddsUp(DOMAIN x, GoldOf(x), h) /\ InAccounts(x) = h[DOMAIN x]
<1> DEFINE D == DOMAIN x
           h == CHOOSE h : h = [s \in SUBSET DOMAIN x |-> AddedGold(x, h, s)]
<1>1. ASSUME NEW h0, NEW s \in SUBSET D PROVE Added(GoldOf(x), h0, s) = AddedGold(x, h0, s)
  <2>1. s # {} => One(s) \in D
    BY DEF One
  <2>2. QED
    BY <2>1 DEF Added, AddedGold, GoldOf
<1>2. \E h0 : h0 = [s \in SUBSET D |-> AddedGold(x, h0, s)]
  <2> DEFINE G == GoldOf(x)
  <2> DEFINE h1 == CHOOSE h0 : h0 = [s \in SUBSET D |-> Added(G, h0, s)]
  <2>1. h1 = [s \in SUBSET D |-> Added(G, h1, s)]
    BY AddingExists
  <2> HIDE DEF G, D, h1
  <2>2. [s \in SUBSET D |-> Added(G, h1, s)] = [s \in SUBSET D |-> AddedGold(x, h1, s)]
    BY <1>1 DEF G
  <2>3. h1 = [s \in SUBSET D |-> AddedGold(x, h1, s)]
    BY <2>1, <2>2
  <2>4. QED
    BY <2>3
<1>3. h = [s \in SUBSET D |-> AddedGold(x, h, s)]
  BY <1>2
<1>4. InAccounts(x) = h[D]
  BY AccountsAre
<1> HIDE DEF h
<1>5. \A s \in SUBSET D : h[s] = AddedGold(x, h, s)
  BY <1>3
<1>6. AddsUp(D, GoldOf(x), h)
  BY <1>1, <1>5 DEF AddsUp
<1>7. QED
  BY <1>4, <1>6

LEMMA PursesShift ==
    ASSUME NEW p \in [Clansmen -> Int], NEW c \in Clansmen, NEW d \in Int
    PROVE  InPurses([p EXCEPT ![c] = @ + d]) = InPurses(p) + d /\ InPurses(p) \in Int
<1> DEFINE q == [p EXCEPT ![c] = @ + d]
<1>1. PICK h : AddsUp(Clansmen, p, h) /\ InPurses(p) = h[Clansmen]
  BY PursesAdd
<1>2. PICK k : AddsUp(Clansmen, q, k) /\ InPurses(q) = k[Clansmen]
  BY PursesAdd
<1>3. q[c] = p[c] + d /\ \A x \in Clansmen : p[x] \in Int /\ (x # c => q[x] = p[x])
  OBVIOUS
<1>4. IsFiniteSet(Clansmen)
  BY ClansAssumption
<1> HIDE DEF q
<1>5. h[Clansmen] \in Int
  BY <1>1, <1>3, <1>4, SumTyped
<1>6. k[Clansmen] = h[Clansmen] + d
  BY <1>1, <1>2, <1>3, <1>4, SumShifts
<1>7. QED
  BY <1>1, <1>2, <1>5, <1>6 DEF q

(* Two tables of equal length with the same gold, or with d more in one    *)
(* account.                                                                *)
LEMMA AccountsShift ==
    ASSUME NEW D, IsFiniteSet(D), NEW x, NEW y, DOMAIN x = D, DOMAIN y = D,
           \A i \in D : x[i].gold \in Int, NEW c \in D, NEW d \in Int,
           y[c].gold = x[c].gold + d, \A i \in D : i # c => y[i].gold = x[i].gold
    PROVE  InAccounts(y) = InAccounts(x) + d /\ InAccounts(x) \in Int
<1>1. PICK h : AddsUp(D, GoldOf(x), h) /\ InAccounts(x) = h[D]
  BY AccountsAdd
<1>2. PICK k : AddsUp(D, GoldOf(y), k) /\ InAccounts(y) = k[D]
  BY AccountsAdd
<1>3. /\ \A i \in D : GoldOf(x)[i] \in Int /\ (i # c => GoldOf(y)[i] = GoldOf(x)[i])
      /\ GoldOf(y)[c] = GoldOf(x)[c] + d
  BY DEF GoldOf
<1>4. h[D] \in Int
  BY <1>1, <1>3, SumTyped
<1>5. k[D] = h[D] + d
  BY <1>1, <1>2, <1>3, SumShifts
<1>6. QED
  BY <1>1, <1>2, <1>4, <1>5

-----------------------------------------------------------------------------
(* The clans: their records, who belongs to them, who edits them.          *)
ClanRec == [number : Nat \ {0}, owner : Clansmen, gold : Int, nummembers : Int]
EditModes == {"none", "menu", "value", "ranks", "rank", "delete", "owner", "save"}
ClanEdit == [mode : EditModes, val : BOOLEAN, clan : ClanRec]
RightIndex(x) == x \in Seq(ClanRec) /\ x # <<>> /\ Ascending(NumbersOf(x))

MembersOf(m, n) == {p \in Clansmen : m[p].clan = n /\ m[p].rank > CLAN_APPLY}

ClansTyped ==
  /\ RightIndex(clan_index)
  /\ membership \in [Clansmen -> [clan : Nat, rank : CLAN_NORANK..CLAN_RULER]]
  /\ purse \in [Clansmen -> Int] /\ \A p \in Clansmen : purse[p] >= 0
  /\ clan_edit \in [Clansmen -> ClanEdit]
MembersCounted ==
  \A i \in DOMAIN clan_index : clan_index[i].nummembers >= Cardinality(MembersOf(membership, clan_index[i].number))
MembersBelong ==
  \A p \in Clansmen :
    /\ membership[p].clan = 0 <=> membership[p].rank = CLAN_NORANK
    /\ membership[p].clan # 0 => \E i \in DOMAIN clan_index : clan_index[i].number = membership[p].clan
EditorsApart ==
  /\ \A p, q \in Clansmen : p # q /\ ~NotEditingClan(p) /\ ~NotEditingClan(q) =>
       clan_edit[p].clan.number # clan_edit[q].clan.number
  /\ \A p \in Clansmen : clan_edit[p].clan.nummembers >= 0
ClansInv == ClansTyped /\ MembersCounted /\ MembersBelong /\ EditorsApart

LEMMA NumbersAre ==
    ASSUME NEW x \in Seq(ClanRec)
    PROVE  /\ NumbersOf(x) \in Seq(Nat) /\ Len(NumbersOf(x)) = Len(x) /\ DOMAIN x = 1..Len(x)
           /\ Len(x) \in Nat /\ DOMAIN NumbersOf(x) = 1..Len(x)
           /\ \A i \in 1..Len(x) : x[i] \in ClanRec /\ NumbersOf(x)[i] = x[i].number
           /\ x # <<>> => NumbersOf(x) # <<>> /\ Len(x) > 0 /\ 1 \in 1..Len(x)
<1>1. DOMAIN x = 1..Len(x) /\ Len(x) \in Nat /\ \A i \in 1..Len(x) : x[i] \in ClanRec
  BY LenProperties, ElementOfSeq
<1>2. NumbersOf(x) = [i \in 1..Len(x) |-> x[i].number]
  BY <1>1 DEF NumbersOf
<1>3. \A i \in 1..Len(x) : x[i].number \in Nat
  BY <1>1 DEF ClanRec
<1>4. NumbersOf(x) \in Seq(Nat) /\ Len(NumbersOf(x)) = Len(x)
  BY <1>1, <1>2, <1>3
<1>5. x # <<>> => Len(x) > 0 /\ Len(x) # 0
  BY <1>1, EmptySeq
<1>6. x # <<>> => NumbersOf(x) # <<>>
  BY <1>4, <1>5, EmptySeq
<1>7. x # <<>> => 1 \in 1..Len(x)
  BY <1>1, <1>5
<1>8. QED
  BY <1>1, <1>2, <1>4, <1>5, <1>6, <1>7

LEMMA ClanFound ==
    ASSUME RightIndex(clan_index)
    PROVE  /\ \A i \in DOMAIN clan_index : real_clan(clan_index[i].number) = i
           /\ \A n : /\ real_clan(n) \in 0..Len(clan_index)
                     /\ real_clan(n) # 0 => real_clan(n) \in DOMAIN clan_index
                                            /\ clan_index[real_clan(n)].number = n
<1> DEFINE x == clan_index
           tab == NumbersOf(x)
<1>1. /\ tab \in Seq(Nat) /\ Len(tab) = Len(x) /\ tab # <<>> /\ Ascending(tab)
      /\ \A i \in 1..Len(x) : tab[i] = x[i].number
      /\ DOMAIN x = 1..Len(x) /\ Len(x) \in Nat
  BY NumbersAre DEF RightIndex
<1>2. \A n : real_clan(n) = real_number(tab, n)
  BY DEF real_clan
<1> HIDE DEF x, tab
<1>3. ASSUME NEW i \in 1..Len(x) PROVE real_clan(x[i].number) = i
  <2>1. real_number(tab, tab[i]) = i
    BY <1>1, RealFinds
  <2>2. QED
    BY <1>1, <1>2, <2>1
<1>4. ASSUME NEW n
      PROVE  real_clan(n) \in 0..Len(x) /\ (real_clan(n) # 0 => tab[real_clan(n)] = n)
  BY <1>1, <1>2, RealNumber
<1>5. ASSUME NEW n, real_clan(n) # 0
      PROVE  real_clan(n) \in 1..Len(x) /\ x[real_clan(n)].number = n
  <2>1. real_clan(n) \in 1..Len(x)
    BY <1>1, <1>4, <1>5
  <2>2. QED
    BY <1>1, <1>4, <1>5, <2>1
<1>6. QED
  BY <1>1, <1>3, <1>4, <1>5 DEF x

LEMMA ClansSoundHolds ==
    ASSUME ClansInv
    PROVE  ClansSound
<1> USE DEF ClansInv, ClansTyped
<1>1. \A i \in DOMAIN clan_index : real_clan(clan_index[i].number) = i
  BY ClanFound
<1>2. ASSUME NEW p \in Clansmen, membership[p].clan # 0 PROVE ClanOf(p) # 0
  <2>1. PICK i \in DOMAIN clan_index : clan_index[i].number = membership[p].clan
    BY <1>2 DEF MembersBelong
  <2>2. ClanOf(p) = i
    BY <1>1, <2>1 DEF ClanOf
  <2>3. i # 0
    BY NumbersAre DEF RightIndex
  <2>4. QED
    BY <2>2, <2>3
<1>3. QED
  BY <1>1, <1>2 DEF ClansSound, MembersCounted, MembersBelong, EditorsApart, Members, MembersOf

(* A table in which the record at c is replaced by one of the same number. *)
LEMMA RecordPut ==
    ASSUME NEW x, RightIndex(x), NEW c \in DOMAIN x, NEW r \in ClanRec, r.number = x[c].number
    PROVE  LET y == [x EXCEPT ![c] = r]
           IN RightIndex(y) /\ DOMAIN y = DOMAIN x /\ y[c] = r
              /\ \A i \in DOMAIN x : y[i].number = x[i].number /\ (i # c => y[i] = x[i])
<1> DEFINE y == [x EXCEPT ![c] = r]
<1>1. /\ x \in Seq(ClanRec) /\ DOMAIN x = 1..Len(x) /\ Len(x) \in Nat
      /\ \A i \in 1..Len(x) : x[i] \in ClanRec /\ NumbersOf(x)[i] = x[i].number
      /\ DOMAIN NumbersOf(x) = 1..Len(x)
  BY NumbersAre DEF RightIndex
<1>2. y \in Seq(ClanRec) /\ Len(y) = Len(x)
  BY <1>1
<1>3. DOMAIN y = DOMAIN x /\ y[c] = r /\ \A i \in DOMAIN x : i # c => y[i] = x[i]
  OBVIOUS
<1> HIDE DEF y
<1>4. \A i \in DOMAIN x : y[i].number = x[i].number
  BY <1>3
<1>5. NumbersOf(y) = NumbersOf(x)
  BY <1>3, <1>4 DEF NumbersOf
<1>6. y # <<>>
  BY <1>1, <1>2, EmptySeq DEF RightIndex
<1>7. QED
  BY <1>2, <1>3, <1>4, <1>5, <1>6 DEF RightIndex, y

PutIn(t, S, s, p, v) ==
  /\ t \in Seq(S) /\ Len(t) = Len(s) + 1
  /\ \A i \in 1..(Len(s) + 1) : t[i] = IF i < p THEN s[i] ELSE IF i = p THEN v ELSE s[i - 1]

LEMMA InsertedAt1 ==
    ASSUME NEW S, NEW s \in Seq(S), NEW p \in 1..(Len(s) + 1), NEW v \in S
    PROVE  PutIn(InsertAt(s, p, v), S, s, p, v)
<1> DEFINE a == SubSeq(s, 1, p - 1)
           b == SubSeq(s, p, Len(s))
           c == a \o <<v>>
           t == InsertAt(s, p, v)
<1>0. Len(s) \in Nat /\ p \in Int /\ 1 <= p /\ p <= Len(s) + 1
  BY LenProperties
<1>1. /\ a \in Seq(S) /\ Len(a) = p - 1 /\ \A i \in 1..(p - 1) : a[i] = s[i]
      /\ b \in Seq(S) /\ Len(b) = Len(s) - p + 1 /\ \A i \in 1..(Len(s) - p + 1) : b[i] = s[p + i - 1]
  BY <1>0
<1>2. t = c \o b
  BY DEF InsertAt
<1> HIDE DEF a, b
<1>3. c \in Seq(S) /\ Len(c) = p
  BY <1>0, <1>1
<1>4. \A i \in 1..p : c[i] = IF i = p THEN v ELSE s[i]
  BY <1>0, <1>1
<1> HIDE DEF c, t
<1>5. t \in Seq(S) /\ Len(t) = Len(s) + 1
  <2>1. t \in Seq(S) /\ Len(t) = Len(c) + Len(b)
    BY <1>1, <1>2, <1>3, ConcatProperties
  <2>2. QED
    BY <1>0, <1>1, <1>3, <2>1
<1>6. \A i \in 1..(Len(s) + 1) : t[i] = IF i < p THEN s[i] ELSE IF i = p THEN v ELSE s[i - 1]
  <2>1. SUFFICES ASSUME NEW i \in 1..(Len(s) + 1)
                 PROVE  t[i] = IF i < p THEN s[i] ELSE IF i = p THEN v ELSE s[i - 1]
    OBVIOUS
  <2>2. CASE i <= p
    <3>1. i \in 1..p /\ t[i] = c[i]
      BY <1>0, <1>1, <1>2, <1>3, <2>2
    <3>2. QED
      BY <1>0, <1>4, <2>2, <3>1
  <2>3. CASE i > p
    <3>1. i - p \in 1..(Len(s) - p + 1) /\ t[i] = b[i - p]
      <4>1. i - p \in 1..(Len(s) - p + 1) /\ i - p \in 1..Len(b) /\ i = Len(c) + (i - p)
        BY <1>0, <1>1, <1>3, <2>3
      <4>2. b \in Seq(S) /\ c \in Seq(S) /\ t = c \o b
        BY <1>1, <1>2, <1>3
      <4>3. \A j \in 1..Len(b) : (c \o b)[Len(c) + j] = b[j]
        BY <4>2, LenProperties
      <4> HIDE DEF t
      <4>4. QED
        BY <4>1, <4>2, <4>3
    <3>2. p + (i - p) - 1 = i - 1
      BY <1>0
    <3>3. b[i - p] = s[i - 1]
      BY <1>1, <3>1, <3>2
    <3>4. QED
      BY <1>0, <2>3, <3>1, <3>3
  <2>4. QED
    BY <1>0, <2>2, <2>3
<1>7. QED
  BY <1>5, <1>6 DEF t, PutIn

LEMMA ClanInserted ==
    ASSUME NEW x, RightIndex(x), NEW r \in ClanRec, \A i \in DOMAIN x : x[i].number # r.number
    PROVE  LET y == Inserted(x, r)
           IN /\ RightIndex(y)
              /\ \A i \in DOMAIN y : y[i] = r \/ \E j \in DOMAIN x : y[i] = x[j]
              /\ \A j \in DOMAIN x : \E i \in DOMAIN y : y[i] = x[j]
              /\ \E i \in DOMAIN y : y[i] = r
<1> DEFINE tab == NumbersOf(x)
           v == r.number
           p == PlaceFor(tab, v)
           y == Inserted(x, r)
           L == Len(x)
           t == InsertAt(tab, p, v)
<1>1. /\ x \in Seq(ClanRec) /\ DOMAIN x = 1..L /\ L \in Nat
      /\ \A i \in 1..L : x[i] \in ClanRec /\ tab[i] = x[i].number
      /\ DOMAIN tab = 1..L /\ Len(tab) = L /\ tab \in Seq(Nat) /\ Ascending(tab)
      /\ \A i \in 1..L : tab[i] \in Nat
  <2>1. x \in Seq(ClanRec) /\ Ascending(tab)
    BY DEF RightIndex
  <2>2. tab \in Seq(Nat) /\ Len(tab) = L
    BY <2>1, NumbersAre
  <2>3. \A i \in 1..L : tab[i] \in Nat
    BY <2>2, ElementOfSeq
  <2>4. QED
    BY <2>1, <2>2, <2>3, NumbersAre
<1>2. v \in Nat
  BY DEF ClanRec
<1>3. p \in 1..(L + 1) /\ p \in Int
  BY <1>1, <1>2, PlaceSplits
<1>4. {i \in DOMAIN x : x[i].number <= v} = {i \in DOMAIN tab : tab[i] < v}
  <2>1. ASSUME NEW i \in 1..L PROVE x[i].number <= v <=> tab[i] < v
    BY <1>1, <1>2
  <2>2. QED
    BY <1>1, <2>1
<1>5. y = InsertAt(x, p, r)
  <2>1. p = Cardinality({i \in DOMAIN x : x[i].number <= v}) + 1
    <3>1. p = 1 + Cardinality({i \in DOMAIN x : x[i].number <= v})
      BY <1>4 DEF PlaceFor
    <3>2. p - 1 = Cardinality({i \in DOMAIN x : x[i].number <= v})
      <4>1. Cardinality({i \in DOMAIN x : x[i].number <= v}) \in Nat
        <5>1. IsFiniteSet(1..L)
          BY <1>1, FS_Interval
        <5>2. IsFiniteSet({i \in DOMAIN x : x[i].number <= v})
          BY <1>1, <5>1, FS_Subset
        <5>3. QED
          BY <5>2, FS_CardinalityType
      <4> HIDE DEF p
      <4>2. QED
        BY <3>1, <4>1
    <3> HIDE DEF p
    <3>3. QED
      BY <1>3, <3>2
  <2> HIDE DEF p
  <2>2. QED
    BY <2>1 DEF Inserted
<1> HIDE DEF p, y, tab, t, v
<1>6. /\ y \in Seq(ClanRec) /\ Len(y) = L + 1
      /\ \A i \in 1..(L + 1) : y[i] = IF i < p THEN x[i] ELSE IF i = p THEN r ELSE x[i - 1]
  <2>1. PutIn(y, ClanRec, x, p, r)
    BY <1>1, <1>3, <1>5, InsertedAt1
  <2>2. QED
    BY <2>1 DEF PutIn
<1>7. /\ t \in Seq(Nat) /\ Len(t) = L + 1
      /\ \A i \in 1..(L + 1) : t[i] = IF i < p THEN tab[i] ELSE IF i = p THEN v ELSE tab[i - 1]
  <2>1. PutIn(t, Nat, tab, p, v)
    BY <1>1, <1>2, <1>3, InsertedAt1 DEF t
  <2>2. QED
    BY <1>1, <2>1 DEF PutIn
<1>8. \A i \in 1..(L + 1) : y[i].number = t[i]
  <2>1. ASSUME NEW i \in 1..(L + 1) PROVE y[i].number = t[i]
    <3>1. CASE i < p
      <4>1. i \in 1..L
        BY <1>3, <3>1
      <4>2. QED
        BY <1>1, <1>6, <1>7, <3>1, <4>1
    <3>2. CASE i = p
      BY <1>3, <1>6, <1>7, <3>2 DEF v
    <3>3. CASE i > p
      <4>1. i - 1 \in 1..L /\ ~ (i < p) /\ i # p
        BY <1>1, <1>3, <3>3
      <4>2. QED
        BY <1>1, <1>6, <1>7, <4>1
    <3>4. QED
      BY <1>3, <3>1, <3>2, <3>3
  <2>2. QED
    BY <2>1
<1>9. DOMAIN y = 1..(L + 1) /\ DOMAIN t = 1..(L + 1)
  BY <1>6, <1>7, LenProperties
<1>10. NumbersOf(y) = t
  <2>1. t = [i \in 1..(L + 1) |-> t[i]]
    BY <1>7, <1>9, LenProperties
  <2>2. NumbersOf(y) = [i \in 1..(L + 1) |-> y[i].number]
    BY <1>9 DEF NumbersOf
  <2>3. QED
    BY <1>8, <2>1, <2>2
<1>11. Ascending(t)
  <2>1. \A i \in 1..Len(tab) : tab[i] # v
    BY <1>1 DEF v
  <2>2. Ascending(InsertAt(tab, PlaceFor(tab, v), v))
    BY <1>1, <1>2, <2>1, InsertedAscends
  <2>3. QED
    BY <2>2 DEF t, p
<1>12. y # <<>>
  BY <1>1, <1>6, EmptySeq
<1>13. ASSUME NEW i \in 1..(L + 1) PROVE y[i] = r \/ \E j \in 1..L : y[i] = x[j]
  <2>1. CASE i < p
    <3>1. i \in 1..L
      BY <1>3, <2>1
    <3>2. QED
      BY <1>6, <2>1, <3>1
  <2>2. CASE i = p
    BY <1>6, <2>2
  <2>3. CASE i > p
    <3>1. i - 1 \in 1..L /\ ~ (i < p) /\ i # p
      BY <1>1, <1>3, <2>3
    <3>2. QED
      BY <1>6, <3>1
  <2>4. QED
    BY <1>3, <2>1, <2>2, <2>3
<1>14. ASSUME NEW j \in 1..L PROVE \E i \in 1..(L + 1) : y[i] = x[j]
  <2>1. CASE j < p
    <3>1. j \in 1..(L + 1)
      BY <1>1
    <3>2. QED
      BY <1>6, <2>1, <3>1
  <2>2. CASE j >= p
    <3>1. j + 1 \in 1..(L + 1) /\ ~ (j + 1 < p) /\ j + 1 # p /\ (j + 1) - 1 = j
      BY <1>1, <1>3, <2>2
    <3>2. QED
      BY <1>6, <3>1
  <2>3. QED
    BY <1>3, <2>1, <2>2
<1>15. y[p] = r
  BY <1>3, <1>6
<1>16. QED
  BY <1>1, <1>3, <1>6, <1>9, <1>10, <1>11, <1>12, <1>13, <1>14, <1>15 DEF RightIndex, y

(* What a change of one person's membership does to the members of all     *)
(* clans.                                                                  *)
LEMMA MemberMoved ==
    ASSUME ClansTyped, NEW v \in Clansmen, NEW c \in Nat, NEW r \in CLAN_NORANK..CLAN_RULER,
           MemberNow(v, c, r)
    PROVE  /\ membership' \in [Clansmen -> [clan : Nat, rank : CLAN_NORANK..CLAN_RULER]]
           /\ \A p \in Clansmen : membership'[p] = IF p = v THEN [clan |-> c, rank |-> r] ELSE membership[p]
           /\ \A n : MembersOf(membership', n) = IF c = n /\ r > CLAN_APPLY THEN MembersOf(membership, n) \cup {v} ELSE MembersOf(membership, n) \ {v}
<1>1. membership' = [membership EXCEPT ![v] = [clan |-> c, rank |-> r]]
  BY DEF MemberNow
<1>2. membership' \in [Clansmen -> [clan : Nat, rank : CLAN_NORANK..CLAN_RULER]]
  BY <1>1 DEF ClansTyped
<1>3. \A p \in Clansmen : membership'[p] = IF p = v THEN [clan |-> c, rank |-> r] ELSE membership[p]
  BY <1>1 DEF ClansTyped
<1>4. ASSUME NEW n
      PROVE  MembersOf(membership', n) = IF c = n /\ r > CLAN_APPLY THEN MembersOf(membership, n) \cup {v} ELSE MembersOf(membership, n) \ {v}
  BY <1>3 DEF MembersOf
<1>5. QED
  BY <1>2, <1>3, <1>4

LEMMA MembersCount ==
    ASSUME NEW m, NEW n, NEW v
    PROVE  /\ IsFiniteSet(MembersOf(m, n)) /\ Cardinality(MembersOf(m, n)) \in Nat
           /\ Cardinality(MembersOf(m, n) \cup {v}) =
                Cardinality(MembersOf(m, n)) + IF v \in MembersOf(m, n) THEN 0 ELSE 1
           /\ Cardinality(MembersOf(m, n) \ {v}) =
                Cardinality(MembersOf(m, n)) - IF v \in MembersOf(m, n) THEN 1 ELSE 0
<1>1. IsFiniteSet(MembersOf(m, n))
  <2>1. MembersOf(m, n) \subseteq Clansmen
    BY DEF MembersOf
  <2>2. QED
    BY <2>1, ClansAssumption, FS_Subset
<1> DEFINE M == MembersOf(m, n)
<1> HIDE DEF M
<1>2. IsFiniteSet(M)
  BY <1>1 DEF M
<1>3. Cardinality(M) \in Nat
  BY <1>2, FS_CardinalityType
<1>4. Cardinality(M \cup {v}) = Cardinality(M) + IF v \in M THEN 0 ELSE 1
  <2>1. v \in M => M \cup {v} = M
    OBVIOUS
  <2>2. v \notin M => Cardinality(M \cup {v}) = Cardinality(M) + 1
    BY <1>2, FS_AddElement
  <2>3. QED
    BY <1>3, <2>1, <2>2
<1>5. Cardinality(M \ {v}) = Cardinality(M) - IF v \in M THEN 1 ELSE 0
  <2>1. v \notin M => M \ {v} = M
    OBVIOUS
  <2>2. v \in M => Cardinality(M \ {v}) = Cardinality(M) - 1
    BY <1>2, FS_RemoveElement
  <2>3. CASE v \in M
    BY <1>3, <2>2, <2>3
  <2>4. CASE v \notin M
    <3>1. Cardinality(M \ {v}) = Cardinality(M)
      BY <2>1, <2>4
    <3>2. QED
      BY <1>3, <2>4, <3>1
  <2>5. QED
    BY <2>3, <2>4
<1>6. QED
  BY <1>2, <1>3, <1>4, <1>5 DEF M

LEMMA GoldSame ==
    ASSUME RightIndex(clan_index), DOMAIN clan_index' = DOMAIN clan_index, purse' = purse,
           \A i \in DOMAIN clan_index : clan_index'[i].gold = clan_index[i].gold
    PROVE  Wealth' = Wealth
<1> DEFINE D == DOMAIN clan_index
<1>1. D = 1..Len(clan_index) /\ Len(clan_index) \in Nat /\ 1 \in D
      /\ \A i \in D : clan_index[i].gold \in Int
  BY NumbersAre DEF RightIndex, ClanRec
<1>2. IsFiniteSet(D)
  <2> HIDE DEF D
  <2>1. QED
    BY <1>1, FS_Interval
<1> DEFINE x == clan_index
           y == clan_index'
<1>3. \A i \in D : x[i].gold \in Int /\ (i # 1 => y[i].gold = x[i].gold)
  BY <1>1
<1>4. y[1].gold = x[1].gold + 0
  BY <1>1
<1>5. DOMAIN x = D /\ DOMAIN y = D /\ 0 \in Int /\ 1 \in D
  BY <1>1
<1> HIDE DEF D, x, y
<1>6. InAccounts(y) = InAccounts(x) + 0 /\ InAccounts(x) \in Int
  BY <1>2, <1>3, <1>4, <1>5, AccountsShift
<1>7. InAccounts(clan_index') = InAccounts(clan_index)
  BY <1>6 DEF x, y
<1>8. (Wealth = InAccounts(clan_index) + InPurses(purse))'
  BY WealthIs, PTL
<1>9. QED
  BY <1>7, <1>8, WealthIs

(* Somebody's membership changes, and the numbers of members with it.      *)
LEMMA MemberStep ==
    ASSUME ClansInv, NEW v \in Clansmen, NEW c \in Nat, NEW r \in CLAN_NORANK..CLAN_RULER,
           MemberNow(v, c, r), c = 0 <=> r = CLAN_NORANK,
           c # 0 => \E i \in DOMAIN clan_index : clan_index[i].number = c,
           RightIndex(clan_index'), DOMAIN clan_index' = DOMAIN clan_index,
           UNCHANGED <<purse, clan_edit>>,
           \A i \in DOMAIN clan_index :
             /\ clan_index'[i].number = clan_index[i].number /\ clan_index'[i].gold = clan_index[i].gold
             /\ clan_index'[i].nummembers >=
                  clan_index[i].nummembers
                    + (IF c = clan_index[i].number /\ r > CLAN_APPLY THEN 1 ELSE 0)
                    - (IF v \in MembersOf(membership, clan_index[i].number) THEN 1 ELSE 0)
    PROVE  ClansInv' /\ Wealth' = Wealth
<1>0. ClansTyped /\ MembersCounted /\ MembersBelong /\ EditorsApart
  BY DEF ClansInv
<1>1. /\ membership' \in [Clansmen -> [clan : Nat, rank : CLAN_NORANK..CLAN_RULER]]
      /\ \A p \in Clansmen : membership'[p] = IF p = v THEN [clan |-> c, rank |-> r] ELSE membership[p]
      /\ \A n : MembersOf(membership', n) = IF c = n /\ r > CLAN_APPLY THEN MembersOf(membership, n) \cup {v} ELSE MembersOf(membership, n) \ {v}
  BY <1>0, MemberMoved
<1>2. ClansTyped'
  BY <1>0, <1>1 DEF ClansTyped
<1>3. MembersCounted'
  <2>1. SUFFICES ASSUME NEW i \in DOMAIN clan_index
                 PROVE  clan_index'[i].nummembers >= Cardinality(MembersOf(membership', clan_index'[i].number))
    BY DEF MembersCounted
  <2> DEFINE n == clan_index[i].number
             M == MembersOf(membership, n)
             k == clan_index[i].nummembers
  <2>2. k >= Cardinality(M) /\ k \in Int /\ clan_index'[i].nummembers \in Int
    <3>1. k >= Cardinality(M)
      BY <1>0 DEF MembersCounted
    <3>2. i \in DOMAIN clan_index' /\ clan_index \in Seq(ClanRec) /\ clan_index' \in Seq(ClanRec)
      BY <1>0 DEF ClansTyped, RightIndex
    <3>3. clan_index[i] \in ClanRec /\ clan_index'[i] \in ClanRec
      BY <3>2, NumbersAre
    <3>4. QED
      BY <3>1, <3>3 DEF ClanRec
  <2>3. clan_index'[i].number = n
    OBVIOUS
  <2>4. /\ Cardinality(M) \in Nat
        /\ Cardinality(M \cup {v}) = Cardinality(M) + IF v \in M THEN 0 ELSE 1
        /\ Cardinality(M \ {v}) = Cardinality(M) - IF v \in M THEN 1 ELSE 0
    BY MembersCount
  <2>5. clan_index'[i].nummembers >= k + (IF c = n /\ r > CLAN_APPLY THEN 1 ELSE 0)
                                       - (IF v \in M THEN 1 ELSE 0)
    OBVIOUS
  <2>6. MembersOf(membership', n) = IF c = n /\ r > CLAN_APPLY THEN M \cup {v} ELSE M \ {v}
    BY <1>1
  <2> HIDE DEF M, n, k
  <2>7. CASE c = n /\ r > CLAN_APPLY
    <3>1. MembersOf(membership', n) = M \cup {v}
      BY <2>6, <2>7
    <3>2. clan_index'[i].nummembers >= Cardinality(M \cup {v})
      BY <2>2, <2>4, <2>5, <2>7
    <3>3. QED
      BY <2>3, <3>1, <3>2
  <2>8. CASE ~ (c = n /\ r > CLAN_APPLY)
    <3>1. MembersOf(membership', n) = M \ {v}
      BY <2>6, <2>8
    <3>2. clan_index'[i].nummembers >= Cardinality(M \ {v})
      BY <2>2, <2>4, <2>5, <2>8
    <3>3. QED
      BY <2>3, <3>1, <3>2
  <2>9. QED
    BY <2>7, <2>8
<1>4. MembersBelong'
  <2>1. ASSUME NEW p \in Clansmen
        PROVE  /\ membership'[p].clan = 0 <=> membership'[p].rank = CLAN_NORANK
               /\ membership'[p].clan # 0 =>
                    \E i \in DOMAIN clan_index' : clan_index'[i].number = membership'[p].clan
    <3>1. CASE p = v
      BY <1>1, <3>1
    <3>2. CASE p # v
      BY <1>0, <1>1, <3>2 DEF MembersBelong
    <3>3. QED
      BY <3>1, <3>2
  <2>2. QED
    BY <2>1 DEF MembersBelong
<1>5. EditorsApart'
  BY <1>0 DEF EditorsApart, NotEditingClan
<1>6. Wealth' = Wealth
  BY <1>0, GoldSame DEF ClansTyped
<1>7. QED
  BY <1>2, <1>3, <1>4, <1>5, <1>6 DEF ClansInv

LEMMA CountedIs ==
    ASSUME RightIndex(clan_index), NEW c \in DOMAIN clan_index, NEW n \in Int, Counted(c, n)
    PROVE  /\ RightIndex(clan_index') /\ DOMAIN clan_index' = DOMAIN clan_index
           /\ \A i \in DOMAIN clan_index :
                /\ clan_index'[i].number = clan_index[i].number /\ clan_index'[i].gold = clan_index[i].gold
                /\ clan_index'[i].nummembers = clan_index[i].nummembers + IF i = c THEN n ELSE 0
<1> DEFINE r == [clan_index[c] EXCEPT !.nummembers = @ + n]
<1>0. \A i \in DOMAIN clan_index : clan_index[i] \in ClanRec
  BY NumbersAre DEF RightIndex
<1>1. r \in ClanRec /\ r.number = clan_index[c].number /\ r.gold = clan_index[c].gold
      /\ r.nummembers = clan_index[c].nummembers + n
  BY <1>0 DEF ClanRec
<1>2. clan_index' = [clan_index EXCEPT ![c] = r]
  BY DEF Counted
<1> HIDE DEF r
<1>3. RightIndex(clan_index') /\ DOMAIN clan_index' = DOMAIN clan_index /\ clan_index'[c] = r
      /\ \A i \in DOMAIN clan_index : clan_index'[i].number = clan_index[i].number
                                      /\ (i # c => clan_index'[i] = clan_index[i])
  BY <1>1, <1>2, RecordPut
<1>4. \A i \in DOMAIN clan_index : clan_index[i].nummembers \in Int
  BY <1>0 DEF ClanRec
<1>5. QED
  BY <1>1, <1>3, <1>4

(* Where the clan of somebody who is in one is found.                      *)
LEMMA ClanOfMember ==
    ASSUME ClansInv, NEW p \in Clansmen, membership[p].clan # 0
    PROVE  /\ ClanOf(p) \in DOMAIN clan_index /\ clan_index[ClanOf(p)].number = membership[p].clan
           /\ \A i \in DOMAIN clan_index : clan_index[i].number = membership[p].clan <=> i = ClanOf(p)
<1>1. RightIndex(clan_index)
  BY DEF ClansInv, ClansTyped
<1>2. PICK j \in DOMAIN clan_index : clan_index[j].number = membership[p].clan
  BY DEF ClansInv, MembersBelong
<1>3. \A i \in DOMAIN clan_index : real_clan(clan_index[i].number) = i
  BY <1>1, ClanFound
<1>4. ClanOf(p) = j
  BY <1>2, <1>3 DEF ClanOf
<1>5. QED
  BY <1>2, <1>3, <1>4 DEF ClanOf

LEMMA ClanTypes ==
    ASSUME ClansInv
    PROVE  /\ RightIndex(clan_index) /\ \A i \in DOMAIN clan_index : clan_index[i] \in ClanRec
           /\ \A p \in Clansmen : /\ membership[p] \in [clan : Nat, rank : CLAN_NORANK..CLAN_RULER]
                                  /\ membership[p].clan \in Nat /\ membership[p].rank \in 0..6
                                  /\ membership[p].clan = 0 <=> membership[p].rank = 0
                                  /\ clan_edit[p] \in ClanEdit /\ purse[p] \in Int /\ purse[p] >= 0
<1>1. RightIndex(clan_index)
  BY DEF ClansInv, ClansTyped
<1>2. \A i \in DOMAIN clan_index : clan_index[i] \in ClanRec
  BY <1>1, NumbersAre DEF RightIndex
<1>3. ASSUME NEW p \in Clansmen
      PROVE  membership[p] \in [clan : Nat, rank : CLAN_NORANK..CLAN_RULER] /\ clan_edit[p] \in ClanEdit
             /\ purse[p] \in Int /\ purse[p] >= 0
  BY DEF ClansInv, ClansTyped
<1>4. \A p \in Clansmen : membership[p].clan \in Nat /\ membership[p].rank \in 0..6
  BY <1>3 DEF CLAN_NORANK, CLAN_RULER
<1>5. \A p \in Clansmen : membership[p].clan = 0 <=> membership[p].rank = 0
  BY DEF ClansInv, MembersBelong, CLAN_NORANK
<1>6. QED
  BY <1>1, <1>2, <1>3, <1>4, <1>5

(* A step that changes the membership of v, and not the table.             *)
LEMMA UncountedStep ==
    ASSUME ClansInv, NEW v \in Clansmen, NEW c \in Nat, NEW r \in CLAN_NORANK..CLAN_RULER,
           MemberNow(v, c, r), c = 0 <=> r = CLAN_NORANK,
           c # 0 => \E i \in DOMAIN clan_index : clan_index[i].number = c,
           UNCHANGED <<clan_index, purse, clan_edit>>,
           r > CLAN_APPLY => membership[v].clan = c /\ membership[v].rank > CLAN_APPLY
    PROVE  ClansInv' /\ Wealth' = Wealth
<1>1. RightIndex(clan_index) /\ \A i \in DOMAIN clan_index : clan_index[i].nummembers \in Int
  BY ClanTypes DEF ClanRec
<1>2. ASSUME NEW i \in DOMAIN clan_index
      PROVE  clan_index[i].nummembers >=
               clan_index[i].nummembers
                 + (IF c = clan_index[i].number /\ r > CLAN_APPLY THEN 1 ELSE 0)
                 - (IF v \in MembersOf(membership, clan_index[i].number) THEN 1 ELSE 0)
  <2>1. c = clan_index[i].number /\ r > CLAN_APPLY => v \in MembersOf(membership, clan_index[i].number)
    BY DEF MembersOf
  <2> DEFINE k == clan_index[i].nummembers
             a == c = clan_index[i].number /\ r > CLAN_APPLY
             b == v \in MembersOf(membership, clan_index[i].number)
  <2>2. k \in Int /\ (a => b)
    BY <1>1, <2>1
  <2> HIDE DEF k, a, b
  <2>3. k >= k + (IF a THEN 1 ELSE 0) - (IF b THEN 1 ELSE 0)
    BY <2>2
  <2>4. QED
    BY <2>3 DEF k, a, b
<1>3. QED
  BY <1>1, <1>2, MemberStep

(* One that is no member any more is counted off, if he was counted.       *)
LEMMA LeavingStep ==
    ASSUME ClansInv, NEW v \in Clansmen, membership[v].clan # 0, MemberNow(v, 0, CLAN_NORANK),
           IF membership[v].rank # CLAN_APPLY THEN Counted(ClanOf(v), -1) ELSE UNCHANGED clan_index,
           UNCHANGED <<purse, clan_edit>>
    PROVE  ClansInv' /\ Wealth' = Wealth
<1>0. 0 \in Nat /\ CLAN_NORANK \in CLAN_NORANK..CLAN_RULER /\ 0 = CLAN_NORANK /\ ~ (CLAN_NORANK > CLAN_APPLY)
  BY DEF CLAN_NORANK, CLAN_RULER, CLAN_APPLY
<1>1. CASE membership[v].rank = CLAN_APPLY
  BY <1>0, <1>1, UncountedStep
<1>2. CASE membership[v].rank # CLAN_APPLY
  <2> DEFINE c == ClanOf(v)
  <2>1. /\ c \in DOMAIN clan_index /\ clan_index[c].number = membership[v].clan
    BY ClanOfMember
  <2>2. RightIndex(clan_index) /\ \A i \in DOMAIN clan_index : clan_index[i].nummembers \in Int
    BY ClanTypes DEF ClanRec
  <2>3. Counted(c, -1) /\ -1 \in Int
    BY <1>2
  <2> HIDE DEF c
  <2>4. /\ RightIndex(clan_index') /\ DOMAIN clan_index' = DOMAIN clan_index
        /\ \A i \in DOMAIN clan_index :
             /\ clan_index'[i].number = clan_index[i].number /\ clan_index'[i].gold = clan_index[i].gold
             /\ clan_index'[i].nummembers = clan_index[i].nummembers + IF i = c THEN -1 ELSE 0
    BY <2>1, <2>2, <2>3, CountedIs
  <2>5. v \in MembersOf(membership, clan_index[c].number)
    <3>1. membership[v].rank > CLAN_APPLY
      BY <1>2, ClanTypes DEF CLAN_APPLY
    <3>2. QED
      BY <2>1, <3>1 DEF MembersOf
  <2>6. ASSUME NEW i \in DOMAIN clan_index
        PROVE  clan_index'[i].nummembers >=
                 clan_index[i].nummembers
                   + (IF 0 = clan_index[i].number /\ CLAN_NORANK > CLAN_APPLY THEN 1 ELSE 0)
                   - (IF v \in MembersOf(membership, clan_index[i].number) THEN 1 ELSE 0)
    <3> DEFINE k == clan_index[i].nummembers
               b == v \in MembersOf(membership, clan_index[i].number)
    <3>1. k \in Int /\ clan_index'[i].nummembers = k + (IF i = c THEN -1 ELSE 0) /\ (i = c => b)
      BY <2>2, <2>4, <2>5
    <3> HIDE DEF k, b
    <3>2. clan_index'[i].nummembers >= k + 0 - (IF b THEN 1 ELSE 0)
      BY <3>1
    <3>3. QED
      BY <1>0, <3>2 DEF k, b
  <2>7. QED
    BY <1>0, <2>4, <2>6, MemberStep
<1>3. QED
  BY <1>1, <1>2

LEMMA ApplyKeeps ==
    ASSUME ClansInv, NEW p \in Clansmen, NEW n \in ClanNumbers, do_clan_apply(p, n)
    PROVE  ClansInv' /\ Wealth' = Wealth
<1>1. PICK i \in DOMAIN clan_index : clan_index[i].number = n
  BY DEF do_clan_apply
<1>2. n \in Nat /\ n # 0
  BY <1>1, ClanTypes DEF ClanRec
<1>3. CLAN_APPLY \in CLAN_NORANK..CLAN_RULER /\ CLAN_APPLY # CLAN_NORANK /\ ~ (CLAN_APPLY > CLAN_APPLY)
  BY DEF CLAN_NORANK, CLAN_RULER, CLAN_APPLY
<1>4. QED
  BY <1>1, <1>2, <1>3, UncountedStep DEF do_clan_apply

LEMMA ResignKeeps ==
    ASSUME ClansInv, NEW p \in Clansmen, do_clan_resign(p)
    PROVE  ClansInv' /\ Wealth' = Wealth
BY LeavingStep DEF do_clan_resign

LEMMA KickKeeps ==
    ASSUME ClansInv, NEW p \in Clansmen, NEW v \in Clansmen, do_clan_kick(p, v)
    PROVE  ClansInv' /\ Wealth' = Wealth
<1>1. ClanOf(p) = ClanOf(v)
  BY DEF do_clan_kick, ClanOf
<1>2. QED
  BY <1>1, LeavingStep DEF do_clan_kick

LEMMA EnlistKeeps ==
    ASSUME ClansInv, NEW p \in Clansmen, NEW v \in Clansmen, do_clan_enlist(p, v)
    PROVE  ClansInv' /\ Wealth' = Wealth
<1> DEFINE m == membership[v].clan
           c == ClanOf(v)
<1>1. PICK r \in {CLAN_SOLDIER, CLAN_RULER} : MemberNow(v, m, r)
  BY DEF do_clan_enlist
<1>2. membership[v].rank = CLAN_APPLY /\ Counted(c, 1) /\ UNCHANGED <<purse, clan_edit>> /\ 1 \in Int
  BY DEF do_clan_enlist
<1>3. m \in Nat /\ m # 0
  BY <1>2, ClanTypes DEF CLAN_APPLY
<1>4. r \in CLAN_NORANK..CLAN_RULER /\ r # CLAN_NORANK /\ r > CLAN_APPLY
  BY DEF CLAN_NORANK, CLAN_RULER, CLAN_APPLY, CLAN_SOLDIER
<1>5. /\ c \in DOMAIN clan_index /\ clan_index[c].number = m
      /\ \A i \in DOMAIN clan_index : clan_index[i].number = m <=> i = c
  BY <1>3, ClanOfMember
<1>6. RightIndex(clan_index) /\ \A i \in DOMAIN clan_index : clan_index[i].nummembers \in Int
  BY ClanTypes DEF ClanRec
<1> HIDE DEF m, c
<1>7. /\ RightIndex(clan_index') /\ DOMAIN clan_index' = DOMAIN clan_index
      /\ \A i \in DOMAIN clan_index :
           /\ clan_index'[i].number = clan_index[i].number /\ clan_index'[i].gold = clan_index[i].gold
           /\ clan_index'[i].nummembers = clan_index[i].nummembers + IF i = c THEN 1 ELSE 0
  BY <1>2, <1>5, <1>6, CountedIs
<1>8. ASSUME NEW i \in DOMAIN clan_index
      PROVE  clan_index'[i].nummembers >=
               clan_index[i].nummembers
                 + (IF m = clan_index[i].number /\ r > CLAN_APPLY THEN 1 ELSE 0)
                 - (IF v \in MembersOf(membership, clan_index[i].number) THEN 1 ELSE 0)
  <2> DEFINE k == clan_index[i].nummembers
             a == m = clan_index[i].number /\ r > CLAN_APPLY
             b == v \in MembersOf(membership, clan_index[i].number)
  <2>1. k \in Int /\ clan_index'[i].nummembers = k + (IF i = c THEN 1 ELSE 0) /\ (a => i = c)
    BY <1>5, <1>6, <1>7
  <2> HIDE DEF k, a, b
  <2>2. clan_index'[i].nummembers >= k + (IF a THEN 1 ELSE 0) - (IF b THEN 1 ELSE 0)
    BY <2>1
  <2>3. QED
    BY <2>2 DEF k, a, b
<1>9. QED
  BY <1>1, <1>2, <1>3, <1>4, <1>5, <1>7, <1>8, MemberStep

LEMMA PromoteKeeps ==
    ASSUME ClansInv, NEW p \in Clansmen, NEW v \in Clansmen, do_clan_promote(p, v)
    PROVE  ClansInv' /\ Wealth' = Wealth
<1> DEFINE m == membership[v].clan
           r == membership[v].rank + 1
<1>1. /\ MemberNow(v, m, r) /\ UNCHANGED <<clan_index, purse, clan_edit>>
      /\ m # 0 /\ membership[v].rank >= CLAN_SOLDIER /\ membership[v].rank < CLAN_RULER
  BY DEF do_clan_promote
<1>2. m \in Nat /\ r \in CLAN_NORANK..CLAN_RULER /\ r # CLAN_NORANK /\ membership[v].rank > CLAN_APPLY
  BY <1>1, ClanTypes DEF CLAN_NORANK, CLAN_RULER, CLAN_APPLY, CLAN_SOLDIER
<1>3. \E i \in DOMAIN clan_index : clan_index[i].number = m
  BY <1>1, ClanOfMember
<1> HIDE DEF r
<1>4. QED
  BY <1>1, <1>2, <1>3, UncountedStep

LEMMA DemoteKeeps ==
    ASSUME ClansInv, NEW p \in Clansmen, NEW v \in Clansmen, do_clan_demote(p, v)
    PROVE  ClansInv' /\ Wealth' = Wealth
<1> DEFINE m == membership[v].clan
           r == membership[v].rank - 1
<1>1. /\ MemberNow(v, m, r) /\ UNCHANGED <<clan_index, purse, clan_edit>>
      /\ m # 0 /\ membership[v].rank > CLAN_SOLDIER
  BY DEF do_clan_demote
<1>2. m \in Nat /\ r \in CLAN_NORANK..CLAN_RULER /\ r # CLAN_NORANK /\ membership[v].rank > CLAN_APPLY
  BY <1>1, ClanTypes DEF CLAN_NORANK, CLAN_RULER, CLAN_APPLY, CLAN_SOLDIER
<1>3. \E i \in DOMAIN clan_index : clan_index[i].number = m
  BY <1>1, ClanOfMember
<1> HIDE DEF r
<1>4. QED
  BY <1>1, <1>2, <1>3, UncountedStep

(* The table changes, but not who is in which clan: what is left to show.  *)
LEMMA TableStep ==
    ASSUME ClansInv, UNCHANGED membership, RightIndex(clan_index'), DOMAIN clan_index' = DOMAIN clan_index,
           \A i \in DOMAIN clan_index :
             /\ clan_index'[i].number = clan_index[i].number
             /\ clan_index'[i].nummembers >= Cardinality(MembersOf(membership, clan_index[i].number))
    PROVE  MembersCounted' /\ MembersBelong'
<1>1. MembersCounted'
  BY DEF MembersCounted
<1>2. MembersBelong'
  <2>1. ASSUME NEW p \in Clansmen, membership[p].clan # 0
        PROVE  \E i \in DOMAIN clan_index' : clan_index'[i].number = membership[p].clan
    BY <2>1 DEF ClansInv, MembersBelong
  <2>2. QED
    BY <2>1 DEF ClansInv, MembersBelong
<1>3. QED
  BY <1>1, <1>2

LEMMA TransferKeeps ==
    ASSUME ClansInv, NEW p \in Clansmen, membership[p].clan # 0, NEW n \in Int, Transfer(p, n)
    PROVE  ClansInv' /\ Wealth' = Wealth
<1> DEFINE c == ClanOf(p)
           r == [clan_index[c] EXCEPT !.gold = @ - n]
<1>1. c \in DOMAIN clan_index
  BY ClanOfMember
<1>2. RightIndex(clan_index) /\ \A i \in DOMAIN clan_index : clan_index[i] \in ClanRec
  BY ClanTypes
<1>3. /\ clan_index' = [clan_index EXCEPT ![c] = r] /\ purse' = [purse EXCEPT ![p] = @ + n]
      /\ UNCHANGED <<membership, clan_edit>> /\ purse[p] + n \in 0..MaxWealth
  BY DEF Transfer
<1>4. /\ r \in ClanRec /\ r.number = clan_index[c].number /\ r.nummembers = clan_index[c].nummembers
      /\ r.gold = clan_index[c].gold + (-n) /\ clan_index[c].gold \in Int
  BY <1>1, <1>2 DEF ClanRec
<1> HIDE DEF c, r
<1>5. /\ RightIndex(clan_index') /\ DOMAIN clan_index' = DOMAIN clan_index /\ clan_index'[c] = r
      /\ \A i \in DOMAIN clan_index : clan_index'[i].number = clan_index[i].number
                                      /\ (i # c => clan_index'[i] = clan_index[i])
  BY <1>1, <1>2, <1>3, <1>4, RecordPut
<1>6. MembersCounted' /\ MembersBelong'
  <2>1. \A i \in DOMAIN clan_index : clan_index'[i].nummembers = clan_index[i].nummembers
    BY <1>4, <1>5
  <2>2. QED
    BY <1>3, <1>5, <2>1, TableStep DEF ClansInv, MembersCounted
<1>7. purse \in [Clansmen -> Int]
  BY DEF ClansInv, ClansTyped
<1>8. ClansTyped'
  <2>1. purse' \in [Clansmen -> Int]
    BY <1>3, <1>7
  <2>2. ASSUME NEW x \in Clansmen PROVE purse'[x] >= 0
    BY <1>3, <1>7, ClanTypes
  <2>3. QED
    BY <1>3, <1>5, <2>1, <2>2 DEF ClansInv, ClansTyped
<1>9. EditorsApart'
  BY <1>3 DEF ClansInv, EditorsApart, NotEditingClan
<1>10. InPurses(purse') = InPurses(purse) + n /\ InPurses(purse) \in Int
  BY <1>3, <1>7, PursesShift
<1>11. InAccounts(clan_index') = InAccounts(clan_index) + (-n) /\ InAccounts(clan_index) \in Int
  <2> DEFINE x == clan_index
             y == clan_index'
             D == DOMAIN x
             d == -n
  <2>1. D = 1..Len(x) /\ Len(x) \in Nat
    BY <1>2, NumbersAre DEF RightIndex
  <2>2. IsFiniteSet(D)
    <3>1. IsFiniteSet(1..Len(x))
      BY <2>1, FS_Interval
    <3>2. QED
      BY <2>1, <3>1
  <2>3. DOMAIN y = D /\ \A i \in D : x[i].gold \in Int /\ (i # c => y[i].gold = x[i].gold)
    BY <1>2, <1>5 DEF ClanRec
  <2>4. c \in D /\ y[c].gold = x[c].gold + d /\ d \in Int
    BY <1>1, <1>4, <1>5
  <2> HIDE DEF x, y, D, d
  <2>5. InAccounts(y) = InAccounts(x) + d /\ InAccounts(x) \in Int
    BY <2>2, <2>3, <2>4, AccountsShift DEF D
  <2>6. QED
    BY <2>5 DEF x, y, d
<1>12. (Wealth = InAccounts(clan_index) + InPurses(purse))'
  BY WealthIs, PTL
<1>13. Wealth' = Wealth
  BY <1>10, <1>11, <1>12, WealthIs
<1>14. QED
  BY <1>6, <1>8, <1>9, <1>13 DEF ClansInv

LEMMA DepositKeeps ==
    ASSUME ClansInv, NEW p \in Clansmen, NEW n \in Amounts, do_clan_deposit(p, n)
    PROVE  ClansInv' /\ Wealth' = Wealth
<1>1. n \in Int /\ -n \in Int
  BY ClansAssumption
<1>2. QED
  BY <1>1, TransferKeeps DEF do_clan_deposit

LEMMA WithdrawKeeps ==
    ASSUME ClansInv, NEW p \in Clansmen, NEW n \in Amounts, do_clan_withdraw(p, n)
    PROVE  ClansInv' /\ Wealth' = Wealth
<1>1. n \in Int
  BY ClansAssumption
<1>2. QED
  BY <1>1, TransferKeeps DEF do_clan_withdraw

(* The editor of p goes on with e.                                         *)
LEMMA EditKeeps ==
    ASSUME ClansInv, NEW p \in Clansmen, NEW e \in ClanEdit, InEditor(p, e), e.clan.nummembers >= 0,
           e.mode # "none" =>
             \A q \in Clansmen : q = p \/ NotEditingClan(q) \/ clan_edit[q].clan.number # e.clan.number
    PROVE  ClansInv' /\ Wealth' = Wealth
<1>1. clan_edit' = [clan_edit EXCEPT ![p] = e] /\ UNCHANGED <<clan_index, membership, purse>>
  BY DEF InEditor
<1>2. clan_edit \in [Clansmen -> ClanEdit]
  BY DEF ClansInv, ClansTyped
<1>3. \A q \in Clansmen : clan_edit'[q] = IF q = p THEN e ELSE clan_edit[q]
  BY <1>1, <1>2
<1>4. clan_edit' \in [Clansmen -> ClanEdit]
  BY <1>1, <1>2
<1>5. ClansTyped' /\ MembersCounted' /\ MembersBelong'
  BY <1>1, <1>4 DEF ClansInv, ClansTyped, MembersCounted, MembersBelong
<1>6. EditorsApart'
  <2>1. ASSUME NEW q \in Clansmen, NEW s \in Clansmen, q # s,
               clan_edit'[q].mode # "none", clan_edit'[s].mode # "none"
        PROVE  clan_edit'[q].clan.number # clan_edit'[s].clan.number
    <3>1. CASE q = p
      BY <1>3, <2>1, <3>1 DEF NotEditingClan
    <3>2. CASE s = p
      BY <1>3, <2>1, <3>2 DEF NotEditingClan
    <3>3. CASE q # p /\ s # p
      BY <1>3, <2>1, <3>3 DEF ClansInv, EditorsApart, NotEditingClan
    <3>4. QED
      BY <3>1, <3>2, <3>3
  <2>2. \A q \in Clansmen : clan_edit'[q].clan.nummembers >= 0
    BY <1>3 DEF ClansInv, EditorsApart
  <2>3. QED
    BY <2>1, <2>2 DEF EditorsApart, NotEditingClan
<1>7. Wealth' = Wealth
  BY <1>1, ClanTypes, GoldSame
<1>8. QED
  BY <1>5, <1>6, <1>7 DEF ClansInv

\* Whoever is in the editor stays there with a record of the same number.
LEMMA EditGoesOn ==
    ASSUME ClansInv, NEW p \in Clansmen, ~NotEditingClan(p), NEW e \in ClanEdit, InEditor(p, e),
           e.clan.number = clan_edit[p].clan.number, e.clan.nummembers = clan_edit[p].clan.nummembers
    PROVE  ClansInv' /\ Wealth' = Wealth
<1>1. e.clan.nummembers >= 0
  BY DEF ClansInv, EditorsApart
<1>2. \A q \in Clansmen : q = p \/ NotEditingClan(q) \/ clan_edit[q].clan.number # e.clan.number
  BY DEF ClansInv, EditorsApart
<1>3. QED
  BY <1>1, <1>2, EditKeeps

LEMMA NotInEditorTyped ==
    NotInEditor \in ClanEdit /\ NotInEditor.clan.nummembers >= 0 /\ NotInEditor.mode = "none"
<1>1. FirstClan \in ClanRec /\ FirstClan.nummembers >= 0
  BY ClansAssumption DEF ClanRec
<1>2. QED
  BY <1>1 DEF NotInEditor, ClanEdit, EditModes

\* What the menus make of a record in the editor.
LEMMA EditFields ==
    ASSUME NEW e \in ClanEdit
    PROVE  /\ \A m \in EditModes : LET f == [e EXCEPT !.mode = m]
                                   IN f \in ClanEdit /\ f.clan = e.clan /\ f.mode = m
           /\ \A v \in BOOLEAN : LET f == [e EXCEPT !.val = v]
                                 IN f \in ClanEdit /\ f.clan = e.clan /\ f.mode = e.mode
           /\ \A o \in Clansmen : LET f == [e EXCEPT !.clan.owner = o]
                                  IN f \in ClanEdit /\ f.clan.number = e.clan.number
                                     /\ f.clan.nummembers = e.clan.nummembers /\ f.mode = e.mode
<1>1. ASSUME NEW o \in Clansmen
      PROVE  LET f == [e EXCEPT !.clan.owner = o]
             IN f \in ClanEdit /\ f.clan.number = e.clan.number
                /\ f.clan.nummembers = e.clan.nummembers /\ f.mode = e.mode
  <2> DEFINE c == [e.clan EXCEPT !.owner = o]
  <2>1. e.clan \in ClanRec
    BY DEF ClanEdit
  <2>2. c \in ClanRec /\ c.number = e.clan.number /\ c.nummembers = e.clan.nummembers
    BY <2>1 DEF ClanRec
  <2>3. [e EXCEPT !.clan.owner = o] = [e EXCEPT !.clan = c]
    OBVIOUS
  <2> HIDE DEF c
  <2>4. [e EXCEPT !.clan = c] \in ClanEdit /\ [e EXCEPT !.clan = c].clan = c /\ [e EXCEPT !.clan = c].mode = e.mode
    BY <2>2 DEF ClanEdit
  <2>5. QED
    BY <2>2, <2>3, <2>4
<1>2. QED
  BY <1>1 DEF ClanEdit

LEMMA MenusKeep ==
    ASSUME ClansInv, NEW p \in Clansmen,
           \/ parse_clan_edit_menu(p) \/ parse_clan_edit_value(p)
           \/ parse_clan_edit_ranks(p) \/ parse_clan_edit_delete(p)
    PROVE  ClansInv' /\ Wealth' = Wealth
<1> DEFINE e == clan_edit[p]
           Menu == [e EXCEPT !.mode = "menu"]
           Same(f) == f \in ClanEdit /\ f.clan.number = e.clan.number /\ f.clan.nummembers = e.clan.nummembers
<1>1. e \in ClanEdit /\ e.val \in BOOLEAN
  BY ClanTypes DEF ClanEdit
<1>2. ASSUME NEW f, Same(f), Edits(p, f), e.mode # "none" PROVE ClansInv' /\ Wealth' = Wealth
  <2>1. ~NotEditingClan(p) /\ InEditor(p, f)
    BY <1>2 DEF NotEditingClan, Edits
  <2>2. QED
    BY <1>2, <2>1, EditGoesOn
<1>3. ASSUME NEW m \in EditModes PROVE Same([e EXCEPT !.mode = m])
  BY <1>1, EditFields
<1>4. Menu \in ClanEdit /\ Menu.clan = e.clan
  <2>1. "menu" \in EditModes
    BY DEF EditModes
  <2>2. QED
    BY <1>1, <2>1, EditFields
<1>5. ASSUME NEW v \in BOOLEAN PROVE Same([Menu EXCEPT !.val = v])
  <2> HIDE DEF Menu, e
  <2>1. QED
    BY <1>4, EditFields
<1>6. ASSUME NEW o \in Clansmen PROVE Same([Menu EXCEPT !.val = TRUE, !.clan.owner = o])
  <2> DEFINE f == [Menu EXCEPT !.val = TRUE]
             g == [f EXCEPT !.clan.owner = o]
  <2> HIDE DEF Menu, e
  <2>1. f \in ClanEdit /\ f.clan = e.clan
    BY <1>4, EditFields
  <2> HIDE DEF f
  <2>2. g \in ClanEdit /\ g.clan.number = f.clan.number /\ g.clan.nummembers = f.clan.nummembers
    BY <2>1, EditFields
  <2>3. [Menu EXCEPT !.val = TRUE, !.clan.owner = o] = g
    BY DEF f
  <2> HIDE DEF g
  <2>4. QED
    BY <2>1, <2>2, <2>3
<1>7. ASSUME parse_clan_edit_menu(p) PROVE ClansInv' /\ Wealth' = Wealth
  <2>1. PICK m \in {"value", "ranks", "delete", "owner", "save"} : Edits(p, [e EXCEPT !.mode = m]) /\ e.mode = "menu"
    BY <1>7 DEF parse_clan_edit_menu
  <2>2. m \in EditModes
    BY DEF EditModes
  <2> HIDE DEF e, Same
  <2>3. QED
    BY <1>2, <1>3, <2>1, <2>2
<1>8. ASSUME parse_clan_edit_ranks(p) PROVE ClansInv' /\ Wealth' = Wealth
  <2>1. CASE e.mode = "ranks"
    <3>1. PICK m \in {"rank", "menu"} : Edits(p, [e EXCEPT !.mode = m])
      BY <1>8, <2>1 DEF parse_clan_edit_ranks
    <3>2. m \in EditModes
      BY DEF EditModes
    <3> HIDE DEF e, Same
    <3>3. QED
      BY <1>2, <1>3, <2>1, <3>1, <3>2
  <2>2. CASE e.mode = "rank"
    <3> DEFINE f == [e EXCEPT !.mode = "ranks"]
               g == [e EXCEPT !.mode = "ranks", !.val = TRUE]
    <3>1. Edits(p, g)
      BY <1>8, <2>2 DEF parse_clan_edit_ranks
    <3>2. "ranks" \in EditModes
      BY DEF EditModes
    <3>3. f \in ClanEdit /\ f.clan = e.clan
      BY <1>1, <3>2, EditFields
    <3>4. g = [f EXCEPT !.val = TRUE]
      OBVIOUS
    <3> HIDE DEF f, g
    <3>5. g \in ClanEdit /\ g.clan = f.clan
      BY <3>3, <3>4, EditFields
    <3>6. Same(g)
      BY <3>3, <3>5
    <3> HIDE DEF e, Same
    <3>7. QED
      BY <1>2, <2>2, <3>1, <3>6
  <2>3. QED
    BY <1>8, <2>1, <2>2 DEF parse_clan_edit_ranks
<1>9. ASSUME parse_clan_edit_delete(p) PROVE ClansInv' /\ Wealth' = Wealth
  <2>1. Edits(p, [e EXCEPT !.mode = "menu"]) /\ e.mode = "delete" /\ "menu" \in EditModes
    BY <1>9 DEF parse_clan_edit_delete, EditModes
  <2> HIDE DEF e, Same
  <2>2. QED
    BY <1>2, <1>3, <2>1
<1>10. ASSUME parse_clan_edit_value(p) PROVE ClansInv' /\ Wealth' = Wealth
  <2>1. CASE e.mode = "value"
    <3>1. PICK v \in {e.val, TRUE} : Edits(p, [Menu EXCEPT !.val = v])
      BY <1>10, <2>1 DEF parse_clan_edit_value
    <3>2. v \in BOOLEAN
      BY <1>1
    <3> HIDE DEF e, Same, Menu
    <3>3. QED
      BY <1>2, <1>5, <2>1, <3>1, <3>2
  <2>2. CASE e.mode = "owner"
    <3>1. PICK o \in Clansmen : Edits(p, [Menu EXCEPT !.val = TRUE, !.clan.owner = o])
      BY <1>10, <2>2 DEF parse_clan_edit_value
    <3> HIDE DEF e, Same, Menu
    <3>2. QED
      BY <1>2, <1>6, <2>2, <3>1
  <2>3. QED
    BY <1>10, <2>1, <2>2 DEF parse_clan_edit_value
<1>11. QED
  BY <1>7, <1>8, <1>9, <1>10

LEMMA ClanSetupKeeps ==
    ASSUME ClansInv, NEW p \in Clansmen, NEW n \in ClanNumbers, cedit_setup(p, n)
    PROVE  ClansInv' /\ Wealth' = Wealth
<1> DEFINE i == real_clan(n)
           fresh == [number |-> n, owner |-> p, gold |-> 0, nummembers |-> 0]
           c == IF i # 0 THEN SavedClans[i] ELSE fresh
           e == [mode |-> "menu", val |-> FALSE, clan |-> c]
<1>1. n \in Nat /\ n # 0
  BY ClansAssumption DEF cedit_setup, MayEdit
<1>2. fresh \in ClanRec
  BY <1>1 DEF ClanRec
<1>3. RightIndex(clan_index) /\ \A j \in DOMAIN clan_index : clan_index[j] \in ClanRec
  BY ClanTypes
<1>4. i # 0 => i \in DOMAIN clan_index /\ clan_index[i].number = n
  BY <1>3, ClanFound
<1>5. ASSUME i # 0 PROVE SavedClans[i] \in ClanRec /\ SavedClans[i].number = n /\ SavedClans[i].nummembers = 0
  <2>1. SavedClans[i] = [clan_index[i] EXCEPT !.nummembers = 0] /\ clan_index[i] \in ClanRec
    BY <1>3, <1>4, <1>5 DEF SavedClans
  <2>2. QED
    BY <1>4, <1>5, <2>1 DEF ClanRec
<1> HIDE DEF i
<1>6. c \in ClanRec /\ c.number = n /\ c.nummembers = 0
  BY <1>2, <1>5
<1>7. InEditor(p, e) /\ \A q \in Clansmen : NotEditingClan(q) \/ clan_edit[q].clan.number # n
  BY DEF cedit_setup, i
<1> HIDE DEF c
<1>8. e \in ClanEdit /\ e.clan = c
  BY <1>6 DEF ClanEdit, EditModes
<1> HIDE DEF e
<1>9. QED
  BY <1>6, <1>7, <1>8, EditKeeps

LEMMA CleanupKeeps ==
    ASSUME ClansInv, NEW p \in Clansmen, cleanup_clan_edit(p)
    PROVE  ClansInv' /\ Wealth' = Wealth
BY NotInEditorTyped, EditKeeps DEF cleanup_clan_edit, Edits

(* p leaves the editor, saved or not.                                      *)
LEMMA EditEnds ==
    ASSUME ClansInv, NEW p \in Clansmen, clan_edit' = [clan_edit EXCEPT ![p] = NotInEditor]
    PROVE  EditorsApart' /\ clan_edit' \in [Clansmen -> ClanEdit]
<1>1. clan_edit \in [Clansmen -> ClanEdit]
  BY DEF ClansInv, ClansTyped
<1>2. \A q \in Clansmen : clan_edit'[q] = IF q = p THEN NotInEditor ELSE clan_edit[q]
  BY <1>1
<1>3. clan_edit' \in [Clansmen -> ClanEdit]
  BY <1>1, NotInEditorTyped
<1>4. ASSUME NEW q \in Clansmen, NEW s \in Clansmen, q # s,
             clan_edit'[q].mode # "none", clan_edit'[s].mode # "none"
      PROVE  clan_edit'[q].clan.number # clan_edit'[s].clan.number
  <2>1. q # p /\ s # p
    BY <1>2, <1>4, NotInEditorTyped
  <2>2. QED
    BY <1>2, <1>4, <2>1 DEF ClansInv, EditorsApart, NotEditingClan
<1>5. \A q \in Clansmen : clan_edit'[q].clan.nummembers >= 0
  BY <1>2, NotInEditorTyped DEF ClansInv, EditorsApart
<1>6. QED
  BY <1>3, <1>4, <1>5 DEF EditorsApart, NotEditingClan

LEMMA SavedOver ==
    ASSUME ClansInv, NEW c \in ClanRec, real_clan(c.number) # 0, UNCHANGED membership,
           clan_index' = [clan_index EXCEPT ![real_clan(c.number)].owner = c.owner,
                                            ![real_clan(c.number)].gold = c.gold]
    PROVE  RightIndex(clan_index') /\ MembersCounted' /\ MembersBelong'
<1> DEFINE i == real_clan(c.number)
           r == [clan_index[i] EXCEPT !.owner = c.owner, !.gold = c.gold]
<1>1. RightIndex(clan_index) /\ \A j \in DOMAIN clan_index : clan_index[j] \in ClanRec
  BY ClanTypes
<1>2. i \in DOMAIN clan_index
  BY <1>1, ClanFound
<1>3. r \in ClanRec /\ r.number = clan_index[i].number /\ r.nummembers = clan_index[i].nummembers
  BY <1>1, <1>2 DEF ClanRec
<1>4. clan_index' = [clan_index EXCEPT ![i] = r]
  <2> DEFINE x == clan_index
             y == [x EXCEPT ![i].owner = c.owner]
  <2> HIDE DEF i
  <2>1. clan_index' = [y EXCEPT ![i].gold = c.gold]
    BY DEF i
  <2>2. y[i] = [x[i] EXCEPT !.owner = c.owner]
    BY <1>2
  <2>3. [y[i] EXCEPT !.gold = c.gold] = r
    BY <2>2
  <2>4. [y EXCEPT ![i] = r] = [x EXCEPT ![i] = r]
    BY <1>2
  <2>5. QED
    BY <2>1, <2>3, <2>4
<1> HIDE DEF i, r
<1>5. RightIndex(clan_index') /\ DOMAIN clan_index' = DOMAIN clan_index /\ clan_index'[i] = r
      /\ \A j \in DOMAIN clan_index : clan_index'[j].number = clan_index[j].number
                                      /\ (j # i => clan_index'[j] = clan_index[j])
  <2> DEFINE x == clan_index
             y == clan_index'
  <2>1. RightIndex(x) /\ i \in DOMAIN x /\ r \in ClanRec /\ r.number = x[i].number /\ y = [x EXCEPT ![i] = r]
    BY <1>1, <1>2, <1>3, <1>4
  <2> HIDE DEF x, y
  <2>2. RightIndex(y) /\ DOMAIN y = DOMAIN x /\ y[i] = r
        /\ \A j \in DOMAIN x : y[j].number = x[j].number /\ (j # i => y[j] = x[j])
    BY ONLY <2>1, RecordPut
  <2>3. QED
    BY <2>2 DEF x, y
<1>6. \A j \in DOMAIN clan_index : clan_index'[j].nummembers = clan_index[j].nummembers
  BY <1>3, <1>5
<1>7. MembersCounted' /\ MembersBelong'
  BY <1>5, <1>6, TableStep DEF ClansInv, MembersCounted
<1>8. QED
  BY <1>5, <1>7

LEMMA SavedNew ==
    ASSUME ClansInv, NEW c \in ClanRec, c.nummembers >= 0, real_clan(c.number) = 0, UNCHANGED membership,
           clan_index' = Inserted(clan_index, c)
    PROVE  RightIndex(clan_index') /\ MembersCounted' /\ MembersBelong'
<1> DEFINE x == clan_index
           y == clan_index'
<1>1. RightIndex(x) /\ \A j \in DOMAIN x : real_clan(x[j].number) = j /\ j # 0
  BY ClanTypes, ClanFound, NumbersAre DEF RightIndex
<1>2. \A j \in DOMAIN x : x[j].number # c.number
  BY <1>1
<1>3. /\ RightIndex(y)
      /\ \A i \in DOMAIN y : y[i] = c \/ \E j \in DOMAIN x : y[i] = x[j]
      /\ \A j \in DOMAIN x : \E i \in DOMAIN y : y[i] = x[j]
  <2> HIDE DEF x
  <2>1. y = Inserted(x, c)
    BY DEF x
  <2> HIDE DEF y
  <2>2. QED
    BY <1>1, <1>2, <2>1, ClanInserted
<1>4. MembersOf(membership, c.number) = {}
  <2>1. ASSUME NEW p \in Clansmen, membership[p].clan = c.number PROVE FALSE
    <3>1. c.number # 0
      BY DEF ClanRec
    <3>2. QED
      BY <1>2, <2>1, <3>1 DEF ClansInv, MembersBelong
  <2>2. QED
    BY <2>1 DEF MembersOf
<1>5. MembersCounted'
  <2>1. ASSUME NEW i \in DOMAIN y PROVE y[i].nummembers >= Cardinality(MembersOf(membership, y[i].number))
    <3>1. CASE y[i] = c
      BY <1>4, <3>1, FS_EmptySet
    <3>2. CASE \E j \in DOMAIN x : y[i] = x[j]
      BY <3>2 DEF ClansInv, MembersCounted
    <3>3. QED
      BY <1>3, <3>1, <3>2
  <2>2. QED
    BY <2>1 DEF MembersCounted
<1>6. MembersBelong'
  <2>1. ASSUME NEW p \in Clansmen, membership[p].clan # 0
        PROVE  \E i \in DOMAIN y : y[i].number = membership[p].clan
    <3>1. PICK j \in DOMAIN x : x[j].number = membership[p].clan
      BY <2>1 DEF ClansInv, MembersBelong
    <3>2. QED
      BY <1>3, <3>1
  <2>2. QED
    BY <2>1 DEF ClansInv, MembersBelong
<1>7. QED
  BY <1>3, <1>5, <1>6

LEMMA SaveKeeps ==
    ASSUME ClansInv, NEW p \in Clansmen, parse_clan_edit_save(p)
    PROVE  ClansInv' /\ clan_edit[p].mode = "save" /\ clan_edit'[p] = NotInEditor
<1>1. /\ clan_edit' = [clan_edit EXCEPT ![p] = NotInEditor] /\ clan_edit[p].mode = "save"
      /\ UNCHANGED <<membership, purse>>
  BY DEF parse_clan_edit_save
<1>2. EditorsApart' /\ clan_edit' \in [Clansmen -> ClanEdit]
  BY <1>1, EditEnds
<1>3. clan_edit'[p] = NotInEditor
  BY <1>1 DEF ClansInv, ClansTyped
<1>4. RightIndex(clan_index') /\ MembersCounted' /\ MembersBelong'
  <2> DEFINE c == clan_edit[p].clan
  <2>1. c \in ClanRec /\ c.nummembers >= 0
    BY ClanTypes DEF ClanEdit, ClansInv, EditorsApart
  <2>2. CASE UNCHANGED clan_index
    BY <1>1, <2>2 DEF ClansInv, ClansTyped, MembersCounted, MembersBelong
  <2>3. CASE cedit_save_internally(p) /\ real_clan(c.number) # 0
    <3>1. clan_index' = [clan_index EXCEPT ![real_clan(c.number)].owner = c.owner,
                                           ![real_clan(c.number)].gold = c.gold]
      BY <2>3 DEF cedit_save_internally
    <3> HIDE DEF c
    <3>2. QED
      BY <1>1, <2>1, <2>3, <3>1, SavedOver
  <2>4. CASE cedit_save_internally(p) /\ real_clan(c.number) = 0
    <3>1. clan_index' = Inserted(clan_index, c)
      BY <2>4 DEF cedit_save_internally
    <3> HIDE DEF c
    <3>2. QED
      BY <1>1, <2>1, <2>4, <3>1, SavedNew
  <2>5. QED
    BY <2>2, <2>3, <2>4 DEF parse_clan_edit_save
<1>5. ClansTyped'
  BY <1>1, <1>2, <1>4 DEF ClansInv, ClansTyped
<1>6. QED
  BY <1>1, <1>2, <1>3, <1>4, <1>5 DEF ClansInv

LEMMA RebootKeeps ==
    ASSUME ClansInv, ClanReboot
    PROVE  ClansInv' /\ Wealth' = Wealth
<1> DEFINE D == DOMAIN clan_index
           Naming(n) == {p \in Clansmen : membership[p].clan = n}
           k(i) == Cardinality(Naming(clan_index[i].number))
<1>1. RightIndex(clan_index) /\ \A i \in D : clan_index[i] \in ClanRec
  BY ClanTypes
<1>2. /\ clan_index' = [i \in D |-> [SavedClans[i] EXCEPT !.nummembers = k(i)]]
      /\ clan_edit' = [p \in Clansmen |-> NotInEditor] /\ UNCHANGED <<membership, purse>>
  BY DEF ClanReboot
<1>3. ASSUME NEW n
      PROVE  Cardinality(Naming(n)) \in Nat /\ Cardinality(MembersOf(membership, n)) <= Cardinality(Naming(n))
  <2>1. IsFiniteSet(Naming(n))
    BY ClansAssumption, FS_Subset
  <2>2. MembersOf(membership, n) \subseteq Naming(n)
    BY DEF MembersOf
  <2> HIDE DEF Naming
  <2>3. QED
    BY <2>1, <2>2, FS_Subset, FS_CardinalityType
<1>4. ASSUME NEW i \in D
      PROVE  LET r == [SavedClans[i] EXCEPT !.nummembers = k(i)]
             IN r \in ClanRec /\ r.number = clan_index[i].number /\ r.gold = clan_index[i].gold
                /\ r.nummembers = k(i)
  <2> DEFINE m == k(i)
             s == SavedClans[i]
  <2>1. m \in Int
    <3> DEFINE n == clan_index[i].number
    <3> HIDE DEF n
    <3>1. Cardinality(Naming(n)) \in Nat
      BY <1>3
    <3>2. QED
      BY <3>1 DEF n
  <2>2. s = [clan_index[i] EXCEPT !.nummembers = 0]
    BY DEF SavedClans
  <2>3. s \in ClanRec /\ s.number = clan_index[i].number /\ s.gold = clan_index[i].gold
    BY <1>1, <2>2 DEF ClanRec
  <2> HIDE DEF m, s
  <2>4. [s EXCEPT !.nummembers = m] \in ClanRec /\ [s EXCEPT !.nummembers = m].number = s.number
        /\ [s EXCEPT !.nummembers = m].gold = s.gold /\ [s EXCEPT !.nummembers = m].nummembers = m
    BY <2>1, <2>3 DEF ClanRec
  <2>5. QED
    BY <2>3, <2>4 DEF m, s
<1>5. DOMAIN clan_index' = D /\ \A i \in D : /\ clan_index'[i] \in ClanRec
                                            /\ clan_index'[i].number = clan_index[i].number
                                            /\ clan_index'[i].gold = clan_index[i].gold
                                            /\ clan_index'[i].nummembers = k(i)
  <2> HIDE DEF k
  <2>1. \A i \in D : clan_index'[i] = [SavedClans[i] EXCEPT !.nummembers = k(i)]
    BY <1>2
  <2>2. DOMAIN clan_index' = D
    BY <1>2
  <2>3. QED
    BY <1>4, <2>1, <2>2
<1>6. D = 1..Len(clan_index) /\ Len(clan_index) \in Nat /\ clan_index # <<>> /\ Len(clan_index) > 0
  BY <1>1, NumbersAre DEF RightIndex
<1>7. RightIndex(clan_index')
  <2> DEFINE y == clan_index'
             L == Len(clan_index)
             r(i) == [SavedClans[i] EXCEPT !.nummembers = k(i)]
  <2>1. y = [i \in 1..L |-> y[i]]
    <3> HIDE DEF r, k
    <3>1. y = [i \in D |-> r(i)]
      BY <1>2 DEF r
    <3> HIDE DEF D
    <3>2. QED
      BY <1>6, <3>1
  <2>2. L \in Nat /\ L > 0 /\ \A i \in 1..L : y[i] \in ClanRec
    BY <1>5, <1>6
  <2> HIDE DEF y, L
  <2>3. y \in Seq(ClanRec) /\ Len(y) = L
    BY <2>1, <2>2
  <2>4. y # <<>>
    BY <2>2, <2>3, EmptySeq
  <2>5. NumbersOf(y) = NumbersOf(clan_index)
    BY <1>5 DEF NumbersOf, y
  <2>6. QED
    BY <1>1, <2>3, <2>4, <2>5 DEF RightIndex, y
<1>8. MembersCounted' /\ MembersBelong'
  <2>1. \A i \in D : clan_index'[i].nummembers >= Cardinality(MembersOf(membership, clan_index[i].number))
    <3>1. ASSUME NEW i \in D
          PROVE  clan_index'[i].nummembers >= Cardinality(MembersOf(membership, clan_index[i].number))
      <4> DEFINE M == MembersOf(membership, clan_index[i].number)
      <4>1. k(i) \in Nat /\ Cardinality(M) <= k(i) /\ clan_index'[i].nummembers = k(i)
        BY <1>3, <1>5
      <4>2. Cardinality(M) \in Nat
        BY MembersCount
      <4> HIDE DEF M, k
      <4>3. clan_index'[i].nummembers >= Cardinality(M)
        BY <4>1, <4>2
      <4>4. QED
        BY <4>3 DEF M
    <3>2. QED
      BY <3>1
  <2>2. QED
    BY <1>2, <1>5, <1>7, <2>1, TableStep
<1>9. clan_edit' \in [Clansmen -> ClanEdit] /\ \A p \in Clansmen : clan_edit'[p] = NotInEditor
  BY <1>2, NotInEditorTyped
<1>10. ClansTyped' /\ EditorsApart'
  BY <1>2, <1>7, <1>9, NotInEditorTyped DEF ClansInv, ClansTyped, EditorsApart, NotEditingClan
<1>11. Wealth' = Wealth
  BY <1>1, <1>2, <1>5, GoldSame
<1>12. QED
  BY <1>8, <1>10, <1>11 DEF ClansInv

LEMMA ClansStart ==
    ASSUME ClansInit
    PROVE  ClansInv
<1>1. /\ clan_index = <<FirstClan>> /\ membership = [p \in Clansmen |-> Outside]
      /\ purse = [p \in Clansmen |-> 1] /\ clan_edit = [p \in Clansmen |-> NotInEditor]
  BY DEF ClansInit
<1>2. FirstClan \in ClanRec /\ FirstClan.nummembers >= 0
  BY ClansAssumption DEF ClanRec
<1>3. /\ clan_index \in Seq(ClanRec) /\ DOMAIN clan_index = {1} /\ clan_index[1] = FirstClan
      /\ clan_index # <<>>
  <2> DEFINE c == FirstClan
  <2>1. c \in ClanRec /\ clan_index = <<c>>
    BY <1>1, <1>2
  <2> HIDE DEF c
  <2>2. clan_index \in Seq(ClanRec) /\ Len(clan_index) = 1 /\ clan_index[1] = c
    BY <2>1
  <2>3. DOMAIN clan_index = {1} /\ clan_index # <<>>
    <3>1. DOMAIN clan_index = 1..Len(clan_index)
      BY <2>2, LenProperties
    <3>2. DOMAIN clan_index = {1}
      BY <2>2, <3>1
    <3>3. clan_index # <<>>
      <4>1. Len(clan_index) # Len(<<>>)
        BY <2>2, EmptySeq
      <4>2. QED
        BY <4>1
    <3>4. QED
      BY <3>2, <3>3
  <2>4. QED
    BY <2>2, <2>3 DEF c
<1>4. Ascending(NumbersOf(clan_index))
  <2>1. DOMAIN NumbersOf(clan_index) = {1}
    BY <1>3 DEF NumbersOf
  <2>2. \A i, j \in DOMAIN NumbersOf(clan_index) : ~ (i < j)
    BY <2>1
  <2>3. QED
    BY <2>2 DEF Ascending
<1>5. ClansTyped
  <2>1. Outside \in [clan : Nat, rank : CLAN_NORANK..CLAN_RULER]
    BY DEF Outside, CLAN_NORANK, CLAN_RULER
  <2>2. QED
    BY <1>1, <1>3, <1>4, <2>1, NotInEditorTyped DEF ClansTyped, RightIndex
<1>6. MembersCounted
  <2>1. \A n : MembersOf(membership, n) = {}
    BY <1>1 DEF MembersOf, Outside, CLAN_APPLY, CLAN_NORANK
  <2>2. \A n : Cardinality(MembersOf(membership, n)) = 0
    BY <2>1, FS_EmptySet
  <2>3. QED
    BY <1>2, <1>3, <2>2 DEF MembersCounted
<1>7. MembersBelong
  BY <1>1 DEF MembersBelong, Outside, CLAN_NORANK
<1>8. EditorsApart
  BY <1>1, NotInEditorTyped DEF EditorsApart, NotEditingClan
<1>9. QED
  BY <1>5, <1>6, <1>7, <1>8 DEF ClansInv

GoldStays == \/ Wealth' = Wealth
             \/ \E p \in Clansmen : clan_edit[p].mode = "save" /\ clan_edit'[p] = NotInEditor

LEMMA ClansStep ==
    ASSUME ClansInv, [ClansNext]_clanVars
    PROVE  ClansInv' /\ GoldStays
<1>1. CASE ClanReboot
  BY <1>1, RebootKeeps DEF GoldStays
<1>2. ASSUME NEW p \in Clansmen,
             \/ do_clan_resign(p) \/ parse_clan_edit_menu(p) \/ parse_clan_edit_value(p)
             \/ parse_clan_edit_ranks(p) \/ parse_clan_edit_delete(p)
             \/ parse_clan_edit_save(p) \/ cleanup_clan_edit(p)
      PROVE  ClansInv' /\ GoldStays
  <2>1. CASE do_clan_resign(p)
    BY <2>1, ResignKeeps DEF GoldStays
  <2>2. CASE parse_clan_edit_save(p)
    BY <2>2, SaveKeeps DEF GoldStays
  <2>3. CASE cleanup_clan_edit(p)
    BY <2>3, CleanupKeeps DEF GoldStays
  <2>4. CASE \/ parse_clan_edit_menu(p) \/ parse_clan_edit_value(p)
             \/ parse_clan_edit_ranks(p) \/ parse_clan_edit_delete(p)
    BY <2>4, MenusKeep DEF GoldStays
  <2>5. QED
    BY <1>2, <2>1, <2>2, <2>3, <2>4
<1>3. ASSUME NEW p \in Clansmen, NEW n \in ClanNumbers, do_clan_apply(p, n) \/ cedit_setup(p, n)
      PROVE  ClansInv' /\ GoldStays
  BY <1>3, ApplyKeeps, ClanSetupKeeps DEF GoldStays
<1>4. ASSUME NEW p \in Clansmen, NEW v \in Clansmen,
             \/ do_clan_enlist(p, v) \/ do_clan_promote(p, v)
             \/ do_clan_demote(p, v) \/ do_clan_kick(p, v)
      PROVE  ClansInv' /\ GoldStays
  BY <1>4, EnlistKeeps, PromoteKeeps, DemoteKeeps, KickKeeps DEF GoldStays
<1>5. ASSUME NEW p \in Clansmen, NEW n \in Amounts, do_clan_deposit(p, n) \/ do_clan_withdraw(p, n)
      PROVE  ClansInv' /\ GoldStays
  BY <1>5, DepositKeeps, WithdrawKeeps DEF GoldStays
<1>6. CASE UNCHANGED clanVars
  <2>1. UNCHANGED <<clan_index, membership, purse, clan_edit>>
    BY <1>6 DEF clanVars
  <2>2. ClansInv'
    BY <2>1 DEF ClansInv, ClansTyped, MembersCounted, MembersBelong, EditorsApart, NotEditingClan
  <2>3. Wealth' = Wealth
    <3>1. RightIndex(clan_index)
      BY DEF ClansInv, ClansTyped
    <3>2. QED
      BY <2>1, <3>1, GoldSame
  <2>4. QED
    BY <2>2, <2>3 DEF GoldStays
<1>7. QED
  BY <1>1, <1>2, <1>3, <1>4, <1>5, <1>6 DEF ClansNext

(* Whatever order clans are made, edited, joined and left in, with the     *)
(* saves and boots between: the table stays sorted, so that the search     *)
(* finds every clan and the clan of every member; who has a rank is in a   *)
(* clan; no two editors work on one number; and no member is missing in    *)
(* the number of members.  Gold only moves, but when an edited record is   *)
(* saved, which sets the account back (clan.c 313-448, 723-840, 1409-1422, *)
(* 1551-1606; db.c 717-724, 3716-3736).                                    *)
THEOREM ClansAlwaysSafe == ClansSpec => ClansSafe
<1>1. ClansInit => ClansInv
  BY ClansStart
<1>2. ClansInv /\ [ClansNext]_clanVars => ClansInv' /\ GoldStays
  BY ClansStep
<1>3. ClansInv => ClansSound
  BY ClansSoundHolds
<1>4. ClansInv /\ [ClansNext]_clanVars => [GoldStays]_clanVars
  BY <1>2
<1>5. ClansSpec => []ClansInv
  BY <1>1, <1>2, PTL DEF ClansSpec
<1>6. ClansSpec => [][GoldStays]_clanVars
  BY <1>4, <1>5, PTL DEF ClansSpec
<1>7. ClansSpec => GoldIsKept
  BY <1>6 DEF GoldIsKept, GoldStays
<1>8. QED
  BY <1>3, <1>5, <1>7, PTL DEF ClansSafe

=============================================================================
