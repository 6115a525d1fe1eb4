------------------------ MODULE OutputBufferProofs ------------------------
(***************************************************************************)
(* Theorems about OutputBuffer, for every set of descriptors, all levels   *)
(* and changes of them, and every choice of sizes that satisfies           *)
(* SizeAssumption.                                                         *)
(*                                                                         *)
(* The buffers' invariant is a predicate of one descriptor's output, so it *)
(* is first shown for the operators that write, release and flush, and     *)
(* then for the actions built from them.                                   *)
(***************************************************************************)
EXTENDS OutputBuffer, FiniteSetTheorems, WellFoundedInduction, TLAPS

(* What one descriptor's output always satisfies.                          *)
SoundBuf(o) ==
    /\ o \in OutBuf
    /\ Overflowed(o) => o.strlen > 0
    /\ ~ Overflowed(o) => /\ o.bufptr = o.strlen
                          /\ o.bufspace = Capacity(o) - 1 - o.strlen
    /\ FitsBuffer(o)

SoundIo(s) == s \in IoState /\ \A d \in Desc : SoundBuf(s.out[d])

-----------------------------------------------------------------------------
(* A fresh buffer is sound.                                                *)
LEMMA FreshIsSound == SoundBuf(FreshBuf)
BY SizeAssumption
   DEF FreshBuf, OutBuf, SoundBuf, Overflowed, Capacity, FitsBuffer

(* Replacing one descriptor's output replaces nothing else.                *)
LEMMA WithOutIs ==
    ASSUME NEW s \in IoState, NEW t \in Desc, NEW o \in OutBuf
    PROVE  /\ WithOut(s, t, o) \in IoState
           /\ WithOut(s, t, o).out[t] = o
           /\ \A d \in Desc \ {t} : WithOut(s, t, o).out[d] = s.out[d]
           /\ WithOut(s, t, o).bufpool = s.bufpool
           /\ WithOut(s, t, o).buf_largecount = s.buf_largecount
<1> DEFINE f == [s.out EXCEPT ![t] = o]
           w == [s EXCEPT !.out = f]
<1>1. /\ f \in [Desc -> OutBuf] /\ f[t] = o
      /\ \A d \in Desc \ {t} : f[d] = s.out[d]
  BY DEF IoState
<1>2. WithOut(s, t, o) = w
  BY DEF WithOut
<1> HIDE DEF f
<1>3. /\ w \in IoState /\ w.out = f
      /\ w.bufpool = s.bufpool /\ w.buf_largecount = s.buf_largecount
  BY <1>1 DEF IoState
<1>4. QED
  BY <1>1, <1>2, <1>3

(* Hence a sound output put into a sound state leaves it sound.            *)
LEMMA WithSoundOut ==
    ASSUME NEW s, SoundIo(s), NEW t \in Desc, NEW o, SoundBuf(o)
    PROVE  SoundIo(WithOut(s, t, o))
<1>1. s \in IoState /\ o \in OutBuf
  BY DEF SoundIo, SoundBuf
<1>2. \A d \in Desc : SoundBuf(WithOut(s, t, o).out[d])
  <2> SUFFICES ASSUME NEW d \in Desc
               PROVE  SoundBuf(WithOut(s, t, o).out[d])
    OBVIOUS
  <2>1. CASE d = t
    BY <1>1, <2>1, WithOutIs
  <2>2. CASE d # t
    BY <1>1, <2>2, WithOutIs DEF SoundIo
  <2>3. QED
    BY <2>1, <2>2
<1>3. QED
  BY <1>1, <1>2, WithOutIs DEF SoundIo

(* The two branches of write_to_output that stay in the present buffer.    *)
LEMMA AppendedIsSound ==
    ASSUME NEW o, SoundBuf(o), ~ Overflowed(o),
           NEW size \in Nat, o.bufspace >= size
    PROVE  SoundBuf(Appended(o, size)) /\ Appended(o, size).strlen >= size
<1> DEFINE a == Appended(o, size)
<1>1. o \in OutBuf /\ o.bufptr = o.strlen
      /\ o.bufspace = Capacity(o) - 1 - o.strlen
  BY DEF SoundBuf
<1>2. /\ a \in OutBuf
      /\ a.bufptr = o.bufptr + size /\ a.bufspace = o.bufspace - size
      /\ a.strlen = o.bufptr + size /\ a.large = o.large
  BY <1>1 DEF Appended, OutBuf
<1> HIDE DEF a
<1>3. Capacity(a) = Capacity(o) /\ Capacity(o) \in Int
  BY <1>2, SizeAssumption DEF Capacity
<1>4. ~ Overflowed(a)
  BY <1>1, <1>2 DEF Overflowed, OutBuf
<1>5. SoundBuf(a) /\ a.strlen >= size
  BY <1>1, <1>2, <1>3, <1>4 DEF SoundBuf, FitsBuffer, OutBuf
<1>6. QED
  BY <1>5 DEF a

LEMMA OverflowedIsSound ==
    ASSUME NEW o, SoundBuf(o), o.strlen > 0
    PROVE  SoundBuf(OverflowedFrom(o)) /\ OverflowedFrom(o).strlen > 0
BY SizeAssumption
   DEF SoundBuf, OutBuf, Overflowed, Capacity, FitsBuffer, OverflowedFrom

(* The branch that moves to a large buffer.                                *)
LEMMA MovedIsSound ==
    ASSUME NEW o, SoundBuf(o), ~ Overflowed(o),
           NEW raw \in Nat, NEW b \in Nat \ {0},
           raw + o.bufptr <= LargeBufsize - 1
    PROVE  SoundBuf(MovedToLarge(o, raw, b))
           /\ MovedToLarge(o, raw, b).strlen >= raw
BY SizeAssumption
   DEF SoundBuf, OutBuf, Overflowed, Capacity, FitsBuffer, MovedToLarge

LEMMA SwitchIsSound ==
    ASSUME NEW s, SoundIo(s), NEW t \in Desc, ~ Overflowed(s.out[t]),
           NEW raw \in Nat, raw + s.out[t].bufptr <= LargeBufsize - 1
    PROVE  /\ SoundIo(SwitchToLarge(s, t, raw))
           /\ SwitchToLarge(s, t, raw).out[t].strlen >= raw
<1> DEFINE o == s.out[t]
<1>1. s \in IoState /\ SoundBuf(o)
  BY DEF SoundIo
<1>2. CASE s.bufpool # << >>
  <2> DEFINE m == MovedToLarge(o, raw, Head(s.bufpool))
             w == WithOut(s, t, m)
  <2>1. Head(s.bufpool) \in Nat \ {0} /\ Tail(s.bufpool) \in Seq(Nat \ {0})
    BY <1>1, <1>2 DEF IoState
  <2>2. SoundBuf(m) /\ m.strlen >= raw
    BY <1>1, <2>1, MovedIsSound
  <2>3. SoundIo(w) /\ w.out[t] = m
    BY <1>1, <2>2, WithSoundOut, WithOutIs DEF SoundBuf
  <2>4. SwitchToLarge(s, t, raw) = [w EXCEPT !.bufpool = Tail(s.bufpool)]
    BY <1>1, <1>2, <2>2, WithOutIs DEF SwitchToLarge, SoundBuf
  <2> HIDE DEF m, w
  <2>5. [w EXCEPT !.bufpool = Tail(s.bufpool)] \in IoState
        /\ [w EXCEPT !.bufpool = Tail(s.bufpool)].out = w.out
    BY <2>1, <2>3 DEF SoundIo, IoState
  <2>6. QED
    BY <2>2, <2>3, <2>4, <2>5 DEF SoundIo
<1>3. CASE s.bufpool = << >>
  <2> DEFINE n == s.buf_largecount + 1
             m == MovedToLarge(o, raw, n)
             w == WithOut(s, t, m)
  <2>1. n \in Nat \ {0}
    BY <1>1 DEF IoState
  <2>2. SoundBuf(m) /\ m.strlen >= raw
    BY <1>1, <2>1, MovedIsSound
  <2>3. SoundIo(w) /\ w.out[t] = m
    BY <1>1, <2>2, WithSoundOut, WithOutIs DEF SoundBuf
  <2>4. SwitchToLarge(s, t, raw) = [w EXCEPT !.buf_largecount = n]
    BY <1>1, <1>3, <2>2, WithOutIs DEF SwitchToLarge, SoundBuf
  <2> HIDE DEF m, w
  <2>5. [w EXCEPT !.buf_largecount = n] \in IoState
        /\ [w EXCEPT !.buf_largecount = n].out = w.out
    BY <2>1, <2>3 DEF SoundIo, IoState
  <2>6. QED
    BY <2>2, <2>3, <2>4, <2>5 DEF SoundIo
<1>4. QED
  BY <1>2, <1>3

(* write_to_output keeps every buffer sound, provided the text is at least *)
(* as long wrapped as raw and fits an empty large buffer or finds some     *)
(* text already queued; after a text that is not empty, text is queued.    *)
LEMMA WriteIsSound ==
    ASSUME NEW s, SoundIo(s), NEW t \in Desc,
           NEW raw \in Nat, NEW size \in Nat, raw <= size,
           size <= LargeBufsize - 1 \/ s.out[t].strlen > 0
    PROVE  /\ SoundIo(WriteToOutput(s, t, raw, size))
           /\ raw > 0 => WriteToOutput(s, t, raw, size).out[t].strlen > 0
<1> DEFINE o == s.out[t]
<1>1. s \in IoState /\ SoundBuf(o) /\ o \in OutBuf
  BY DEF SoundIo, SoundBuf
<1>2. CASE Overflowed(o)
  BY <1>1, <1>2 DEF WriteToOutput, SoundBuf
<1>3. CASE ~ Overflowed(o) /\ o.bufspace >= size
  <2>1. SoundBuf(Appended(o, size)) /\ Appended(o, size).strlen >= size
    BY <1>1, <1>3, AppendedIsSound
  <2>2. WriteToOutput(s, t, raw, size) = WithOut(s, t, Appended(o, size))
    BY <1>3 DEF WriteToOutput
  <2>3. WithOut(s, t, Appended(o, size)).out[t] = Appended(o, size)
    BY <1>1, <2>1, WithOutIs DEF SoundBuf
  <2>4. Appended(o, size).strlen \in Nat
    BY <2>1 DEF SoundBuf, OutBuf
  <2>5. QED
    BY <2>1, <2>2, <2>3, <2>4, WithSoundOut
<1>4. CASE ~ Overflowed(o) /\ ~ (o.bufspace >= size)
             /\ size + o.bufptr > LargeBufsize - 1
  <2>1. o.strlen > 0
    BY <1>1, <1>4, SizeAssumption DEF SoundBuf, OutBuf
  <2>2. SoundBuf(OverflowedFrom(o)) /\ OverflowedFrom(o).strlen > 0
    BY <1>1, <2>1, OverflowedIsSound
  <2>3. WriteToOutput(s, t, raw, size) = WithOut(s, t, OverflowedFrom(o))
    BY <1>4 DEF WriteToOutput
  <2>4. WithOut(s, t, OverflowedFrom(o)).out[t] = OverflowedFrom(o)
    BY <1>1, <2>2, WithOutIs DEF SoundBuf
  <2>5. QED
    BY <2>2, <2>3, <2>4, WithSoundOut
<1>5. CASE ~ Overflowed(o) /\ ~ (o.bufspace >= size)
             /\ ~ (size + o.bufptr > LargeBufsize - 1)
  <2>1. WriteToOutput(s, t, raw, size) = SwitchToLarge(s, t, raw)
    BY <1>5 DEF WriteToOutput
  <2>2. raw + o.bufptr <= LargeBufsize - 1
    BY <1>1, <1>5, SizeAssumption DEF OutBuf
  <2>3. SwitchToLarge(s, t, raw).out[t].strlen >= raw
        /\ SoundIo(SwitchToLarge(s, t, raw))
    BY <1>5, <2>2, SwitchIsSound
  <2>4. SwitchToLarge(s, t, raw).out[t].strlen \in Nat
    BY <2>3 DEF SoundIo, SoundBuf, OutBuf
  <2>5. QED
    BY <2>1, <2>3, <2>4
<1>6. QED
  BY <1>2, <1>3, <1>4, <1>5

(* A released buffer leaves the state sound and its owner empty.           *)
LEMMA ReleaseIsSound ==
    ASSUME NEW s, SoundIo(s), NEW t \in Desc
    PROVE  SoundIo(ReleaseLarge(s, t))
<1> DEFINE w == WithOut(s, t, FreshBuf)
<1>1. s \in IoState /\ s.out[t] \in OutBuf
  BY DEF SoundIo, SoundBuf
<1>2. SoundIo(w)
  BY FreshIsSound, WithSoundOut
<1>3. CASE s.out[t].large = 0
  BY <1>2, <1>3 DEF ReleaseLarge
<1>4. CASE s.out[t].large # 0
  <2> DEFINE p == <<s.out[t].large>> \o w.bufpool
  <2>1. p \in Seq(Nat \ {0})
    BY <1>1, <1>2, <1>4 DEF SoundIo, IoState, OutBuf
  <2>2. ReleaseLarge(s, t) = [w EXCEPT !.bufpool = p]
    BY <1>4 DEF ReleaseLarge
  <2> HIDE DEF w, p
  <2>3. [w EXCEPT !.bufpool = p] \in IoState
        /\ [w EXCEPT !.bufpool = p].out = w.out
    BY <1>2, <2>1 DEF SoundIo, IoState
  <2>4. QED
    BY <1>2, <2>2, <2>3 DEF SoundIo
<1>5. QED
  BY <1>3, <1>4

(* linewrap never shortens a text, and the texts of the program fit.       *)
LEMMA WrappedBounds ==
    ASSUME NEW n \in Nat, NEW size \in Wrapped(n)
    PROVE  size \in Nat /\ n <= size /\ size <= n + WrapGrowth
BY SizeAssumption DEF Wrapped

LEMMA TextFits ==
    ASSUME NEW n \in TextLengths, NEW size \in Wrapped(n)
    PROVE  n \in Nat /\ size \in Nat /\ n <= size /\ size <= LargeBufsize - 1
BY TextAssumption, SizeAssumption, WrappedBounds

LEMMA ReplyFits == Reply \in Nat /\ Reply <= LargeBufsize - 1
BY TextAssumption, SizeAssumption

LEMMA NoticeFits ==
    ASSUME NEW n \in {0, Notice}, NEW size \in Wrapped(n)
    PROVE  n \in Nat /\ size \in Nat /\ n <= size /\ size <= LargeBufsize - 1
<1>1. (n \in Nat /\ n + WrapGrowth <= LargeBufsize - 1) \/ n = 0
  BY TextAssumption
<1>2. n \in Nat /\ Wrapped(0) = {0}
  BY TextAssumption, SizeAssumption DEF Wrapped
<1>3. QED
  BY <1>1, <1>2, SizeAssumption, WrappedBounds

(* The copy to the snooper.  The mark before it makes sure that a copy too *)
(* long for a large buffer finds text already queued.                      *)
LEMMA SnoopCopyIsSound ==
    ASSUME NEW s, SoundIo(s), NEW t \in Desc,
           snoop_by[t] \in Desc \union {None},
           NEW size \in Nat, s.out[t].strlen <= size
    PROVE  SoundIo(SnoopCopy(s, t, size))
<1>1. CASE snoop_by[t] = None
  BY <1>1 DEF SnoopCopy
<1>2. CASE snoop_by[t] # None
  <2> DEFINE by == snoop_by[t]
             raw == s.out[t].strlen
             s1 == WriteToOutput(s, by, SnoopMark, SnoopMark)
             s2 == WriteToOutput(s1, by, raw, size)
             s3 == WriteToOutput(s2, by, SnoopMark, SnoopMark)
  <2>1. /\ by \in Desc /\ raw \in Nat
        /\ SnoopMark \in Nat /\ SnoopMark > 0
        /\ SnoopMark <= LargeBufsize - 1
    BY <1>2, SizeAssumption DEF SoundIo, SoundBuf, OutBuf
  <2>2. SnoopCopy(s, t, size) = s3
    BY <1>2 DEF SnoopCopy
  <2>3. SoundIo(s1) /\ s1.out[by].strlen > 0
    BY <2>1, WriteIsSound
  <2> HIDE DEF s1
  <2>4. SoundIo(s2)
    BY <2>1, <2>3, WriteIsSound
  <2> HIDE DEF s2
  <2>5. SoundIo(s3)
    BY <2>1, <2>4, WriteIsSound
  <2>6. QED
    BY <2>2, <2>5
<1>3. QED
  BY <1>1, <1>2

LEMMA FlushedIsSound ==
    ASSUME NEW s, SoundIo(s), NEW t \in Desc,
           snoop_by[t] \in Desc \union {None},
           NEW size \in Nat, s.out[t].strlen <= size
    PROVE  SoundIo(Flushed(s, t, size))
BY SnoopCopyIsSound, ReleaseIsSound DEF Flushed

LEMMA ClosedIoIsSound ==
    ASSUME NEW s, SoundIo(s), NEW t \in Desc,
           snoop_by[t] \in Desc \union {None}
    PROVE  SoundIo(ClosedIo(s, t))
<1>1. SoundIo(ReleaseLarge(s, t))
  BY ReleaseIsSound
<1>2. CASE snoop_by[t] = None
  BY <1>1, <1>2 DEF ClosedIo
<1>3. CASE snoop_by[t] # None
  BY <1>1, <1>3, ReplyFits, WriteIsSound DEF ClosedIo
<1>4. QED
  BY <1>2, <1>3

-----------------------------------------------------------------------------
(* The inductive invariant: the types, and every output sound.             *)
OutputInv == TypeOK /\ SoundIo(io)

LEMMA InitOutputInv == Init => OutputInv
<1> SUFFICES ASSUME Init PROVE OutputInv
  OBVIOUS
<1>1. io \in IoState /\ \A d \in Desc : io.out[d] = FreshBuf
  BY FreshIsSound DEF Init, IoState, SoundBuf
<1>2. SoundIo(io)
  BY <1>1, FreshIsSound DEF SoundIo
<1>3. QED
  BY <1>1, <1>2, LevelAssumption DEF Init, OutputInv, TypeOK

(* The types of the links and levels, which depend on nothing else.        *)
LEMMA ForgettingTypes ==
    ASSUME TypeOK, NEW d \in Desc, ForgetSnooping(d)
    PROVE  /\ snooping' \in [Desc -> Desc \union {None}]
           /\ snoop_by' \in [Desc -> Desc \union {None}]
           /\ crossed' \subseteq Desc
BY DEF ForgetSnooping, TypeOK

LEMMA SetLevelTypes ==
    ASSUME OutputInv, NEW v \in Desc, NEW k \in 0 .. LvlImpl, SetLevel(v, k),
           SoundIo(io')
    PROVE  OutputInv'
<1>1. level' \in [Desc -> 0 .. LvlImpl] /\ crossed' \subseteq Desc
  BY DEF SetLevel, OutputInv, TypeOK
<1>2. QED
  BY <1>1 DEF SetLevel, OutputInv, TypeOK, SoundIo

LEMMA NextOutputInv == OutputInv /\ [Next]_vars => OutputInv'
<1> SUFFICES ASSUME OutputInv, [Next]_vars PROVE OutputInv'
  OBVIOUS
<1>1. /\ TypeOK /\ SoundIo(io)
      /\ \A d \in Desc : snoop_by[d] \in Desc \union {None}
      /\ \A d \in Desc : io.out[d].strlen \in Nat
      /\ LvlImpl \in Nat /\ 0 \in 0 .. LvlImpl /\ 1 \in 0 .. LvlImpl
      /\ NewLevels \subseteq 0 .. LvlImpl
  BY LevelAssumption DEF OutputInv, TypeOK, SoundIo, SoundBuf, OutBuf
<1>2. ASSUME NEW d \in Desc, NewDescriptor(d) PROVE OutputInv'
  <2>1. SoundIo(WithOut(io, d, FreshBuf))
    BY <1>1, FreshIsSound, WithSoundOut
  <2>2. PICK n \in TextLengths : \E size \in Wrapped(n) :
          io' = WriteToOutput(WithOut(io, d, FreshBuf), d, n, size)
    BY <1>2 DEF NewDescriptor
  <2>3. SoundIo(io')
    BY <2>1, <2>2, TextFits, WriteIsSound
  <2>4. level' \in [Desc -> 0 .. LvlImpl]
    BY <1>1, <1>2, LevelAssumption DEF NewDescriptor, TypeOK
  <2>5. QED
    BY <1>1, <1>2, <2>3, <2>4 DEF NewDescriptor, OutputInv, TypeOK, SoundIo
<1>3. ASSUME NEW d \in Desc, SendToQ(d) PROVE OutputInv'
  <2>1. PICK n \in TextLengths : \E size \in Wrapped(n) :
          io' = WriteToOutput(io, d, n, size)
    BY <1>3 DEF SendToQ
  <2>2. SoundIo(io')
    BY <1>1, <2>1, TextFits, WriteIsSound
  <2>3. QED
    BY <1>1, <1>3, <2>2 DEF SendToQ, OutputInv, TypeOK, SoundIo
<1>4. ASSUME NEW d \in Desc, ProcessOutput(d) PROVE OutputInv'
  <2>1. PICK size \in Wrapped(io.out[d].strlen) : io' = Flushed(io, d, size)
    BY <1>4 DEF ProcessOutput
  <2>2. SoundIo(io')
    BY <1>1, <2>1, WrappedBounds, FlushedIsSound
  <2>3. QED
    BY <1>1, <1>4, <2>2 DEF ProcessOutput, OutputInv, TypeOK, SoundIo
<1>5. ASSUME NEW d \in Desc PROVE ForgetSnooping(d) =>
        /\ snooping' \in [Desc -> Desc \union {None}]
        /\ snoop_by' \in [Desc -> Desc \union {None}]
        /\ crossed' \subseteq Desc
  BY <1>1, ForgettingTypes
<1>6. ASSUME NEW d \in Desc, ProcessOutputFails(d) PROVE OutputInv'
  <2>1. PICK size \in Wrapped(io.out[d].strlen) :
          io' = ClosedIo(Flushed(io, d, size), d)
    BY <1>6 DEF ProcessOutputFails
  <2>2. SoundIo(Flushed(io, d, size))
    BY <1>1, WrappedBounds, FlushedIsSound
  <2>3. SoundIo(io')
    BY <1>1, <2>1, <2>2, ClosedIoIsSound
  <2>4. QED
    BY <1>1, <1>5, <1>6, <2>3
       DEF ProcessOutputFails, OutputInv, TypeOK, SoundIo
<1>7. ASSUME NEW d \in Desc, CloseSocket(d) PROVE OutputInv'
  <2>1. SoundIo(io')
    BY <1>1, <1>7, ClosedIoIsSound DEF CloseSocket
  <2>2. QED
    BY <1>1, <1>5, <1>7, <2>1 DEF CloseSocket, OutputInv, TypeOK, SoundIo
<1>8. ASSUME NEW d \in Desc, NEW v \in Desc, DoSnoop(d, v) PROVE OutputInv'
  <2>1. SoundIo(io')
    BY <1>1, <1>8, ReplyFits, WriteIsSound DEF DoSnoop
  <2>2. QED
    BY <1>1, <1>8, <2>1 DEF DoSnoop, OutputInv, TypeOK, SoundIo
<1>9. ASSUME NEW d \in Desc, StopSnooping(d) PROVE OutputInv'
  <2>1. SoundIo(io')
    BY <1>1, <1>9, ReplyFits, WriteIsSound DEF StopSnooping
  <2>2. QED
    BY <1>1, <1>9, <2>1 DEF StopSnooping, OutputInv, TypeOK, SoundIo
<1>10. CASE UNCHANGED vars
  BY <1>1, <1>10 DEF vars, OutputInv, TypeOK, SoundIo
<1>11. ASSUME NEW d \in Desc, ExtractChar(d) PROVE OutputInv'
  <2> DEFINE told == IF snoop_by[d] = None THEN io
                     ELSE WriteToOutput(io, snoop_by[d], Reply, Reply)
  <2>1. SoundIo(told)
    BY <1>1, ReplyFits, WriteIsSound
  <2>2. PICK size \in Wrapped(Notice) :
          io' = WriteToOutput(told, d, Notice, size)
    BY <1>11 DEF ExtractChar
  <2>3. SoundIo(io')
    BY <2>1, <2>2, NoticeFits, WriteIsSound
  <2>4. QED
    BY <1>1, <1>5, <1>11, <2>3 DEF ExtractChar, OutputInv, TypeOK, SoundIo
<1>12. ASSUME NEW d \in Desc, NEW s, SoundIo(s),
              \E size \in Wrapped(Notice) :
                io' = WriteToOutput(s, d, Notice, size)
       PROVE  SoundIo(io')
  BY <1>12, NoticeFits, WriteIsSound
<1>13. ASSUME NEW d \in Desc, DoMulti(d) PROVE OutputInv'
  <2>1. SoundIo(io')
    BY <1>1, <1>12, <1>13 DEF DoMulti
  <2>2. QED
    BY <1>1, <1>13, <2>1, SetLevelTypes DEF DoMulti
<1>14. ASSUME NEW d \in Desc, DoGain(d) PROVE OutputInv'
  <2>1. SoundIo(io')
    BY <1>1, <1>12, <1>14 DEF DoGain
  <2>2. level' \in [Desc -> 0 .. LvlImpl]
    <3>1. level[d] \in Nat /\ level[d] + 1 <= LvlImpl
      BY <1>1, <1>14, LevelAssumption DEF DoGain, TypeOK
    <3>2. QED
      BY <1>1, <1>14, <3>1 DEF DoGain, TypeOK
  <2>3. QED
    BY <1>1, <1>14, <2>1, <2>2 DEF DoGain, OutputInv, TypeOK, SoundIo
<1>15. ASSUME NEW d \in Desc, NEW v \in Desc, DoAdvance(d, v) PROVE OutputInv'
  <2>1. PICK n \in {0, Notice} : \E size \in Wrapped(n) :
          io' = WriteToOutput(WriteToOutput(io, v, n, size), d, Reply, Reply)
    BY <1>15 DEF DoAdvance
  <2>2. PICK size \in Wrapped(n) :
          io' = WriteToOutput(WriteToOutput(io, v, n, size), d, Reply, Reply)
    BY <2>1
  <2>3. SoundIo(WriteToOutput(io, v, n, size))
    BY <1>1, NoticeFits, WriteIsSound
  <2>4. SoundIo(io')
    BY <2>2, <2>3, ReplyFits, WriteIsSound
  <2>5. QED
    BY <1>1, <1>15, <2>4, SetLevelTypes DEF DoAdvance
<1>16. ASSUME NEW d \in Desc, NEW v \in Desc, DoSetLevel(d, v)
       PROVE  OutputInv'
  <2>1. SoundIo(io')
    BY <1>1, <1>16, ReplyFits, WriteIsSound DEF DoSetLevel
  <2>2. QED
    BY <1>1, <1>16, <2>1, SetLevelTypes DEF DoSetLevel
<1>17. QED
  BY <1>2, <1>3, <1>4, <1>6, <1>7, <1>8, <1>9, <1>10, <1>11, <1>13, <1>14,
     <1>15, <1>16
     DEF Next, Commands, LevelCommands, OutputPass

(* comm.c keeps the output buffers within their types.                     *)
THEOREM OutputTypeOK == Spec => []TypeOK
<1>1. OutputInv => TypeOK
  BY DEF OutputInv
<1>2. QED
  BY <1>1, InitOutputInv, NextOutputInv, PTL DEF Spec

(* In every reachable state bufptr and bufspace describe the queued text   *)
(* (write_to_output, process_output).                                      *)
THEOREM OutputAccounting == Spec => []Accounting
<1>1. OutputInv => Accounting
  BY DEF OutputInv, SoundIo, SoundBuf, Accounting
<1>2. QED
  BY <1>1, InitOutputInv, NextOutputInv, PTL DEF Spec

(* In every reachable state each text fits its buffer, and what            *)
(* process_output assembles from it fits MAX_SOCK_BUF.                     *)
THEOREM OutputAlwaysFits == Spec => []OutputFits
<1>1. OutputInv => OutputFits
  <2> SUFFICES ASSUME OutputInv, NEW d \in Desc
               PROVE  /\ FitsBuffer(io.out[d])
                      /\ AssembledLength(io.out[d]) + 1 <= MaxSockBuf
    BY DEF OutputFits
  <2>1. SoundBuf(io.out[d])
    BY DEF OutputInv, SoundIo
  <2>2. QED
    BY <2>1, SizeAssumption
       DEF SoundBuf, OutBuf, FitsBuffer, Capacity, AssembledLength
<1>2. QED
  BY <1>1, InitOutputInv, NextOutputInv, PTL DEF Spec

(* In every reachable state a descriptor in the overflow state has text    *)
(* waiting, so that the output pass will visit it.                         *)
THEOREM OverflowAlwaysHasText == Spec => []OverflowHasText
<1>1. OutputInv => OverflowHasText
  BY DEF OutputInv, SoundIo, SoundBuf, OverflowHasText
<1>2. QED
  BY <1>1, InitOutputInv, NextOutputInv, PTL DEF Spec

(* The three together: in every reachable state every queue is what its    *)
(* counters say, fits its buffer and the assembled output, and an          *)
(* overflowed one will be flushed (comm.c 1631-1675, 1678-1755).           *)
THEOREM QueuesAlwaysSound == Spec => []QueuesSound
<1>1. Accounting /\ OutputFits /\ OverflowHasText => QueuesSound
  BY DEF QueuesSound
<1>2. QED
  BY <1>1, OutputAccounting, OutputAlwaysFits, OverflowAlwaysHasText, PTL

-----------------------------------------------------------------------------
(* The snoop links.  Which steps touch them does not depend on the         *)
(* buffers, so this invariant needs of OutputInv only the types.           *)
SnoopInv == TypeOK /\ SnoopSound

(* close_socket and extract_char leave the remaining links as they were    *)
(* and symmetric.                                                          *)
LEMMA ForgettingKeepsLinks ==
    ASSUME SnoopInv, NEW d \in Desc, ForgetSnooping(d),
           open \ {d} \subseteq open', \A e \in Desc \ {d} : level'[e] = level[e]
    PROVE  SnoopSound'
<1>1. /\ snooping \in [Desc -> Desc \union {None}]
      /\ snoop_by \in [Desc -> Desc \union {None}]
      /\ \A a, b \in Desc : snooping[a] = b <=> snoop_by[b] = a
      /\ \A a, b \in Desc : snooping[a] = b => {a, b} \subseteq open
      /\ \A a, b \in Desc : snooping[a] = b => snooping[b] # a
  BY DEF SnoopInv, TypeOK, SnoopSound, SnoopSymmetric, NoMutualSnoop
<1>2. ASSUME NEW a \in Desc, NEW b \in Desc
      PROVE  /\ snooping'[a] = b <=> snooping[a] = b /\ a # d /\ b # d
             /\ snoop_by'[b] = a <=> snoop_by[b] = a /\ a # d /\ b # d
  BY <1>1, NoneAssumption DEF ForgetSnooping
<1>3. SnoopSymmetric' /\ NoMutualSnoop'
  BY <1>1, <1>2 DEF SnoopSymmetric, NoMutualSnoop
<1>4. SnoopDescends'
  <2> SUFFICES ASSUME NEW a \in Desc \ crossed', snooping'[a] # None
               PROVE  level'[a] >= LvlGod /\ level'[snooping'[a]] < level'[a]
    BY DEF SnoopDescends
  <2>1. a # d /\ snooping'[a] = snooping[a] /\ snooping[a] \in Desc
    BY <1>1 DEF ForgetSnooping
  <2>2. snooping[a] # d /\ a # snoop_by[d]
    BY <1>1, <1>2, <2>1
  <2>3. a \notin crossed
    BY <2>1, <2>2 DEF ForgetSnooping
  <2>4. level[a] >= LvlGod /\ level[snooping[a]] < level[a]
    BY <2>1, <2>3 DEF SnoopInv, SnoopSound, SnoopDescends
  <2>5. QED
    BY <2>1, <2>2, <2>4
<1>5. QED
  BY <1>3, <1>4 DEF SnoopSound

(* A change of level marks the links that it may have turned over.         *)
LEMMA SetLevelKeepsLinks ==
    ASSUME SnoopInv, NEW v \in Desc, NEW k, SetLevel(v, k)
    PROVE  SnoopSound'
<1>1. SnoopSymmetric' /\ NoMutualSnoop'
  BY DEF SetLevel, SnoopInv, SnoopSound, SnoopSymmetric, NoMutualSnoop
<1>2. SnoopDescends'
  <2> SUFFICES ASSUME NEW a \in Desc \ crossed', snooping'[a] # None
               PROVE  level'[a] >= LvlGod /\ level'[snooping'[a]] < level'[a]
    BY DEF SnoopDescends
  <2>1. /\ snooping'[a] = snooping[a] /\ a # v /\ snooping[a] # v
        /\ a \notin crossed
    BY DEF SetLevel
  <2>2. level \in [Desc -> 0 .. LvlImpl] /\ snooping[a] \in Desc
    BY <2>1 DEF SnoopInv, TypeOK
  <2>3. level'[a] = level[a] /\ level'[snooping[a]] = level[snooping[a]]
    BY <2>1, <2>2 DEF SetLevel
  <2>4. QED
    BY <2>1, <2>3 DEF SnoopInv, SnoopSound, SnoopDescends
<1>3. QED
  BY <1>1, <1>2 DEF SnoopSound

LEMMA NextSnoopInv ==
    TypeOK' /\ SnoopInv /\ [Next]_vars => SnoopSound'
<1> SUFFICES ASSUME TypeOK', SnoopInv, [Next]_vars
             PROVE  SnoopSound'
  OBVIOUS
<1>1. /\ snooping \in [Desc -> Desc \union {None}]
      /\ snoop_by \in [Desc -> Desc \union {None}]
      /\ level \in [Desc -> 0 .. LvlImpl]
      /\ \A a, b \in Desc : snooping[a] = b <=> snoop_by[b] = a
      /\ \A a, b \in Desc : snooping[a] = b => {a, b} \subseteq open
      /\ \A a, b \in Desc : snooping[a] = b => snooping[b] # a
      /\ \A a \in Desc \ crossed : snooping[a] # None =>
           level[a] >= LvlGod /\ level[snooping[a]] < level[a]
  BY DEF SnoopInv, TypeOK, SnoopSound, SnoopSymmetric, NoMutualSnoop,
         SnoopDescends
<1>2. CASE UNCHANGED <<snooping, snoop_by, level, crossed>> /\ open \subseteq open'
  BY <1>1, <1>2 DEF SnoopSound, SnoopSymmetric, NoMutualSnoop, SnoopDescends
<1>3. ASSUME NEW d \in Desc, NEW v \in Desc, DoSnoop(d, v)
      PROVE  SnoopSound'
  <2>1. /\ d # v /\ snoop_by[v] = None /\ {d, v} \subseteq open
        /\ snooping[v] # d
        /\ level[d] >= LvlGod /\ level[v] < level[d]
        /\ open' = open /\ level' = level /\ crossed' = crossed \ {d}
    BY <1>3 DEF DoSnoop, MaySnoop
  <2>2. ASSUME NEW a \in Desc
        PROVE  snooping'[a] = IF a = d THEN v ELSE snooping[a]
    BY <1>1, <1>3 DEF DoSnoop
  <2>3. ASSUME NEW b \in Desc
        PROVE  snoop_by'[b] = IF b = v THEN d
                              ELSE IF b = snooping[d] THEN None
                              ELSE snoop_by[b]
    BY <1>3 DEF DoSnoop
  <2>4. ASSUME NEW a \in Desc, NEW b \in Desc
        PROVE  snooping'[a] = b <=> snoop_by'[b] = a
    BY <1>1, <2>1, <2>2, <2>3, NoneAssumption
  <2>5. SnoopSymmetric'
    BY <1>1, <2>1, <2>2, <2>4 DEF SnoopSymmetric
  <2>6. SnoopDescends'
    BY <1>1, <2>1, <2>2 DEF SnoopDescends
  <2>7. NoMutualSnoop'
    BY <1>1, <2>1, <2>2 DEF NoMutualSnoop
  <2>8. QED
    BY <2>5, <2>6, <2>7 DEF SnoopSound
<1>4. ASSUME NEW d \in Desc, StopSnooping(d)
      PROVE  SnoopSound'
  <2>1. /\ open' = open /\ level' = level /\ crossed' = crossed \ {d}
        /\ \A a \in Desc : snooping'[a] = IF a = d THEN None ELSE snooping[a]
        /\ \A b \in Desc : snoop_by'[b] = IF b = snooping[d] THEN None
                                         ELSE snoop_by[b]
    BY <1>1, <1>4 DEF StopSnooping
  <2>2. ASSUME NEW a \in Desc, NEW b \in Desc
        PROVE  snooping'[a] = b <=> snoop_by'[b] = a
    BY <1>1, <2>1, NoneAssumption
  <2>3. SnoopSymmetric'
    BY <1>1, <2>1, <2>2, NoneAssumption DEF SnoopSymmetric
  <2>4. SnoopDescends'
    BY <1>1, <2>1 DEF SnoopDescends
  <2>5. NoMutualSnoop'
    BY <1>1, <2>1, NoneAssumption DEF NoMutualSnoop
  <2>6. QED
    BY <2>3, <2>4, <2>5 DEF SnoopSound
<1>5. ASSUME NEW d \in Desc, ProcessOutputFails(d) \/ CloseSocket(d)
      PROVE  SnoopSound'
  <2>1. ForgetSnooping(d) /\ open' = open \ {d}
        /\ level' = [level EXCEPT ![d] = 0]
    BY <1>5 DEF ProcessOutputFails, CloseSocket
  <2>2. \A e \in Desc \ {d} : level'[e] = level[e]
    BY <1>1, <2>1
  <2>3. QED
    BY <2>1, <2>2, ForgettingKeepsLinks
<1>6. ASSUME NEW d \in Desc, ExtractChar(d) PROVE SnoopSound'
  BY <1>6, ForgettingKeepsLinks DEF ExtractChar
<1>7. ASSUME NEW d \in Desc, NEW v \in Desc,
             DoMulti(d) \/ DoAdvance(d, v) \/ DoSetLevel(d, v)
      PROVE  SnoopSound'
  BY <1>7, SetLevelKeepsLinks DEF DoMulti, DoAdvance, DoSetLevel
<1>8. ASSUME NEW d \in Desc, NewDescriptor(d) PROVE SnoopSound'
  <2>1. /\ d \notin open /\ open \subseteq open'
        /\ UNCHANGED <<snooping, snoop_by, crossed>>
        /\ \A e \in Desc \ {d} : level'[e] = level[e]
    BY <1>1, <1>8 DEF NewDescriptor
  <2>2. \A a \in Desc : snooping[a] # None =>
          a # d /\ snooping[a] # d /\ snooping[a] \in Desc
    BY <1>1, <2>1
  <2>3. SnoopDescends'
    BY <1>1, <2>1, <2>2 DEF SnoopDescends
  <2>4. SnoopSymmetric' /\ NoMutualSnoop'
    BY <1>1, <2>1 DEF SnoopSymmetric, NoMutualSnoop
  <2>5. QED
    BY <2>3, <2>4 DEF SnoopSound
<1>9. ASSUME NEW d \in Desc, DoGain(d) PROVE SnoopSound'
  <2>1. /\ UNCHANGED <<open, snooping, snoop_by, crossed>>
        /\ level[d] < LvlImmort
        /\ \A e \in Desc : level'[e] = IF e = d THEN level[d] + 1 ELSE level[e]
    BY <1>1, <1>9 DEF DoGain
  <2>2. LvlImmort < LvlGod /\ LvlImmort \in Nat /\ LvlGod \in Nat
    BY LevelAssumption
  <2>3. SnoopDescends'
    <3> SUFFICES ASSUME NEW a \in Desc \ crossed, snooping[a] # None
                 PROVE  level'[a] >= LvlGod /\ level'[snooping[a]] < level'[a]
      BY <2>1 DEF SnoopDescends
    <3>1. /\ snooping[a] \in Desc
          /\ level[a] >= LvlGod /\ level[snooping[a]] < level[a]
          /\ level[a] \in Nat /\ level[d] \in Nat /\ level[snooping[a]] \in Nat
      BY <1>1
    <3>2. a # d /\ level'[a] = level[a]
      BY <2>1, <2>2, <3>1
    <3>3. CASE snooping[a] = d
      BY <2>1, <2>2, <3>1, <3>2, <3>3
    <3>4. CASE snooping[a] # d
      BY <2>1, <3>1, <3>2, <3>4
    <3>5. QED
      BY <3>3, <3>4
  <2>4. SnoopSymmetric' /\ NoMutualSnoop'
    BY <1>1, <2>1 DEF SnoopSymmetric, NoMutualSnoop
  <2>5. QED
    BY <2>3, <2>4 DEF SnoopSound
<1>10. QED
  BY <1>2, <1>3, <1>4, <1>5, <1>6, <1>7, <1>8, <1>9
     DEF Next, Commands, LevelCommands, OutputPass, SendToQ, ProcessOutput,
         vars

LEMMA SpecSnoopInv == Spec => []SnoopInv
<1>1. Init => SnoopInv
  <2>1. Init => SnoopSound
    BY NoneAssumption
       DEF Init, SnoopSound, SnoopSymmetric, NoMutualSnoop, SnoopDescends
  <2>2. QED
    BY <2>1, InitOutputInv DEF OutputInv, SnoopInv
<1>2. TypeOK' /\ SnoopInv /\ [Next]_vars => SnoopInv'
  BY NextSnoopInv DEF SnoopInv
<1>3. QED
  BY <1>1, <1>2, OutputTypeOK, PTL DEF Spec

(* The two ends of every snoop agree and are connected, so process_output  *)
(* and close_socket never follow a pointer to a descriptor that is gone.   *)
THEOREM SnoopAlwaysSymmetric == Spec => []SnoopSymmetric
<1>1. SnoopInv => SnoopSymmetric
  BY DEF SnoopInv, SnoopSound
<1>2. QED
  BY <1>1, SpecSnoopInv, PTL

(* Every snoop link is held at both ends, between connected descriptors    *)
(* that do not snoop each other, and goes down in level unless a level was *)
(* advanced, set or lost by a new class under it (act.wizard.c 1117-1156,  *)
(* 1392-1472, 2584-2590, multi.c 140-160, act.other.c 112-197).            *)
THEOREM SnoopAlwaysSound == Spec => []SnoopSound
<1>1. SnoopInv => SnoopSound
  BY DEF SnoopInv
<1>2. QED
  BY <1>1, SpecSnoopInv, PTL

(* The members of a ring of snoopers, round which process_output would     *)
(* copy for ever: each snoops another member.                              *)
Ring(S) == S # {} /\ S \subseteq Desc /\ \A d \in S : snooping[d] \in S

(* No ring is closed by do_snoop alone: in every ring there is a member    *)
(* who, or whose victim, was advanced, set to a level or began a new class *)
(* after the snoop began.                                                  *)
THEOREM RingsAreCrossed ==
    Spec => [](\A S \in SUBSET Desc : Ring(S) => S \intersect crossed # {})
<1>1. ASSUME SnoopInv, NEW S \in SUBSET Desc, Ring(S),
             S \intersect crossed = {}
      PROVE  FALSE
  <2> DEFINE ranks == {level[d] : d \in S}
             Below == {xy \in Nat \X Nat : xy[1] < xy[2]}
  <2>1. level \in [Desc -> 0 .. LvlImpl] /\ LvlImpl \in Nat
    BY <1>1, LevelAssumption DEF SnoopInv, TypeOK
  <2>2. ranks \subseteq Nat /\ ranks # {}
    BY <1>1, <2>1 DEF Ring
  <2>3. PICK n \in ranks : \A m \in ranks : ~ (<<m, n>> \in Below)
    <3>1. IsWellFoundedOn(Below, Nat)
      BY NatLessThanWellFounded DEF OpToRel
    <3> HIDE DEF Below, ranks
    <3>2. QED
      BY <2>2, <3>1, WFMin
  <2>4. PICK d \in S : level[d] = n
    BY <2>3
  <2>5. snooping[d] \in S /\ snooping[d] # None /\ d \in Desc \ crossed
    BY <1>1, <2>4, NoneAssumption DEF Ring
  <2>6. level[snooping[d]] < level[d]
    BY <1>1, <2>5 DEF SnoopInv, SnoopSound, SnoopDescends
  <2>7. level[snooping[d]] \in ranks
    BY <2>5
  <2>8. level[snooping[d]] \in Nat /\ level[d] \in Nat
    BY <2>1, <2>5 DEF Ring
  <2>9. <<level[snooping[d]], n>> \in Below
    BY <2>4, <2>6, <2>8
  <2>10. QED
    BY <2>3, <2>7, <2>9
<1>2. SnoopInv =>
        \A S \in SUBSET Desc : Ring(S) => S \intersect crossed # {}
  BY <1>1
<1>3. QED
  BY <1>2, SpecSnoopInv, PTL

-----------------------------------------------------------------------------
(* What a writer leaves alone, and where the large buffers go.             *)

(* The large buffer that a descriptor moves to: the first of the pool, or  *)
(* a new one when the pool is empty.                                       *)
NextLarge(s) == IF s.bufpool # << >> THEN Head(s.bufpool)
                ELSE s.buf_largecount + 1

LEMMA SwitchedIs ==
    ASSUME NEW s \in IoState, NEW t \in Desc, NEW raw \in Nat
    PROVE  LET m == MovedToLarge(s.out[t], raw, NextLarge(s))
               w == SwitchToLarge(s, t, raw)
           IN  /\ NextLarge(s) \in Nat \ {0} /\ m \in OutBuf
               /\ m.large = NextLarge(s)
               /\ m.strlen = s.out[t].strlen + raw
               /\ w.out = WithOut(s, t, m).out
               /\ w.bufpool = IF s.bufpool # << >> THEN Tail(s.bufpool)
                              ELSE << >>
               /\ w.buf_largecount = IF s.bufpool # << >>
                                     THEN s.buf_largecount
                                     ELSE s.buf_largecount + 1
<1> DEFINE m == MovedToLarge(s.out[t], raw, NextLarge(s))
           x == WithOut(s, t, m)
<1>1. NextLarge(s) \in Nat \ {0}
  BY DEF NextLarge, IoState
<1>2. s.out[t] \in OutBuf
  BY DEF IoState
<1>3. m \in OutBuf /\ m.large = NextLarge(s)
      /\ m.strlen = s.out[t].strlen + raw
  BY <1>1, <1>2, SizeAssumption DEF MovedToLarge, OutBuf
<1>4. SwitchToLarge(s, t, raw) =
        IF s.bufpool # << >> THEN [x EXCEPT !.bufpool = Tail(x.bufpool)]
        ELSE [x EXCEPT !.buf_largecount = x.buf_largecount + 1]
  BY DEF SwitchToLarge, NextLarge
<1>5. x \in IoState /\ x.bufpool = s.bufpool
      /\ x.buf_largecount = s.buf_largecount
  BY <1>3, WithOutIs
<1> HIDE DEF m, x
<1>6. CASE s.bufpool # << >>
  <2>1. SwitchToLarge(s, t, raw) = [x EXCEPT !.bufpool = Tail(x.bufpool)]
    BY <1>4, <1>6
  <2>2. QED
    BY <1>1, <1>3, <1>5, <1>6, <2>1 DEF IoState, x, m
<1>7. CASE s.bufpool = << >>
  <2>1. SwitchToLarge(s, t, raw) =
          [x EXCEPT !.buf_largecount = x.buf_largecount + 1]
    BY <1>4, <1>7
  <2>2. QED
    BY <1>1, <1>3, <1>5, <1>7, <2>1 DEF IoState, x, m
<1>8. QED
  BY <1>6, <1>7

(* write_to_output touches the output of one descriptor only, and the text *)
(* that is queued there does not become shorter.                           *)
LEMMA WriteExtends ==
    ASSUME NEW s, SoundIo(s), NEW t \in Desc,
           NEW raw \in Nat, NEW size \in Nat
    PROVE  LET w == WriteToOutput(s, t, raw, size)
           IN  /\ \A d \in Desc \ {t} : w.out[d] = s.out[d]
               /\ \A d \in Desc : w.out[d].strlen >= s.out[d].strlen
<1> DEFINE o == s.out[t]
           w == WriteToOutput(s, t, raw, size)
<1>1. s \in IoState /\ SoundBuf(o) /\ o \in OutBuf
      /\ \A d \in Desc : s.out[d].strlen \in Nat
  BY DEF SoundIo, SoundBuf, OutBuf
<1>2. SUFFICES /\ \A d \in Desc \ {t} : w.out[d] = s.out[d]
               /\ w.out[t].strlen >= o.strlen
  BY <1>1
<1>3. CASE Overflowed(o)
  BY <1>1, <1>3 DEF WriteToOutput
<1>4. CASE ~ Overflowed(o) /\ o.bufspace >= size
  <2>1. Appended(o, size) \in OutBuf /\ Appended(o, size).strlen >= o.strlen
    BY <1>1, <1>4 DEF Appended, OutBuf, SoundBuf
  <2>2. w = WithOut(s, t, Appended(o, size))
    BY <1>4 DEF WriteToOutput
  <2>3. QED
    BY <1>1, <2>1, <2>2, WithOutIs
<1>5. CASE ~ Overflowed(o) /\ ~ (o.bufspace >= size)
             /\ size + o.bufptr > LargeBufsize - 1
  <2>1. OverflowedFrom(o) \in OutBuf /\ OverflowedFrom(o).strlen = o.strlen
    BY <1>1 DEF OverflowedFrom, OutBuf
  <2>2. w = WithOut(s, t, OverflowedFrom(o))
    BY <1>5 DEF WriteToOutput
  <2>3. QED
    BY <1>1, <2>1, <2>2, WithOutIs DEF OutBuf
<1>6. CASE ~ Overflowed(o) /\ ~ (o.bufspace >= size)
             /\ ~ (size + o.bufptr > LargeBufsize - 1)
  <2>1. w = SwitchToLarge(s, t, raw)
    BY <1>6 DEF WriteToOutput
  <2> DEFINE m == MovedToLarge(o, raw, NextLarge(s))
  <2>2. m \in OutBuf /\ m.strlen = o.strlen + raw
        /\ w.out = WithOut(s, t, m).out
    BY <1>1, <2>1, SwitchedIs
  <2>3. m \in OutBuf /\ m.strlen >= o.strlen /\ w.out = WithOut(s, t, m).out
    BY <1>1, <2>2
  <2> HIDE DEF m
  <2>4. QED
    BY <1>1, <2>3, WithOutIs
<1>7. QED
  BY <1>3, <1>4, <1>5, <1>6

-----------------------------------------------------------------------------
(* The large buffers of the state s, as LargeBuffersAccounted counts them. *)
Users(s) == {d \in Desc : s.out[d].large # 0}

Used(s) == {s.out[d].large : d \in Users(s)}

Pooled(s) == {s.bufpool[i] : i \in DOMAIN s.bufpool}

Tracked(s) ==
    /\ Used(s) \union Pooled(s) = 1 .. s.buf_largecount
    /\ Cardinality(Users(s)) + Len(s.bufpool) = s.buf_largecount
    /\ s.buf_largecount <= Cardinality(Desc)

LEMMA UsersAreFinite ==
    ASSUME NEW s
    PROVE  /\ IsFiniteSet(Users(s)) /\ Cardinality(Users(s)) \in Nat
           /\ Cardinality(Users(s)) <= Cardinality(Desc)
           /\ Cardinality(Desc) \in Nat
<1>1. Users(s) \in SUBSET Desc
  BY DEF Users
<1>2. QED
  BY <1>1, DescAssumption, FS_Subset, FS_CardinalityType

(* A step that changes no large field and neither pool nor count.          *)
LEMMA SameLarges ==
    ASSUME NEW s, Tracked(s), NEW w,
           \A d \in Desc : w.out[d].large = s.out[d].large,
           w.bufpool = s.bufpool, w.buf_largecount = s.buf_largecount
    PROVE  Tracked(w)
<1>1. Users(w) = Users(s)
  BY DEF Users
<1>2. Used(w) = Used(s)
  BY <1>1 DEF Used, Users
<1>3. Pooled(w) = Pooled(s)
  BY DEF Pooled
<1>4. QED
  BY <1>1, <1>2, <1>3 DEF Tracked

(* The elements of a sequence are its head and those of its tail, and the  *)
(* new head of a longer one comes to the elements it had.                  *)
LEMMA HeadAndTail ==
    ASSUME NEW q \in Seq(Nat \ {0}), q # << >>
    PROVE  {q[i] : i \in DOMAIN q}
             = {Head(q)} \union {Tail(q)[i] : i \in DOMAIN Tail(q)}
<1>1. /\ DOMAIN q = 1 .. Len(q) /\ Len(q) \in Nat \ {0}
      /\ DOMAIN Tail(q) = 1 .. (Len(q) - 1)
      /\ Head(q) = q[1]
      /\ \A i \in 1 .. (Len(q) - 1) : Tail(q)[i] = q[i + 1]
  OBVIOUS
<1>2. ASSUME NEW i \in DOMAIN q
      PROVE  q[i] = Head(q) \/ \E j \in DOMAIN Tail(q) : q[i] = Tail(q)[j]
  <2>1. CASE i = 1
    BY <1>1, <2>1
  <2>2. CASE i # 1
    <3>1. i - 1 \in DOMAIN Tail(q) /\ q[i] = Tail(q)[i - 1]
      BY <1>1, <2>2
    <3>2. QED
      BY <3>1
  <2>3. QED
    BY <2>1, <2>2
<1>3. ASSUME NEW j \in DOMAIN Tail(q)
      PROVE  \E i \in DOMAIN q : Tail(q)[j] = q[i]
  <2>1. j + 1 \in DOMAIN q /\ Tail(q)[j] = q[j + 1]
    BY <1>1
  <2>2. QED
    BY <2>1
<1>4. Head(q) = q[1] /\ 1 \in DOMAIN q
  BY <1>1
<1>5. QED
  BY <1>2, <1>3, <1>4

LEMMA PushedOn ==
    ASSUME NEW q \in Seq(Nat \ {0}), NEW b \in Nat \ {0}
    PROVE  LET p == <<b>> \o q
           IN  /\ {p[i] : i \in DOMAIN p} = {b} \union {q[i] : i \in DOMAIN q}
               /\ Len(p) = Len(q) + 1
<1> DEFINE p == <<b>> \o q
<1>1. p \in Seq(Nat \ {0}) /\ p # << >> /\ Head(p) = b /\ Tail(p) = q
      /\ Len(p) = Len(q) + 1
  OBVIOUS
<1> HIDE DEF p
<1>2. {p[i] : i \in DOMAIN p}
        = {Head(p)} \union {Tail(p)[i] : i \in DOMAIN Tail(p)}
  BY <1>1, HeadAndTail
<1>3. QED
  BY <1>1, <1>2 DEF p

(* A descriptor without a large buffer that takes the first of the pool,   *)
(* or makes a new one.                                                     *)
LEMMA SwitchIsTracked ==
    ASSUME NEW s \in IoState, Tracked(s), NEW t \in Desc, NEW raw \in Nat,
           s.out[t].large = 0
    PROVE  Tracked(SwitchToLarge(s, t, raw))
<1> DEFINE w == SwitchToLarge(s, t, raw)
           b == NextLarge(s)
           m == MovedToLarge(s.out[t], raw, b)
<1>1. /\ b \in Nat \ {0} /\ m \in OutBuf /\ m.large = b
      /\ w.out = WithOut(s, t, m).out
      /\ w.bufpool = IF s.bufpool # << >> THEN Tail(s.bufpool) ELSE << >>
      /\ w.buf_largecount = IF s.bufpool # << >> THEN s.buf_largecount
                            ELSE s.buf_largecount + 1
  BY SwitchedIs
<1>2. /\ s.buf_largecount \in Nat /\ s.bufpool \in Seq(Nat \ {0})
      /\ Len(s.bufpool) \in Nat
  BY DEF IoState
<1> HIDE DEF m, w
<1>3. w.out[t].large = b /\ \A d \in Desc \ {t} : w.out[d] = s.out[d]
  BY <1>1, WithOutIs
<1>4. Users(w) = Users(s) \union {t} /\ t \notin Users(s)
  BY <1>1, <1>3 DEF Users
<1>5. Used(w) = Used(s) \union {b}
  BY <1>3, <1>4 DEF Used, Users
<1>6. /\ IsFiniteSet(Users(s)) /\ Cardinality(Users(s)) \in Nat
      /\ Cardinality(Users(w)) = Cardinality(Users(s)) + 1
      /\ Cardinality(Users(w)) <= Cardinality(Desc)
      /\ Cardinality(Desc) \in Nat
  BY <1>4, UsersAreFinite, FS_AddElement
<1>7. CASE s.bufpool # << >>
  <2>1. w.bufpool = Tail(s.bufpool) /\ w.buf_largecount = s.buf_largecount
        /\ b = Head(s.bufpool)
    BY <1>1, <1>7 DEF NextLarge
  <2>2. Len(w.bufpool) = Len(s.bufpool) - 1
    BY <1>2, <1>7, <2>1
  <2>3. Pooled(s) = {b} \union Pooled(w)
    <3> DEFINE q == s.bufpool
    <3>1. q \in Seq(Nat \ {0}) /\ q # << >> /\ w.bufpool = Tail(q)
          /\ b = Head(q)
      BY <1>2, <1>7, <2>1
    <3>2. Pooled(s) = {q[i] : i \in DOMAIN q}
      BY DEF Pooled
    <3> HIDE DEF q, b
    <3>3. Pooled(w) = {Tail(q)[i] : i \in DOMAIN Tail(q)}
      BY <3>1 DEF Pooled
    <3>4. {q[i] : i \in DOMAIN q}
            = {Head(q)} \union {Tail(q)[i] : i \in DOMAIN Tail(q)}
      BY <3>1, HeadAndTail
    <3>5. QED
      BY <3>1, <3>2, <3>3, <3>4
  <2>4. Used(w) \union Pooled(w) = 1 .. w.buf_largecount
    BY <1>5, <2>1, <2>3 DEF Tracked
  <2>5. Cardinality(Users(w)) + Len(w.bufpool) = w.buf_largecount
    BY <1>2, <1>6, <2>1, <2>2 DEF Tracked
  <2>6. QED
    BY <2>1, <2>4, <2>5 DEF Tracked, w
<1>8. CASE s.bufpool = << >>
  <2>1. w.bufpool = << >> /\ w.buf_largecount = s.buf_largecount + 1
        /\ b = s.buf_largecount + 1
    BY <1>1, <1>8 DEF NextLarge
  <2>2. Pooled(s) = {} /\ Pooled(w) = {} /\ Len(w.bufpool) = 0
        /\ Len(s.bufpool) = 0
    BY <1>8, <2>1 DEF Pooled
  <2>3. Used(s) = 1 .. s.buf_largecount
    BY <2>2 DEF Tracked
  <2>4. Used(w) \union Pooled(w) = 1 .. w.buf_largecount
    BY <1>2, <1>5, <2>1, <2>2, <2>3
  <2>5. Cardinality(Users(w)) + Len(w.bufpool) = w.buf_largecount
    BY <1>2, <1>6, <2>1, <2>2 DEF Tracked
  <2>6. w.buf_largecount <= Cardinality(Desc)
    BY <1>2, <1>6, <2>2, <2>5, <2>1
  <2>7. QED
    BY <2>4, <2>5, <2>6 DEF Tracked, w
<1>9. QED
  BY <1>7, <1>8

(* A released buffer goes back to the pool, whoever had it.                *)
LEMMA ReleaseIsTracked ==
    ASSUME NEW s \in IoState, Tracked(s), NEW t \in Desc
    PROVE  /\ Tracked(ReleaseLarge(s, t))
           /\ ReleaseLarge(s, t).out[t] = FreshBuf
           /\ \A d \in Desc \ {t} : ReleaseLarge(s, t).out[d] = s.out[d]
<1> DEFINE x == WithOut(s, t, FreshBuf)
           w == ReleaseLarge(s, t)
           b == s.out[t].large
<1>1. FreshBuf \in OutBuf /\ FreshBuf.large = 0
  BY FreshIsSound DEF SoundBuf, FreshBuf
<1>2. /\ x \in IoState /\ x.out[t] = FreshBuf
      /\ \A d \in Desc \ {t} : x.out[d] = s.out[d]
      /\ x.bufpool = s.bufpool /\ x.buf_largecount = s.buf_largecount
  BY <1>1, WithOutIs
<1>3. /\ s.buf_largecount \in Nat /\ s.bufpool \in Seq(Nat \ {0})
      /\ b \in Nat /\ Len(s.bufpool) \in Nat
  BY DEF IoState, OutBuf
<1>4. CASE b = 0
  <2>1. w = x
    BY <1>4 DEF ReleaseLarge
  <2>2. \A d \in Desc : x.out[d].large = s.out[d].large
    BY <1>1, <1>2, <1>4
  <2> HIDE DEF x, w
  <2>3. Tracked(w)
    BY <1>2, <2>1, <2>2, SameLarges
  <2>4. QED
    BY <1>2, <2>1, <2>3 DEF w
<1>5. CASE b # 0
  <2> DEFINE p == <<b>> \o s.bufpool
  <2>1. w = [x EXCEPT !.bufpool = <<b>> \o x.bufpool]
    BY <1>5 DEF ReleaseLarge
  <2>2. Pooled(w) = {b} \union Pooled(s) /\ Len(w.bufpool) = Len(s.bufpool) + 1
    <3> DEFINE q == <<b>> \o x.bufpool
    <3>1. {q[i] : i \in DOMAIN q} = {b} \union Pooled(s)
          /\ Len(q) = Len(s.bufpool) + 1
      <4> DEFINE r == s.bufpool
      <4>1. r \in Seq(Nat \ {0}) /\ b \in Nat \ {0} /\ q = <<b>> \o r
        BY <1>2, <1>3, <1>5
      <4>2. Pooled(s) = {r[i] : i \in DOMAIN r}
        BY DEF Pooled
      <4> HIDE DEF q, r, b, x
      <4>3. {q[i] : i \in DOMAIN q} = {b} \union {r[i] : i \in DOMAIN r}
            /\ Len(q) = Len(r) + 1
        BY <4>1, PushedOn
      <4>4. QED
        BY <4>2, <4>3 DEF r
    <3> HIDE DEF q, x
    <3>2. w.bufpool = q
      BY <1>2, <2>1 DEF IoState, q
    <3> HIDE DEF w
    <3>3. QED
      BY <3>1, <3>2 DEF Pooled
  <2> HIDE DEF x
  <2>3. w.out = x.out /\ w.buf_largecount = s.buf_largecount
    BY <1>2, <2>1 DEF IoState
  <2> HIDE DEF w
  <2>4. w.out[t] = FreshBuf /\ \A d \in Desc \ {t} : w.out[d] = s.out[d]
    BY <1>2, <2>3
  <2>5. Users(w) = Users(s) \ {t} /\ t \in Users(s)
    BY <1>1, <1>5, <2>4 DEF Users
  <2>6. Used(s) = Used(w) \union {b}
    BY <2>4, <2>5 DEF Used, Users
  <2>7. /\ IsFiniteSet(Users(s)) /\ Cardinality(Users(s)) \in Nat
        /\ Cardinality(Users(w)) = Cardinality(Users(s)) - 1
    BY <2>5, UsersAreFinite, FS_RemoveElement
  <2>8. Used(w) \union Pooled(w) = 1 .. w.buf_largecount
    BY <2>2, <2>3, <2>6 DEF Tracked
  <2>9. Cardinality(Users(w)) + Len(w.bufpool) = w.buf_largecount
    BY <1>3, <2>2, <2>3, <2>7 DEF Tracked
  <2>10. Tracked(w)
    BY <2>3, <2>8, <2>9 DEF Tracked
  <2>11. QED
    BY <2>4, <2>10 DEF w
<1>6. QED
  BY <1>4, <1>5

(* write_to_output moves to a large buffer only from the small one: text   *)
(* that does not fit a large buffer in use does not fit another.           *)
LEMMA WriteIsTracked ==
    ASSUME NEW s, SoundIo(s), Tracked(s), NEW t \in Desc,
           NEW raw \in Nat, NEW size \in Nat, raw <= size
    PROVE  Tracked(WriteToOutput(s, t, raw, size))
<1> DEFINE o == s.out[t]
           w == WriteToOutput(s, t, raw, size)
<1>1. s \in IoState /\ SoundBuf(o) /\ o \in OutBuf
  BY DEF SoundIo, SoundBuf
<1>2. ASSUME NEW a \in OutBuf, a.large = o.large
      PROVE  Tracked(WithOut(s, t, a))
  <2> DEFINE x == WithOut(s, t, a)
  <2>1. /\ x.out[t] = a /\ \A d \in Desc \ {t} : x.out[d] = s.out[d]
        /\ x.bufpool = s.bufpool /\ x.buf_largecount = s.buf_largecount
    BY <1>1, WithOutIs
  <2> HIDE DEF x
  <2>2. \A d \in Desc : x.out[d].large = s.out[d].large
    BY <1>2, <2>1
  <2>3. Tracked(x)
    BY <2>1, <2>2, SameLarges
  <2>4. QED
    BY <2>3 DEF x
<1>3. CASE Overflowed(o)
  BY <1>3 DEF WriteToOutput
<1>4. CASE ~ Overflowed(o) /\ o.bufspace >= size
  <2>1. Appended(o, size) \in OutBuf /\ Appended(o, size).large = o.large
    BY <1>1, <1>4 DEF Appended, OutBuf, SoundBuf
  <2>2. w = WithOut(s, t, Appended(o, size))
    BY <1>4 DEF WriteToOutput
  <2>3. QED
    BY <1>2, <2>1, <2>2
<1>5. CASE ~ Overflowed(o) /\ ~ (o.bufspace >= size)
             /\ size + o.bufptr > LargeBufsize - 1
  <2>1. OverflowedFrom(o) \in OutBuf /\ OverflowedFrom(o).large = o.large
    BY <1>1 DEF OverflowedFrom, OutBuf
  <2>2. w = WithOut(s, t, OverflowedFrom(o))
    BY <1>5 DEF WriteToOutput
  <2>3. QED
    BY <1>2, <2>1, <2>2
<1>6. CASE ~ Overflowed(o) /\ ~ (o.bufspace >= size)
             /\ ~ (size + o.bufptr > LargeBufsize - 1)
  <2>1. w = SwitchToLarge(s, t, raw)
    BY <1>6 DEF WriteToOutput
  <2>2. o.large = 0
    BY <1>1, <1>6, SizeAssumption DEF SoundBuf, Capacity, OutBuf
  <2>3. QED
    BY <1>1, <2>1, <2>2, SwitchIsTracked
<1>7. QED
  BY <1>3, <1>4, <1>5, <1>6

-----------------------------------------------------------------------------
(* The same of process_output and close_socket, which write to a snooper.  *)
Snooped(t) == snoop_by[t] \in (Desc \ {t}) \union {None}

LEMMA CopyIsTracked ==
    ASSUME NEW s, SoundIo(s), Tracked(s), NEW t \in Desc, Snooped(t),
           NEW size \in Nat, s.out[t].strlen <= size
    PROVE  LET c == SnoopCopy(s, t, size)
           IN  /\ SoundIo(c) /\ Tracked(c)
               /\ \A d \in Desc \ {snoop_by[t]} : c.out[d] = s.out[d]
               /\ \A d \in Desc : c.out[d].strlen >= s.out[d].strlen
<1>1. SoundIo(SnoopCopy(s, t, size))
  BY SnoopCopyIsSound DEF Snooped
<1>2. CASE snoop_by[t] = None
  BY <1>1, <1>2 DEF SnoopCopy, SoundIo, SoundBuf, OutBuf
<1>3. CASE snoop_by[t] # None
  <2> DEFINE by == snoop_by[t]
             raw == s.out[t].strlen
             s1 == WriteToOutput(s, by, SnoopMark, SnoopMark)
             s2 == WriteToOutput(s1, by, raw, size)
             s3 == WriteToOutput(s2, by, SnoopMark, SnoopMark)
  <2>1. /\ by \in Desc /\ raw \in Nat
        /\ SnoopMark \in Nat /\ SnoopMark > 0
        /\ SnoopMark <= LargeBufsize - 1
    BY <1>3, SizeAssumption DEF SoundIo, SoundBuf, OutBuf, Snooped
  <2>2. SnoopCopy(s, t, size) = s3
    BY <1>3 DEF SnoopCopy
  <2>3. SoundIo(s1) /\ s1.out[by].strlen > 0 /\ Tracked(s1)
    BY <2>1, WriteIsSound, WriteIsTracked
  <2>4. /\ \A d \in Desc \ {by} : s1.out[d] = s.out[d]
        /\ \A d \in Desc : s1.out[d].strlen >= s.out[d].strlen
    BY <2>1, WriteExtends
  <2> HIDE DEF s1
  <2>5. SoundIo(s2) /\ Tracked(s2)
    BY <2>1, <2>3, WriteIsSound, WriteIsTracked
  <2>6. /\ \A d \in Desc \ {by} : s2.out[d] = s1.out[d]
        /\ \A d \in Desc : s2.out[d].strlen >= s1.out[d].strlen
    BY <2>1, <2>3, WriteExtends
  <2> HIDE DEF s2
  <2>7. SoundIo(s3) /\ Tracked(s3)
    BY <2>1, <2>5, WriteIsSound, WriteIsTracked
  <2>8. /\ \A d \in Desc \ {by} : s3.out[d] = s2.out[d]
        /\ \A d \in Desc : s3.out[d].strlen >= s2.out[d].strlen
    BY <2>1, <2>5, WriteExtends
  <2> HIDE DEF s3
  <2>9. \A d \in Desc : /\ s.out[d].strlen \in Nat /\ s1.out[d].strlen \in Nat
                        /\ s2.out[d].strlen \in Nat
                        /\ s3.out[d].strlen \in Nat
    BY <2>3, <2>5, <2>7 DEF SoundIo, SoundBuf, OutBuf
  <2>10. \A d \in Desc : s3.out[d].strlen >= s.out[d].strlen
    BY <2>4, <2>6, <2>8, <2>9
  <2>11. \A d \in Desc \ {by} : s3.out[d] = s.out[d]
    BY <2>4, <2>6, <2>8
  <2> HIDE DEF by
  <2>12. QED
    BY <2>2, <2>7, <2>10, <2>11 DEF by
<1>4. QED
  BY <1>2, <1>3

(* After process_output its descriptor has an empty small buffer, its      *)
(* snooper what it had and more, and everybody else what they had.         *)
LEMMA FlushedIsTracked ==
    ASSUME NEW s, SoundIo(s), Tracked(s), NEW t \in Desc, Snooped(t),
           NEW size \in Nat, s.out[t].strlen <= size
    PROVE  LET f == Flushed(s, t, size)
           IN  /\ SoundIo(f) /\ Tracked(f) /\ f.out[t] = FreshBuf
               /\ \A d \in Desc \ {t, snoop_by[t]} : f.out[d] = s.out[d]
               /\ \A d \in Desc \ {t} : f.out[d].strlen >= s.out[d].strlen
<1> DEFINE c == SnoopCopy(s, t, size)
           f == ReleaseLarge(c, t)
<1>1. /\ SoundIo(c) /\ Tracked(c)
      /\ \A d \in Desc \ {snoop_by[t]} : c.out[d] = s.out[d]
      /\ \A d \in Desc : c.out[d].strlen >= s.out[d].strlen
  BY CopyIsTracked
<1>2. c \in IoState
  BY <1>1 DEF SoundIo
<1> HIDE DEF c
<1>3. /\ Tracked(f) /\ f.out[t] = FreshBuf /\ SoundIo(f)
      /\ \A d \in Desc \ {t} : f.out[d] = c.out[d]
  BY <1>1, <1>2, ReleaseIsTracked, ReleaseIsSound
<1> HIDE DEF f
<1>4. /\ \A d \in Desc \ {t, snoop_by[t]} : f.out[d] = s.out[d]
      /\ \A d \in Desc \ {t} : f.out[d].strlen >= s.out[d].strlen
  BY <1>1, <1>3
<1>5. Flushed(s, t, size) = f
  BY DEF Flushed, f, c
<1>6. QED
  BY <1>3, <1>4, <1>5

(* So has a closed descriptor, and its snooper has been told.              *)
LEMMA ClosedIsTracked ==
    ASSUME NEW s, SoundIo(s), Tracked(s), NEW t \in Desc, Snooped(t)
    PROVE  LET c == ClosedIo(s, t)
           IN  /\ Tracked(c) /\ c.out[t] = FreshBuf
               /\ \A d \in Desc \ {t, snoop_by[t]} : c.out[d] = s.out[d]
               /\ \A d \in Desc \ {t} : c.out[d].strlen >= s.out[d].strlen
<1> DEFINE r == ReleaseLarge(s, t)
<1>1. /\ s \in IoState /\ \A d \in Desc : s.out[d].strlen \in Nat
  BY DEF SoundIo, SoundBuf, OutBuf
<1>2. /\ SoundIo(r) /\ Tracked(r) /\ r.out[t] = FreshBuf
      /\ \A d \in Desc \ {t} : r.out[d] = s.out[d]
  BY <1>1, ReleaseIsSound, ReleaseIsTracked
<1> HIDE DEF r
<1>3. CASE snoop_by[t] = None
  <2>1. ClosedIo(s, t) = r
    BY <1>3 DEF ClosedIo, r
  <2>2. QED
    BY <1>1, <1>2, <2>1
<1>4. CASE snoop_by[t] # None
  <2> DEFINE by == snoop_by[t]
             c == WriteToOutput(r, by, Reply, Reply)
  <2>1. by \in Desc /\ by # t
    BY <1>4 DEF Snooped
  <2>2. /\ Tracked(c) /\ \A d \in Desc \ {by} : c.out[d] = r.out[d]
        /\ \A d \in Desc : c.out[d].strlen >= r.out[d].strlen
    BY <1>2, <2>1, ReplyFits, WriteIsTracked, WriteExtends
  <2>3. ClosedIo(s, t) = c
    BY <1>4 DEF ClosedIo, r
  <2> HIDE DEF c, by
  <2>4. /\ Tracked(c) /\ c.out[t] = FreshBuf
        /\ \A d \in Desc \ {t, by} : c.out[d] = s.out[d]
        /\ \A d \in Desc \ {t} : c.out[d].strlen >= s.out[d].strlen
    BY <1>2, <2>1, <2>2
  <2>5. QED
    BY <2>3, <2>4 DEF by
<1>5. QED
  BY <1>3, <1>4

-----------------------------------------------------------------------------
(* A descriptor that is not connected holds no large buffer: otherwise the *)
(* next connection that gets it would start with a fresh buffer and the    *)
(* large one would be lost.  Since only close_socket disconnects, after    *)
(* its flush and the farewell to the snooper, the snooper must be another. *)
PoolInv == Tracked(io) /\ \A d \in Desc \ open : io.out[d].large = 0

LEMMA OthersSnoop ==
    ASSUME SnoopInv, NEW d \in Desc
    PROVE  Snooped(d) /\ (snoop_by[d] \in Desc => snoop_by[d] \in open)
<1>1. /\ snoop_by[d] \in Desc \union {None}
      /\ \A a \in Desc : snoop_by[d] = a => snooping[a] = d
      /\ \A a \in Desc : snooping[a] = d => a \in open
      /\ snooping[d] = d => snooping[d] # d
  BY DEF SnoopInv, TypeOK, SnoopSound, SnoopSymmetric, NoMutualSnoop
<1>2. snoop_by[d] # d
  BY <1>1
<1>3. QED
  BY <1>1, <1>2 DEF Snooped

(* What every step does to the texts and to the large buffers.             *)
TextKept == \A d \in Desc : \/ io'.out[d].strlen >= io.out[d].strlen
                            \/ io'.out[d] = FreshBuf
                            \/ d \notin open

LEMMA NextKeepsText ==
    ASSUME OutputInv, SnoopInv, PoolInv, [Next]_vars
    PROVE  TextKept /\ PoolInv'
<1>1. /\ TypeOK /\ SoundIo(io) /\ io \in IoState /\ Tracked(io)
      /\ \A d \in Desc : io.out[d].strlen \in Nat
      /\ \A d \in Desc \ open : io.out[d].large = 0
      /\ open \subseteq Desc
      /\ FreshBuf.large = 0
  BY DEF OutputInv, PoolInv, TypeOK, SoundIo, SoundBuf, OutBuf, FreshBuf
<1>2. ASSUME NEW d \in open, NEW n \in Nat, NEW size \in Nat, n <= size,
             open' = open, io' = WriteToOutput(io, d, n, size)
      PROVE  TextKept /\ PoolInv'
  <2>1. d \in Desc
    BY <1>1
  <2> DEFINE w == WriteToOutput(io, d, n, size)
  <2>2. /\ Tracked(w) /\ \A e \in Desc \ {d} : w.out[e] = io.out[e]
        /\ \A e \in Desc : w.out[e].strlen >= io.out[e].strlen
    BY <1>1, <1>2, <2>1, WriteIsTracked, WriteExtends
  <2> HIDE DEF w
  <2>3. /\ Tracked(io') /\ \A e \in Desc \ {d} : io'.out[e] = io.out[e]
        /\ \A e \in Desc : io'.out[e].strlen >= io.out[e].strlen
    BY <1>2, <2>2 DEF w
  <2>4. \A e \in Desc \ open' : io'.out[e].large = 0
    BY <1>1, <1>2, <2>3
  <2>5. TextKept
    BY <2>3 DEF TextKept
  <2>6. QED
    BY <2>3, <2>4, <2>5 DEF PoolInv, Tracked, Used, Users, Pooled
<1>3. ASSUME NEW d \in Desc, NewDescriptor(d) PROVE TextKept /\ PoolInv'
  <2> DEFINE x == WithOut(io, d, FreshBuf)
  <2>1. PICK n \in TextLengths : \E size \in Wrapped(n) :
          io' = WriteToOutput(WithOut(io, d, FreshBuf), d, n, size)
    BY <1>3 DEF NewDescriptor
  <2>2. PICK size \in Wrapped(n) : io' = WriteToOutput(x, d, n, size)
    BY <2>1
  <2>3. d \notin open /\ open' = open \union {d} /\ FreshBuf \in OutBuf
        /\ n \in Nat /\ size \in Nat /\ n <= size
    BY <1>3, TextFits, FreshIsSound DEF NewDescriptor, SoundBuf
  <2>4. SoundIo(x)
    BY <1>1, FreshIsSound, WithSoundOut
  <2>5. /\ x.out[d] = FreshBuf /\ \A e \in Desc \ {d} : x.out[e] = io.out[e]
        /\ x.bufpool = io.bufpool /\ x.buf_largecount = io.buf_largecount
    BY <1>1, <2>3, WithOutIs
  <2> HIDE DEF x
  <2>6. Tracked(x)
    <3>1. \A e \in Desc : x.out[e].large = io.out[e].large
      BY <1>1, <2>3, <2>5
    <3>2. QED
      BY <1>1, <2>5, <3>1, SameLarges
  <2>7. /\ Tracked(io') /\ \A e \in Desc \ {d} : io'.out[e] = x.out[e]
    BY <2>2, <2>3, <2>4, <2>6, WriteIsTracked, WriteExtends
  <2>8. \A e \in Desc \ {d} : io'.out[e] = io.out[e]
    BY <2>5, <2>7
  <2>9. QED
    BY <1>1, <2>3, <2>7, <2>8
       DEF TextKept, PoolInv, Tracked, Used, Users, Pooled
<1>4. ASSUME NEW d \in Desc, SendToQ(d) PROVE TextKept /\ PoolInv'
  <2>1. PICK n \in TextLengths : \E size \in Wrapped(n) :
          io' = WriteToOutput(io, d, n, size)
    BY <1>4 DEF SendToQ
  <2>2. PICK size \in Wrapped(n) : io' = WriteToOutput(io, d, n, size)
    BY <2>1
  <2>3. d \in open /\ open' = open /\ n \in Nat /\ size \in Nat /\ n <= size
    BY <1>4, TextFits DEF SendToQ
  <2>4. QED
    BY <1>2, <2>2, <2>3
<1>5. ASSUME NEW d \in Desc, ProcessOutput(d) PROVE TextKept /\ PoolInv'
  <2>1. PICK size \in Wrapped(io.out[d].strlen) : io' = Flushed(io, d, size)
    BY <1>5 DEF ProcessOutput
  <2>2. size \in Nat /\ io.out[d].strlen <= size /\ d \in open /\ open' = open
    BY <1>1, <1>5, WrappedBounds DEF ProcessOutput
  <2>3. Snooped(d) /\ (snoop_by[d] \in Desc => snoop_by[d] \in open)
    BY OthersSnoop
  <2>4. /\ Tracked(io') /\ io'.out[d] = FreshBuf
        /\ \A e \in Desc \ {d, snoop_by[d]} : io'.out[e] = io.out[e]
        /\ \A e \in Desc \ {d} : io'.out[e].strlen >= io.out[e].strlen
    BY <1>1, <2>1, <2>2, <2>3, FlushedIsTracked
  <2>5. \A e \in Desc \ open' : io'.out[e].large = 0
    BY <1>1, <2>2, <2>3, <2>4
  <2>6. TextKept
    BY <2>4 DEF TextKept
  <2>7. QED
    BY <2>4, <2>5, <2>6 DEF PoolInv, Tracked, Used, Users, Pooled
<1>6. ASSUME NEW d \in Desc, NEW s, SoundIo(s), Tracked(s), d \in open,
             \A e \in Desc \ {d, snoop_by[d]} : s.out[e] = io.out[e],
             \A e \in Desc \ {d} : s.out[e].strlen >= io.out[e].strlen,
             io' = ClosedIo(s, d), open' = open \ {d}
      PROVE  TextKept /\ PoolInv'
  <2>1. Snooped(d) /\ (snoop_by[d] \in Desc => snoop_by[d] \in open)
    BY OthersSnoop
  <2>2. /\ Tracked(io') /\ io'.out[d] = FreshBuf
        /\ \A e \in Desc \ {d, snoop_by[d]} : io'.out[e] = s.out[e]
        /\ \A e \in Desc \ {d} : io'.out[e].strlen >= s.out[e].strlen
    BY <1>6, <2>1, ClosedIsTracked
  <2>3. \A e \in Desc \ {d} : io'.out[e].strlen >= io.out[e].strlen
    <3>1. TAKE e \in Desc \ {d}
    <3>2. CASE e = snoop_by[d]
      <4>1. snoop_by[d] \in Desc /\ snoop_by[d] # d
        BY <3>1, <3>2
      <4>2. SoundIo(ClosedIo(s, d))
        BY <1>6, <2>1, ClosedIoIsSound DEF Snooped
      <4>3. /\ io'.out[e].strlen \in Nat /\ s.out[e].strlen \in Nat
            /\ io.out[e].strlen \in Nat
        BY <1>1, <1>6, <4>2 DEF SoundIo, SoundBuf, OutBuf
      <4>4. io'.out[e].strlen >= s.out[e].strlen
            /\ s.out[e].strlen >= io.out[e].strlen
        BY <1>6, <2>2
      <4>5. QED
        BY <4>3, <4>4
    <3>3. CASE e # snoop_by[d]
      <4>1. io'.out[e] = io.out[e] /\ io.out[e].strlen \in Nat
        BY <1>1, <1>6, <2>2, <3>3
      <4>2. QED
        BY <4>1
    <3>4. QED
      BY <3>2, <3>3
  <2>4. TextKept
    BY <2>2, <2>3 DEF TextKept
  <2>5. \A e \in Desc \ open' : io'.out[e].large = 0
    BY <1>1, <1>6, <2>1, <2>2
  <2>6. QED
    BY <2>2, <2>4, <2>5 DEF PoolInv, Tracked, Used, Users, Pooled
<1>7. ASSUME NEW d \in Desc, ProcessOutputFails(d) PROVE TextKept /\ PoolInv'
  <2>1. PICK size \in Wrapped(io.out[d].strlen) :
          io' = ClosedIo(Flushed(io, d, size), d)
    BY <1>7 DEF ProcessOutputFails
  <2>2. size \in Nat /\ io.out[d].strlen <= size /\ d \in open
        /\ open' = open \ {d}
    BY <1>1, <1>7, WrappedBounds DEF ProcessOutputFails
  <2>3. Snooped(d)
    BY OthersSnoop
  <2> DEFINE f == Flushed(io, d, size)
  <2>4. /\ SoundIo(f) /\ Tracked(f)
        /\ \A e \in Desc \ {d, snoop_by[d]} : f.out[e] = io.out[e]
        /\ \A e \in Desc \ {d} : f.out[e].strlen >= io.out[e].strlen
    BY <1>1, <2>2, <2>3, FlushedIsTracked
  <2> HIDE DEF f
  <2>5. QED
    BY <1>6, <2>1, <2>2, <2>4 DEF f
<1>8. ASSUME NEW d \in Desc, CloseSocket(d) PROVE TextKept /\ PoolInv'
  <2>1. d \in open /\ io' = ClosedIo(io, d) /\ open' = open \ {d}
        /\ \A e \in Desc : io.out[e].strlen >= io.out[e].strlen
    BY <1>1, <1>8 DEF CloseSocket
  <2>2. QED
    BY <1>1, <1>6, <2>1
<1>9. ASSUME NEW d \in Desc, NEW v \in Desc, DoSnoop(d, v)
      PROVE  TextKept /\ PoolInv'
  <2>1. d \in open /\ open' = open /\ io' = WriteToOutput(io, d, Reply, Reply)
    BY <1>9 DEF DoSnoop, MaySnoop
  <2>2. QED
    BY <1>2, <2>1, ReplyFits
<1>10. ASSUME NEW d \in Desc, StopSnooping(d) PROVE TextKept /\ PoolInv'
  <2>1. d \in open /\ open' = open /\ io' = WriteToOutput(io, d, Reply, Reply)
    BY <1>10 DEF StopSnooping
  <2>2. QED
    BY <1>2, <2>1, ReplyFits
<1>11. CASE UNCHANGED vars
  BY <1>1, <1>11 DEF vars, TextKept, PoolInv, Tracked, Used, Users, Pooled
<1>12. ASSUME NEW d \in open, NEW v \in open, NEW n \in Nat, NEW size \in Nat,
              n <= size, size <= LargeBufsize - 1,
              NEW k \in Nat, NEW ksize \in Nat,
              k <= ksize, ksize <= LargeBufsize - 1, open' = open,
              io' = WriteToOutput(WriteToOutput(io, v, n, size), d, k, ksize)
       PROVE  TextKept /\ PoolInv'
  <2>1. d \in Desc /\ v \in Desc
    BY <1>1
  <2> DEFINE w == WriteToOutput(io, v, n, size)
             x == WriteToOutput(w, d, k, ksize)
  <2>2. /\ SoundIo(w) /\ Tracked(w)
        /\ \A e \in Desc \ {v} : w.out[e] = io.out[e]
        /\ \A e \in Desc : w.out[e].strlen >= io.out[e].strlen
    <3>1. SoundIo(w)
      BY <1>1, <1>12, <2>1, WriteIsSound
    <3>2. Tracked(w)
      BY <1>1, <1>12, <2>1, WriteIsTracked
    <3>3. QED
      BY <1>1, <2>1, <3>1, <3>2, WriteExtends
  <2> HIDE DEF w
  <2>3. /\ SoundIo(x) /\ Tracked(x)
        /\ \A e \in Desc \ {d} : x.out[e] = w.out[e]
        /\ \A e \in Desc : x.out[e].strlen >= w.out[e].strlen
    <3>1. SoundIo(x)
      BY <1>12, <2>1, <2>2, WriteIsSound
    <3>2. Tracked(x)
      BY <1>12, <2>1, <2>2, WriteIsTracked
    <3>3. QED
      BY <2>1, <2>2, <3>1, <3>2, WriteExtends
  <2> HIDE DEF x
  <2>4. io' = x
    BY <1>12 DEF w, x
  <2>5. \A e \in Desc : /\ x.out[e].strlen \in Nat /\ w.out[e].strlen \in Nat
    BY <2>2, <2>3 DEF SoundIo, SoundBuf, OutBuf
  <2>6. TextKept
    BY <1>1, <2>2, <2>3, <2>4, <2>5 DEF TextKept
  <2>7. \A e \in Desc \ open : x.out[e].large = 0
    BY <1>1, <2>1, <2>2, <2>3
  <2>8. QED
    BY <1>12, <2>3, <2>4, <2>6, <2>7 DEF PoolInv, Tracked, Used, Users, Pooled
<1>13. ASSUME NEW d \in Desc, DoMulti(d) \/ DoGain(d)
       PROVE  TextKept /\ PoolInv'
  <2>1. PICK size \in Wrapped(Notice) :
          io' = WriteToOutput(io, d, Notice, size)
    BY <1>13 DEF DoMulti, DoGain
  <2>2. d \in open /\ open' = open
    BY <1>13 DEF DoMulti, DoGain, SetLevel
  <2>3. QED
    BY <1>2, <2>1, <2>2, NoticeFits
<1>14. ASSUME NEW d \in Desc, NEW v \in Desc, DoAdvance(d, v)
       PROVE  TextKept /\ PoolInv'
  <2>1. PICK n \in {0, Notice} : \E size \in Wrapped(n) :
          io' = WriteToOutput(WriteToOutput(io, v, n, size), d, Reply, Reply)
    BY <1>14 DEF DoAdvance
  <2>2. PICK size \in Wrapped(n) :
          io' = WriteToOutput(WriteToOutput(io, v, n, size), d, Reply, Reply)
    BY <2>1
  <2>3. d \in open /\ v \in open /\ open' = open
    BY <1>14 DEF DoAdvance, SetLevel
  <2>4. n \in Nat /\ size \in Nat /\ n <= size /\ size <= LargeBufsize - 1
    BY NoticeFits
  <2>5. Reply <= Reply
    BY ReplyFits
  <2>6. QED
    BY <1>12, <2>2, <2>3, <2>4, <2>5, ReplyFits
<1>15. ASSUME NEW d \in Desc, NEW v \in Desc, DoSetLevel(d, v)
       PROVE  TextKept /\ PoolInv'
  <2>1. d \in open /\ open' = open /\ io' = WriteToOutput(io, d, Reply, Reply)
    BY <1>15 DEF DoSetLevel, SetLevel
  <2>2. QED
    BY <1>2, <2>1, ReplyFits
<1>16. ASSUME NEW d \in Desc, ExtractChar(d) PROVE TextKept /\ PoolInv'
  <2>1. PICK size \in Wrapped(Notice) :
          io' = WriteToOutput(IF snoop_by[d] = None THEN io
                              ELSE WriteToOutput(io, snoop_by[d], Reply, Reply),
                              d, Notice, size)
    BY <1>16 DEF ExtractChar
  <2>2. /\ d \in open /\ open' = open
        /\ Notice \in Nat /\ size \in Nat /\ Notice <= size
        /\ size <= LargeBufsize - 1
    BY <1>16, NoticeFits DEF ExtractChar
  <2>3. CASE snoop_by[d] = None
    BY <1>2, <2>1, <2>2, <2>3
  <2>4. CASE snoop_by[d] # None
    <3>1. snoop_by[d] \in open
      BY <2>4, OthersSnoop DEF SnoopInv, TypeOK
    <3>2. Reply <= Reply
      BY ReplyFits
    <3>3. QED
      BY <1>12, <2>1, <2>2, <2>4, <3>1, <3>2, ReplyFits
  <2>5. QED
    BY <2>3, <2>4
<1>17. QED
  BY <1>3, <1>4, <1>5, <1>7, <1>8, <1>9, <1>10, <1>11, <1>13, <1>14, <1>15,
     <1>16
     DEF Next, Commands, LevelCommands, OutputPass

LEMMA SpecOutputInv == Spec => [](OutputInv /\ SnoopInv /\ PoolInv)
<1>1. Init => PoolInv
  <2> SUFFICES ASSUME Init PROVE PoolInv
    OBVIOUS
  <2>1. /\ \A d \in Desc : io.out[d] = FreshBuf
        /\ io.bufpool = << >> /\ io.buf_largecount = 0 /\ FreshBuf.large = 0
    BY DEF Init, FreshBuf
  <2>2. Users(io) = {} /\ Used(io) = {} /\ Pooled(io) = {}
    BY <2>1 DEF Users, Used, Pooled
  <2>3. Cardinality(Users(io)) = 0 /\ Len(io.bufpool) = 0
        /\ Cardinality(Desc) \in Nat
    BY <2>1, <2>2, FS_EmptySet, UsersAreFinite
  <2>4. Tracked(io)
    BY <2>1, <2>2, <2>3 DEF Tracked
  <2>5. QED
    BY <2>1, <2>4 DEF PoolInv
<1>2. OutputInv /\ SnoopInv /\ PoolInv /\ [Next]_vars => PoolInv'
  BY NextKeepsText
<1>3. QED
  BY <1>1, <1>2, InitOutputInv, NextOutputInv, SpecSnoopInv, PTL DEF Spec

(* In every reachable state each large buffer ever created is in the pool  *)
(* or in use by one descriptor, and there are no more of them than there   *)
(* are descriptors, however connections come, overflow, snoop and go       *)
(* (write_to_output, process_output, flush_queues, close_socket).          *)
THEOREM LargeBuffersAlwaysAccounted == Spec => []LargeBuffersAccounted
<1>1. PoolInv => LargeBuffersAccounted
  BY DEF PoolInv, Tracked, Used, Users, Pooled, LargeBuffersAccounted
<1>2. QED
  BY <1>1, SpecOutputInv, PTL

(* No step shortens what is queued for a connected descriptor, other than  *)
(* by emptying its buffer, as a flush or a close does: neither an overflow *)
(* nor a copy to a snooper cuts off a part.  The theorem is about lengths; *)
(* it says nothing of the order or the content of the text.                *)
THEOREM QueuedTextIsKept == Spec => NothingQueuedIsLost
<1>1. OutputInv /\ SnoopInv /\ PoolInv /\ [Next]_vars => [TextKept]_vars
  BY NextKeepsText
<1>2. Spec => [][TextKept]_vars
  BY <1>1, SpecOutputInv, PTL DEF Spec
<1>3. QED
  BY <1>2 DEF NothingQueuedIsLost, TextKept

=============================================================================
