--------------------------- MODULE OutputBuffer ---------------------------
(***************************************************************************)
(* The output side of comm.c: the text queued for each descriptor, its     *)
(* small and large buffers, the overflow state, the pool of large buffers  *)
(* and the snoop links along which flushed output is copied.               *)
(*                                                                         *)
(* A text is the pair of its length and of its length after linewrap; the  *)
(* characters themselves are not modelled.                                 *)
(***************************************************************************)
EXTENDS Integers, Sequences, FiniteSets

CONSTANTS
    Desc,             \* the descriptors that may ever be connected
    None,             \* the null descriptor
    NewLevels,        \* the levels that immortals make somebody end with
    FirstLevels,      \* the levels that each descriptor's player may come with
    LvlImmort, LvlGod, LvlGrgod, LvlCoimpl, LvlImpl,
    SmallBufsize,     \* SMALL_BUFSIZE
    LargeBufsize,     \* LARGE_BUFSIZE
    MaxSockBuf,       \* MAX_SOCK_BUF
    MaxPrompt,        \* MAX_PROMPT_LENGTH
    TextLengths,      \* lengths of the texts the program queues
    ShortLine,        \* texts below this length are not wrapped
    WrapGrowth,       \* the most characters linewrap adds to a text
    SnoopMark,        \* length of "% " and of "%%"
    Reply,            \* length of a command's one-line answer
    Notice,           \* length of what the menu and a change of level say
    Crlf,             \* length of a line end
    OverflowNote      \* length of the overflow notice

ASSUME NoneAssumption == None \notin Desc

(* A descriptor is a socket, of which a process has finitely many.         *)
ASSUME DescAssumption == IsFiniteSet(Desc)

(* The order of the ranks in structs.h.                                    *)
ASSUME LevelAssumption ==
    /\ {LvlImmort, LvlGod, LvlGrgod, LvlCoimpl, LvlImpl} \subseteq Nat
    /\ 1 < LvlImmort /\ LvlImmort < LvlGod /\ LvlGod <= LvlGrgod
    /\ LvlGrgod <= LvlCoimpl /\ LvlCoimpl <= LvlImpl
    /\ NewLevels \subseteq 0 .. LvlImpl
    /\ FirstLevels \in [Desc -> SUBSET (0 .. LvlImpl)]

(* The relations between the sizes in structs.h that the buffering relies  *)
(* on; GARBAGE_SPACE is what is left of MAX_SOCK_BUF besides the large     *)
(* buffer and the prompt.                                                  *)
ASSUME SizeAssumption ==
    /\ SmallBufsize \in Nat \ {0} /\ LargeBufsize \in Nat
    /\ SmallBufsize <= LargeBufsize
    /\ MaxPrompt \in Nat /\ MaxSockBuf \in Nat
    /\ Crlf \in Nat /\ OverflowNote \in Nat /\ SnoopMark \in Nat \ {0}
    /\ ShortLine \in Nat /\ WrapGrowth \in Nat
    /\ SnoopMark < ShortLine /\ ShortLine <= LargeBufsize
    /\ LargeBufsize + MaxPrompt + 2 * Crlf + OverflowNote <= MaxSockBuf

(* MAX_STRING_LENGTH < LARGE_BUFSIZE: one text, wrapped, fits a large      *)
(* buffer.                                                                 *)
ASSUME TextAssumption ==
    /\ TextLengths \union {Reply, Notice} \subseteq Nat
    /\ \A n \in TextLengths \union {Notice} : n + WrapGrowth <= LargeBufsize - 1
    /\ Reply < ShortLine

VARIABLES
    open,       \* descriptor_list
    io,         \* the output buffers, bufpool and buf_largecount
    snooping,   \* whom each descriptor snoops
    snoop_by,   \* by whom it is snooped
    level,      \* the level of the player behind each descriptor
    crossed     \* history: the snoopers who, or whose victims, were advanced,
                \* set to a level or began a new class since the snoop began

vars == <<open, io, snooping, snoop_by, level, crossed>>

-----------------------------------------------------------------------------
(* One descriptor's output.  bufptr is -1 in the overflow state; strlen is *)
(* the length of the text at output; large is 0 while the small buffer is  *)
(* in use and otherwise the identity of the large one.                     *)
OutBuf == [bufptr : Int, bufspace : Int, strlen : Nat, large : Nat]

IoState ==
    [out : [Desc -> OutBuf], bufpool : Seq(Nat \ {0}), buf_largecount : Nat]

FreshBuf ==
    [bufptr |-> 0, bufspace |-> SmallBufsize - 1, strlen |-> 0, large |-> 0]

Overflowed(o) == o.bufptr < 0

(* linewrap returns a short text as it is and only ever adds line ends.    *)
Wrapped(n) == IF n < ShortLine THEN {n} ELSE n .. (n + WrapGrowth)

(* The buffer state s with o as t's output.                                *)
WithOut(s, t, o) == [s EXCEPT !.out = [@ EXCEPT ![t] = o]]

(* write_to_output, on the buffer state s, for a text of length raw that   *)
(* is size long when wrapped.  The switch to a large buffer measures the   *)
(* wrapped text and then appends the raw one.                              *)
AppendedSpaceKept(o, size) ==           \* bug: bufspace is not reduced
    [o EXCEPT !.bufptr = @ + size, !.strlen = o.bufptr + size]

Appended(o, size) ==
    [bufptr   |-> o.bufptr + size,
     bufspace |-> o.bufspace - size,
     strlen   |-> o.bufptr + size,
     large    |-> o.large]

OverflowedFrom(o) == [o EXCEPT !.bufptr = -1]

MovedToLargeOverwrites(o, raw, b) ==    \* bug: strcpy instead of strcat
    [bufptr |-> raw, bufspace |-> LargeBufsize - 1 - raw,
     strlen |-> raw, large |-> b]

MovedToLarge(o, raw, b) ==
    [bufptr   |-> o.strlen + raw,
     bufspace |-> LargeBufsize - 1 - (o.strlen + raw),
     strlen   |-> o.strlen + raw,
     large    |-> b]

SwitchToLarge(s, t, raw) ==
    IF s.bufpool # << >>
    THEN [WithOut(s, t, MovedToLarge(s.out[t], raw, Head(s.bufpool)))
             EXCEPT !.bufpool = Tail(@)]
    ELSE [WithOut(s, t, MovedToLarge(s.out[t], raw, s.buf_largecount + 1))
             EXCEPT !.buf_largecount = @ + 1]

WriteToOutputOffByOne(s, t, raw, size) ==   \* bug: no room for the NUL
    IF Overflowed(s.out[t]) THEN s
    ELSE IF s.out[t].bufspace >= size THEN WithOut(s, t, Appended(s.out[t], size))
    ELSE IF size + s.out[t].bufptr > LargeBufsize
         THEN WithOut(s, t, OverflowedFrom(s.out[t]))
    ELSE SwitchToLarge(s, t, raw)

WriteToOutputChucksAll(s, t, raw, size) ==  \* bug: overflow drops the queue
    IF Overflowed(s.out[t]) THEN s
    ELSE IF s.out[t].bufspace >= size THEN WithOut(s, t, Appended(s.out[t], size))
    ELSE IF size + s.out[t].bufptr > LargeBufsize - 1
         THEN WithOut(s, t, [s.out[t] EXCEPT !.bufptr = -1, !.strlen = 0])
    ELSE SwitchToLarge(s, t, raw)

WriteToOutput(s, t, raw, size) ==
    IF Overflowed(s.out[t]) THEN s
    ELSE IF s.out[t].bufspace >= size THEN WithOut(s, t, Appended(s.out[t], size))
    ELSE IF size + s.out[t].bufptr > LargeBufsize - 1
         THEN WithOut(s, t, OverflowedFrom(s.out[t]))
    ELSE SwitchToLarge(s, t, raw)

ReleaseLargeCountsOut(s, t) ==          \* bug: a pooled buffer is uncounted
    IF s.out[t].large = 0 THEN WithOut(s, t, FreshBuf)
    ELSE [WithOut(s, t, FreshBuf) EXCEPT
             !.bufpool = <<s.out[t].large>> \o @, !.buf_largecount = @ - 1]

(* The large buffer goes back to the head of the pool and the small one is *)
(* in use again, empty.                                                    *)
ReleaseLarge(s, t) ==
    IF s.out[t].large = 0 THEN WithOut(s, t, FreshBuf)
    ELSE [WithOut(s, t, FreshBuf) EXCEPT !.bufpool = <<s.out[t].large>> \o @]

(* What process_output does to the buffers: the snooper gets the mark, the *)
(* text (size long once wrapped again) and the mark, then t's large buffer *)
(* is released and its accounting starts afresh.                           *)
SnoopCopy(s, t, size) ==
    IF snoop_by[t] = None THEN s
    ELSE LET by == snoop_by[t]
             s1 == WriteToOutput(s, by, SnoopMark, SnoopMark)
             s2 == WriteToOutput(s1, by, s.out[t].strlen, size)
         IN  WriteToOutput(s2, by, SnoopMark, SnoopMark)

FlushedStillOverflowed(s, t, size) ==   \* bug: bufptr is not reset
    LET s1 == ReleaseLarge(SnoopCopy(s, t, size), t)
    IN  IF Overflowed(s.out[t]) THEN WithOut(s1, t, OverflowedFrom(FreshBuf))
        ELSE s1

Flushed(s, t, size) == ReleaseLarge(SnoopCopy(s, t, size), t)

ClosedIoLeaks(s, t) == WithOut(s, t, FreshBuf)   \* bug: no flush_queues

(* close_socket: the queues are flushed before the snooper is told.        *)
ClosedIo(s, t) ==
    IF snoop_by[t] = None THEN ReleaseLarge(s, t)
    ELSE WriteToOutput(ReleaseLarge(s, t), snoop_by[t], Reply, Reply)

(* What close_socket and extract_char do to the links at both ends.        *)
ForgetSnooping(t) ==
    /\ snooping' = [d \in Desc |-> IF d = t \/ d = snoop_by[t] THEN None
                                   ELSE snooping[d]]
    /\ snoop_by' = [d \in Desc |-> IF d = t \/ d = snooping[t] THEN None
                                   ELSE snoop_by[d]]
    /\ crossed' = crossed \ {t, snoop_by[t]}

(* v's player is now of level k; the links to and from v stay as they are. *)
SetLevel(v, k) ==
    /\ level' = [level EXCEPT ![v] = k]
    /\ crossed' = crossed \union
         {d \in Desc : snooping[d] # None /\ (d = v \/ snooping[d] = v)}
    /\ UNCHANGED <<open, snooping, snoop_by>>

-----------------------------------------------------------------------------
Init ==
    /\ open = {}
    /\ io = [out |-> [d \in Desc |-> FreshBuf], bufpool |-> << >>,
             buf_largecount |-> 0]
    /\ snooping = [d \in Desc |-> None]
    /\ snoop_by = [d \in Desc |-> None]
    /\ level = [d \in Desc |-> 0]
    /\ crossed = {}

(* new_descriptor: the greeting is the first text.  Whose player it will   *)
(* be is only known after the login, before which nothing here asks.       *)
NewDescriptor(d) ==
    /\ d \notin open
    /\ open' = open \union {d}
    /\ \E n \in TextLengths : \E size \in Wrapped(n) :
         io' = WriteToOutput(WithOut(io, d, FreshBuf), d, n, size)
    /\ \E k \in FirstLevels[d] : level' = [level EXCEPT ![d] = k]
    /\ UNCHANGED <<snooping, snoop_by, crossed>>

(* SEND_TO_Q, by whatever command or heartbeat function has something to   *)
(* say to the descriptor.                                                  *)
SendToQ(d) ==
    /\ d \in open
    /\ \E n \in TextLengths : \E size \in Wrapped(n) :
         io' = WriteToOutput(io, d, n, size)
    /\ UNCHANGED <<open, snooping, snoop_by, level, crossed>>

(* The output pass of game_loop, for a descriptor that has output and      *)
(* whose socket is writable.                                               *)
ProcessOutput(d) ==
    /\ d \in open
    /\ io.out[d].strlen > 0
    /\ \E size \in Wrapped(io.out[d].strlen) : io' = Flushed(io, d, size)
    /\ UNCHANGED <<open, snooping, snoop_by, level, crossed>>

(* The same pass when the write fails: the output is processed all the     *)
(* same and the descriptor closed.                                         *)
ProcessOutputFails(d) ==
    /\ d \in open
    /\ io.out[d].strlen > 0
    /\ \E size \in Wrapped(io.out[d].strlen) :
         io' = ClosedIo(Flushed(io, d, size), d)
    /\ open' = open \ {d}
    /\ ForgetSnooping(d)
    /\ level' = [level EXCEPT ![d] = 0]

(* close_socket for any other reason.                                      *)
CloseSocket(d) ==
    /\ d \in open
    /\ io' = ClosedIo(io, d)
    /\ open' = open \ {d}
    /\ ForgetSnooping(d)
    /\ level' = [level EXCEPT ![d] = 0]

(* extract_char, when d's character quits, dies or is purged: d goes to    *)
(* the menu, or back to the body it was switched from, and stays           *)
(* connected.  The snooper is told first.                                  *)
ExtractChar(d) ==
    /\ d \in open
    /\ \E size \in Wrapped(Notice) :
         io' = WriteToOutput(IF snoop_by[d] = None THEN io
                             ELSE WriteToOutput(io, snoop_by[d], Reply, Reply),
                             d, Notice, size)
    /\ ForgetSnooping(d)
    /\ UNCHANGED <<open, level>>

MaySnoopAnyone(d, v) ==     \* bug: neither oneself nor one's betters refused
    /\ {d, v} \subseteq open
    /\ snoop_by[v] = None
    /\ snooping[v] # d
    /\ level[d] >= LvlGod

(* do_snoop, past its refusals; the command is for gods.                   *)
MaySnoop(d, v) ==
    /\ {d, v} \subseteq open
    /\ d # v
    /\ snoop_by[v] = None
    /\ snooping[v] # d
    /\ level[d] >= LvlGod /\ level[v] < level[d]

DoSnoopKeepsOld(d, v) ==                \* bug: the first victim is not let go
    /\ MaySnoop(d, v)
    /\ io' = WriteToOutput(io, d, Reply, Reply)
    /\ snooping' = [snooping EXCEPT ![d] = v]
    /\ snoop_by' = [snoop_by EXCEPT ![v] = d]
    /\ crossed' = crossed \ {d}
    /\ UNCHANGED <<open, level>>

DoSnoop(d, v) ==
    /\ MaySnoop(d, v)
    /\ io' = WriteToOutput(io, d, Reply, Reply)
    /\ snooping' = [snooping EXCEPT ![d] = v]
    /\ snoop_by' = [e \in Desc |-> IF e = v THEN d
                                   ELSE IF e = snooping[d] THEN None
                                   ELSE snoop_by[e]]
    /\ crossed' = crossed \ {d}
    /\ UNCHANGED <<open, level>>

StopSnooping(d) ==
    /\ d \in open
    /\ snooping[d] # None
    /\ io' = WriteToOutput(io, d, Reply, Reply)
    /\ snooping' = [snooping EXCEPT ![d] = None]
    /\ snoop_by' = [snoop_by EXCEPT ![snooping[d]] = None]
    /\ crossed' = crossed \ {d}
    /\ UNCHANGED <<open, level>>

(* do_advance: the level asked for is at most that of d, the one that the  *)
(* victim ends with may be any, because gain_exp_regardless counts what is *)
(* missing twice.  A victim who is switched reads nothing of it (n = 0).   *)
DoAdvance(d, v) ==
    /\ {d, v} \subseteq open
    /\ level[d] >= LvlGrgod /\ level[v] < level[d]
    /\ \E k \in NewLevels \ {0} : SetLevel(v, k)
    /\ \E n \in {0, Notice} : \E size \in Wrapped(n) :
         io' = WriteToOutput(WriteToOutput(io, v, n, size), d, Reply, Reply)

(* perform_set, field "level".                                             *)
DoSetLevel(d, v) ==
    /\ {d, v} \subseteq open
    /\ level[d] >= LvlCoimpl
    /\ level[d] = LvlImpl \/ level[v] < level[d] \/ v = d
    /\ \E k \in NewLevels : k <= level[d] /\ SetLevel(v, k)
    /\ io' = WriteToOutput(io, d, Reply, Reply)

(* do_multi, for immortals, too: the new class begins at level 1.          *)
DoMulti(d) ==
    /\ d \in open
    /\ level[d] >= LvlImmort - 1
    /\ SetLevel(d, 1)
    /\ \E size \in Wrapped(Notice) :
         io' = WriteToOutput(io, d, Notice, size)

(* do_gain, one level at a time and none beyond the first immortal one.    *)
(* No link is marked as crossed: nobody who may snoop is so low.           *)
DoGain(d) ==
    /\ d \in open
    /\ level[d] < LvlImmort
    /\ level' = [level EXCEPT ![d] = @ + 1]
    /\ \E size \in Wrapped(Notice) :
         io' = WriteToOutput(io, d, Notice, size)
    /\ UNCHANGED <<open, snooping, snoop_by, crossed>>

LevelCommands(d) ==
    \/ DoMulti(d)
    \/ \E v \in Desc : DoAdvance(d, v) \/ DoSetLevel(d, v)

Commands(d) ==
    \/ SendToQ(d) \/ StopSnooping(d) \/ ExtractChar(d) \/ DoGain(d)
    \/ \E v \in Desc : DoSnoop(d, v)

OutputPass(d) == ProcessOutput(d) \/ ProcessOutputFails(d)

Next == \E d \in Desc :
    \/ NewDescriptor(d) \/ CloseSocket(d) \/ OutputPass(d)
    \/ Commands(d) \/ LevelCommands(d)

Spec == Init /\ [][Next]_vars

(* Every pass of game_loop visits every descriptor whose socket select     *)
(* reports writable: a socket that is neither closed nor broken is assumed *)
(* to become writable again.                                               *)
Fairness == \A d \in Desc : WF_vars(OutputPass(d))

FairSpec == Spec /\ Fairness

-----------------------------------------------------------------------------
(* Every variable has the type of the code's declarations.                 *)
TypeOK ==
    /\ open \subseteq Desc
    /\ io \in IoState
    /\ snooping \in [Desc -> Desc \union {None}]
    /\ snoop_by \in [Desc -> Desc \union {None}]
    /\ level \in [Desc -> 0 .. LvlImpl]
    /\ crossed \subseteq Desc

Capacity(o) == IF o.large = 0 THEN SmallBufsize ELSE LargeBufsize

(* bufptr and bufspace always describe the text that is in the buffer, in  *)
(* whichever of the two buffers it is, although the switch to the large    *)
(* one measures the wrapped text and copies the raw one.                   *)
Accounting ==
    \A d \in Desc : LET o == io.out[d] IN
        ~ Overflowed(o) => /\ o.bufptr = o.strlen
                           /\ o.bufspace = Capacity(o) - 1 - o.strlen

(* The text and its terminator fit the buffer in use, and what             *)
(* process_output assembles from it (a leading line end, the text, the     *)
(* overflow notice, a line end and a prompt) fits its local array.         *)
FitsBuffer(o) == o.strlen <= Capacity(o) - 1

AssembledLength(o) ==
    Crlf + o.strlen + (IF Overflowed(o) THEN OverflowNote ELSE 0)
         + Crlf + MaxPrompt

OutputFits ==
    \A d \in Desc : /\ FitsBuffer(io.out[d])
                    /\ AssembledLength(io.out[d]) + 1 <= MaxSockBuf

(* A descriptor in the overflow state has text waiting.  The output pass   *)
(* skips a descriptor with no text, so an overflowed one without any would *)
(* ignore its output for ever.                                             *)
OverflowHasText ==
    \A d \in Desc : Overflowed(io.out[d]) => io.out[d].strlen > 0

(* Whatever is written, flushed, snooped or closed, every queue is what the *)
(* counters say, fits, and will be flushed.                                *)
QueuesSound == Accounting /\ OutputFits /\ OverflowHasText

(* Large buffers are neither lost nor shared: each of the buf_largecount   *)
(* buffers created is in the pool, once, or in use by one descriptor, and  *)
(* no more were ever created than descriptors were connected at one time.  *)
LargeBuffersAccounted ==
    LET users  == {d \in Desc : io.out[d].large # 0}
        used   == {io.out[d].large : d \in users}
        pooled == {io.bufpool[i] : i \in DOMAIN io.bufpool}
    IN  /\ used \union pooled = 1 .. io.buf_largecount
        /\ Cardinality(users) + Len(io.bufpool) = io.buf_largecount
        /\ io.buf_largecount <= Cardinality(Desc)

(* The two ends of a snoop agree, and only connected descriptors snoop or  *)
(* are snooped: process_output and close_socket follow these pointers.     *)
SnoopSymmetric ==
    \A d, e \in Desc :
        /\ snooping[d] = e <=> snoop_by[e] = d
        /\ snooping[d] = e => {d, e} \subseteq open

(* A snooper is a god who outranks its victim, unless one of the two was   *)
(* advanced, set to a level or began a new class since do_snoop compared   *)
(* their levels: whoever rises by himself never reaches a god who snoops   *)
(* him.  Hence a ring of snoopers, round which output is copied for ever,  *)
(* needs such a change, and two never snoop each other, even then.         *)
SnoopDescends ==
    \A d \in Desc \ crossed : snooping[d] # None =>
        level[d] >= LvlGod /\ level[snooping[d]] < level[d]

NoMutualSnoop ==
    \A d, e \in Desc : snooping[d] = e => snooping[e] # d

(* Snoop links are sound however snoopers and victims come, go, rise and   *)
(* fall.                                                                   *)
SnoopSound == SnoopSymmetric /\ NoMutualSnoop /\ SnoopDescends

(* The length of a connected descriptor's queued text never shrinks, but   *)
(* to nothing, with the whole buffer fresh again: an overflow or a copy to *)
(* a snooper never cuts off a part.  Nothing is said of order or content.  *)
NothingQueuedIsLost ==
    [][\A d \in Desc : \/ io'.out[d].strlen >= io.out[d].strlen
                       \/ io'.out[d] = FreshBuf
                       \/ d \notin open]_vars
=============================================================================
