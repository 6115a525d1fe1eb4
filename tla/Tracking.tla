------------------------------ MODULE Tracking ------------------------------
(***************************************************************************)
(* How mobs and players find each other (graph.c): find_first_step, a      *)
(* search with a queue and marks on the rooms, the hunt of a mob, and the  *)
(* track command.  The search runs to its end within one command; its      *)
(* steps are modelled one by one, and nobody moves meanwhile.              *)
(***************************************************************************)
EXTENDS Integers, Sequences, FiniteSets

CONSTANTS
  TrackRooms,     \* the rooms of the world
  NUM_OF_DIRS,    \* directions are tried from 1 up
  TrackWorlds     \* the worlds to look at: [to, notrack]

VARIABLES
  ways,           \* ways.to[r][d]: where exit d of room r leads, or NOWHERE;

                  \* ways.notrack: the rooms with ROOM_NOTRACK
  bfs_queue,      \* queue_head: [room, dir], dir being the first step
  bfs_marks,      \* rooms with ROOM_BFS_MARK
  search,         \* the search that runs or the result of the last one
  hunter, prey    \* the rooms of the mob and of whom it hunts

trackVars == <<ways, bfs_queue, bfs_marks, search, hunter, prey>>

NOWHERE == "nowhere"
BFS_ALREADY_THERE == -2
BFS_NO_PATH == -3
Dirs == 1..NUM_OF_DIRS
NoSearch == [on |-> FALSE, src |-> NOWHERE, target |-> NOWHERE, result |-> 0]

\* A world has finitely many rooms; where an exit leads is a room or nowhere.
ASSUME TrackingAssumption ==
  /\ IsFiniteSet(TrackRooms) /\ NOWHERE \notin TrackRooms /\ NUM_OF_DIRS \in Nat
  /\ \A w \in TrackWorlds : w.to \in [TrackRooms -> [Dirs -> TrackRooms \cup {NOWHERE}]]

\* VALID_EDGE as it is compiled: TRACK_THROUGH_DOORS is defined, so that doors,
\* open or closed, are not looked at.  The test of the mark is apart.
Leads(w, x, d) == /\ w.to[x][d] # NOWHERE
                  /\ w.to[x][d] \notin w.notrack

TrackingInit ==
  /\ ways \in TrackWorlds
  /\ bfs_queue = <<>> /\ search = NoSearch
  /\ bfs_marks = TrackRooms             \* at worst: some OLC systems save them
  /\ hunter \in TrackRooms /\ prey \in TrackRooms

-----------------------------------------------------------------------------
\* bug: rooms are not marked when they are entered into the queue.
bfs_enqueueUnmarked(x, d, first, so) ==
  IF Leads(ways, x, d) /\ ways.to[x][d] \notin so.marks
  THEN [queue |-> Append(so.queue, [room |-> ways.to[x][d], dir |-> IF first = 0 THEN d ELSE first]),
        marks |-> so.marks]
  ELSE so
\* Exit d of room x: where it leads to is marked, unless it was, and enters the
\* queue with the first step on the way there (first = 0: this is d itself).
bfs_enqueue(x, d, first, so) ==
  IF Leads(ways, x, d) /\ ways.to[x][d] \notin so.marks
  THEN [queue |-> Append(so.queue, [room |-> ways.to[x][d], dir |-> IF first = 0 THEN d ELSE first]),
        marks |-> so.marks \cup {ways.to[x][d]}]
  ELSE so

\* The exits of room x, one after the other.
EnqueueExits(x, first, so) ==
  LET after[d \in 0..NUM_OF_DIRS] ==
        IF d = 0 THEN so ELSE bfs_enqueue(x, d, first, after[d - 1])
  IN after[NUM_OF_DIRS]

\* find_first_step begins: all marks are cleared.
find_first_step ==
  /\ ~search.on
  /\ IF hunter = prey
     THEN /\ search' = [on |-> FALSE, src |-> hunter, target |-> prey,
                        result |-> BFS_ALREADY_THERE]
          /\ UNCHANGED <<bfs_queue, bfs_marks>>
     ELSE /\ search' = [on |-> TRUE, src |-> hunter, target |-> prey, result |-> 0]
          /\ LET so == EnqueueExits(hunter, 0, [queue |-> <<>>, marks |-> {hunter}])
             IN bfs_queue' = so.queue /\ bfs_marks' = so.marks
  /\ UNCHANGED <<ways, hunter, prey>>

\* One turn of "while (queue_head)": the first room leaves the queue after its
\* neighbours have entered it.
SearchStep ==
  /\ search.on /\ bfs_queue # <<>> /\ Head(bfs_queue).room # search.target
  /\ LET so == EnqueueExits(Head(bfs_queue).room, Head(bfs_queue).dir,
                            [queue |-> bfs_queue, marks |-> bfs_marks])
     IN bfs_queue' = Tail(so.queue) /\ bfs_marks' = so.marks
  /\ UNCHANGED <<ways, search, hunter, prey>>

SearchEnds ==
  /\ search.on
  /\ \/ bfs_queue = <<>> /\ search' = [search EXCEPT !.on = FALSE, !.result = BFS_NO_PATH]
     \/ /\ bfs_queue # <<>> /\ Head(bfs_queue).room = search.target
        /\ search' = [search EXCEPT !.on = FALSE, !.result = Head(bfs_queue).dir]
  /\ bfs_queue' = <<>>
  /\ UNCHANGED <<ways, bfs_marks, hunter, prey>>

\* hunt_victim goes the way that was found, or gives the hunt up; do_track only
\* tells the direction.  perform_move may refuse: at a closed door, without
\* AFF2_PASSDOOR, or for want of a boat; the hunter then stays where it is.
hunt_victim ==
  /\ ~search.on /\ search.src = hunter /\ search # NoSearch
  /\ \/ hunter' = hunter
     \/ search.result > 0 /\ hunter' = ways.to[hunter][search.result]
  /\ search' = NoSearch
  /\ UNCHANGED <<ways, bfs_queue, bfs_marks, prey>>

\* The prey walks, through any exit: it can open doors or pass them.
PreyMoves ==
  /\ ~search.on /\ search = NoSearch
  /\ \E d \in Dirs : ways.to[prey][d] # NOWHERE /\ prey' = ways.to[prey][d]
  /\ UNCHANGED <<ways, bfs_queue, bfs_marks, search, hunter>>

TrackingNext ==
  find_first_step \/ SearchStep \/ SearchEnds \/ hunt_victim \/ PreyMoves
TrackingSpec == TrackingInit /\ [][TrackingNext]_trackVars

-----------------------------------------------------------------------------
TrackingTypeOK ==
  /\ ways \in TrackWorlds /\ bfs_marks \subseteq TrackRooms
  /\ \A i \in DOMAIN bfs_queue : bfs_queue[i].room \in TrackRooms /\ bfs_queue[i].dir \in Dirs
  /\ search.result \in Dirs \cup {0, BFS_ALREADY_THERE, BFS_NO_PATH}
  /\ hunter \in TrackRooms /\ prey \in TrackRooms

\* Where the exits of the rooms S lead to.
Onwards(w, S) == {w.to[e[1]][e[2]] : e \in {f \in S \X Dirs : Leads(w, f[1], f[2])}}
\* The rooms that can be reached from x in at most n trackable steps.
Reach(w, x) ==
  LET within[n \in 0..Cardinality(TrackRooms)] ==
        IF n = 0 THEN {x} ELSE within[n - 1] \cup Onwards(w, within[n - 1])
  IN within
Reachable(w, x, y) == y \in Reach(w, x)[Cardinality(TrackRooms)]
Distance(w, x, y) ==
  CHOOSE n \in 0..Cardinality(TrackRooms) :
    y \in Reach(w, x)[n] /\ \A m \in 0..(n - 1) : y \notin Reach(w, x)[m]

\* A finished search says that there is no path when there is none, and else
\* names an exit through which the target is one step nearer, doors counting as
\* ways whether they are open or closed; no room is in the queue twice, so that
\* the search ends (graph.c 120-163).
FirstStepIsShortest ==
  /\ search.on \/ search = NoSearch \/
       LET r == search.result
       IN /\ r = BFS_ALREADY_THERE <=> search.src = search.target
          /\ r = BFS_NO_PATH <=> ~Reachable(ways, search.src, search.target)
          /\ r > 0 => /\ Leads(ways, search.src, r)
                      /\ Distance(ways, ways.to[search.src][r], search.target)
                           = Distance(ways, search.src, search.target) - 1
  /\ Cardinality({bfs_queue[i].room : i \in DOMAIN bfs_queue}) = Len(bfs_queue)
  /\ search.on => {bfs_queue[i].room : i \in DOMAIN bfs_queue} \subseteq bfs_marks
=============================================================================
