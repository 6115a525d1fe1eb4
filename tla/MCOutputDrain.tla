-------------------------- MODULE MCOutputDrain ---------------------------
(* OutputBuffer with bounds on the commands of the whole run, one each on  *)
(* the connections, on those that change levels and on the rest: what is   *)
(* left to show is that flushing alone, with its copies to snoopers, ends. *)
EXTENDS MCOutputBuffer

CONSTANTS MaxConnections, MaxCommands, MaxLevelCommands

VARIABLE budget

BoundedInit ==
    Init /\ budget = [calls |-> MaxConnections, words |-> MaxCommands,
                      levels |-> MaxLevelCommands]

(* Bound: levels change while no output waits, on which they do not depend.*)
Quiet == \A d \in Desc : io.out[d].strlen = 0

BoundedNext ==
    \/ /\ budget.calls > 0
       /\ budget' = [budget EXCEPT !.calls = @ - 1]
       /\ \E d \in Desc : NewDescriptor(d)
    \/ /\ budget.words > 0
       /\ budget' = [budget EXCEPT !.words = @ - 1]
       /\ \E d \in Desc : Commands(d) \/ CloseSocket(d)
    \/ /\ budget.levels > 0 /\ Quiet
       /\ budget' = [budget EXCEPT !.levels = @ - 1]
       /\ \E d \in Desc : LevelCommands(d)
    \/ /\ UNCHANGED budget
       /\ \E d \in Desc : OutputPass(d)

BoundedSpec ==
    /\ BoundedInit
    /\ [][BoundedNext]_<<vars, budget>>
    /\ \A d \in Desc : WF_<<vars, budget>>(OutputPass(d) /\ UNCHANGED budget)

(* The members of a ring of snoopers in which somebody's level was changed *)
(* under a link.                                                           *)
Endless ==
    UNION {S \in SUBSET Desc : /\ \A d \in S : snooping[d] \in S
                               /\ S \intersect crossed # {}}

(* Once nobody has anything more to say, every descriptor's output is      *)
(* eventually sent: a snooper's copy is not itself copied back             *)
(* (process_output, do_snoop).  The exception are the rings that a change  *)
(* of level lets do_snoop close, round which output is copied for ever.    *)
OutputDrains == <>[](\A d \in Desc \ Endless : io.out[d].strlen = 0)
=============================================================================
