-------------------------------- MODULE Life --------------------------------
(***************************************************************************)
(* samples/life.cpp: the game of life, where every cell, the display and   *)
(* the controller is an active object.  In each generation the controller  *)
(* has all cells notify their neighbours, waits until all have done so,    *)
(* has all of them compute, and waits again.  Nobody waits for the         *)
(* notifications and the updates of the display to arrive.                 *)
(***************************************************************************)
EXTENDS Runtime

CONSTANTS
    num_cols, num_rows,
    Directions, \* where the neighbours of a cell are; in the code, all eight
    Seeds,      \* the patterns that rand() may make of a seed
    Iterations  \* the remaining_iterations of the controller

\* What the constants must be.
LifeAssumption ==
    /\ num_cols \in Nat \ {0}
    /\ num_rows \in Nat \ {0}
    /\ Iterations \in Nat

Controller == <<"controller">>
Display == <<"display">>
Cell(x, y) == <<"cell", x, y>>
Columns == 0 .. num_cols - 1
Rows == 0 .. num_rows - 1
Cells == {Cell(x, y) : x \in Columns, y \in Rows}
total_cells == num_cols * num_rows

\* All cells in the order of the controller's loops.
CellAt(i) == Cell((i - 1) \div num_rows, (i - 1) % num_rows)
ToAllCells(type) == [i \in 1 .. total_cells |-> To(CellAt(i), Plain(type))]

\* The grid is a torus.  A cell's first messages, add_neighbour, tell it this
\* list; they concern nobody else, and count as received from the start.
Neighbours(c) ==
    [i \in DOMAIN Directions |-> Cell((c[2] + Directions[i][1]) % num_cols,
                                     (c[3] + Directions[i][2]) % num_rows)]

\* seed is the pattern that rand() makes of it.
Init ==
    \E seed \in Seeds :
        Starts([o \in Cells \cup {Controller, Display} |->
                  CASE o = Controller -> [progress |-> 0, remaining |-> Iterations,
                                          seed |-> seed]
                    [] o = Display -> [grid |-> [c \in Cells |-> FALSE], generation |-> 1]
                    [] OTHER -> [is_alive |-> seed[o], alive_neighbours |-> 0]],
               [o \in Cells \cup {Controller, Display} |->
                  IF o = Controller THEN <<Plain("compute")>> ELSE <<>>])

ControllerCompute ==
    /\ Gets(Controller, "compute")
    /\ local' = [local EXCEPT ![Controller].progress = total_cells]
    /\ Does(Controller, ToAllCells("notify_neighbours"))

NotificationComplete ==
    LET last == local[Controller].progress = 1
    IN  /\ Gets(Controller, "notification_complete")
        /\ local' = [local EXCEPT ![Controller].progress =
                       IF last THEN total_cells ELSE @ - 1]
        /\ Does(Controller, IF last THEN ToAllCells("compute") ELSE <<>>)

ComputeComplete ==
    LET c == local[Controller]
        last == c.progress = 1
    IN  /\ Gets(Controller, "compute_complete")
        /\ local' = [local EXCEPT ![Controller].progress = @ - 1,
                                  ![Controller].remaining = IF last THEN @ - 1 ELSE @]
        /\ Does(Controller,
              (IF last THEN <<To(Display, Plain("redraw"))>> ELSE <<>>)
                \o IF last /\ c.remaining > 0 THEN <<To(Controller, Plain("compute"))>>
                                              ELSE <<>>)

NotifyNeighbours(c) ==
    /\ Gets(c, "notify_neighbours")
    /\ Does(c, [i \in DOMAIN Directions |->
                  To(Neighbours(c)[i],
                     [is |-> "notification", alive |-> local[c].is_alive])]
               \o <<To(Controller, Plain("notification_complete"))>>)
    /\ UNCHANGED local

Notification(c) ==
    /\ Gets(c, "notification")
    /\ local' = [local EXCEPT ![c].alive_neighbours = IF First(c).alive THEN @ + 1 ELSE @]
    /\ Does(c, <<>>)

\* The rule, as the chain of conditions in Cell::compute.
Survives(alive, n) == (alive /\ n >= 2 /\ n <= 3) \/ (~alive /\ n = 3)

Update(c, alive) == To(Display, [is |-> "cell_update", cell |-> c, alive |-> alive])

\* Mutant: the controller is told before the display.
CompletesFirst(c, alive) ==
    <<To(Controller, Plain("compute_complete")), Update(c, alive)>>

Completes(c, alive) ==
    <<Update(c, alive), To(Controller, Plain("compute_complete"))>>

CellCompute(c) ==
    LET alive == Survives(local[c].is_alive, local[c].alive_neighbours)
    IN  /\ Gets(c, "compute")
        /\ local' = [local EXCEPT ![c].is_alive = alive, ![c].alive_neighbours = 0]
        /\ Does(c, Completes(c, alive))

CellUpdate ==
    /\ Gets(Display, "cell_update")
    /\ local' = [local EXCEPT ![Display].grid[First(Display).cell] = First(Display).alive]
    /\ Does(Display, <<>>)

Redraw ==
    /\ Gets(Display, "redraw")
    /\ local' = [local EXCEPT ![Display].generation = @ + 1]
    /\ Does(Display, <<>>)

Next ==
    \/ \E o \in Cells \cup {Controller, Display} : Call(o)
    \/ ControllerCompute \/ NotificationComplete \/ ComputeComplete
    \/ \E c \in Cells : NotifyNeighbours(c) \/ Notification(c) \/ CellCompute(c)
    \/ CellUpdate \/ Redraw
-----------------------------------------------------------------------------
\* The game of life, by its definition.
NextGeneration(alive) ==
    [c \in Cells |->
        LET n == Cardinality({i \in DOMAIN Directions : alive[Neighbours(c)[i]]})
        IN  n = 3 \/ (n = 2 /\ alive[c])]

Generation[n \in Nat] ==
    IF n = 0 THEN local[Controller].seed ELSE NextGeneration(Generation[n - 1])

\* Safety: what is drawn is a whole generation, each the successor of the one
\* before: no notification is late for compute, none early for the generation
\* after, and no update late for redraw (life.cpp:63-84, 100-122).
DrawsGenerations ==
    (box[Display] # <<>> /\ First(Display).is = "redraw") =>
        local[Display].grid = Generation[local[Display].generation]
=============================================================================
