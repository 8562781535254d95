----------------------------- MODULE PathSearch -----------------------------
(***************************************************************************)
(* AStar.cpp and JPS.cpp: the search for a shortest path on a Grid, and    *)
(* runComparison of Pathfinding.cpp, which gives both the same grid: any   *)
(* walls, the first and the last cell free.  One turn of a search's loop   *)
(* is a step.                                                              *)
(*                                                                         *)
(* The two costs of a step are whole numbers, in a unit as small as one    *)
(* likes: 1.0f and 1.41421356f are whole in 1/2^23.  Sums of floats are    *)
(* rounded, so that two of the same value may differ in their last bit: of *)
(* the cells that look equally good any may come first.                    *)
(*                                                                         *)
(* `dist` is a history variable: the distances from the start, which       *)
(* Survey finds by going over all cells before the search begins.          *)
(***************************************************************************)
EXTENDS Integers, Sequences

CONSTANTS Width, Height,
          Straight, Diagonal    \* the costs of a step

ASSUME GridAssumption == Width \in Nat \ {0} /\ Height \in Nat \ {0}
ASSUME CostAssumption == Straight \in Nat \ {0} /\ Diagonal \in Straight..(2 * Straight)

VARIABLES walls,      \* the grid
          dist,
          method,     \* "survey", "AStar", "JPS"
          g,          \* gScore
          cameFrom,
          closed,
          open,       \* the queue: <<f, cell>>
          result      \* "none", "found", "failed"

searchVars == <<walls, dist, method, g, cameFrom, closed, open, result>>

Cells == (0..(Width - 1)) \X (0..(Height - 1))
start == <<0, 0>>
goal  == <<Width - 1, Height - 1>>

(* More than any path costs                                                *)
Infinity == Diagonal * Width * Height
Nowhere  == <<-1, -1>>

-----------------------------------------------------------------------------
(* The grid and its steps *)

isWalkable(c) == c \in Cells /\ c \notin walls

Directions == ((-1..1) \X (-1..1)) \ {<<0, 0>>}
IsDiagonal(d) == d[1] # 0 /\ d[2] # 0

Along(c, d, k) == <<c[1] + k * d[1], c[2] + k * d[2]>>
Step(c, d)     == Along(c, d, 1)

(* Only two walls at its sides stop a diagonal step. *)
canMoveDiagonally(c, d) == isWalkable(<<c[1] + d[1], c[2]>>) \/ isWalkable(<<c[1], c[2] + d[2]>>)

CanStep(c, d) == isWalkable(Step(c, d)) /\ (IsDiagonal(d) => canMoveDiagonally(c, d))

StepCost(d) == IF IsDiagonal(d) THEN Diagonal ELSE Straight

Abs(n)    == IF n < 0 THEN -n ELSE n
sign(n)   == IF n > 0 THEN 1 ELSE IF n < 0 THEN -1 ELSE 0
Lesser(m, n) == IF m < n THEN m ELSE n

(* Mutant: a diagonal is taken for two steps. *)
manhattanDistance(a, b) == Straight * (Abs(a[1] - b[1]) + Abs(a[2] - b[2]))

octileDistance(a, b) ==
  LET dx == Abs(a[1] - b[1])
      dy == Abs(a[2] - b[2])
  IN  Straight * Abs(dx - dy) + Diagonal * Lesser(dx, dy)

-----------------------------------------------------------------------------
(* What the searches are measured against *)

SearchInit == /\ walls \in SUBSET (Cells \ {start, goal})
              /\ dist = [c \in Cells |-> IF c = start THEN 0 ELSE Infinity]
              /\ method = "survey"
              /\ g = [c \in Cells |-> Infinity]
              /\ cameFrom = [c \in Cells |-> Nowhere]
              /\ closed = {} /\ open = {} /\ result = "none"

(* The best that is known of c and of the cells one step before it *)
Relaxed(c) ==
  LET before == {dist[c]} \cup {dist[Along(c, d, -1)] + StepCost(d) :
                                  d \in {e \in Directions : /\ isWalkable(Along(c, e, -1))
                                                            /\ CanStep(Along(c, e, -1), e)}}
  IN  CHOOSE n \in before : \A m \in before : n <= m

Survey == /\ method = "survey"
          /\ dist' = [c \in Cells |-> Relaxed(c)]
          /\ dist' # dist
          /\ UNCHANGED <<walls, method, g, cameFrom, closed, open, result>>

Begin == /\ method = "survey"
         /\ \A c \in Cells : Relaxed(c) = dist[c]
         /\ method' \in {"AStar", "JPS"}
         /\ g' = [g EXCEPT ![start] = 0]
         /\ open' = {<<octileDistance(start, goal), start>>}
         /\ UNCHANGED <<walls, dist, cameFrom, closed, result>>

-----------------------------------------------------------------------------
(* JPS *)

(* A wall beside the cell where there was none: a way opens round it that  *)
(* no shorter path takes.                                                  *)
IsForced(c, d) ==
  IF IsDiagonal(d)
  THEN \/ ~isWalkable(<<c[1] - d[1], c[2]>>) /\ isWalkable(<<c[1] - d[1], c[2] + d[2]>>)
       \/ ~isWalkable(<<c[1], c[2] - d[2]>>) /\ isWalkable(<<c[1] + d[1], c[2] - d[2]>>)
  ELSE \E side \in {<<d[2], d[1]>>, <<-d[2], -d[1]>>} :
         ~isWalkable(Step(c, side)) /\ isWalkable(Step(Step(c, side), d))

(* The lengths of the runs from c in direction d that end where P does     *)
Runs(c, d, P(_)) == {k \in 1..(IF Width > Height THEN Width ELSE Height) :
                       /\ \A j \in 0..(k - 1) : CanStep(Along(c, d, j), d)
                       /\ P(Along(c, d, k))}

Parts(d) == {<<d[1], 0>>, <<0, d[2]>>}

StopsStraight(c, d) == c = goal \/ IsForced(c, d)
Stops(c, d) ==
  \/ StopsStraight(c, d)
  \/ /\ IsDiagonal(d)
     /\ \E s \in Parts(d) : LET Is(n) == StopsStraight(n, s) IN Runs(c, s, Is) # {}

(* jump: the first stop on the way, if there is one *)
jump(c, d) == LET Is(n) == Stops(n, d)
                  runs == Runs(c, d, Is)
              IN  {Along(c, d, k) : k \in {r \in runs : \A q \in runs : r <= q}}

(* Mutant: what a wall beside the way opens is not looked at. *)
naturalDirections(c, p) ==
  LET dx == sign(c[1] - p[1])
      dy == sign(c[2] - p[2])
  IN  IF p = Nowhere THEN Directions
      ELSE {d \in {<<dx, dy>>, <<dx, 0>>, <<0, dy>>} : d # <<0, 0>>}

prunedDirections(c, p) ==
  LET x == c[1]
      y == c[2]
      dx == sign(x - p[1])
      dy == sign(y - p[2])
      Walk(a, b) == isWalkable(<<a, b>>)
  IN  CASE p = Nowhere -> Directions
        [] p # Nowhere /\ dx # 0 /\ dy # 0 ->
             {d \in Directions :
                \/ d = <<0, dy>>   /\ Walk(x, y + dy)
                \/ d = <<dx, 0>>   /\ Walk(x + dx, y)
                \/ d = <<dx, dy>>  /\ canMoveDiagonally(c, d)
                \/ d = <<-dx, dy>> /\ ~Walk(x - dx, y) /\ Walk(x, y + dy)
                \/ d = <<dx, -dy>> /\ ~Walk(x, y - dy) /\ Walk(x + dx, y)}
        [] OTHER ->
             {d \in Directions :
                \/ d = <<dx, dy>> /\ Walk(x + dx, y + dy)
                \/ \E side \in {<<dy, dx>>, <<-dy, -dx>>} :
                     /\ d = <<dx + side[1], dy + side[2]>>
                     /\ ~isWalkable(Step(c, side)) /\ isWalkable(Step(c, d))}

-----------------------------------------------------------------------------
(* The loop both searches share *)

(* Where a search goes on from c *)
Successors(c) == IF method = "AStar" THEN {Step(c, d) : d \in {e \in Directions : CanStep(c, e)}}
                 ELSE UNION {jump(c, d) : d \in prunedDirections(c, cameFrom[c])}

Through(c, n) == g[c] + octileDistance(c, n)

IsBest(entry) == entry \in open /\ \A other \in open : entry[1] <= other[1]

Searching == method # "survey" /\ result = "none"

(* The cell was expanded through a better entry before. *)
Skip(entry) == /\ Searching /\ IsBest(entry)
               /\ entry[2] \in closed
               /\ open' = open \ {entry}
               /\ UNCHANGED <<walls, dist, method, g, cameFrom, closed, result>>

Arrive(entry) == /\ Searching /\ IsBest(entry)
                 /\ entry[2] \notin closed
                 /\ entry[2] = goal
                 /\ open' = open \ {entry}
                 /\ closed' = closed \cup {goal}
                 /\ result' = "found"
                 /\ UNCHANGED <<walls, dist, method, g, cameFrom>>

Expand(entry) ==
  LET c == entry[2]
      improved == {n \in Successors(c) : n \notin closed \cup {c} /\ Through(c, n) < g[n]}
  IN  /\ Searching /\ IsBest(entry)
      /\ c \notin closed /\ c # goal
      /\ closed' = closed \cup {c}
      /\ g' = [n \in Cells |-> IF n \in improved THEN Through(c, n) ELSE g[n]]
      /\ cameFrom' = [n \in Cells |-> IF n \in improved THEN c ELSE cameFrom[n]]
      /\ open' = (open \ {entry}) \cup {<<Through(c, n) + octileDistance(n, goal), n>> : n \in improved}
      /\ UNCHANGED <<walls, dist, method, result>>

Fail == /\ Searching /\ open = {}
        /\ result' = "failed"
        /\ UNCHANGED <<walls, dist, method, g, cameFrom, closed, open>>

Turn == \/ Fail
        \/ \E entry \in open : Skip(entry) \/ Arrive(entry) \/ Expand(entry)

Done == result # "none" /\ UNCHANGED searchVars

SearchNext == Survey \/ Begin \/ Turn \/ Done

SearchSpec == SearchInit /\ [][SearchNext]_searchVars

-----------------------------------------------------------------------------
(* Properties *)

(* The cells behind c on the straight way from c to n, n the last of them  *)
Between(c, n) == LET dx  == n[1] - c[1]
                     dy  == n[2] - c[2]
                     far == IF Abs(dx) > Abs(dy) THEN Abs(dx) ELSE Abs(dy)
                 IN  [j \in 1..far |-> Along(c, <<sign(dx), sign(dy)>>, j)]

(* The way to each cell over its last k links *)
wayTo[k \in 0..(Width * Height)] ==
  [n \in Cells |-> IF cameFrom[n] = Nowhere \/ k = 0 THEN <<n>>
                   ELSE wayTo[k - 1][cameFrom[n]] \o Between(cameFrom[n], n)]

(* The path the search returns: the cells the links lead back over, and    *)
(* the cells between them.                                                 *)
Path == wayTo[Width * Height][goal]

(* A path is found if and only if there is one; it leads from the start to *)
(* the goal over steps the grid allows, and no path is shorter.  Both      *)
(* searches are measured against the same distances, so that their paths   *)
(* have as many cells, as runComparison expects.                           *)
FindsShortest ==
  /\ result = "failed" => dist[goal] = Infinity
  /\ result = "found" =>
       /\ g[goal] = dist[goal]
       /\ Path[1] = start /\ Path[Len(Path)] = goal
       /\ \A i \in 1..(Len(Path) - 1) :
            \E d \in Directions : CanStep(Path[i], d) /\ Path[i + 1] = Step(Path[i], d)
       /\ \E s \in 0..(Len(Path) - 1) :
            Straight * s + Diagonal * (Len(Path) - 1 - s) = dist[goal]

(* A cell that is expanded is never met again on a shorter way: closing it *)
(* was right.                                                              *)
ClosedIsSettled == \A c \in closed : g[c] = dist[c]
=============================================================================
