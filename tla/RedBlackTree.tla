---------------------------- MODULE RedBlackTree ----------------------------
(***************************************************************************)
(* Map.h: a map as a red-black tree.  A node is named by its key, which no *)
(* call changes; Nil is m_nil, one cell that stands for every missing      *)
(* child and whose own parent field is written and read by erase.  The     *)
(* left and right halves of the code are one definition with a side.       *)
(*                                                                         *)
(* One call runs at a time (the callers lock), but it is not one step: the *)
(* node is linked or unlinked first, then every turn of the fixup loop is  *)
(* a step, `fix` says at which node.  The tree must be searchable and      *)
(* balanced but for that node all the while.                               *)
(***************************************************************************)
EXTENDS Integers, Sequences, FiniteSets

CONSTANTS Keys,     \* a finite set of natural numbers
          Values

VARIABLES tree,    \* the links and colors of all cells, and m_root
          value,   \* value[k]: the field of node k
          count,   \* m_count
          fix      \* the loop a call is in: its node, the erased node

treeVars == <<tree, value, count, fix>>

Nil   == -1
Cells == Keys \cup {Nil}
Sides == {"left", "right"}
Other(s) == IF s = "left" THEN "right" ELSE "left"

NoValue == 0   \* the value of a key that has no node
Idle == [op |-> "none", at |-> Nil, old |-> Nil]

Init == /\ tree = [root   |-> Nil,
                   child  |-> [s \in Sides |-> [c \in Cells |-> Nil]],
                   parent |-> [c \in Cells |-> Nil],
                   color  |-> [c \in Cells |-> IF c = Nil THEN "black" ELSE "red"]]
        /\ value = [k \in Keys |-> NoValue]
        /\ count = 0
        /\ fix = Idle

-----------------------------------------------------------------------------
(* Links *)

(* The side of its parent on which c hangs: the code asks for the left.    *)
SideOf(t, c) == IF c = t.child["left"][t.parent[c]] THEN "left" ELSE "right"

(* The link from above to u now leads to v. *)
Link(t, u, v) == IF t.parent[u] = Nil THEN [t EXCEPT !.root = v]
                 ELSE [t EXCEPT !.child[SideOf(t, u)][t.parent[u]] = v]

transplant(t, u, v) == [Link(t, u, v) EXCEPT !.parent[v] = t.parent[u]]

(* Mutant: the subtree that changes hands keeps its old parent. *)
rotateForgets(t, x, s) ==
  LET y == t.child[Other(s)][x]
  IN  [Link(t, x, y) EXCEPT !.child[Other(s)][x] = t.child[s][y], !.child[s][y] = x,
                            !.parent[y] = t.parent[x], !.parent[x] = y]

(* rotateLeft and rotateRight: x goes down to side s. *)
rotate(t, x, s) ==
  LET y == t.child[Other(s)][x]
      inner == t.child[s][y]
  IN  [Link(t, x, y) EXCEPT !.child[Other(s)][x] = inner, !.child[s][y] = x,
                            !.parent[inner] = IF inner # Nil THEN x ELSE @,
                            !.parent[y] = t.parent[x], !.parent[x] = y]

Paint(t, cells, color) ==
  [t EXCEPT !.color = [c \in Cells |-> IF c \in cells THEN color ELSE @[c]]]

(* The cells a search for k from a cell visits; the last is node k, or the *)
(* node under which k is missing.                                          *)
Path(t, from, k) ==
  LET Below(c) == t.child[IF k < c THEN "left" ELSE "right"][c]
      path[c \in Cells, n \in 0..Cardinality(Keys)] ==
        IF c = k \/ Below(c) = Nil \/ n = 0 THEN <<c>> ELSE <<c>> \o path[Below(c), n - 1]
  IN  path[from, Cardinality(Keys)]

SearchEnd(t, from, k) == LET path == Path(t, from, k) IN path[Len(path)]

findNode(t, k) == IF SearchEnd(t, t.root, k) = k THEN k ELSE Nil

minimum(t, x) == SearchEnd(t, x, Nil)

Has(k) == findNode(tree, k) = k

(* find: the value, or NoValue for false *)
find(k) == IF Has(k) THEN value[k] ELSE NoValue

-----------------------------------------------------------------------------
(* insert *)

InsertOverwrites(k, v) == /\ fix = Idle
                          /\ Has(k)
                          /\ value' = [value EXCEPT ![k] = v]
                          /\ UNCHANGED <<tree, count, fix>>

InsertLinks(k, v) ==
  LET y == SearchEnd(tree, tree.root, k)
  IN  /\ fix = Idle
      /\ ~Has(k)
      /\ tree' = IF y = Nil THEN [tree EXCEPT !.root = k]
                 ELSE [tree EXCEPT !.parent[k] = y,
                                   !.child[IF k < y THEN "left" ELSE "right"][y] = k]
      /\ value' = [value EXCEPT ![k] = v]
      /\ count' = count + 1
      /\ fix' = [Idle EXCEPT !.op = "insert", !.at = k]

insert(k, v) == InsertOverwrites(k, v) \/ InsertLinks(k, v)

(* insertFixup: z is red; its parent may be red too *)
z      == fix.at
father == tree.parent[z]
grand  == tree.parent[father]
uncle  == tree.child[Other(SideOf(tree, father))][grand]

RedUncle == /\ fix.op = "insert"
            /\ tree.color[father] = "red"
            /\ tree.color[uncle] = "red"
            /\ tree' = Paint(Paint(tree, {father, uncle}, "black"), {grand}, "red")
            /\ fix' = [fix EXCEPT !.at = grand]
            /\ UNCHANGED <<value, count>>

BlackUncle ==
  LET s       == SideOf(tree, father)
      isInner == z = tree.child[Other(s)][father]
      t       == IF isInner THEN rotate(tree, father, s) ELSE tree
      low     == IF isInner THEN father ELSE z
      mid     == t.parent[low]
      high    == t.parent[mid]
  IN  /\ fix.op = "insert"
      /\ tree.color[father] = "red"
      /\ tree.color[uncle] = "black"
      /\ tree' = rotate(Paint(Paint(t, {mid}, "black"), {high}, "red"), high, Other(s))
      /\ fix' = [fix EXCEPT !.at = low]
      /\ UNCHANGED <<value, count>>

InsertDone == /\ fix.op = "insert"
              /\ tree.color[father] = "black"
              /\ tree' = Paint(tree, {tree.root}, "black")
              /\ fix' = Idle
              /\ UNCHANGED <<value, count>>

-----------------------------------------------------------------------------
(* erase *)

(* A node with two children is replaced by its successor y, y by its right *)
(* child x.                                                                *)
SuccessorUp(t, old) ==
  LET y  == minimum(t, t.child["right"][old])
      x  == t.child["right"][y]
      t1 == IF t.parent[y] = old THEN [t EXCEPT !.parent[x] = y]
            ELSE LET up == transplant(t, y, x)
                 IN  [up EXCEPT !.child["right"][y] = up.child["right"][old],
                                !.parent[up.child["right"][old]] = y]
      t2 == transplant(t1, old, y)
  IN  [t2 EXCEPT !.child["left"][y] = t2.child["left"][old],
                 !.parent[t2.child["left"][old]] = y,
                 !.color[y] = t2.color[old]]

HasBoth(t, c) == \A s \in Sides : t.child[s][c] # Nil

(* The node that leaves its place, the subtree that takes it. *)
Leaver(t, k) == IF HasBoth(t, k) THEN minimum(t, t.child["right"][k]) ELSE k
Heir(t, k) ==
  LET y == Leaver(t, k)
  IN  t.child[IF t.child["left"][y] = Nil THEN "right" ELSE "left"][y]

Unlinked(t, k) == IF HasBoth(t, k) THEN SuccessorUp(t, k) ELSE transplant(t, k, Heir(t, k))

(* delete: the node is as new when its key is inserted again. *)
Freed(t, k) == [t EXCEPT !.child["left"][k] = Nil, !.child["right"][k] = Nil,
                         !.parent[k] = Nil, !.color[k] = "red"]

Delete(t, k) == /\ tree' = Freed(t, k)
                /\ value' = [value EXCEPT ![k] = NoValue]
                /\ count' = count - 1
                /\ fix' = Idle

EraseRed(k) == /\ fix = Idle
               /\ Has(k)
               /\ tree.color[Leaver(tree, k)] = "red"
               /\ Delete(Unlinked(tree, k), k)

EraseBlack(k) == /\ fix = Idle
                 /\ Has(k)
                 /\ tree.color[Leaver(tree, k)] = "black"
                 /\ tree' = Unlinked(tree, k)
                 /\ fix' = [op |-> "erase", at |-> Heir(tree, k), old |-> k]
                 /\ UNCHANGED <<value, count>>

EraseNothing(k) == /\ fix = Idle
                   /\ ~Has(k)
                   /\ UNCHANGED treeVars

erase(k) == EraseNothing(k) \/ EraseRed(k) \/ EraseBlack(k)

(* eraseFixup: the paths through x lack one black node. *)
LacksBlack == fix.op = "erase" /\ fix.at # tree.root /\ tree.color[fix.at] = "black"

(* A red sibling is turned above x, which gets a black one. *)
BlackSibling(t, x) ==
  LET s == SideOf(t, x)
      w == t.child[Other(s)][t.parent[x]]
  IN  IF t.color[w] = "black" THEN t
      ELSE rotate(Paint(Paint(t, {w}, "black"), {t.parent[x]}, "red"), t.parent[x], s)

Sibling(t, x) == t.child[Other(SideOf(t, x))][t.parent[x]]

SiblingBlackInside(t, x) ==
  LET w == Sibling(t, x) IN \A s \in Sides : t.color[t.child[s][w]] = "black"

MoveUp == LET t == BlackSibling(tree, fix.at)
          IN  /\ LacksBlack
              /\ SiblingBlackInside(t, fix.at)
              /\ tree' = Paint(t, {Sibling(t, fix.at)}, "red")
              /\ fix' = [fix EXCEPT !.at = t.parent[fix.at]]
              /\ UNCHANGED <<value, count>>

(* The sibling's red child fills the gap, the outer one once w is turned   *)
(* if only the inner one is red; x = m_root ends the loop.                 *)
OuterRed(t, x) ==
  LET s == SideOf(t, x)
      w == Sibling(t, x)
  IN  IF t.color[t.child[Other(s)][w]] = "red" THEN t
      ELSE rotate(Paint(Paint(t, {t.child[s][w]}, "black"), {w}, "red"), w, Other(s))

Fill(t, x) ==
  LET s == SideOf(t, x)
      p == t.parent[x]
      w == Sibling(t, x)
  IN  rotate(Paint(Paint(t, {w}, t.color[p]), {p, t.child[Other(s)][w]}, "black"), p, s)

Settle == LET t == BlackSibling(tree, fix.at)
          IN  /\ LacksBlack
              /\ ~SiblingBlackInside(t, fix.at)
              /\ tree' = Fill(OuterRed(t, fix.at), fix.at)
              /\ fix' = [fix EXCEPT !.at = tree'.root]
              /\ UNCHANGED <<value, count>>

EraseDone == /\ fix.op = "erase" /\ ~LacksBlack
             /\ Delete(Paint(tree, {fix.at}, "black"), fix.old)

-----------------------------------------------------------------------------

Fixup == RedUncle \/ BlackUncle \/ InsertDone \/ MoveUp \/ Settle \/ EraseDone

Next == Fixup \/ \E k \in Keys : erase(k) \/ \E v \in Values : insert(k, v)

Spec == Init /\ [][Next]_treeVars

-----------------------------------------------------------------------------
(* Properties *)

Present == {k \in Keys : Has(k)}

(* The missing children: the sides on which a node has none *)
Missing == {m \in Present \X Sides : tree.child[m[2]][m[1]] = Nil}

(* The black nodes above a missing child on side s of k; x, where the      *)
(* fixup of erase is, counts for one more.                                 *)
BlackHeight(k, s) ==
  LET path == Path(tree, tree.root, k)
      xIsMissing == fix.at = Nil /\ tree.parent[Nil] = k /\ SideOf(tree, Nil) = s
  IN  Cardinality({i \in DOMAIN path : tree.color[path[i]] = "black"})
      + (IF fix.op = "erase" /\ (xIsMissing \/ \E i \in DOMAIN path : path[i] = fix.at)
         THEN 1 ELSE 0)

(* All that hangs in the tree is found by the search, knows its parent and *)
(* is counted; nothing hangs in it that was erased.                        *)
Searchable ==
  /\ tree.root # Nil => Has(tree.root) /\ tree.parent[tree.root] = Nil
  /\ \A k \in Present, s \in Sides :
       LET c == tree.child[s][k] IN
         c # Nil => Has(c) /\ tree.parent[c] = k /\ (c < k <=> s = "left")
  /\ Cardinality(Present) = count - (IF fix.op = "erase" THEN 1 ELSE 0)

(* The tree is red-black between the calls: every missing child lies below *)
(* as many black nodes, and no red node below a red one.  Inside a call it *)
(* is red-black but for the node the loop is at, which may be red below a  *)
(* red one, and in erase above one.                                        *)
RedBlack ==
  /\ tree.color[Nil] = "black"
  /\ tree.root # fix.at => tree.color[tree.root] = "black"
  /\ \A k \in Present, s \in Sides :
       tree.color[k] = "red" /\ ~(fix.op = "erase" /\ k = fix.at) =>
         tree.child[s][k] = fix.at \/ tree.color[tree.child[s][k]] = "black"
  /\ Cardinality({BlackHeight(m[1], m[2]) : m \in Missing}) <= 1
=============================================================================
