----------------------------- MODULE SignalTree -----------------------------
(* The search tree in which the kernel finds a semaphore by its identifier,  *)
(* kernel/task/signal.c: balanced by rotations, larger identifiers to the    *)
(* left.  Identifiers are handed out in order and no semaphore is deleted.   *)
EXTENDS Integers, FiniteSets, FiniteSetsExt

CONSTANTS SignalLimit, \* BOUND: the semaphores that are created
          NoSignal     \* NULL

SignalTreeAssumption == SignalLimit \in Nat /\ NoSignal \notin Nat

VARIABLES tree,  \* [root, left, right, parent, factor]
          cur_id

vars == <<tree, cur_id>>

Signals == 0 .. cur_id - 1

\* No node has been made; create_signal_node clears the links of one.
Init == /\ LET clear == [id \in 0 .. SignalLimit - 1 |-> NoSignal]
           IN  tree = [root |-> NoSignal, left |-> clear, right |-> clear, parent |-> clear,
                       factor |-> [id \in 0 .. SignalLimit - 1 |-> 0]]
        /\ cur_id = 0
---------------------------------------------------------------------------
(* Rotations: n goes down on one side, and its child comes up. *)

\* The child up of n takes its place below the parent of n.
Replaced(t, n, up) ==
    LET p == t.parent[n]
    IN  IF p = NoSignal THEN [t EXCEPT !.root = up]
        ELSE IF n = t.left[p] THEN [t EXCEPT !.left[p] = up]
        ELSE [t EXCEPT !.right[p] = up]

Adopted(t, child, n) == IF child = NoSignal THEN t ELSE [t EXCEPT !.parent[child] = n]

\* Mutant of FixLL: the right child of the node that comes up is dropped.
FixLLDrops(t, n) ==
    LET up == t.left[n]
        u  == Replaced(t, n, up)
    IN  [u EXCEPT !.left[n] = NoSignal, !.right[up] = n,
                  !.parent[up] = t.parent[n], !.parent[n] = up,
                  !.factor[n] = 0, !.factor[up] = 0]

FixLL(t, n) ==
    LET up == t.left[n]
        u  == Adopted(Replaced(t, n, up), t.right[up], n)
    IN  [u EXCEPT !.left[n] = t.right[up], !.right[up] = n,
                  !.parent[up] = t.parent[n], !.parent[n] = up,
                  !.factor[n] = 0, !.factor[up] = 0]

FixRR(t, n) ==
    LET up == t.right[n]
        u  == Adopted(Replaced(t, n, up), t.left[up], n)
    IN  [u EXCEPT !.right[n] = t.left[up], !.left[up] = n,
                  !.parent[up] = t.parent[n], !.parent[n] = up,
                  !.factor[n] = 0, !.factor[up] = 0]

FixLR(t, n) ==
    LET subl == t.left[n]
        old  == t.factor[t.right[subl]]
        u    == FixLL(FixRR(t, subl), n)
    IN  IF old = 1 THEN [u EXCEPT !.factor[subl] = -1]
        ELSE IF old = -1 THEN [u EXCEPT !.factor[n] = 1]
        ELSE u

\* Here the factors are not adjusted.
FixRL(t, n) == FixRR(FixLL(t, t.right[n]), n)

Rotated(t, n) ==
    CASE t.factor[n] = -2 -> IF t.factor[t.left[n]] = -1 THEN FixLL(t, n) ELSE FixLR(t, n)
      [] t.factor[n] = 2  -> IF t.factor[t.right[n]] = 1 THEN FixRR(t, n) ELSE FixRL(t, n)
      [] OTHER            -> t
---------------------------------------------------------------------------
(* __insert_signal. *)

\* The way up: n has grown by one.
RECURSIVE Retraced(_, _)
Retraced(t, n) ==
    LET p == t.parent[n]
        u == IF n = t.left[p] THEN [t EXCEPT !.factor[p] = @ - 1]
                              ELSE [t EXCEPT !.factor[p] = @ + 1]
    IN  IF p = NoSignal THEN t
        ELSE IF u.factor[p] = 0 THEN u
        ELSE IF u.factor[p] \in {1, -1} THEN Retraced(u, p)
        ELSE Rotated(u, p)

\* The way down, from p: id becomes the first child that is missing.
RECURSIVE Inserted(_, _, _)
Inserted(t, p, id) ==
    IF id > p THEN IF t.left[p] = NoSignal
                   THEN Retraced([t EXCEPT !.left[p] = id, !.parent[id] = p], id)
                   ELSE Inserted(t, t.left[p], id)
    ELSE IF t.right[p] = NoSignal
         THEN Retraced([t EXCEPT !.right[p] = id, !.parent[id] = p], id)
         ELSE Inserted(t, t.right[p], id)

\* __create_signal, as far as the tree.
CreateSignal ==
    /\ cur_id < SignalLimit
    /\ cur_id' = cur_id + 1
    /\ tree' = IF tree.root = NoSignal THEN [tree EXCEPT !.root = cur_id]
               ELSE Inserted(tree, tree.root, cur_id)

Next == CreateSignal

Spec == Init /\ [][Next]_vars
---------------------------------------------------------------------------
\* get_signal, from a node down.
RECURSIVE Found(_, _)
Found(n, id) == IF n \in {NoSignal, id} THEN n
                ELSE Found(IF id > n THEN tree.left[n] ELSE tree.right[n], id)

RECURSIVE Height(_)
Height(n) == IF n = NoSignal THEN 0
             ELSE 1 + Max({Height(tree.left[n]), Height(tree.right[n])})

SignalTreeTypeOK == tree.root \in Signals \cup {NoSignal} /\ cur_id \in 0 .. SignalLimit

\* Every semaphore that has been created is found, and no other identifier; the
\* tree is balanced, with the factors that say so, which the next insertion
\* goes by.
SignalsAreFound ==
    /\ \A id \in 0 .. SignalLimit - 1 :
          Found(tree.root, id) = (IF id \in Signals THEN id ELSE NoSignal)
    /\ \A id \in Signals :
          /\ tree.factor[id] = Height(tree.right[id]) - Height(tree.left[id])
          /\ tree.factor[id] \in -1 .. 1
=============================================================================
