---------------------------- MODULE PartRegions ----------------------------
(***************************************************************************)
(* How the worker finds the pieces of a grouped photo: the breadth-first   *)
(* search over a small grid of foreground cells (_components in parts.py), *)
(* step by step, and the proposals made from its regions. Cells count from *)
(* one, so that a region's last row and column are the code's "+ 1".       *)
(***************************************************************************)
EXTENDS Integers, Sequences, FiniteSets

CONSTANTS
  Height, Width,  \* the grid, at most GRID_EDGE on a side
  MaxParts,       \* MAX_PARTS
  MinArea         \* cells of the smallest region that is not noise

Cells == (1..Height) \X (1..Width)

VARIABLES
  foreground,  \* the cells of the mask above the threshold
  seen,        \* cells found so far
  queue,       \* found cells whose neighbours are to be looked at
  region,      \* the region being grown: its area and its bounds
  regions      \* the regions completed

vars == <<foreground, seen, queue, region, regions>>

Empty == [area |-> 0, top |-> Height + 1, left |-> Width + 1, bottom |-> 0, right |-> 0]

Init ==
  /\ foreground \in SUBSET Cells
  /\ seen = {} /\ queue = <<>> /\ region = Empty /\ regions = <<>>

Least(a, b) == IF a <= b THEN a ELSE b
Most(a, b) == IF a >= b THEN a ELSE b

(* Row by row, as np.nonzero lists them. *)
Before(c, d) == c[1] < d[1] \/ (c[1] = d[1] /\ c[2] < d[2])

NextStart == CHOOSE c \in foreground \ seen : \A d \in foreground \ seen : c = d \/ Before(c, d)

Neighbours(c) == {d \in foreground : (c[1] - d[1]) \in -1..1 /\ (c[2] - d[2]) \in -1..1}

(* The order in which a cell's new neighbours join the queue. *)
InOrder(S) == [i \in 1..Cardinality(S) |->
                 CHOOSE c \in S : Cardinality({d \in S : Before(d, c)}) = i - 1]

Grown(c) ==
  [area |-> region.area + 1,
   top |-> Least(region.top, c[1]), left |-> Least(region.left, c[2]),
   bottom |-> Most(region.bottom, c[1]), right |-> Most(region.right, c[2])]

Start ==
  /\ queue = <<>> /\ region = Empty /\ foreground # seen
  /\ queue' = <<NextStart>>
  /\ seen' = seen \cup {NextStart}
  /\ UNCHANGED <<foreground, region, regions>>

(* A neighbour is marked as it joins the queue, not as it leaves it. *)
MarkedLate(c, new) == seen \cup {c}
Marked(c, new) == seen \cup new

Visit ==
  LET c == Head(queue)
      new == Neighbours(c) \ seen
  IN /\ queue # <<>>
     /\ region' = Grown(c)
     /\ seen' = Marked(c, new)
     /\ queue' = Tail(queue) \o InOrder(new)
     /\ UNCHANGED <<foreground, regions>>

Complete ==
  /\ queue = <<>> /\ region # Empty
  /\ regions' = Append(regions, region)
  /\ region' = Empty
  /\ UNCHANGED <<foreground, seen, queue>>

Next == Start \/ Visit \/ Complete

Spec == Init /\ [][Next]_vars

Done == queue = <<>> /\ region = Empty /\ foreground = seen

(* sorted(regions, reverse=True): by area, then by position. *)
Ranked(i, j) ==
  LET key(r) == <<r.area, r.top, r.left, r.bottom, r.right>>
      differ == {n \in 1..5 : key(regions[i])[n] # key(regions[j])[n]}
      n == CHOOSE n \in differ : \A k \in differ : n <= k
  IN IF differ = {} THEN i < j ELSE key(regions[i])[n] > key(regions[j])[n]

AsFound == [i \in 1..Len(regions) |-> i]
Sorted == [n \in 1..Len(regions) |->
             CHOOSE i \in 1..Len(regions) :
               Cardinality({j \in 1..Len(regions) : j # i /\ Ranked(j, i)}) = n - 1]

(* The first MaxParts, up to the first that is noise: indexes of regions. *)
Proposals ==
  {Sorted[i] : i \in {i \in 1..Least(Len(regions), MaxParts) :
                        \A j \in 1..i : regions[Sorted[j]].area >= MinArea}}

-----------------------------------------------------------------------------
TypeOK ==
  /\ foreground \subseteq Cells /\ seen \subseteq foreground
  /\ queue \in Seq(Cells)
  /\ region \in [area : 0..Height * Width, top : 1..Height + 1, left : 1..Width + 1,
                 bottom : 0..Height, right : 0..Width]
  /\ Len(regions) <= Height * Width

(* Reference: the cells connected to a cell. *)
Adjacent(c, d) == c # d /\ c[1] - d[1] \in -1..1 /\ c[2] - d[2] \in -1..1
Component(a) ==
  LET reach[n \in 0..Height * Width] ==
        IF n = 0 THEN {a}
        ELSE LET near == reach[n - 1]
             IN near \cup {d \in foreground : \E c \in near : Adjacent(c, d)}
  IN reach[Height * Width]
Components == {Component(a) : a \in foreground}

Bounds(C) ==
  [area |-> Cardinality(C),
   top |-> CHOOSE y \in 1..Height : (\E c \in C : c[1] = y) /\ \A c \in C : y <= c[1],
   left |-> CHOOSE x \in 1..Width : (\E c \in C : c[2] = x) /\ \A c \in C : x <= c[2],
   bottom |-> CHOOSE y \in 1..Height : (\E c \in C : c[1] = y) /\ \A c \in C : y >= c[1],
   right |-> CHOOSE x \in 1..Width : (\E c \in C : c[2] = x) /\ \A c \in C : x >= c[2]]

(* No cell is counted in two regions or twice in one, at any point of the  *)
(* search: what was counted and what is queued are the cells found.        *)
CountedOnce ==
  LET total[n \in 0..Len(regions)] == IF n = 0 THEN region.area ELSE total[n - 1] + regions[n].area
  IN total[Len(regions)] + Len(queue) = Cardinality(seen)

(* When the search ends its regions are the connected components of the    *)
(* foreground, corners included, each with its area and its bounds.        *)
RegionsAreComponents ==
  Done => /\ Len(regions) = Cardinality(Components)
          /\ \A C \in Components : \E i \in 1..Len(regions) : regions[i] = Bounds(C)

(* No region worth proposing is passed over for a smaller one: stopping at *)
(* the first small region loses nothing but noise and what is past the     *)
(* limit.                                                                  *)
LargestProposed ==
  Done => \A i \in (1..Len(regions)) \ Proposals :
            \/ regions[i].area < MinArea
            \/ /\ Cardinality(Proposals) = MaxParts
               /\ \A j \in Proposals : regions[j].area >= regions[i].area
=============================================================================
