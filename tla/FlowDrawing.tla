----------------------------- MODULE FlowDrawing -----------------------------
(***************************************************************************)
(* Where the symbols of a flowchart go (mindmap_flow.rs): arrows that      *)
(* close a cycle are found depth-first and taken as reversed, a symbol     *)
(* goes in the layer after the longest path to it, a layer is packed with  *)
(* a gap, and an arrow across layers holds a slot in each it crosses.      *)
(*                                                                         *)
(* Lengths are whole pixels.  `along' runs with the arrows and `across'    *)
(* along a layer, whichever way the chart is drawn.  The order in a layer  *)
(* is left open: the sweeps that choose it are an aesthetic.               *)
(***************************************************************************)
EXTENDS Integers, Sequences, FiniteSets, FiniteSetsExt, SequencesExt, Functions

CONSTANTS Symbols,   \* 1 .. n, in the order of the map's rows
          MaxArrows, \* bound: arrows of the chart
          Boxes,     \* the sizes a symbol may have: [along, across], a gate's caption in it
          RefWidths  \* the widths of the list of entries an arrow points at

ASSUME FlowDrawingAssumption ==
    /\ Symbols \subseteq Nat \ {0} /\ IsFiniteSet(Symbols) /\ MaxArrows \in Nat /\ RefWidths \subseteq Nat
    /\ Boxes \subseteq [along : Nat, across : Nat]

Gap == 36        \* GAP
LayerGap == 56   \* LAYER_GAP
LaneStep == 14   \* between two arrows that loop back
Slot == 14       \* the box of a waypoint
Margin == 32     \* MARGIN

VARIABLES arrows,  \* the map's edges in order: [from, to, refs]
          size,    \* [Symbols -> Boxes]
          stage,   \* "waiting", "marking", "layering", "packing" or "drawn"
          mark,    \* [Symbols -> 0, 1 on the stack, 2 done]
          stack,   \* <<symbol, place from which its arrows are still to try>>
          back,    \* pairs that close a cycle
          layer,   \* [Symbols -> Nat]
          indeg,   \* [Symbols -> arrows not yet followed]
          queue,   \* symbols whose layer is known
          drawnIn, \* layers packed
          across   \* [symbols and waypoints placed -> centre]

flowVars == <<arrows, size, stage, mark, stack, back, layer, indeg, queue, drawnIn, across>>

Arrow == [from : Symbols, to : Symbols, refs : RefWidths]

FlowTypeOK ==
    /\ arrows \in Seq(Arrow) /\ Len(arrows) <= MaxArrows
    /\ DOMAIN size \subseteq Symbols /\ Range(size) \subseteq Boxes
    /\ stage \in {"waiting", "marking", "layering", "packing", "drawn"}
    /\ mark \in [Symbols -> 0 .. 2] /\ stack \in Seq(Symbols \X (1 .. MaxArrows + 1))
    /\ back \subseteq Symbols \X Symbols
    /\ layer \in [Symbols -> Nat] /\ indeg \in [Symbols -> Nat] /\ queue \in Seq(Symbols)
    /\ drawnIn \in Nat /\ \A x \in DOMAIN across : across[x] \in Int

Zero == [s \in Symbols |-> 0]

FlowInit ==
    /\ arrows = <<>> /\ size = <<>>
    /\ stage = "waiting" /\ mark = Zero /\ stack = <<>> /\ back = {}
    /\ layer = Zero /\ indeg = Zero /\ queue = <<>> /\ drawnIn = 0 /\ across = <<>>

\* The map as it is: its symbols measured, its arrows but those to themselves.
Measure ==
    /\ stage = "waiting" /\ stage' = "marking"
    /\ arrows' \in {a \in BoundedSeq(Arrow, MaxArrows) : \A i \in DOMAIN a : a[i].from # a[i].to}
    /\ size' \in [Symbols -> Boxes]
    /\ UNCHANGED <<mark, stack, back, layer, indeg, queue, drawnIn, across>>

-----------------------------------------------------------------------------
(* Arrows that close a cycle, depth-first in node order.                   *)

Pair(a) == <<a.from, a.to>>

\* The places, from i on, of the arrows that leave v.
Out(v, i) == {j \in DOMAIN arrows : i <= j /\ arrows[j].from = v}

\* Only an arrow to a symbol still on the stack closes a cycle.
\* Mutant: so does one to a symbol met before.
ClosesDone(w) == mark[w] # 0
Closes(w) == mark[w] = 1

Open == {s \in Symbols : mark[s] = 0}

StartMarking ==
    /\ stage = "marking" /\ stack = <<>> /\ Open # {}
    /\ mark' = [mark EXCEPT ![Min(Open)] = 1]
    /\ stack' = <<<<Min(Open), 1>>>>
    /\ UNCHANGED <<arrows, size, stage, back, layer, indeg, queue, drawnIn, across>>

MarkStep ==
    /\ stage = "marking" /\ stack # <<>>
    /\ LET v == Last(stack)[1]
           left == Out(v, Last(stack)[2])
           i == Min(left)
           w == arrows[i].to
           on == Append(Front(stack), <<v, i + 1>>)
       IN  \/ /\ left = {}
              /\ mark' = [mark EXCEPT ![v] = 2] /\ stack' = Front(stack) /\ UNCHANGED back
           \/ /\ left # {} /\ Closes(w)
              /\ back' = back \cup {<<v, w>>} /\ stack' = on /\ UNCHANGED mark
           \/ /\ left # {} /\ ~Closes(w) /\ mark[w] # 0
              /\ stack' = on /\ UNCHANGED <<mark, back>>
           \/ /\ left # {} /\ ~Closes(w) /\ mark[w] = 0
              /\ mark' = [mark EXCEPT ![w] = 1]
              /\ stack' = Append(on, <<w, 1>>) /\ UNCHANGED back
    /\ UNCHANGED <<arrows, size, stage, layer, indeg, queue, drawnIn, across>>

-----------------------------------------------------------------------------
(* A symbol's layer: the longest path to it, back arrows reversed.         *)

Dag == [i \in DOMAIN arrows |->
            IF Pair(arrows[i]) \in back THEN <<arrows[i].to, arrows[i].from>> ELSE Pair(arrows[i])]

HopsTo(v, w) == Cardinality({i \in DOMAIN Dag : Dag[i] = <<v, w>>})

StartLayering ==
    /\ stage = "marking" /\ stack = <<>> /\ Open = {}
    /\ stage' = "layering"
    /\ indeg' = [w \in Symbols |-> Cardinality({i \in DOMAIN Dag : Dag[i][2] = w})]
    /\ queue' \in {q \in SetToSeqs({w \in Symbols : indeg'[w] = 0}) :
                     \A i, j \in DOMAIN q : i < j => q[i] < q[j]}
    /\ UNCHANGED <<arrows, size, mark, stack, back, layer, drawnIn, across>>

LayerStep ==
    /\ stage = "layering" /\ queue # <<>>
    /\ LET v == Head(queue)
           next == {w \in Symbols : HopsTo(v, w) > 0}
           freed == {w \in next : indeg[w] = HopsTo(v, w)}
       IN  /\ layer' = [w \in Symbols |-> IF w \in next THEN Max({layer[w], layer[v] + 1}) ELSE layer[w]]
           /\ indeg' = [w \in Symbols |-> indeg[w] - HopsTo(v, w)]
           /\ \E order \in SetToSeqs(freed) : queue' = Tail(queue) \o order
    /\ UNCHANGED <<arrows, size, stage, mark, stack, back, drawnIn, across>>

StartPacking ==
    /\ stage = "layering" /\ queue = <<>>
    /\ stage' = "packing"
    /\ UNCHANGED <<arrows, size, mark, stack, back, layer, indeg, queue, drawnIn, across>>

-----------------------------------------------------------------------------
(* Packing.  What stands in a layer is <<symbol>> or a waypoint            *)
(* <<from, to, layer>>: a forward arrow has one in every layer between its *)
(* ends.                                                                   *)

Forward == {Pair(arrows[i]) : i \in DOMAIN arrows} \ back
Layers == 0 .. Max(Range(layer))

Crossing(l) == {<<p[1], p[2], l>> : p \in {q \in Forward : layer[q[1]] < l /\ l < layer[q[2]]}}
Row(l) == {<<s>> : s \in {t \in Symbols : layer[t] = l}} \cup Crossing(l)

IsSymbol(x) == Len(x) = 1
Across(x) == IF IsSymbol(x) THEN size[x[1]].across ELSE Slot
Along(x) == IF IsSymbol(x) THEN size[x[1]].along ELSE Slot

\* One hop before x on each arrow to it: a symbol, or a waypoint one layer up.
Preds(x) ==
    LET hop(p, l) == IF layer[p[1]] = l - 1 THEN <<p[1]>> ELSE <<p[1], p[2], l - 1>>
    IN  IF IsSymbol(x) THEN {hop(p, layer[x[1]]) : p \in {q \in Forward : q[2] = x[1]}}
        ELSE {hop(x, x[3])}

Mean(f) == SumFunction(f) \div Cardinality(DOMAIN f)
Led(x) == Preds(x) # {}
Wanted(x) == Mean([p \in Preds(x) |-> across[p]])

\* The least centre that keeps the gap to the one before.
\* Mutant: half of the one before is forgotten.
AfterHalf(prev, x, at) == at + (Across(x) \div 2) + Gap
After(prev, x, at) == at + ((Across(prev) + Across(x)) \div 2) + Gap

\* Each as close to the mean of its predecessors as the gap allows; then the
\* layer moves toward where it wanted to be.
Spread(row) ==
    LET pos[i \in DOMAIN row] ==
            IF i = 1 THEN IF Led(row[1]) THEN Wanted(row[1]) ELSE 0
            ELSE LET least == After(row[i - 1], row[i], pos[i - 1])
                 IN  IF Led(row[i]) THEN Max({Wanted(row[i]), least}) ELSE least
    IN  pos

Shift(row, pos) ==
    LET leds == {i \in DOMAIN row : Led(row[i])}
    IN  IF leds = {} THEN -((pos[1] + pos[Len(row)]) \div 2)
        ELSE Mean([i \in leds |-> Wanted(row[i]) - pos[i]])

Pack(row) ==
    LET pos == Spread(row)
        shift == Shift(row, pos)
    IN  [x \in Range(row) |-> pos[CHOOSE i \in DOMAIN row : row[i] = x] + shift]

PackRow ==
    /\ stage = "packing" /\ drawnIn \in Layers
    /\ \E row \in SetToSeqs(Row(drawnIn)) :
           LET new == Pack(row)
           IN  across' = [x \in DOMAIN new \cup DOMAIN across |-> IF x \in DOMAIN new THEN new[x] ELSE across[x]]
    /\ drawnIn' = drawnIn + 1
    /\ UNCHANGED <<arrows, size, stage, mark, stack, back, layer, indeg, queue>>

Draw ==
    /\ stage = "packing" /\ drawnIn \notin Layers
    /\ stage' = "drawn"
    /\ UNCHANGED <<arrows, size, mark, stack, back, layer, indeg, queue, drawnIn, across>>

FlowNext == Measure \/ StartMarking \/ MarkStep \/ StartLayering \/ LayerStep \/ StartPacking \/ PackRow \/ Draw

FlowSpec == FlowInit /\ [][FlowNext]_flowVars

-----------------------------------------------------------------------------
(* The picture: arrows that loop back run in lanes of their own past the   *)
(* widest layer; the branches of a decision leave through its vertices.    *)

IsBack(a) == layer[a.from] >= layer[a.to]
Backs == {i \in DOMAIN arrows : IsBack(arrows[i])}

Thick(l) == Max({Along(x) : x \in Row(l)})
Start[l \in Nat] == IF l = 0 THEN 0 ELSE Start[l - 1] + Thick(l - 1) + LayerGap

\* Past everything placed: where the lanes start, and where the page ends.
LanesFrom == Max({across[x] + (Across(x) \div 2) : x \in DOMAIN across} \cup {0})
Lane(i) == LanesFrom + 16 + LaneStep * Cardinality({j \in Backs : j < i})
PageEnd ==
    IF Backs = {} THEN LanesFrom + Margin ELSE LanesFrom + 16 + LaneStep * Cardinality(Backs) + 16 + Margin

\* Along, where the leg of a loop leaves its symbol for the lane.
LegOut(a) == Start[layer[a.from]] + ((Thick(layer[a.from]) + size[a.from].along) \div 2) + ((LayerGap * 35) \div 100)

\* The forward arrows that leave v, by where they first head.
Toward(i) ==
    LET p == Pair(arrows[i])
    IN  across[IF layer[p[2]] = layer[p[1]] + 1 THEN <<p[2]>> ELSE <<p[1], p[2], layer[p[1]] + 1>>]
Branches(v) ==
    SetToSortSeq({i \in DOMAIN arrows : arrows[i].from = v /\ ~IsBack(arrows[i])},
                 LAMBDA i, j : Toward(i) < Toward(j) \/ (Toward(i) = Toward(j) /\ i < j))

\* The vertex of the i-th branch of v drawn as a decision: -1 the near side,
\* 1 the far side, 0 ahead.
Vertex(v, i) ==
    LET rel(k) == Toward(Branches(v)[k]) - across[<<v>>]
        thr == Max({size[v].along, size[v].across}) \div 3
        n == Len(Branches(v))
    IN  CASE n = 1 -> IF rel(1) > thr THEN 1 ELSE IF rel(1) < -thr THEN -1 ELSE 0
          [] n > 1 /\ i = 1 -> IF rel(1) < -thr \/ (n > 2 /\ rel(1) < 0) THEN -1 ELSE 0
          [] n > 1 /\ i = n -> IF n = 2 /\ rel(1) < -thr /\ -thr <= rel(2) /\ rel(2) <= thr THEN 0 ELSE 1
          [] OTHER -> 0

-----------------------------------------------------------------------------
(* Properties.                                                             *)

Drawn == stage = "drawn"

(* Whatever the arrows, the chart can be drawn: every symbol gets a layer, *)
(* an arrow that closes no cycle goes to a later one and one that does     *)
(* goes back, so that what is drawn as a loop is what was found to be one  *)
(* (layout_full, is_back).                                                 *)
LayersFollow ==
    stage \in {"packing", "drawn"} =>
        /\ indeg = Zero
        /\ \A i \in DOMAIN arrows : Pair(arrows[i]) \in back <=> IsBack(arrows[i])

(* No two symbols touch, and an arrow across layers passes between the     *)
(* symbols: within a layer all slots keep the gap, and layers are stacked  *)
(* with one (Placed::overlaps, Routes).                                    *)
SlotsApart ==
    Drawn => \A l \in Layers : \A x, y \in Row(l) :
        x # y => \/ across[x] + Across(x) \div 2 < across[y] - Across(y) \div 2
                 \/ across[y] + Across(y) \div 2 < across[x] - Across(x) \div 2

(* Loops run in lanes of their own past every box and inside the page, and *)
(* the two answers of a decision leave it at different vertices.           *)
ArrowsApart ==
    Drawn =>
        /\ \A i, j \in Backs : i # j => Lane(i) # Lane(j)
        /\ \A i \in Backs : LanesFrom < Lane(i) /\ Lane(i) < PageEnd
        /\ \A v \in Symbols : Len(Branches(v)) = 2 => Vertex(v, 1) # Vertex(v, 2)

FlowDrawn == LayersFollow /\ SlotsApart /\ ArrowsApart

(* "diamond; each branch leaves through its own vertex" (README.md:340).   *)
(* The first of three or more leaves ahead, as the middle one does, when   *)
(* none of them heads for the near side.                                   *)
OwnVertex ==
    Drawn => \A v \in Symbols : \A i, j \in DOMAIN Branches(v) : i # j => Vertex(v, i) # Vertex(v, j)

(* "Loop-back arrows run beside the layers: room for them" and for their   *)
(* labels (mindmap_flow.rs:468-474).  The room is measured without the     *)
(* entries the arrow points at, which are written after its label.         *)
LabelsInPage ==
    Drawn => \A i \in Backs : arrows[i].refs > 0 => Lane(i) + 10 + arrows[i].refs <= PageEnd

(* "out of the far side into the gap after the source's layer"             *)
(* (mindmap_flow.rs:636-638).  The leg is measured from the symbol, not    *)
(* from its layer: beside a symbol that is taller it runs through it.      *)
LegInGap ==
    Drawn => \A i \in Backs : LegOut(arrows[i]) >= Start[layer[arrows[i].from]] + Thick(layer[arrows[i].from])
=============================================================================
