----------------------------- MODULE TreeDrawing -----------------------------
(***************************************************************************)
(* Drawing a mind map (mindmap_svg.rs): how a node's text is wrapped, and  *)
(* where the boxes go: the topic in the middle, its branches on two sides, *)
(* every subtree in a band of its own, a column for each depth.            *)
(*                                                                         *)
(* Lengths are whole; a letter, a space and the ellipsis are 1 wide.       *)
(***************************************************************************)
EXTENDS Integers, Sequences, FiniteSets, FiniteSetsExt, SequencesExt, Functions

CONSTANTS MaxWords,  \* bound: words of a text
          WordSizes, \* letters of a word
          MaxWidth,  \* letters of a line
          MaxLines,  \* MAX_LINES
          MaxNodes,  \* bound: nodes of the map, the topic among them
          NodeSizes  \* the sizes of a box: [w, h], even numbers

ASSUME TreeDrawingAssumption ==
    /\ WordSizes \subseteq Nat \ {0} /\ {MaxWords, MaxWidth, MaxLines, MaxNodes} \subseteq Nat \ {0}
    /\ NodeSizes \subseteq [w : Nat, h : Nat]

HGap == 64  \* H_GAP
VGap == 14  \* V_GAP
Topic == 1
Ellipsis == 1

VARIABLES drawing,   \* "nothing", "wrapping", "wrapped", "splitting", "placed"
          given,     \* the letters of the text to wrap
          text,      \* the letters of each of its words not yet taken
          remaining, \* letters of the word in hand not yet written
          line,      \* the line in hand: [wide, letters]
          lines,     \* the lines written, as the one in hand
          told,      \* truncated: the last line ends in an ellipsis
          up,        \* [nodes but the topic -> parent], parents first
          box,       \* [nodes -> NodeSizes]
          side       \* [topic's children split so far -> 1 right, -1 left]

treeVars == <<drawing, given, text, remaining, line, lines, told, up, box, side>>

Line == [wide : Nat, letters : Nat]
Blank == [wide |-> 0, letters |-> 0]

TreeTypeOK ==
    /\ drawing \in {"nothing", "wrapping", "wrapped", "splitting", "placed"}
    /\ given \in Nat /\ text \in Seq(WordSizes) /\ remaining \in Nat /\ line \in Line /\ lines \in Seq(Line) /\ told \in BOOLEAN
    /\ \A i \in DOMAIN up : up[i] \in 1 .. i - 1
    /\ Range(box) \subseteq NodeSizes /\ Range(side) \subseteq {-1, 1}

TreeInit ==
    /\ drawing = "nothing"
    /\ given = 0 /\ text = <<>> /\ remaining = 0 /\ line = Blank /\ lines = <<>> /\ told = FALSE
    /\ up = <<>> /\ box = <<>> /\ side = <<>>

-----------------------------------------------------------------------------
(* Greedy wrap to MaxWidth; a word wider than a line is cut.               *)

NextWord ==
    /\ \/ /\ drawing = "nothing"
          /\ text' \in BoundedSeq(WordSizes, MaxWords) /\ remaining' = 0
          /\ given' = SumFunction(text')
       \/ /\ drawing = "wrapping" /\ remaining = 0 /\ text # <<>>
          /\ text' = Tail(text) /\ remaining' = Head(text) /\ UNCHANGED given
    /\ drawing' = "wrapping"
    /\ UNCHANGED <<line, lines, told, up, box, side>>

Room == IF line = Blank THEN remaining ELSE line.wide + 1 + remaining

PutWord ==
    /\ drawing = "wrapping" /\ remaining > 0 /\ Room <= MaxWidth
    /\ line' = [wide |-> Room, letters |-> line.letters + remaining]
    /\ remaining' = 0
    /\ UNCHANGED <<drawing, given, text, lines, told, up, box, side>>

\* The word does not fit: the line is written, or, empty, takes what it can.
Breaks == drawing = "wrapping" /\ remaining > 0 /\ Room > MaxWidth

\* Mutant of Full: the line too many is left off and nobody is told.
FullUntold(ls) == FALSE
\* No line is left for what remains.
Full(ls) == Len(ls) >= MaxLines

EndLine ==
    /\ Breaks
    /\ IF line # Blank THEN lines' = Append(lines, line) /\ line' = Blank /\ remaining' = remaining
       ELSE /\ lines' = Append(lines, [wide |-> MaxWidth, letters |-> MaxWidth])
            /\ remaining' = remaining - MaxWidth /\ line' = line
    /\ told' = (remaining' > 0 /\ Full(lines'))
    /\ drawing' = IF told' THEN "wrapped" ELSE drawing
    /\ UNCHANGED <<given, text, up, box, side>>

EndText ==
    /\ drawing = "wrapping" /\ remaining = 0 /\ text = <<>>
    /\ told' = (line # Blank /\ Full(lines))
    /\ lines' = IF line = Blank \/ told' THEN lines ELSE Append(lines, line)
    /\ line' = IF told' THEN line ELSE Blank
    /\ drawing' = "wrapped"
    /\ UNCHANGED <<given, text, remaining, up, box, side>>

\* What is drawn: MaxLines at most, the last one short enough for the ellipsis.
Written ==
    LET kept == SubSeq(lines, 1, Min({Len(lines), MaxLines}))
    IN  [i \in DOMAIN kept |->
            IF told /\ i = Len(kept) THEN Min({kept[i].wide, MaxWidth - Ellipsis}) + Ellipsis ELSE kept[i].wide]

-----------------------------------------------------------------------------
(* The tree.                                                               *)

TreeNodes == DOMAIN box
Kids(i) == {k \in DOMAIN up : up[k] = i}
Before(i) == {k \in Kids(up[i]) : k < i}

\* The height of bands one above the other, heights[k] that of k's.
Stacked(heights) ==
    SumFunction(heights) + VGap * (IF DOMAIN heights = {} THEN 0 ELSE Cardinality(DOMAIN heights) - 1)

\* Mutant of Tall: a band as high as its children only.
TallAsKids(own, kids) == IF kids = 0 THEN own ELSE kids
Tall(own, kids) == Max({own, kids})

\* The height of the band of i's subtree; KidsTall, of what hangs on it.
Band[i \in TreeNodes] == Tall(box[i].h, Stacked([k \in Kids(i) |-> Band[k]]))
KidsTall(i) == Stacked([k \in Kids(i) |-> Band[k]])

MeasureText ==
    /\ drawing = "nothing" /\ drawing' = "splitting"
    /\ \E n \in 1 .. MaxNodes :
         /\ box' \in [1 .. n -> NodeSizes]
         /\ up' \in {u \in [2 .. n -> 1 .. n] : \A i \in 2 .. n : u[i] < i}
    /\ UNCHANGED <<given, text, remaining, line, lines, told, side>>

OnSide(s) == {k \in DOMAIN side : side[k] = s}
Filled(s) == SumFunction([k \in OnSide(s) |-> Band[k] + VGap])
Unsplit == Kids(Topic) \ DOMAIN side

\* The topic's children in order, each to the shorter side.
Split ==
    /\ drawing = "splitting" /\ Unsplit # {}
    /\ LET k == Min(Unsplit)
       IN  side' = [j \in DOMAIN side \cup {k} |->
                        IF j # k THEN side[j] ELSE IF Filled(1) <= Filled(-1) THEN 1 ELSE -1]
    /\ UNCHANGED <<drawing, given, text, remaining, line, lines, told, up, box>>

PlaceBox ==
    /\ drawing = "splitting" /\ Unsplit = {}
    /\ drawing' = "placed"
    /\ UNCHANGED <<given, text, remaining, line, lines, told, up, box, side>>

Depth[i \in TreeNodes] == IF i = Topic THEN 0 ELSE Depth[up[i]] + 1
SideOf[i \in TreeNodes] == IF i = Topic THEN 0 ELSE IF up[i] = Topic THEN side[i] ELSE SideOf[up[i]]

\* The widest box at depth d of side s, and the near edge of that column.
Widest(s, d) == Max({box[i].w : i \in {j \in TreeNodes : SideOf[j] = s /\ Depth[j] = d}} \cup {0})
Edge(s, d) == (box[Topic].w \div 2) + HGap + SumFunction([e \in 1 .. d - 1 |-> Widest(s, e) + HGap])

X(i) == IF i = Topic THEN 0 ELSE SideOf[i] * (Edge(SideOf[i], Depth[i]) + (Widest(SideOf[i], Depth[i]) \div 2))

\* The top of the band of i: after those before it, its parent's children
\* centred in the parent's band, a side's branches centred on the topic.
Top[i \in DOMAIN up] ==
    IF up[i] = Topic
    THEN LET peers == OnSide(side[i])
         IN  -(Stacked([k \in peers |-> Band[k]]) \div 2)
             + SumFunction([k \in {j \in peers : j < i} |-> Band[k] + VGap])
    ELSE Top[up[i]] + ((Band[up[i]] - KidsTall(up[i])) \div 2)
             + SumFunction([k \in Before(i) |-> Band[k] + VGap])

Y(i) == IF i = Topic THEN 0 ELSE Top[i] + (Band[i] \div 2)

TreeNext == NextWord \/ PutWord \/ EndLine \/ EndText \/ MeasureText \/ Split \/ PlaceBox

TreeSpec == TreeInit /\ [][TreeNext]_treeVars

-----------------------------------------------------------------------------
(* Properties.                                                             *)

(* No two boxes touch, the topic's among them, whatever the tree and the   *)
(* sizes: "every subtree in its own band, so no two nodes can overlap by   *)
(* construction" (layout).                                                 *)
BoxesApart ==
    drawing = "placed" => \A i, j \in TreeNodes :
        i < j => \/ 2 * Max({X(i) - X(j), X(j) - X(i)}) >= box[i].w + box[j].w
                 \/ 2 * Max({Y(i) - Y(j), Y(j) - Y(i)}) >= box[i].h + box[j].h

(* A wrapped text fits its box, and a reader is told when some of it is    *)
(* left out, then only: the last line ends in an ellipsis (wrap).          *)
WrapTold ==
    drawing = "wrapped" =>
        /\ Len(Written) <= MaxLines /\ \A i \in DOMAIN Written : Written[i] <= MaxWidth
        /\ told <=> SumFunction([i \in DOMAIN Written |-> lines[i].letters]) < given

TreeDrawn == BoxesApart /\ WrapTold
=============================================================================
