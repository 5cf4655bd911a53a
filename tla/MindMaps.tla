------------------------------- MODULE MindMaps -------------------------------
(***************************************************************************)
(* The mind maps in a project's journal (mindmap.rs, mindmap_tools.rs):    *)
(* trees of nodes, cross-links between them, references to journal         *)
(* entries, and chains of entries.                                         *)
(*                                                                         *)
(* A tool looks whether the session may write, then writes in one          *)
(* transaction.  Row numbers are the highest one plus 1: they come back.   *)
(* Texts, kinds and states of nodes are data.                              *)
(***************************************************************************)
EXTENDS Naturals, Sequences, FiniteSets, FiniteSetsExt, SequencesExt

CONSTANTS Writers,  \* sessions of the project
          MaxMap,   \* bound: maps at a time
          MapSize,  \* MAX_NODES
          MaxEntry, \* bound: journal entries
          MaxEdits  \* bound: changes, imports not counted

ASSUME MindMapsAssumption == {MaxMap, MapSize, MaxEntry, MaxEdits} \subseteq Nat

VARIABLES maps,    \* rows of mindmaps: [id, owner, shared, open, flow]
          nodes,   \* rows of mindmap_nodes: [id, map, up]; the root's up is 0
          links,   \* rows of mindmap_edges: [map, from, to]
          refs,    \* mindmap_node_refs: <<node, entry>>
          chains,  \* mindmap_chains: [map, signature, steps]
          entries, \* numbers of the journal's entries
          writing, \* [Writers -> the map its tool may write to, 0: none]
          packed,  \* maps that were packed for another journal, one at most
          arrived, \* what was written of it there
          edits

copies == <<packed, arrived>>
mapVars == <<maps, nodes, links, refs, chains, entries, writing, copies, edits>>

Maps == 1 .. MaxMap
Nodes == Nat \ {0}
Entries == 1 .. MaxEntry

MapsTypeOK ==
    /\ maps \subseteq [id : Maps, owner : Writers, shared : BOOLEAN, open : BOOLEAN, flow : BOOLEAN]
    /\ nodes \subseteq [id : Nodes, map : Maps, up : Nodes \cup {0}]
    /\ links \subseteq [map : Maps, from : Nodes, to : Nodes]
    /\ refs \subseteq Nodes \X Entries /\ entries \subseteq Entries
    /\ \A c \in chains : c.map \in Maps /\ {c.signature, c.steps} \subseteq Seq(Entries)
    /\ writing \in [Writers -> Maps \cup {0}]
    /\ Cardinality(packed) <= 1 /\ Cardinality(arrived) <= Cardinality(packed) /\ edits \in 0 .. MaxEdits

MapsInit ==
    /\ maps = {} /\ nodes = {} /\ links = {} /\ refs = {} /\ chains = {}
    /\ entries = {} /\ writing = [s \in Writers |-> 0]
    /\ packed = {} /\ arrived = {} /\ edits = 0

-----------------------------------------------------------------------------
NextId(rows) == Max({r.id : r \in rows} \cup {0}) + 1

NodesOf(m) == {n \in nodes : n.map = m}
RootOf(m) == CHOOSE n \in NodesOf(m) : n.up = 0

\* The node and what it hangs on, up to the root.
Above(i) ==
    LET row(k) == CHOOSE n \in nodes : n.id = k
        path[k \in 0 .. Cardinality(nodes)] ==
            IF k = 0 THEN i ELSE IF path[k - 1] = 0 THEN 0 ELSE row(path[k - 1]).up
    IN  {path[k] : k \in 0 .. Cardinality(nodes)} \ {0}

\* ON DELETE CASCADE, from rows of mindmap_nodes on.
DropNodes(gone) ==
    /\ nodes' = {n \in nodes : n.id \notin gone}
    /\ links' = {l \in links : l.from \notin gone /\ l.to \notin gone}
    /\ refs' = {r \in refs : r[1] \notin gone}

Edited == edits < MaxEdits /\ edits' = edits + 1

\* The map a tool was let write to, if it is there and open.
Target(s) == {m \in maps : m.id = writing[s] /\ m.open}
Changes(s) == Edited /\ Target(s) # {} /\ writing' = [writing EXCEPT ![s] = 0]

-----------------------------------------------------------------------------
(* The tools.                                                              *)

\* create_map: the row and its root, the topic.
NewMap(s, shared, flow) ==
    /\ Edited
    /\ NextId(maps) \in Maps
    /\ maps' = maps \cup {[id |-> NextId(maps), owner |-> s, shared |-> shared,
                           open |-> TRUE, flow |-> flow]}
    /\ nodes' = nodes \cup {[id |-> NextId(nodes), map |-> NextId(maps), up |-> 0]}
    /\ UNCHANGED <<links, refs, chains, entries, writing, copies>>

\* check_write: the owner's, or a shared one.
CheckWrite(s, m) ==
    /\ writing[s] = 0
    /\ m.shared \/ m.owner = s
    /\ writing' = [writing EXCEPT ![s] = m.id]
    /\ UNCHANGED <<maps, nodes, links, refs, chains, entries, copies, edits>>

\* The tool's own checks fail: nothing is written.
GiveUpWrite(s) ==
    /\ writing[s] # 0
    /\ writing' = [writing EXCEPT ![s] = 0]
    /\ UNCHANGED <<maps, nodes, links, refs, chains, entries, copies, edits>>

\* add: under a parent in a mind map; in a flowchart under the root, with an
\* arrow from the node it comes after.  It may name entries.
AddNode(s) ==
    /\ Changes(s)
    /\ \E m \in Target(s), at \in NodesOf(writing[s]), E \in SUBSET entries :
         LET id == NextId(nodes)
             under == IF m.flow THEN RootOf(m.id) ELSE at
         IN  /\ Cardinality(NodesOf(m.id)) < MapSize
             /\ nodes' = nodes \cup {[id |-> id, map |-> m.id, up |-> under.id]}
             /\ links' = IF m.flow THEN links \cup {[map |-> m.id, from |-> at.id, to |-> id]}
                         ELSE links
             /\ refs' = refs \cup ({id} \X E)
    /\ UNCHANGED <<maps, chains, entries, copies>>

\* Mutant of MoveNode: where the new parent hangs is not looked at.
MoveAnywhere(s) ==
    /\ Changes(s)
    /\ \E m \in Target(s), n, p \in NodesOf(writing[s]) :
         /\ ~m.flow /\ n.up # 0
         /\ nodes' = (nodes \ {n}) \cup {[n EXCEPT !.up = p.id]}
    /\ UNCHANGED <<maps, links, refs, chains, entries, copies>>

\* move_node: not the root, and not under itself.
MoveNode(s) ==
    /\ Changes(s)
    /\ \E m \in Target(s), n, p \in NodesOf(writing[s]) :
         /\ ~m.flow /\ n.up # 0 /\ n.id \notin Above(p.id)
         /\ nodes' = (nodes \ {n}) \cup {[n EXCEPT !.up = p.id]}
    /\ UNCHANGED <<maps, links, refs, chains, entries, copies>>

\* remove_node: with all that hangs on it.
RemoveNode(s) ==
    /\ Changes(s)
    /\ \E n \in NodesOf(writing[s]) :
         n.up # 0 /\ DropNodes({k.id : k \in {x \in nodes : n.id \in Above(x.id)}})
    /\ UNCHANGED <<maps, chains, entries, copies>>

\* add_edge, remove_edge.
Link(s) ==
    /\ Changes(s)
    /\ \E a, b \in NodesOf(writing[s]) :
         LET l == [map |-> writing[s], from |-> a.id, to |-> b.id]
         IN  a # b /\ links' = IF l \in links THEN links \ {l} ELSE links \cup {l}
    /\ UNCHANGED <<maps, nodes, refs, chains, entries, copies>>

\* add_refs, remove_refs of a node; the entry must exist.
Refer(s) ==
    /\ Changes(s)
    /\ \E n \in NodesOf(writing[s]), e \in entries :
         refs' = IF <<n.id, e>> \in refs THEN refs \ {<<n.id, e>>} ELSE refs \cup {<<n.id, e>>}
    /\ UNCHANGED <<maps, nodes, links, chains, entries, copies>>

\* add_chain: entries that exist, each once; the sequence is new by its
\* signature.
AddChain(s) ==
    /\ Changes(s)
    /\ \E E \in SUBSET entries : \E q \in SetToSeqs(E) :
         /\ Cardinality(E) >= 2
         /\ \A c \in chains : c.map = writing[s] => c.signature # q
         /\ chains' = chains \cup {[map |-> writing[s], signature |-> q, steps |-> q]}
    /\ UNCHANGED <<maps, nodes, links, refs, entries, copies>>

RemoveChain(s) ==
    /\ Changes(s)
    /\ \E c \in chains : c.map = writing[s] /\ chains' = chains \ {c}
    /\ UNCHANGED <<maps, nodes, links, refs, entries, copies>>

\* set_state: a closed map is only read.  set_shared: sharing is its owner's
\* call, to stop it anyone's.
SetMap(s) ==
    /\ Edited /\ writing[s] # 0
    /\ writing' = [writing EXCEPT ![s] = 0]
    /\ \E m \in maps :
         /\ m.id = writing[s]
         /\ \/ maps' = (maps \ {m}) \cup {[m EXCEPT !.open = ~m.open]}
            \/ maps' = (maps \ {m}) \cup {[m EXCEPT !.shared = FALSE]}
            \/ m.owner = s /\ maps' = (maps \ {m}) \cup {[m EXCEPT !.shared = TRUE]}
    /\ UNCHANGED <<nodes, links, refs, chains, entries, copies>>

\* delete: the row, and by cascade all that is the map's.
DeleteMap(s) ==
    /\ Edited /\ writing[s] # 0
    /\ writing' = [writing EXCEPT ![s] = 0]
    /\ \E m \in maps :
         /\ m.id = writing[s]
         /\ maps' = maps \ {m}
         /\ DropNodes({n.id : n \in NodesOf(m.id)})
         /\ chains' = {c \in chains : c.map # m.id}
    /\ UNCHANGED <<entries, copies>>

\* The steps that are left when an entry goes, in their order.
Without(steps, e) ==
    LET left[k \in 0 .. Len(steps)] ==
            IF k = 0 THEN <<>>
            ELSE IF steps[k] = e THEN left[k - 1] ELSE Append(left[k - 1], steps[k])
    IN  left[Len(steps)]

\* journal::add and journal::delete: references and the steps of chains go
\* with an entry, the chain and its signature stay.
AddEntry ==
    /\ Edited
    /\ LET e == Max(entries \cup {0}) + 1 IN e \in Entries /\ entries' = entries \cup {e}
    /\ UNCHANGED <<maps, nodes, links, refs, chains, writing, copies>>

DeleteEntry(e) ==
    /\ Edited
    /\ entries' = entries \ {e}
    /\ refs' = {r \in refs : r[2] # e}
    /\ chains' = {[c EXCEPT !.steps = Without(@, e)] : c \in chains}
    /\ UNCHANGED <<maps, nodes, links, writing, copies>>

-----------------------------------------------------------------------------
(* To another journal: export_all, renumber and import.                    *)

\* Mutant of Ordered: by row number.
ByNumber(m) == {q \in SetToSeqs(NodesOf(m)) : \A i, j \in DOMAIN q : i < j => q[i].id < q[j].id}

\* load: the nodes in tree order, a parent before its children.
Ordered(m) == {q \in SetToSeqs(NodesOf(m)) :
                  \A i, j \in DOMAIN q : q[j].id \in Above(q[i].id) => j <= i}

Packed(m, q) == [nodes |-> q, links |-> {l \in links : l.map = m},
                 refs |-> {r \in refs : \E i \in DOMAIN q : q[i].id = r[1]},
                 chains |-> {c \in chains : c.map = m}]

Export(m) ==
    /\ packed = {}
    /\ \E q \in Ordered(m) : packed' = {Packed(m, q)}
    /\ UNCHANGED <<maps, nodes, links, refs, chains, entries, writing, arrived, edits>>

\* Each node gets the next number; one whose parent has none is passed over.
Numbered(order) ==
    LET ids[k \in 0 .. Len(order)] ==
            IF k = 0 THEN {}
            ELSE LET had == ids[k - 1]
                     up == order[k].up
                 IN  IF up # 0 /\ \A p \in had : p[1] # up THEN had
                     ELSE had \cup {<<order[k].id, Cardinality(had) + 1>>}
    IN  ids[Len(order)]

\* Chains of n steps or more that keep them all when the entries E come along.
Kept(x, E, n) == {c \in x.chains : Len(c.steps) >= n /\ ToSet(c.steps) \subseteq E}

\* Of two chains with the same steps the second is ignored; its steps then go
\* to a chain that is not there, and nothing is written at all.
Writable(x, E, n) ==
    \A c, d \in Kept(x, E, n) : c.steps = d.steps /\ c.steps # <<>> => c = d

Copied(x, E, n) ==
    LET ids == Numbered(x.nodes)
        known == {p[1] : p \in ids}
        new(i) == (CHOOSE p \in ids : p[1] = i)[2]
    IN  [nodes |-> {[id |-> new(k.id), up |-> IF k.up = 0 THEN 0 ELSE new(k.up)] :
                       k \in {y \in ToSet(x.nodes) : y.id \in known}},
         links |-> {<<new(l.from), new(l.to)>> :
                       l \in {y \in x.links : {y.from, y.to} \subseteq known}},
         refs |-> {<<new(r[1]), r[2]>> : r \in {y \in x.refs : y[1] \in known /\ y[2] \in E}},
         chains |-> {c.steps : c \in Kept(x, E, n)}]

\* renumber and import on the other machine, where the entries E have come.
Import(x, E) ==
    /\ arrived = {} /\ Writable(x, E, 2)
    /\ arrived' = {Copied(x, E, 2)}
    /\ UNCHANGED <<maps, nodes, links, refs, chains, entries, writing, packed, edits>>

\* merge of `journal share`: passes over the rows until every parent is there.
MergeMap(m, E) ==
    /\ packed = {}
    /\ \E q \in Ordered(m) :
         /\ Writable(Packed(m, q), E, 0)
         /\ packed' = {Packed(m, q)} /\ arrived' = {Copied(Packed(m, q), E, 0)}
    /\ UNCHANGED <<maps, nodes, links, refs, chains, entries, writing, edits>>

-----------------------------------------------------------------------------
MapsNext ==
    \/ \E s \in Writers :
          \/ \E shared, flow \in BOOLEAN : NewMap(s, shared, flow)
          \/ \E m \in maps : CheckWrite(s, m)
          \/ GiveUpWrite(s) \/ AddNode(s) \/ MoveNode(s) \/ RemoveNode(s) \/ Link(s)
          \/ Refer(s) \/ AddChain(s) \/ RemoveChain(s) \/ SetMap(s) \/ DeleteMap(s)
    \/ AddEntry \/ \E e \in entries : DeleteEntry(e)
    \/ \E m \in maps : Export(m.id) \/ \E E \in SUBSET Entries : MergeMap(m.id, E)
    \/ \E x \in packed, E \in SUBSET Entries : Import(x, E)

MapsSpec == MapsInit /\ [][MapsNext]_mapVars

-----------------------------------------------------------------------------
\* "a tree of short nodes around one topic": every map has one root and every
\* node of it leads there, through nodes of the map.
TreesHang ==
    /\ \A m \in maps : Cardinality({n \in NodesOf(m.id) : n.up = 0}) = 1
    /\ \A n \in nodes :
          /\ RootOf(n.map).id \in Above(n.id)
          /\ \A k \in nodes : k.id \in Above(n.id) => k.map = n.map

\* A number is one node's, of a map that is there; links join two nodes of
\* their map, references hang on nodes and name entries that exist, whatever
\* was deleted and its number given out again.
NothingDangles ==
    /\ \A n \in nodes :
          /\ \E m \in maps : m.id = n.map
          /\ \A k \in nodes : k.id = n.id => k = n
    /\ \A l \in links : l.from # l.to
          /\ \A i \in {l.from, l.to} : \E n \in NodesOf(l.map) : n.id = i
    /\ \A r \in refs : r[2] \in entries /\ \E n \in nodes : n.id = r[1]

MapsWhole == TreesHang /\ NothingDangles

\* import, "Write a map read from elsewhere": it arrives with all its nodes,
\* every one under the node it hung under, and with all its links.
ArrivesWhole ==
    \A x \in packed, y \in arrived :
        LET p == ToSet(x.nodes) IN
        /\ \E f \in [{n.id : n \in p} -> {n.id : n \in y.nodes}] :
              /\ \A n, k \in p : f[n.id] = f[k.id] => n = k
              /\ \A n \in p : [id |-> f[n.id], up |-> IF n.up = 0 THEN 0 ELSE f[n.up]] \in y.nodes
              /\ \A l \in x.links : <<f[l.from], f[l.to]>> \in y.links
        /\ Cardinality(p) = Cardinality(y.nodes)

\* "Its name and its sequence are both unique in the map" (add_chain).
ChainsDiffer ==
    \A c, d \in chains : c.map = d.map /\ c.steps = d.steps => c = d

\* check_write, "Refuse a write to a private map by anyone but its owner".
OwnerWrites ==
    [][\A s \in Writers : writing[s] # 0 /\ nodes' # nodes /\ writing'[s] = 0 =>
          \A m \in maps : m.id = writing[s] => m.shared \/ m.owner = s]_mapVars
=============================================================================
