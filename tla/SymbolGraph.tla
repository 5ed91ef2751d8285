----------------------------- MODULE SymbolGraph -----------------------------
(***************************************************************************)
(* The graph of symbols that is built from the chunks of an index, and the *)
(* breadth-first walks over it. A corpus is a sequence of chunks, in the   *)
(* arbitrary order of the hash map they come from; a chunk's place in it   *)
(* stands for its id. A name is a sequence of parts, <<"T", "f">> for      *)
(* T::f, and <<>> for a chunk that defines nothing.                        *)
(***************************************************************************)
EXTENDS Integers, Sequences, SequencesExt

Names == Seq(STRING)
RawChunk == [name : Names, file : STRING, calls : Seq(Names), inherits : Seq(Names),
             container : BOOLEAN]

\* The members of a sequence that are in K, in their order.
Kept(s, K) == FlattenSeq([i \in DOMAIN s |-> IF s[i] \in K THEN <<s[i]>> ELSE <<>>])

\* A cap of 0 is none.
cap_exceeded(cap, count) == cap > 0 /\ count >= cap

\* The nodes, by the chunk that defines them first, as long as there is room.
register_one_symbol(corpus, cap, nodes, c) ==
    IF \/ corpus[c].name = <<>> \/ cap_exceeded(cap, Len(nodes))
       \/ \E i \in DOMAIN nodes : corpus[nodes[i]].name = corpus[c].name
    THEN nodes ELSE Append(nodes, c)

register_symbol_nodes(corpus, cap) ==
    LET Nodes[c \in 0..Len(corpus)] ==
            IF c = 0 THEN <<>> ELSE register_one_symbol(corpus, cap, Nodes[c - 1], c)
    IN Nodes[Len(corpus)]

\* The name of a node.
Symbol(corpus, nodes, i) == corpus[nodes[i]].name

\* by_symbol: the node of a name, 0 if there is none.
NodeOf(corpus, nodes, name) ==
    SelectInSeq(nodes, LAMBDA c : name # <<>> /\ corpus[c].name = name)

symbol_for_chunk(g, c) ==
    IF NodeOf(g.corpus, g.nodes, g.corpus[c].name) # 0 THEN g.corpus[c].name ELSE <<>>

\* All the tables from last part to node that a build may make: which of two
\* candidates is entered first depends on the order of a hash map.
SuffixLookups(corpus, nodes) ==
    LET last == {Last(Symbol(corpus, nodes, i)) : i \in DOMAIN nodes}
    IN {f \in [last -> DOMAIN nodes] : \A s \in last : Last(Symbol(corpus, nodes, f[s])) = s}

\* Mutant: names with several parts do not look at their last one.
ResolveExact(corpus, nodes, by_suffix, target) == NodeOf(corpus, nodes, target)

\* The exact name, or else something that ends in it.
resolve_callee_fast(corpus, nodes, by_suffix, target) ==
    LET exact == NodeOf(corpus, nodes, target)
    IN IF exact # 0 THEN exact
       ELSE IF Len(target) = 1 /\ target[1] \in DOMAIN by_suffix THEN by_suffix[target[1]]
       ELSE 0

add_edges_for_targets(corpus, nodes, by_suffix, from, targets, kind) ==
    LET edges == [i \in DOMAIN targets |->
                    [from |-> from, kind |-> kind,
                     to |-> resolve_callee_fast(corpus, nodes, by_suffix, targets[i])]]
    IN Kept(edges, {e \in ToSet(edges) : e.to \notin {0, from}})

add_call_and_inherit_edges(corpus, nodes, by_suffix) ==
    LET EdgesOf(c) ==
            LET from == NodeOf(corpus, nodes, corpus[c].name)
                Edges(targets, kind) ==
                    add_edges_for_targets(corpus, nodes, by_suffix, from, targets, kind)
            IN IF from = 0 THEN <<>>
               ELSE Edges(corpus[c].calls, "CallsFunction")
                        \o Edges(corpus[c].inherits, "Implements")
    IN FlattenSeq([c \in DOMAIN corpus |-> EdgesOf(c)])

\* A container is joined to every symbol that some chunk of its file names: the
\* symbol's node may come from another file that defines the same name.
add_module_contains_edges(corpus, nodes) ==
    LET Node(c) == NodeOf(corpus, nodes, corpus[c].name)
        Siblings(c) == Kept([d \in DOMAIN corpus |-> d],
                            {d \in DOMAIN corpus : /\ corpus[d].file = corpus[c].file
                                                   /\ Node(d) \notin {0, Node(c)}})
        EdgesOf(c) ==
            IF ~corpus[c].container \/ Node(c) = 0 THEN <<>>
            ELSE [i \in DOMAIN Siblings(c) |->
                    [from |-> Node(c), to |-> Node(Siblings(c)[i]), kind |-> "ModuleContains"]]
    IN FlattenSeq([c \in DOMAIN corpus |-> EdgesOf(c)])

\* build_from_chunks: every graph a build of the corpus may make.
Graphs_of(corpus, cap) ==
    LET nodes == register_symbol_nodes(corpus, cap)
    IN {[corpus |-> corpus, nodes |-> nodes,
         edges |-> add_call_and_inherit_edges(corpus, nodes, by_suffix)
                       \o add_module_contains_edges(corpus, nodes)] :
            by_suffix \in SuffixLookups(corpus, nodes)}

-----------------------------------------------------------------------------
(* Walks.                                                                  *)

\* The edges at a node in one direction: the newest comes first.
edges_directed(g, node, dir) ==
    Reverse(Kept(g.edges, {e \in ToSet(g.edges) : node = IF dir = "out" THEN e.from ELSE e.to}))

neighbor_in_direction(e, dir) == IF dir = "out" THEN e.to ELSE e.from

\* A node is recorded the first time it is met, with the kind of the edge that led to it.
record_neighbor(walk, nb, kind) ==
    IF nb \in walk.visited THEN walk
    ELSE [visited |-> walk.visited \cup {nb}, next |-> Append(walk.next, nb),
          out |-> Append(walk.out, [node |-> nb, kind |-> kind])]

\* The neighbours that edges lead to, with their kinds.
FarEnds(edges, dir) ==
    [i \in DOMAIN edges |->
        [node |-> neighbor_in_direction(edges[i], dir), kind |-> edges[i].kind]]

\* What is met at a node along the edges of some kinds, one direction after the other.
Steps(g, node, dirs, kinds) ==
    LET allowed == {e \in ToSet(g.edges) : e.kind \in kinds}
        Along(dir) == FarEnds(Kept(edges_directed(g, node, dir), allowed), dir)
    IN FlattenSeq([i \in DOMAIN dirs |-> Along(dirs[i])])

record_all(walk, steps) ==
    LET Walk[i \in 0..Len(steps)] ==
            IF i = 0 THEN walk ELSE record_neighbor(Walk[i - 1], steps[i].node, steps[i].kind)
    IN Walk[Len(steps)]

expand_node(g, walk, node, dirs, kinds) == record_all(walk, Steps(g, node, dirs, kinds))

\* All nodes of one depth, before those that are found meanwhile.
expand_queue(g, walk, dirs, kinds) ==
    LET Walk[i \in 0..Len(walk.next)] ==
            IF i = 0 THEN [walk EXCEPT !.next = <<>>]
            ELSE expand_node(g, Walk[i - 1], walk.next[i], dirs, kinds)
    IN Walk[Len(walk.next)]

bfs_walk(g, start, hops, dirs, kinds) ==
    LET Level[d \in 0..hops] ==
            IF d = 0 THEN [visited |-> {start}, next |-> <<start>>, out |-> <<>>]
            ELSE expand_queue(g, Level[d - 1], dirs, kinds)
    IN Level[hops].out

start_index(g, name, hops) == IF hops = 0 THEN 0 ELSE NodeOf(g.corpus, g.nodes, name)

\* Symbol, chunk and kind of edge for each neighbour.
neighbors_by_edge(g, name, kinds, hops) ==
    LET start == start_index(g, name, hops)
        found == IF start = 0 \/ kinds = {} THEN <<>>
                 ELSE bfs_walk(g, start, hops, <<"out", "in">>, kinds)
    IN [i \in DOMAIN found |-> [symbol |-> Symbol(g.corpus, g.nodes, found[i].node),
                                chunk |-> g.nodes[found[i].node], kind |-> found[i].kind]]

bfs_neighbors(g, name, hops, dir) ==
    LET start == start_index(g, name, hops)
        found == IF start = 0 THEN <<>>
                 ELSE bfs_walk(g, start, hops, <<dir>>, {"CallsFunction"})
    IN [i \in DOMAIN found |-> Symbol(g.corpus, g.nodes, found[i].node)]

callers_of(g, name, hops) == bfs_neighbors(g, name, hops, "in")
callees_of(g, name, hops) == bfs_neighbors(g, name, hops, "out")
=============================================================================
