----------------------------- MODULE CodeGraph -----------------------------
(***************************************************************************)
(* From source files to the answers of the code graph: what the extractor  *)
(* takes from a syntax tree (codeintel/infrastructure/parser.py), how the  *)
(* references are resolved into nodes and edges                            *)
(* (codeintel/application/graph_builder.py), and the recursive query that  *)
(* walks them (codeintel/infrastructure/graph_store.py), one iteration of  *)
(* its working table at a time.                                            *)
(*                                                                         *)
(* A file is the sequence of its syntax nodes in source order, one to a    *)
(* line; `up` is the enclosing node, 0 at the top.  Names stand for the    *)
(* identifiers of the source; a file is known by its number.               *)
(***************************************************************************)
EXTENDS Integers, Sequences, FiniteSets, FiniteSetsExt

CONSTANTS
    Sources,     \* the workspaces considered: sequences of files
    ModuleName,  \* the stem of each file's name
    None,
    Unlimited,   \* no limit a query may reach
    MaxTargets,  \* _MAX_TARGETS
    Depths,      \* depths a query may ask for, already clamped
    Limits       \* row limits of a query

DefKinds  == {"function", "class"}
TypeKinds == {"class"}
Relations == {"callers", "callees", "impact", "neighborhood"}

ASSUME CodeGraphAssumption ==
    /\ MaxTargets \in Nat \ {0} /\ Depths \subseteq Nat \ {0}
    /\ Limits \subseteq Nat \cup {Unlimited}
    /\ \A files \in Sources :
         /\ Len(files) \in Nat /\ DOMAIN files = 1 .. Len(files)
         /\ \A p \in DOMAIN files : Len(files[p]) \in Nat /\ DOMAIN files[p] = 1 .. Len(files[p])
    /\ \A files \in Sources : \A p \in DOMAIN files : \A i \in DOMAIN files[p] :
         /\ files[p][i].kind \in DefKinds \cup {"call", "import", "block"}
         /\ files[p][i].up \in 0 .. i - 1

VARIABLES
    src,   \* the files
    nodes, edges, \* the graph persisted
    ask,   \* the query: relation, seed, depth and limit
    rows,  \* rows of the recursive table so far
    front, \* its working table
    reply  \* the rows selected, or None

indexVars == <<src, nodes, edges>>
graphVars == <<indexVars, ask, rows, front, reply>>

---------------------------------------------------------------------------
(* The extractor.                                                          *)

Paths    == DOMAIN src
Lines(p) == DOMAIN src[p]

\* A line and the lines that enclose it.
Around(p) ==
    LET a[i \in 0 .. Len(src[p])] == IF i = 0 THEN {} ELSE {i} \cup a[src[p][i].up]
    IN a
Within(p, i) == {j \in Lines(p) : i \in Around(p)[j]}

Definitions(p) == {i \in Lines(p) : src[p][i].kind \in DefKinds}
Enclosing(p, i) == (Around(p)[i] \cap Definitions(p)) \ {i}

\* Qualified names are sequences of names; <<>> is "<module>".
Scope(p) ==
    LET s[i \in 0 .. Len(src[p])] ==
          IF i = 0 THEN <<>>
          ELSE IF i \in Definitions(p) THEN Append(s[src[p][i].up], src[p][i].name)
          ELSE s[src[p][i].up]
    IN s

\* A function right inside a class is a method.
KindOf(p, i) ==
    IF /\ src[p][i].kind = "function" /\ Enclosing(p, i) # {}
       /\ src[p][Max(Enclosing(p, i))].kind = "class"
    THEN "method" ELSE src[p][i].kind

HasSymbols(p) == \E i \in Lines(p) : src[p][i].kind \in DefKinds \cup {"import"}

References(p) ==
    {[from |-> Scope(p)[i], target |-> src[p][i].name, kind |-> "calls"] :
        i \in {j \in Lines(p) : src[p][j].kind = "call"}}
    \cup
    {[from |-> Scope(p)[i], target |-> src[p][i].base, kind |-> "inherits"] :
        i \in {j \in Definitions(p) : /\ src[p][j].kind \in TypeKinds
                                      /\ src[p][j].base \notin {None, src[p][j].name}}}
    \cup
    {[from |-> <<>>, target |-> src[p][i].name, kind |-> "imports"] :
        i \in {j \in Lines(p) : src[p][j].kind = "import"}}

---------------------------------------------------------------------------
(* The graph builder.                                                      *)

\* The module of a file that has a symbol, and the first definition under
\* each qualified name.
BuiltNodes ==
    {[path |-> p, qual |-> <<>>, name |-> ModuleName[p], kind |-> "module", line |-> 0] :
        p \in {q \in Paths : HasSymbols(q)}}
    \cup
    UNION {{[path |-> p, qual |-> Scope(p)[i], name |-> src[p][i].name,
             kind |-> KindOf(p, i), line |-> i] :
               i \in {j \in Definitions(p) : \A k \in Definitions(p) :
                        Scope(p)[k] = Scope(p)[j] => j <= k}} : p \in Paths}

Key(n) == <<n.path, n.qual>>
Keys   == {Key(n) : n \in nodes}

TargetKinds(kind) ==
    CASE kind = "calls"    -> {"function", "method", "class"}
      [] kind = "inherits" -> TypeKinds
      [] kind = "imports"  -> DefKinds \cup {"method", "module"}

\* Nodes are listed modules first, then by path and line.
Precedes(m, n) ==
    LET rank(x) == <<IF x.kind = "module" THEN 0 ELSE 1, x.path, x.line>>
    IN \E k \in 1 .. 3 : /\ rank(m)[k] < rank(n)[k]
                         /\ \A j \in 1 .. k - 1 : rank(m)[j] = rank(n)[j]

Candidates(ref) == {n \in nodes : n.name = ref.target /\ n.kind \in TargetKinds(ref.kind)}
InFile(ns, p) == {n \in ns : n.path = p}

\* Mutant: a name with no definition in the file resolves to the first elsewhere.
TargetsFirst(p, ref) ==
    LET all    == Candidates(ref)
        chosen == (IF InFile(all, p) # {} THEN InFile(all, p)
                   ELSE {n \in all : \A m \in all : ~Precedes(m, n)})
                  \ {n \in all : Key(n) = <<p, ref.from>>}
    IN {n \in chosen : Cardinality({m \in chosen : Precedes(m, n)}) < MaxTargets}
\* A definition in the same file shadows the others; a node never links to
\* itself; a name with too many definitions is cut.
Targets(p, ref) ==
    LET all    == Candidates(ref)
        chosen == (IF InFile(all, p) # {} THEN InFile(all, p) ELSE all)
                  \ {n \in all : Key(n) = <<p, ref.from>>}
    IN {n \in chosen : Cardinality({m \in chosen : Precedes(m, n)}) < MaxTargets}

DefinesEdges ==
    UNION {{[from |-> <<p, <<>>>>, to |-> <<p, Scope(p)[i]>>, kind |-> "defines"] :
              i \in Definitions(p)} : p \in Paths}

ReferenceEdges ==
    UNION {UNION {{[from |-> <<p, ref.from>>, to |-> Key(n), kind |-> ref.kind] :
                     n \in Targets(p, ref)} :
             ref \in {r \in References(p) : <<p, r.from>> \in Keys}} : p \in Paths}

\* build_graph, persisted by PostgresGraphStore.rebuild: nodes, then edges.
BuildNodes ==
    /\ nodes = None
    /\ nodes' = BuiltNodes
    /\ UNCHANGED <<src, edges, ask, rows, front, reply>>

BuildEdges ==
    /\ nodes # None /\ edges = None
    /\ edges' = DefinesEdges \cup ReferenceEdges
    /\ UNCHANGED <<src, nodes, ask, rows, front, reply>>

---------------------------------------------------------------------------
(* The recursive query.                                                    *)

\* The pairs one hop of each relation may take.
Hops(relation) ==
    LET of(kinds) == {e \in edges : e.kind \in kinds}
        out(es)   == {<<e.from, e.to>> : e \in es}
        back(es)  == {<<e.to, e.from>> : e \in es}
    IN CASE relation = "callees" -> out(of({"calls"}))
         [] relation = "callers" -> back(of({"calls"}))
         [] relation = "impact"  -> back(of({"calls", "inherits"}))
         [] OTHER -> out(edges) \cup back(edges)

NoQuery == [relation |-> None]

\* The seed and its neighbours; a row remembers the nodes on its way.
SeedRows(relation, seed) ==
    {[node |-> h[2], via |-> h[1], depth |-> 1, visited |-> {h[1], h[2]}] :
        h \in {g \in Hops(relation) : g[1] = seed}}

Query ==
    /\ edges # None /\ ask = NoQuery
    /\ \E relation \in Relations, seed \in Keys, depth \in Depths, limit \in Limits :
         /\ ask' = [relation |-> relation, seed |-> seed, depth |-> depth, limit |-> limit]
         /\ rows' = SeedRows(relation, seed)
         /\ front' = SeedRows(relation, seed)
    /\ UNCHANGED <<indexVars, reply>>

\* Mutant: a walk does not remember where it has been.
ExtendedAnywhere(w) ==
    {[node |-> h[2], via |-> h[1], depth |-> w.depth + 1, visited |-> w.visited \cup {h[2]}] :
        h \in {g \in Hops(ask.relation) : g[1] = w.node /\ w.depth < ask.depth}}
Extended(w) ==
    {[node |-> h[2], via |-> h[1], depth |-> w.depth + 1, visited |-> w.visited \cup {h[2]}] :
        h \in {g \in Hops(ask.relation) : /\ g[1] = w.node /\ w.depth < ask.depth
                                          /\ g[2] \notin w.visited}}

Recurse ==
    /\ ask # NoQuery /\ front # {}
    /\ front' = UNION {Extended(w) : w \in front}
    /\ rows' = rows \cup front'
    /\ UNCHANGED <<indexVars, ask, reply>>

Reached == {w.node : w \in rows}

\* DISTINCT ON the node keeps one of its rows of least depth; LIMIT keeps any
\* nodes, as they are ordered by their random identifiers.
Select ==
    /\ ask # NoQuery /\ front = {} /\ reply = None
    /\ LET size == IF ask.limit = Unlimited THEN Cardinality(Reached)
                   ELSE Min({ask.limit, Cardinality(Reached)})
       IN \E kept \in kSubset(size, Reached) :
            reply' = {w \in rows : /\ w.node \in kept
                                   /\ w.depth = Min({v.depth : v \in {x \in rows : x.node = w.node}})}
    /\ UNCHANGED <<indexVars, ask, rows, front>>

GraphInit ==
    /\ src \in Sources /\ nodes = None /\ edges = None /\ ask = NoQuery
    /\ rows = {} /\ front = {} /\ reply = None

GraphStep == BuildNodes \/ BuildEdges \/ Query \/ Recurse \/ Select

---------------------------------------------------------------------------
(* Nodes at each distance from a seed, by breadth-first search.            *)
Ball(relation, seed, depth) ==
    LET ball[k \in 0 .. depth] ==
          IF k = 0 THEN {seed}
          ELSE ball[k - 1] \cup {h[2] : h \in {g \in Hops(relation) : g[1] \in ball[k - 1]}}
    IN ball

\* A walk of the graph returns each node within the depth, at its least
\* distance alone, and never the seed, whatever cycles it meets; only the limit
\* leaves nodes out (the four queries of graph_store.py).
NearestOnly ==
    reply # None =>
      LET ball == Ball(ask.relation, ask.seed, ask.depth)
      IN /\ \A w \in reply : /\ w.node \in ball[w.depth] \ ball[w.depth - 1]
                             /\ <<w.via, w.node>> \in Hops(ask.relation)
         /\ ask.limit = Unlimited =>
              {w.node : w \in reply} = ball[ask.depth] \ {ask.seed}

\* Definitions a name in a file may mean: its own file's first.
Means(p, name) ==
    LET all == {n \in nodes : n.name = name /\ n.kind \in {"function", "method", "class"}}
    IN IF InFile(all, p) # {} THEN InFile(all, p) ELSE all

\* The impact of a definition covers every scope that calls it by name, in its
\* own file or another, unless the name has more meanings than the cap
\* ("an over-approximation, the safe direction for impact sets",
\* graph_builder.py).  Files without a symbol have no node and are left out.
ImpactIsSafe ==
    (reply # None /\ ask.relation = "impact" /\ ask.limit = Unlimited) =>
      \A p \in Paths : \A i \in Lines(p) :
        LET caller == <<p, Scope(p)[i]>>
            means  == Means(p, src[p][i].name)
        IN (/\ src[p][i].kind = "call" /\ HasSymbols(p)
            /\ ask.seed \in {Key(n) : n \in means} \ {caller}
            /\ Cardinality(means) <= MaxTargets)
           => caller \in {w.node : w \in reply}
=============================================================================
