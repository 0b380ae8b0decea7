----------------------------- MODULE CodeProofs -----------------------------
(***************************************************************************)
(* Proofs about CodeGraph and CodeSearch.  A query of the code graph       *)
(* returns each node within its depth at its least distance (NearestOnly), *)
(* and the impact of a definition has every scope that calls it by name    *)
(* (ImpactIsSafe), for any sources, names, caps, depths and limits.  A     *)
(* search keeps the order of its rankings (DominanceKept) and shows what   *)
(* is in the code (ShownIsReal), for any pool, scores, blend and policy.   *)
(*                                                                         *)
(* GraphInv is inductive.  It says that the graph is the one its sources   *)
(* define, and, of a query, what the recursive table holds after d rounds  *)
(* (Walked): rows of ways no longer than d within reach of the seed, the   *)
(* working table those of length d, and a row for every node at each       *)
(* distance up to d.  When the working table is empty the search has       *)
(* stopped growing, so the rows are the whole reach, and the shortest of a *)
(* node has its distance.                                                  *)
(*                                                                         *)
(* Scopes and rounds are recursive functions: that they exist, and what    *)
(* holds of all their values, follows from the least counterexample        *)
(* (Least, Induction, Recursion).                                          *)
(*                                                                         *)
(* A search is one step, so its two properties are about what the step     *)
(* computes: a strict order gives each hit its own number of predecessors  *)
(* (Places), the blend is monotone in both scores (Blended), what is cut   *)
(* and shown is a prefix (CutIs, ShownIs); and a chunk has lines, its      *)
(* window is some of them, and the newlines before its last character      *)
(* count the lines that hold them (ChunksHaveLines, WindowIs, BreaksAre).  *)
(***************************************************************************)
EXTENDS CodeSearch, FiniteSetTheorems, WellFoundedInduction, TLAPS

-----------------------------------------------------------------------------
(* Induction.  The lemmas below take a counterexample that is minimal.     *)

\* A set of natural numbers that is not empty has a least element.
LEMMA Least ==
    ASSUME NEW T, T \subseteq Nat, T # {}
    PROVE  \E n \in T : \A m \in T : n <= m
PROOF
<1> DEFINE R == {ss \in Nat \X Nat : ss[1] < ss[2]}
<1>1. IsWellFoundedOn(R, Nat)
    BY NatLessThanWellFounded DEF OpToRel
<1>2. PICK x \in T : \A y \in T : ~ (<<y, x>> \in R)
    <2> HIDE DEF R
    <2> QED BY <1>1, WFMin
<1>3. \A y \in T : ~ (y < x)
    BY <1>2
<1> QED BY <1>3

\* Induction up to n: a set with 0 that has a number when it has all before it.
LEMMA Induction ==
    ASSUME NEW n \in Nat, NEW T, 0 \in T,
           \A i \in 1 .. n : (\A j \in 0 .. i - 1 : j \in T) => i \in T
    PROVE  \A i \in 0 .. n : i \in T
PROOF
<1> DEFINE Bad == {i \in 0 .. n : i \notin T}
<1>1. SUFFICES ASSUME Bad # {} PROVE FALSE
    OBVIOUS
<1>2. Bad \subseteq Nat
    OBVIOUS
<1>3. PICK k \in Bad : \A m \in Bad : k <= m
    <2> HIDE DEF Bad
    <2> QED BY <1>1, <1>2, Least
<1>4. \A j \in 0 .. k - 1 : j \in T
    BY <1>3
<1> QED BY <1>3, <1>4

\* Values 0 to n in V, each made by a step from an earlier one.
Recurrence(n, V, base, step, up) ==
    /\ n \in Nat /\ base \in V /\ step \in [1 .. n -> [V -> V]]
    /\ up \in [1 .. n -> Nat] /\ \A i \in 1 .. n : up[i] < i
Solution(s, n, V, base, step, up) ==
    s \in [0 .. n -> V] /\ s[0] = base /\ \A i \in 1 .. n : s[i] = step[i][s[up[i]]]

\* A recursive function exists when each value is made from an earlier one.
LEMMA Recursion ==
    ASSUME NEW n, NEW V, NEW base, NEW step, NEW up, Recurrence(n, V, base, step, up)
    PROVE  \E s : Solution(s, n, V, base, step, up)
PROOF
<1> USE DEF Recurrence, Solution
<1> DEFINE Upto(s, k) == s[0] = base /\ \A i \in 1 .. k : s[i] = step[i][s[up[i]]]
           T == {k \in 0 .. n : \E s \in [0 .. n -> V] : Upto(s, k)}
<1>1. 0 \in T
    <2>1. Upto([i \in 0 .. n |-> base], 0)
        OBVIOUS
    <2> HIDE DEF Upto
    <2> QED BY <2>1
<1>2. ASSUME NEW k \in 1 .. n, \A j \in 0 .. k - 1 : j \in T PROVE k \in T
    <2>1. PICK s \in [0 .. n -> V] : Upto(s, k - 1)
        <3> HIDE DEF Upto
        <3> QED BY <1>2
    <2> DEFINE t == [s EXCEPT ![k] = step[k][s[up[k]]]]
    <2>2. up[k] \in 0 .. k - 1 /\ s[up[k]] \in V /\ step[k] \in [V -> V]
        OBVIOUS
    <2>3. t \in [0 .. n -> V]
        BY <2>2
    <2>4. ASSUME NEW i \in 1 .. k PROVE t[i] = step[i][t[up[i]]]
        <3>1. up[i] \in 0 .. i - 1
            OBVIOUS
        <3>2. t[up[i]] = s[up[i]]
            BY <3>1
        <3>3. i < k => s[i] = step[i][s[up[i]]] /\ t[i] = s[i]
            BY <2>1
        <3>4. i = k => t[i] = step[i][s[up[i]]]
            OBVIOUS
        <3> HIDE DEF t
        <3> QED BY <3>2, <3>3, <3>4
    <2>5. t[0] = base
        BY <2>1
    <2> HIDE DEF t
    <2>6. Upto(t, k)
        BY <2>4, <2>5
    <2> HIDE DEF Upto
    <2> QED BY <2>3, <2>6
<1> HIDE DEF T
<1>3. \A i \in 1 .. n : (\A j \in 0 .. i - 1 : j \in T) => i \in T
    BY <1>2
<1>5. \A i \in 0 .. n : i \in T
    BY <1>1, <1>3, Induction
<1>6. n \in T
    BY <1>5
<1> USE DEF T
<1> HIDE DEF Upto
<1>4. PICK s \in [0 .. n -> V] : Upto(s, n)
    BY <1>6
<1> QED BY <1>4 DEF Upto

\* An interval is finite.
LEMMA FiniteInterval == ASSUME NEW a \in Nat, NEW n \in Nat PROVE IsFiniteSet(a .. n)
PROOF
    BY FS_Interval

\* What a finite set is mapped to is finite.
LEMMA FiniteImage ==
    ASSUME NEW S, IsFiniteSet(S), NEW f
    PROVE  IsFiniteSet({f[x] : x \in S})
PROOF
<1> DEFINE T == {f[x] : x \in S}
           g == [x \in S |-> f[x]]
<1>1. g \in Surjection(S, T)
    BY DEF Surjection
<1> QED BY <1>1, FS_Surjection

-----------------------------------------------------------------------------
(* Scopes and nodes.                                                       *)

\* The names of a file.
NamesOf(p) == {src[p][i].name : i \in Lines(p)}

\* The scope of a line is that of the line around it, and a definition adds its
\* name to it.
LEMMA ScopeStep ==
    ASSUME CodeGraphAssumption, src \in Sources, NEW p \in Paths
    PROVE  /\ Scope(p)[0] = <<>>
           /\ \A i \in 1 .. Len(src[p]) :
                 Scope(p)[i] = IF i \in Definitions(p)
                               THEN Append(Scope(p)[src[p][i].up], src[p][i].name)
                               ELSE Scope(p)[src[p][i].up]
PROOF
<1> DEFINE n == Len(src[p])
           V == Seq(NamesOf(p))
           up == [i \in 1 .. n |-> src[p][i].up]
           Line(s, i) == IF i \in Definitions(p) THEN Append(s[src[p][i].up], src[p][i].name)
                         ELSE s[src[p][i].up]
           step == [i \in 1 .. n |-> [v \in V |->
                       IF i \in Definitions(p) THEN Append(v, src[p][i].name) ELSE v]]
           Body(s) == [i \in 0 .. n |-> IF i = 0 THEN <<>> ELSE Line(s, i)]
<1>1. n \in Nat /\ Lines(p) = 1 .. n /\ \A i \in 1 .. n : src[p][i].up \in 0 .. i - 1
    BY DEF CodeGraphAssumption, Paths, Lines
<1>2. \A i \in 1 .. n : src[p][i].name \in NamesOf(p)
    BY <1>1 DEF NamesOf
<1>3. Recurrence(n, V, <<>>, step, up)
    <2> HIDE DEF n
    <2>1. n \in Nat /\ <<>> \in V /\ step \in [1 .. n -> [V -> V]]
        BY <1>1, <1>2
    <2>2. up \in [1 .. n -> Nat] /\ \A i \in 1 .. n : up[i] < i
        BY <1>1
    <2> QED BY <2>1, <2>2 DEF Recurrence
<1>4. PICK s : Solution(s, n, V, <<>>, step, up)
    BY <1>3, Recursion
<1>5. ASSUME NEW i \in 1 .. n PROVE s[i] = Line(s, i)
    <2> HIDE DEF n, V
    <2>1. s[i] = step[i][s[up[i]]] /\ up[i] = src[p][i].up /\ up[i] \in 0 .. n
        <3> HIDE DEF step
        <3> QED BY <1>1, <1>4 DEF Solution
    <2>2. s[up[i]] \in V
        BY <1>4, <2>1 DEF Solution
    <2>3. \A v \in V : step[i][v] = IF i \in Definitions(p) THEN Append(v, src[p][i].name) ELSE v
        OBVIOUS
    <2> QED BY <2>1, <2>2, <2>3
<1>6. s = Body(s)
    <2> HIDE DEF n, V, Line
    <2> QED BY <1>1, <1>4, <1>5, SMTT(60) DEF Solution
<1>7. Scope(p) = Body(Scope(p))
    BY <1>6 DEF Scope
<1>8. /\ Body(Scope(p))[0] = <<>>
      /\ \A i \in 1 .. n : Body(Scope(p))[i] = Line(Scope(p), i)
    <2> HIDE DEF Line
    <2> QED BY <1>1
<1> HIDE DEF Body
<1> QED BY <1>7, <1>8

\* A scope is a sequence of names: the empty one, or that of a definition, which
\* is never empty.
LEMMA Scopes ==
    ASSUME CodeGraphAssumption, src \in Sources, NEW p \in Paths
    PROVE  /\ \A i \in 0 .. Len(src[p]) :
                 \/ Scope(p)[i] = <<>>
                 \/ \E j \in Definitions(p) : Scope(p)[j] = Scope(p)[i]
           /\ \A j \in Definitions(p) : Scope(p)[j] # <<>>
PROOF
<1> DEFINE n == Len(src[p])
           V == Seq(NamesOf(p))
           S(i) == Scope(p)[i]
           Up(i) == src[p][i].up
           Name(i) == src[p][i].name
           T == {i \in 0 .. n : S(i) \in V /\ (S(i) = <<>> \/ \E j \in Definitions(p) : S(j) = S(i))}
<1>1. n \in Nat /\ Lines(p) = 1 .. n /\ Definitions(p) \subseteq 1 .. n
    BY DEF CodeGraphAssumption, Paths, Lines, Definitions
<1>2. \A i \in 1 .. n : Up(i) \in 0 .. i - 1 /\ Name(i) \in NamesOf(p)
    BY <1>1 DEF CodeGraphAssumption, Paths, Lines, NamesOf
<1>3. /\ S(0) = <<>>
      /\ \A i \in 1 .. n : S(i) = IF i \in Definitions(p) THEN Append(S(Up(i)), Name(i)) ELSE S(Up(i))
    BY ScopeStep
<1> HIDE DEF n, S, Up, Name
<1>4. 0 \in T
    <2>1. S(0) \in V
        <3>1. <<>> \in V
            OBVIOUS
        <3> HIDE DEF V
        <3> QED BY <1>3, <3>1
    <2>2. 0 \in 0 .. n
        BY <1>1
    <2> QED BY <1>3, <2>1, <2>2
<1>5. ASSUME NEW i \in 1 .. n, \A j \in 0 .. i - 1 : j \in T PROVE i \in T
    <2>1. Up(i) \in T
        BY <1>2, <1>5
    <2>2. CASE i \in Definitions(p)
        <3>1. S(i) = Append(S(Up(i)), Name(i)) /\ Name(i) \in NamesOf(p)
            BY <1>2, <1>3, <2>2
        <3>2. S(Up(i)) \in V
            BY <2>1
        <3>3. S(i) \in V /\ i \in 0 .. n
            BY <1>1, <3>1, <3>2
        <3> QED BY <2>2, <3>3
    <2>3. CASE i \notin Definitions(p)
        BY <1>1, <1>3, <2>1, <2>3
    <2> QED BY <2>2, <2>3
<1>6. \A i \in 0 .. n : i \in T
    <2> HIDE DEF T
    <2> QED BY <1>1, <1>4, <1>5, Induction
<1>7. ASSUME NEW j \in Definitions(p) PROVE S(j) # <<>>
    <2>1. Up(j) \in 0 .. n /\ S(j) = Append(S(Up(j)), Name(j)) /\ Name(j) \in NamesOf(p)
        BY <1>1, <1>2, <1>3
    <2>2. S(Up(j)) \in Seq(NamesOf(p))
        BY <1>6, <2>1
    <2>3. Len(Append(S(Up(j)), Name(j))) = Len(S(Up(j))) + 1 /\ Len(S(Up(j))) \in Nat
        BY <2>1, <2>2
    <2> QED BY <2>1, <2>3
<1> QED BY <1>6, <1>7 DEF n, S

\* The node of a file, and the node of a definition.
ModuleNode(p) ==
    [path |-> p, qual |-> <<>>, name |-> ModuleName[p], kind |-> "module", line |-> 0]
DefinitionNode(p, i) ==
    [path |-> p, qual |-> Scope(p)[i], name |-> src[p][i].name, kind |-> KindOf(p, i), line |-> i]
First(p, i) == \A k \in Definitions(p) : Scope(p)[k] = Scope(p)[i] => i <= k

\* The nodes of the graph are these, the first of each qualified name.
LEMMA NodesAre ==
    ASSUME NEW n
    PROVE  n \in BuiltNodes <=> \/ \E p \in Paths : HasSymbols(p) /\ n = ModuleNode(p)
                               \/ \E p \in Paths : \E i \in Definitions(p) :
                                     First(p, i) /\ n = DefinitionNode(p, i)
PROOF
<1>1. n \in {ModuleNode(p) : p \in {q \in Paths : HasSymbols(q)}}
          <=> \E p \in Paths : HasSymbols(p) /\ n = ModuleNode(p)
    OBVIOUS
<1>2. n \in UNION {{DefinitionNode(p, i) : i \in {j \in Definitions(p) : First(p, j)}} : p \in Paths}
          <=> \E p \in Paths : \E i \in Definitions(p) : First(p, i) /\ n = DefinitionNode(p, i)
    OBVIOUS
<1>3. BuiltNodes = {ModuleNode(p) : p \in {q \in Paths : HasSymbols(q)}}
          \cup UNION {{DefinitionNode(p, i) : i \in {j \in Definitions(p) : First(p, j)}} : p \in Paths}
    BY Zenon DEF BuiltNodes, ModuleNode, DefinitionNode, First
<1> QED BY <1>1, <1>2, <1>3

\* Every scope of a file with symbols is that of a node.
LEMMA ScopesHaveNodes ==
    ASSUME CodeGraphAssumption, src \in Sources, nodes = BuiltNodes,
           NEW p \in Paths, HasSymbols(p), NEW i \in 0 .. Len(src[p])
    PROVE  <<p, Scope(p)[i]>> \in Keys
PROOF
<1>1. CASE Scope(p)[i] = <<>>
    <2>1. ModuleNode(p) \in nodes
        BY NodesAre
    <2>2. Key(ModuleNode(p)) = <<p, <<>>>>
        BY DEF Key, ModuleNode
    <2> QED BY <1>1, <2>1, <2>2 DEF Keys
<1>2. CASE Scope(p)[i] # <<>>
    <2>1. PICK j \in Definitions(p) : Scope(p)[j] = Scope(p)[i]
        BY <1>2, Scopes
    <2> DEFINE T == {k \in Definitions(p) : Scope(p)[k] = Scope(p)[j]}
    <2>2. T \subseteq Nat /\ T # {}
        BY <2>1 DEF CodeGraphAssumption, Paths, Lines, Definitions
    <2>3. PICK k \in T : \A m \in T : k <= m
        <3> HIDE DEF T
        <3> QED BY <2>2, Least
    <2>4. First(p, k)
        BY <2>3 DEF First
    <2>5. DefinitionNode(p, k) \in nodes
        BY <2>3, <2>4, NodesAre
    <2>6. Key(DefinitionNode(p, k)) = <<p, Scope(p)[i]>>
        BY <2>1, <2>3 DEF Key, DefinitionNode
    <2> QED BY <2>5, <2>6 DEF Keys
<1> QED BY <1>1, <1>2

\* A graph has finitely many nodes, in files and on lines of the source.
LEMMA FiniteNodes ==
    ASSUME CodeGraphAssumption, src \in Sources, nodes = BuiltNodes
    PROVE  /\ IsFiniteSet(nodes) /\ IsFiniteSet(Keys)
           /\ \A n \in nodes : n.path \in Nat /\ n.line \in Nat
PROOF
<1> DEFINE Spots(p) == {<<p, i>> : i \in 0 .. Len(src[p])}
           spots == [p \in Paths |-> Spots(p)]
           Places == UNION {spots[p] : p \in Paths}
           node == [x \in Places |->
                      IF x[2] = 0 THEN ModuleNode(x[1]) ELSE DefinitionNode(x[1], x[2])]
<1>1. /\ Len(src) \in Nat /\ Paths = 1 .. Len(src)
      /\ \A p \in Paths : Len(src[p]) \in Nat /\ Lines(p) = 1 .. Len(src[p])
    BY DEF CodeGraphAssumption, Paths, Lines
<1>2. IsFiniteSet(Paths)
    BY <1>1, FiniteInterval
<1>3. ASSUME NEW p \in Paths PROVE IsFiniteSet(Spots(p))
    <2> DEFINE f == [i \in 0 .. Len(src[p]) |-> <<p, i>>]
    <2>1. IsFiniteSet(0 .. Len(src[p]))
        <3>1. Len(src[p]) \in Nat
            BY <1>1
        <3> QED BY <3>1, FiniteInterval
    <2>2. IsFiniteSet({f[i] : i \in 0 .. Len(src[p])})
        <3> HIDE DEF f
        <3> QED BY <2>1, FiniteImage
    <2>3. {f[i] : i \in 0 .. Len(src[p])} = Spots(p)
        OBVIOUS
    <2> QED BY <2>2, <2>3
<1>4. IsFiniteSet(Places)
    <2>1. IsFiniteSet({spots[p] : p \in Paths})
        <3> HIDE DEF spots
        <3> QED BY <1>2, FiniteImage
    <2>2. \A T \in {spots[p] : p \in Paths} : IsFiniteSet(T)
        <3> HIDE DEF Spots
        <3> QED BY <1>3
    <2> HIDE DEF spots
    <2> QED BY <2>1, <2>2, FS_UNION
<1>5. \A p \in Paths : \A i \in 0 .. Len(src[p]) : <<p, i>> \in Places
    OBVIOUS
<1>6. \A p \in Paths : \A j \in Definitions(p) : j \in 1 .. Len(src[p])
    BY <1>1 DEF Definitions
<1>7. ASSUME NEW n \in nodes PROVE \E x \in Places : n = node[x]
    <2>1. \A p \in Paths : <<p, 0>> \in Places /\ node[<<p, 0>>] = ModuleNode(p)
        <3> HIDE DEF Places
        <3> QED BY <1>1, <1>5
    <2>2. ASSUME NEW p \in Paths, NEW j \in Definitions(p)
          PROVE  <<p, j>> \in Places /\ node[<<p, j>>] = DefinitionNode(p, j)
        <3>1. Len(src[p]) \in Nat /\ j \in 1 .. Len(src[p])
            BY <1>1, <1>6
        <3>2. j \in 0 .. Len(src[p]) /\ j # 0
            BY <3>1
        <3> HIDE DEF Places
        <3>3. <<p, j>> \in Places
            BY <1>5, <3>2
        <3> QED BY <3>2, <3>3
    <2> HIDE DEF Places, node
    <2>3. CASE \E p \in Paths : HasSymbols(p) /\ n = ModuleNode(p)
        BY <2>1, <2>3
    <2>4. CASE \E p \in Paths : \E i \in Definitions(p) : First(p, i) /\ n = DefinitionNode(p, i)
        BY <2>2, <2>4
    <2> QED BY <2>3, <2>4, NodesAre
<1>8. IsFiniteSet(nodes)
    <2> HIDE DEF Places, node
    <2>1. IsFiniteSet({node[x] : x \in Places})
        BY <1>4, FiniteImage
    <2>2. nodes \in SUBSET {node[x] : x \in Places}
        BY <1>7
    <2> QED BY <2>1, <2>2, FS_Subset
<1>9. IsFiniteSet(Keys)
    <2> DEFINE f == [n \in nodes |-> Key(n)]
    <2>1. IsFiniteSet({f[n] : n \in nodes})
        <3> HIDE DEF f
        <3> QED BY <1>8, FiniteImage
    <2>2. Keys = {f[n] : n \in nodes}
        BY DEF Keys
    <2> QED BY <2>1, <2>2
<1>10. \A n \in nodes : n.path \in Nat /\ n.line \in Nat
    BY <1>1, <1>6, NodesAre DEF ModuleNode, DefinitionNode
<1> QED BY <1>8, <1>9, <1>10

\* The definitions a reference may mean, and those of them it links to.
Meant(p, ref) == IF InFile(Candidates(ref), p) # {} THEN InFile(Candidates(ref), p) ELSE Candidates(ref)
Chosen(p, ref) == Meant(p, ref) \ {n \in Candidates(ref) : Key(n) = <<p, ref.from>>}

\* A reference links to the first MaxTargets nodes it means, never to its own.
LEMMA TargetsAre ==
    ASSUME NEW p, NEW ref, NEW n
    PROVE  n \in Targets(p, ref) <=>
             /\ n \in Chosen(p, ref)
             /\ Cardinality({m \in Chosen(p, ref) : Precedes(m, n)}) < MaxTargets
PROOF
    BY Zenon DEF Targets, Meant, Chosen

\* The edge of a reference to a node.
ReferenceEdge(p, ref, n) == [from |-> <<p, ref.from>>, to |-> Key(n), kind |-> ref.kind]

\* An edge for each target of each reference from a scope that has a node.
LEMMA ReferencesAre ==
    ASSUME NEW e
    PROVE  e \in ReferenceEdges <=>
             \E p \in Paths : \E ref \in References(p) : \E n \in Targets(p, ref) :
                <<p, ref.from>> \in Keys /\ e = ReferenceEdge(p, ref, n)
PROOF
<1> DEFINE E(p, ref) == {ReferenceEdge(p, ref, n) : n \in Targets(p, ref)}
           R(p) == {r \in References(p) : <<p, r.from>> \in Keys}
           F(p) == UNION {E(p, ref) : ref \in R(p)}
<1>1. \A p, ref : e \in E(p, ref) <=> \E n \in Targets(p, ref) : e = ReferenceEdge(p, ref, n)
    OBVIOUS
<1>2. \A p : e \in F(p) <=> \E ref \in R(p) : e \in E(p, ref)
    <2> HIDE DEF E, R
    <2> QED OBVIOUS
<1>3. e \in ReferenceEdges <=> \E p \in Paths : e \in F(p)
    <2>1. ReferenceEdges = UNION {F(p) : p \in Paths}
        BY Zenon DEF ReferenceEdges, ReferenceEdge
    <2> HIDE DEF F
    <2> QED BY <2>1
<1>4. \A p, ref : ref \in R(p) <=> ref \in References(p) /\ <<p, ref.from>> \in Keys
    OBVIOUS
<1> HIDE DEF E, F, R
<1>5. \A p : e \in F(p) <=> \E ref \in References(p) : \E n \in Targets(p, ref) :
          <<p, ref.from>> \in Keys /\ e = ReferenceEdge(p, ref, n)
    BY <1>1, <1>2, <1>4
<1> QED BY <1>3, <1>5

\* An edge joins two different nodes of the graph.
LEMMA EdgesJoinNodes ==
    ASSUME CodeGraphAssumption, src \in Sources, nodes = BuiltNodes,
           edges = DefinesEdges \cup ReferenceEdges
    PROVE  \A e \in edges : e.from \in Keys /\ e.to \in Keys /\ e.from # e.to
PROOF
<1>1. ASSUME NEW e \in DefinesEdges PROVE e.from \in Keys /\ e.to \in Keys /\ e.from # e.to
    <2>1. PICK p \in Paths : \E i \in Definitions(p) :
              e.from = <<p, <<>>>> /\ e.to = <<p, Scope(p)[i]>>
        BY DEF DefinesEdges
    <2>4. PICK i \in Definitions(p) : e.from = <<p, <<>>>> /\ e.to = <<p, Scope(p)[i]>>
        BY <2>1
    <2>2. HasSymbols(p) /\ i \in 0 .. Len(src[p]) /\ 0 \in 0 .. Len(src[p])
        BY DEF HasSymbols, Definitions, CodeGraphAssumption, Paths, Lines
    <2>3. Scope(p)[0] = <<>> /\ Scope(p)[i] # <<>>
        BY ScopeStep, Scopes
    <2> QED BY <2>2, <2>3, <2>4, ScopesHaveNodes
<1>2. ASSUME NEW e \in ReferenceEdges PROVE e.from \in Keys /\ e.to \in Keys /\ e.from # e.to
    <2>1. PICK p \in Paths : \E ref \in References(p) : \E n \in Targets(p, ref) :
              <<p, ref.from>> \in Keys /\ e = ReferenceEdge(p, ref, n)
        BY ReferencesAre
    <2>2. PICK ref \in References(p) : \E n \in Targets(p, ref) :
              <<p, ref.from>> \in Keys /\ e = ReferenceEdge(p, ref, n)
        BY <2>1
    <2>3. PICK n \in Targets(p, ref) : e = ReferenceEdge(p, ref, n)
        BY <2>2
    <2>4. n \in Chosen(p, ref)
        BY TargetsAre
    <2>5. n \in nodes /\ Key(n) # <<p, ref.from>>
        BY <2>4 DEF Chosen, Meant, Candidates, InFile
    <2>6. e.from = <<p, ref.from>> /\ e.to = Key(n)
        BY <2>3 DEF ReferenceEdge
    <2> QED BY <2>2, <2>5, <2>6 DEF Keys
<1> QED BY <1>1, <1>2

-----------------------------------------------------------------------------
(* Breadth-first search.                                                   *)

\* What one hop of a relation reaches from a set.
Neighbours(relation, S) == {h[2] : h \in {g \in Hops(relation) : g[1] \in S}}

\* A hop joins two different nodes of the graph.
LEMMA HopsJoinNodes ==
    ASSUME CodeGraphAssumption, src \in Sources, nodes = BuiltNodes,
           edges = DefinesEdges \cup ReferenceEdges,
           NEW relation, NEW h \in Hops(relation)
    PROVE  h = <<h[1], h[2]>> /\ h[1] \in Keys /\ h[2] \in Keys /\ h[1] # h[2]
PROOF
<1>1. PICK e \in edges : h = <<e.from, e.to>> \/ h = <<e.to, e.from>>
    BY DEF Hops
<1>2. e.from \in Keys /\ e.to \in Keys /\ e.from # e.to
    BY EdgesJoinNodes
<1> QED BY <1>1, <1>2

\* A search starts at the seed, and each round adds what the last one reaches.
LEMMA BallStep ==
    ASSUME NEW relation, NEW seed, NEW depth \in Nat
    PROVE  LET ball == Ball(relation, seed, depth)
           IN /\ ball[0] = {seed}
              /\ \A k \in 1 .. depth : ball[k] = ball[k - 1] \cup Neighbours(relation, ball[k - 1])
PROOF
<1> DEFINE V == SUBSET ({seed} \cup {h[2] : h \in Hops(relation)})
           Next1(S) == S \cup {h[2] : h \in {g \in Hops(relation) : g[1] \in S}}
           up == [k \in 1 .. depth |-> k - 1]
           step == [k \in 1 .. depth |-> [S \in V |-> Next1(S)]]
           Body(s) == [k \in 0 .. depth |-> IF k = 0 THEN {seed} ELSE Next1(s[k - 1])]
<1>1. Recurrence(depth, V, {seed}, step, up)
    <2>1. \A S \in V : Next1(S) \in V
        OBVIOUS
    <2>2. step \in [1 .. depth -> [V -> V]] /\ {seed} \in V
        <3>1. {seed} \in V
            OBVIOUS
        <3> HIDE DEF Next1, V
        <3> QED BY <2>1, <3>1
    <2>3. up \in [1 .. depth -> Nat] /\ \A k \in 1 .. depth : up[k] < k
        OBVIOUS
    <2> QED BY <2>2, <2>3 DEF Recurrence
<1>2. PICK s : Solution(s, depth, V, {seed}, step, up)
    BY <1>1, Recursion
<1>3. ASSUME NEW k \in 1 .. depth PROVE s[k] = Next1(s[k - 1])
    <2> HIDE DEF V, Next1
    <2>1. s[k] = step[k][s[up[k]]] /\ up[k] = k - 1
        <3> HIDE DEF step
        <3> QED BY <1>2 DEF Solution
    <2>2. s[k - 1] \in V
        BY <1>2 DEF Solution
    <2>3. \A S \in V : step[k][S] = Next1(S)
        OBVIOUS
    <2> QED BY <2>1, <2>2, <2>3
<1>4. s = Body(s)
    <2> HIDE DEF V, Next1
    <2> QED BY <1>2, <1>3 DEF Solution
<1>5. Ball(relation, seed, depth) = Body(Ball(relation, seed, depth))
    BY <1>4, Zenon DEF Ball
<1>6. \A s1 : Body(s1)[0] = {seed} /\ \A k \in 1 .. depth : Body(s1)[k] = Next1(s1[k - 1])
    <2> HIDE DEF Next1
    <2> QED OBVIOUS
<1>7. \A S : Next1(S) = S \cup Neighbours(relation, S)
    BY DEF Neighbours
<1> HIDE DEF Body, Next1
<1> QED BY <1>5, <1>6, <1>7

\* A later round has all of an earlier one.
LEMMA BallGrows ==
    ASSUME NEW relation, NEW seed, NEW depth \in Nat,
           NEW k \in 0 .. depth, NEW j \in 0 .. k
    PROVE  Ball(relation, seed, depth)[j] \subseteq Ball(relation, seed, depth)[k]
PROOF
<1> DEFINE ball == Ball(relation, seed, depth)
           T == {i \in 0 .. depth : i < j \/ ball[j] \subseteq ball[i]}
<1>1. \A i \in 1 .. depth : ball[i - 1] \subseteq ball[i]
    BY BallStep
<1> HIDE DEF ball
<1>2. 0 \in T
    OBVIOUS
<1>3. ASSUME NEW i \in 1 .. depth, \A m \in 0 .. i - 1 : m \in T PROVE i \in T
    <2>1. i - 1 \in T /\ ball[i - 1] \subseteq ball[i]
        BY <1>1, <1>3
    <2>2. CASE i <= j
        BY <2>2
    <2>3. CASE i > j
        BY <2>1, <2>3
    <2> QED BY <2>2, <2>3
<1>4. \A i \in 0 .. depth : i \in T
    <2> HIDE DEF T
    <2> QED BY <1>2, <1>3, Induction
<1>5. k \in T
    BY <1>4
<1> QED BY <1>5 DEF ball

\* A round reaches every neighbour of the one before, and nothing else is new.
LEMMA BallReaches ==
    ASSUME NEW relation, NEW seed, NEW depth \in Nat, NEW k \in 1 .. depth
    PROVE  LET ball == Ball(relation, seed, depth)
           IN \A y : /\ y \in ball[k] /\ y \notin ball[k - 1] =>
                           \E h \in Hops(relation) : h[1] \in ball[k - 1] /\ h[2] = y
                     /\ (\E h \in Hops(relation) : h[1] \in ball[k - 1] /\ h[2] = y) => y \in ball[k]
PROOF
<1> DEFINE ball == Ball(relation, seed, depth)
<1>1. ball[k] = ball[k - 1] \cup Neighbours(relation, ball[k - 1])
    BY BallStep
<1>2. \A y : y \in Neighbours(relation, ball[k - 1]) <=>
                \E h \in Hops(relation) : h[1] \in ball[k - 1] /\ h[2] = y
    BY DEF Neighbours
<1> HIDE DEF ball
<1>3. \A y : /\ y \in ball[k] /\ y \notin ball[k - 1] =>
                      \E h \in Hops(relation) : h[1] \in ball[k - 1] /\ h[2] = y
             /\ (\E h \in Hops(relation) : h[1] \in ball[k - 1] /\ h[2] = y) => y \in ball[k]
    BY <1>1, <1>2
<1> QED BY <1>3 DEF ball

\* What a search reaches, other than the seed, it reaches in some round first.
LEMMA BallFirst ==
    ASSUME NEW relation, NEW seed, NEW depth \in Nat, NEW k \in 0 .. depth,
           NEW y \in Ball(relation, seed, depth)[k], y # seed
    PROVE  \E m \in 1 .. k : y \in Ball(relation, seed, depth)[m] \ Ball(relation, seed, depth)[m - 1]
PROOF
<1> DEFINE ball == Ball(relation, seed, depth)
           T == {m \in 0 .. k : y \in ball[m]}
<1>1. y \notin ball[0]
    BY BallStep
<1>2. y \in ball[k]
    OBVIOUS
<1> HIDE DEF ball
<1>3. T \subseteq Nat /\ T # {}
    BY <1>2
<1>4. PICK m \in T : \A i \in T : m <= i
    <2> HIDE DEF T
    <2> QED BY <1>3, Least
<1>5. m \in 1 .. k /\ m - 1 \in 0 .. k /\ m - 1 \notin T
    BY <1>1, <1>4
<1> QED BY <1>4, <1>5 DEF ball

\* A search in which a round adds nothing is over.
LEMMA BallStops ==
    ASSUME NEW relation, NEW seed, NEW depth \in Nat, NEW k \in 1 .. depth,
           Ball(relation, seed, depth)[k] \subseteq Ball(relation, seed, depth)[k - 1],
           NEW m \in k .. depth
    PROVE  Ball(relation, seed, depth)[m] \subseteq Ball(relation, seed, depth)[k - 1]
PROOF
<1> DEFINE ball == Ball(relation, seed, depth)
           T == {i \in 0 .. depth : i < k \/ ball[i] \subseteq ball[k - 1]}
<1>1. \A i \in 1 .. depth : ball[i] = ball[i - 1] \cup Neighbours(relation, ball[i - 1])
    BY BallStep
<1>2. ball[k] \subseteq ball[k - 1]
    OBVIOUS
<1>3. \A R, S : R \subseteq S => Neighbours(relation, R) \subseteq Neighbours(relation, S)
    BY DEF Neighbours
<1> HIDE DEF ball
<1>4. 0 \in T
    OBVIOUS
<1>5. ASSUME NEW i \in 1 .. depth, \A j \in 0 .. i - 1 : j \in T PROVE i \in T
    <2>1. i - 1 \in T
        BY <1>5
    <2>2. CASE i < k
        BY <2>2
    <2>3. CASE i = k
        BY <1>2, <2>3
    <2>4. CASE i > k
        <3>1. ball[i - 1] \subseteq ball[k - 1]
            BY <2>1, <2>4
        <3>2. Neighbours(relation, ball[i - 1]) \subseteq Neighbours(relation, ball[k - 1])
            BY <1>3, <3>1
        <3>3. Neighbours(relation, ball[k - 1]) \subseteq ball[k] /\ k \in 1 .. depth
            BY <1>1
        <3>4. ball[i] \subseteq ball[k - 1]
            BY <1>1, <1>2, <3>1, <3>2, <3>3
        <3> QED BY <3>4
    <2> QED BY <2>2, <2>3, <2>4
<1>6. \A i \in 0 .. depth : i \in T
    <2> HIDE DEF T
    <2> QED BY <1>4, <1>5, Induction
<1>7. m \in T /\ ~ (m < k)
    BY <1>6
<1> QED BY <1>7 DEF ball

-----------------------------------------------------------------------------
(* The walk of a query.                                                    *)

\* What the search of a query has reached after k rounds.
Reach(q, k) == Ball(q.relation, q.seed, q.depth)[k]

\* A row of the recursive table: a way that ends at a neighbour of its last node,
\* within reach, and is not back at the seed.
Walk(q, w) ==
    /\ w.depth \in 1 .. q.depth
    /\ w.node \in Reach(q, w.depth) /\ w.node # q.seed
    /\ w.visited \subseteq Reach(q, w.depth) /\ q.seed \in w.visited
    /\ <<w.via, w.node>> \in Hops(q.relation)

\* There is a row for each node at distance k.
Nearest(q, R, k) ==
    \A y \in Reach(q, k) \ Reach(q, k - 1) : \E w \in R : w.node = y /\ w.depth = k

\* After d rounds the working table has the rows of depth d, and every node at a
\* distance up to d has a row that is no longer than that.
Walked(q, R, F, d) ==
    /\ F = {w \in R : w.depth = d}
    /\ \A w \in R : Walk(q, w) /\ w.depth <= d
    /\ \A k \in 1 .. d : k <= q.depth => Nearest(q, R, k)

Asked == [relation : Relations, seed : Keys, depth : Depths, limit : Limits]

\* The graph is what is built from the sources.
Indexed ==
    /\ src \in Sources
    /\ nodes # None => nodes = BuiltNodes
    /\ edges # None => nodes # None /\ edges = DefinesEdges \cup ReferenceEdges

QueryInv ==
    ask # NoQuery => /\ edges # None /\ ask \in Asked
                     /\ \E d \in 1 .. ask.depth + 1 : Walked(ask, rows, front, d)

GraphInv ==
    /\ Indexed /\ QueryInv
    /\ reply # None => ask # NoQuery /\ front = {}
    /\ NearestOnly /\ ImpactIsSafe

\* A set of natural numbers that is not empty has its Min.
LEMMA MinIsLeast ==
    ASSUME NEW S, S \subseteq Nat, S # {}
    PROVE  Min(S) \in S /\ \A y \in S : Min(S) <= y
PROOF
    BY Least DEF Min

\* The reach of a query: its rounds, from the seed on.
LEMMA Reaches ==
    ASSUME CodeGraphAssumption, NEW q \in Asked
    PROVE  /\ q.depth \in Nat \ {0}
           /\ Reach(q, 0) = {q.seed}
           /\ \A k \in 0 .. q.depth : \A j \in 0 .. k : Reach(q, j) \subseteq Reach(q, k)
           /\ \A k \in 1 .. q.depth : \A y :
                 /\ y \in Reach(q, k) /\ y \notin Reach(q, k - 1) =>
                       \E h \in Hops(q.relation) : h[1] \in Reach(q, k - 1) /\ h[2] = y
                 /\ (\E h \in Hops(q.relation) : h[1] \in Reach(q, k - 1) /\ h[2] = y)
                       => y \in Reach(q, k)
PROOF
<1>1. q.depth \in Nat \ {0}
    BY DEF CodeGraphAssumption, Asked
<1>2. Reach(q, 0) = {q.seed}
    BY <1>1, BallStep DEF Reach
<1>3. \A k \in 0 .. q.depth : \A j \in 0 .. k : Reach(q, j) \subseteq Reach(q, k)
    BY <1>1, BallGrows DEF Reach
<1>4. ASSUME NEW k \in 1 .. q.depth
      PROVE  \A y : /\ y \in Reach(q, k) /\ y \notin Reach(q, k - 1) =>
                          \E h \in Hops(q.relation) : h[1] \in Reach(q, k - 1) /\ h[2] = y
                    /\ (\E h \in Hops(q.relation) : h[1] \in Reach(q, k - 1) /\ h[2] = y)
                          => y \in Reach(q, k)
    BY <1>1, BallReaches DEF Reach
<1> QED BY <1>1, <1>2, <1>3, <1>4

\* The first rows are those of distance one.
LEMMA SeedWalks ==
    ASSUME CodeGraphAssumption, src \in Sources, nodes = BuiltNodes,
           edges = DefinesEdges \cup ReferenceEdges, NEW q \in Asked
    PROVE  Walked(q, SeedRows(q.relation, q.seed), SeedRows(q.relation, q.seed), 1)
PROOF
<1> DEFINE R == SeedRows(q.relation, q.seed)
           Row(h) == [node |-> h[2], via |-> h[1], depth |-> 1, visited |-> {h[1], h[2]}]
<1>1. \A w : w \in R <=> \E h \in Hops(q.relation) : h[1] = q.seed /\ w = Row(h)
    BY DEF SeedRows
<1>2. ASSUME NEW w \in R PROVE Walk(q, w) /\ w.depth = 1
    <2>1. PICK h \in Hops(q.relation) : h[1] = q.seed /\ w = Row(h)
        BY <1>1
    <2>2. h = <<h[1], h[2]>> /\ h[1] # h[2]
        BY HopsJoinNodes
    <2>3. /\ w.node = h[2] /\ w.via = h[1] /\ w.depth = 1 /\ w.visited = {h[1], h[2]}
        BY <2>1
    <2>4. 1 \in 1 .. q.depth /\ q.seed \in Reach(q, 0) /\ 0 \in 0 .. 1 /\ 1 \in 0 .. q.depth
        BY Reaches
    <2>5. q.seed \in Reach(q, 1) /\ h[2] \in Reach(q, 1)
        BY <2>1, <2>4, Reaches
    <2> QED BY <2>1, <2>2, <2>3, <2>4, <2>5 DEF Walk
<1>3. Nearest(q, R, 1)
    <2>1. SUFFICES ASSUME NEW y, y \in Reach(q, 1), y \notin Reach(q, 0)
                   PROVE  \E w \in R : w.node = y /\ w.depth = 1
        BY DEF Nearest
    <2>2. PICK h \in Hops(q.relation) : h[1] \in Reach(q, 0) /\ h[2] = y
        BY <2>1, Reaches
    <2>3. h[1] = q.seed
        BY <2>2, Reaches
    <2>4. Row(h) \in R /\ Row(h).node = y /\ Row(h).depth = 1
        BY <1>1, <2>2, <2>3
    <2> QED BY <2>4
<1> HIDE DEF R
<1>4. R = {w \in R : w.depth = 1} /\ \A w \in R : w.depth <= 1
    BY <1>2
<1>5. \A k \in 1 .. 1 : k = 1
    OBVIOUS
<1> QED BY <1>2, <1>3, <1>4, <1>5 DEF Walked, R

\* A round of the recursion takes the walk one step further.
LEMMA RoundWalks ==
    ASSUME CodeGraphAssumption, src \in Sources, nodes = BuiltNodes,
           edges = DefinesEdges \cup ReferenceEdges, ask \in Asked,
           NEW R, NEW F, F # {}, NEW d \in 1 .. ask.depth + 1, Walked(ask, R, F, d)
    PROVE  LET G == UNION {Extended(w) : w \in F}
           IN d <= ask.depth /\ Walked(ask, R \cup G, G, d + 1)
PROOF
<1> DEFINE G == UNION {Extended(w) : w \in F}
           Row(w, h) == [node |-> h[2], via |-> h[1], depth |-> w.depth + 1,
                         visited |-> w.visited \cup {h[2]}]
<1>1. \A v : v \in G <=> \E w \in F : \E h \in Hops(ask.relation) :
          h[1] = w.node /\ w.depth < ask.depth /\ h[2] \notin w.visited /\ v = Row(w, h)
    <2>1. \A v : v \in G <=> \E w \in F : v \in Extended(w)
        OBVIOUS
    <2>2. \A v, w : v \in Extended(w) <=> \E h \in Hops(ask.relation) :
          h[1] = w.node /\ w.depth < ask.depth /\ h[2] \notin w.visited /\ v = Row(w, h)
        BY DEF Extended
    <2> HIDE DEF G, Row
    <2> QED BY <2>1, <2>2
<1>2. /\ \A w \in F : w \in R /\ w.depth = d
      /\ \A w \in R : w.depth = d => w \in F
      /\ \A w \in R : Walk(ask, w) /\ w.depth <= d
    BY DEF Walked
<1>3. \A k \in 1 .. d : k <= ask.depth => Nearest(ask, R, k)
    BY DEF Walked
<1>4. ask.depth \in Nat \ {0}
    BY Reaches
<1>5. d <= ask.depth
    <2>1. PICK w \in F : w.depth = d /\ Walk(ask, w)
        BY <1>2
    <2>2. w.depth \in 1 .. ask.depth
        BY <2>1 DEF Walk
    <2> QED BY <1>4, <2>1, <2>2
<1>6. ASSUME NEW v \in G PROVE Walk(ask, v) /\ v.depth = d + 1
    <2>1. PICK w \in F, h \in Hops(ask.relation) :
              h[1] = w.node /\ w.depth < ask.depth /\ h[2] \notin w.visited /\ v = Row(w, h)
        BY <1>1
    <2>2. h = <<h[1], h[2]>>
        BY HopsJoinNodes
    <2>3. /\ v.node = h[2] /\ v.via = h[1] /\ v.depth = w.depth + 1
          /\ v.visited = w.visited \cup {h[2]}
        BY <2>1
    <2>4. w.depth = d /\ Walk(ask, w)
        BY <1>2
    <2>5. d + 1 \in 1 .. ask.depth /\ d \in 0 .. d + 1 /\ d + 1 \in 0 .. ask.depth /\ (d + 1) - 1 = d
        BY <1>4, <2>1, <2>4
    <2>6. Reach(ask, d) \subseteq Reach(ask, d + 1)
        BY <2>5, Reaches
    <2>7. h[2] \in Reach(ask, d + 1)
        BY <2>1, <2>4, <2>5, Reaches DEF Walk
    <2>8. w.visited \subseteq Reach(ask, d) /\ ask.seed \in w.visited
        BY <2>4 DEF Walk
    <2> QED BY <2>1, <2>2, <2>3, <2>4, <2>5, <2>6, <2>7, <2>8 DEF Walk
<1>7. ASSUME NEW k \in 1 .. d + 1, k <= ask.depth PROVE Nearest(ask, R \cup G, k)
    <2>1. CASE k \in 1 .. d
        BY <1>3, <1>7, <2>1 DEF Nearest
    <2>2. CASE k = d + 1
        <3>1. SUFFICES ASSUME NEW y, y \in Reach(ask, d + 1), y \notin Reach(ask, d)
                       PROVE  \E v \in R \cup G : v.node = y /\ v.depth = d + 1
            BY <2>2 DEF Nearest
        <3>2. d + 1 \in 1 .. ask.depth /\ d \in 1 .. ask.depth /\ (d + 1) - 1 = d /\ d \in 1 .. d
            BY <1>4, <1>5, <1>7, <2>2
        <3>3. PICK h \in Hops(ask.relation) : h[1] \in Reach(ask, d) /\ h[2] = y
            BY <3>1, <3>2, Reaches
        <3>4. h[1] \notin Reach(ask, d - 1)
            BY <3>1, <3>2, <3>3, Reaches
        <3>5. PICK w \in R : w.node = h[1] /\ w.depth = d
            BY <1>3, <1>5, <3>2, <3>3, <3>4 DEF Nearest
        <3>6. w \in F /\ w.depth < ask.depth /\ h[2] \notin w.visited
            <4>1. w \in F /\ w.visited \subseteq Reach(ask, d)
                BY <1>2, <3>5 DEF Walk
            <4>2. w.depth < ask.depth
                BY <1>4, <3>2, <3>5
            <4> QED BY <3>1, <3>3, <4>1, <4>2
        <3>7. Row(w, h) \in G /\ Row(w, h).node = y /\ Row(w, h).depth = d + 1
            BY <1>1, <3>3, <3>5, <3>6
        <3> QED BY <3>7
    <2> QED BY <2>1, <2>2
<1> HIDE DEF G
<1>8. G = {w \in R \cup G : w.depth = d + 1} /\ \A w \in R \cup G : Walk(ask, w) /\ w.depth <= d + 1
    <2>1. \A w \in R : Walk(ask, w) /\ w.depth \in Nat /\ w.depth <= d
        <3>1. \A w : Walk(ask, w) => w.depth \in 1 .. ask.depth
            BY DEF Walk
        <3> QED BY <1>2, <1>4, <3>1
    <2> QED BY <1>6, <2>1
<1> QED BY <1>5, <1>7, <1>8 DEF Walked, G

\* When the working table is empty every node within the depth has been found at
\* its distance.
LEMMA WalkEnds ==
    ASSUME CodeGraphAssumption, NEW q \in Asked, NEW R,
           NEW d \in 1 .. q.depth + 1, Walked(q, R, {}, d)
    PROVE  \A k \in 1 .. q.depth : Nearest(q, R, k)
PROOF
<1>1. SUFFICES ASSUME NEW k \in 1 .. q.depth PROVE Nearest(q, R, k)
    OBVIOUS
<1>2. q.depth \in Nat \ {0}
    BY Reaches
<1>3. CASE k <= d
    BY <1>2, <1>3 DEF Walked
<1>4. CASE k > d
    <2>1. d \in 1 .. q.depth /\ k \in d .. q.depth /\ d - 1 \in 0 .. k - 1 /\ k - 1 \in 0 .. q.depth
        BY <1>2, <1>4
    <2>2. Nearest(q, R, d) /\ \A w \in R : w.depth # d
        BY <2>1 DEF Walked
    <2>3. Reach(q, d) \subseteq Reach(q, d - 1)
        BY <2>2 DEF Nearest
    <2>4. Reach(q, k) \subseteq Reach(q, d - 1)
        BY <1>2, <2>1, <2>3, BallStops DEF Reach
    <2>5. Reach(q, d - 1) \subseteq Reach(q, k - 1)
        BY <2>1, Reaches
    <2> QED BY <2>4, <2>5 DEF Nearest
<1> QED BY <1>2, <1>3, <1>4

-----------------------------------------------------------------------------
(* The answer.                                                             *)

\* The rows an answer is taken from: the nodes within reach, by ways no shorter
\* than their distance, each by one that is no longer.
LEMMA RowsAreNearest ==
    ASSUME CodeGraphAssumption, NEW q \in Asked, NEW R, \A w \in R : Walk(q, w),
           \A k \in 1 .. q.depth : Nearest(q, R, k), NEW w \in R
    PROVE  \E v \in R : v.node = w.node /\ v.depth <= w.depth
                        /\ v.node \in Reach(q, v.depth) \ Reach(q, v.depth - 1)
PROOF
<1>0. Walk(q, w)
    OBVIOUS
<1>1. q.depth \in Nat \ {0} /\ w.depth \in 1 .. q.depth /\ w.depth \in 0 .. q.depth
    <2>1. q.depth \in Nat \ {0}
        BY Reaches
    <2>2. w.depth \in 1 .. q.depth
        BY <1>0 DEF Walk
    <2> QED BY <2>1, <2>2
<1>2. w.node \in Reach(q, w.depth) /\ w.node # q.seed
    BY <1>0 DEF Walk
<1>3. PICK m \in 1 .. w.depth : w.node \in Reach(q, m) \ Reach(q, m - 1)
    BY <1>1, <1>2, BallFirst DEF Reach
<1>4. m \in 1 .. q.depth /\ m <= w.depth
    BY <1>1
<1>5. PICK v \in R : v.node = w.node /\ v.depth = m
    BY <1>3, <1>4 DEF Nearest
<1> QED BY <1>3, <1>4, <1>5

\* The nodes of the rows are those within reach, without the seed.
LEMMA RowsAreReach ==
    ASSUME CodeGraphAssumption, NEW q \in Asked, NEW R, \A w \in R : Walk(q, w),
           \A k \in 1 .. q.depth : Nearest(q, R, k)
    PROVE  {w.node : w \in R} = Reach(q, q.depth) \ {q.seed}
PROOF
<1>1. q.depth \in Nat \ {0} /\ q.depth \in 0 .. q.depth
    BY Reaches
<1>2. ASSUME NEW w \in R PROVE w.node \in Reach(q, q.depth) \ {q.seed}
    <2>0. Walk(q, w)
        OBVIOUS
    <2>2. w.depth \in 1 .. q.depth /\ w.node \in Reach(q, w.depth) /\ w.node # q.seed
        BY <2>0 DEF Walk
    <2>1. w.depth \in 0 .. q.depth /\ w.node \in Reach(q, w.depth) /\ w.node # q.seed
        BY <1>1, <2>2
    <2> QED BY <1>1, <2>1, Reaches
<1>3. ASSUME NEW y \in Reach(q, q.depth) \ {q.seed} PROVE \E w \in R : w.node = y
    <2>1. PICK m \in 1 .. q.depth : y \in Reach(q, m) \ Reach(q, m - 1)
        BY <1>1, BallFirst DEF Reach
    <2> QED BY <2>1 DEF Nearest
<1> QED BY <1>2, <1>3

\* A line that calls a definition by name: that of its own file, or one of no more
\* than MaxTargets.
Calls(p, i, n) ==
    /\ p \in Paths /\ i \in Lines(p) /\ src[p][i].kind = "call" /\ HasSymbols(p)
    /\ Cardinality(Means(p, src[p][i].name)) <= MaxTargets
    /\ n \in Means(p, src[p][i].name) /\ Key(n) # <<p, Scope(p)[i]>>

\* A scope that calls a definition by name, its file's own or one of no more
\* than MaxTargets, is one hop of an impact query away from it.
LEMMA CallersAreNear ==
    ASSUME CodeGraphAssumption, src \in Sources, nodes = BuiltNodes,
           edges = DefinesEdges \cup ReferenceEdges,
           NEW p, NEW i, NEW n, Calls(p, i, n)
    PROVE  \E h \in Hops("impact") : h[1] = Key(n) /\ h[2] = <<p, Scope(p)[i]>>
PROOF
<1> DEFINE ref == [from |-> Scope(p)[i], target |-> src[p][i].name, kind |-> "calls"]
           means == Means(p, src[p][i].name)
           caller == <<p, Scope(p)[i]>>
<1>0. /\ p \in Paths /\ i \in Lines(p) /\ src[p][i].kind = "call" /\ HasSymbols(p)
      /\ Cardinality(means) <= MaxTargets /\ n \in means /\ Key(n) # caller
    BY DEF Calls
<1>1. ref \in References(p)
    BY <1>0 DEF References
<1>2. Meant(p, ref) = means
    BY Zenon DEF Meant, Candidates, TargetKinds, Means, InFile
<1>3. n \in means /\ Key(n) # caller
    BY <1>0
<1>4. n \in Chosen(p, ref)
    BY <1>2, <1>3 DEF Chosen
<1>5. Chosen(p, ref) \subseteq means /\ means \subseteq nodes
    BY <1>2 DEF Chosen, Means, InFile
<1>6. ~ Precedes(n, n)
    <2>1. n.path \in Nat /\ n.line \in Nat
        BY <1>3, <1>5, FiniteNodes
    <2> QED BY <2>1 DEF Precedes
<1>7. n \in Targets(p, ref)
    <2> DEFINE before == {m \in Chosen(p, ref) : Precedes(m, n)}
    <2> HIDE DEF means, ref
    <2>1. IsFiniteSet(means) /\ IsFiniteSet(means \ {n})
        <3>1. IsFiniteSet(means)
            BY <1>5, FiniteNodes, FS_Subset
        <3> QED BY <3>1, FS_RemoveElement
    <2>2. Cardinality(means \ {n}) = Cardinality(means) - 1 /\ Cardinality(means) \in Nat
        BY <1>3, <2>1, FS_RemoveElement, FS_CardinalityType
    <2>3. before \in SUBSET (means \ {n})
        BY <1>5, <1>6
    <2>4. Cardinality(before) <= Cardinality(means \ {n}) /\ Cardinality(before) \in Nat
        BY <2>1, <2>3, FS_Subset, FS_CardinalityType
    <2>5. Cardinality(means) <= MaxTargets /\ MaxTargets \in Nat
        BY <1>0 DEF means, CodeGraphAssumption
    <2>6. Cardinality(before) < MaxTargets
        BY <2>2, <2>4, <2>5
    <2> QED BY <1>4, <2>6, TargetsAre
<1>8. <<p, ref.from>> \in Keys
    <2>1. i \in 0 .. Len(src[p])
        BY <1>0 DEF CodeGraphAssumption, Paths, Lines
    <2> QED BY <1>0, <2>1, ScopesHaveNodes
<1>9. ReferenceEdge(p, ref, n) \in edges
    <2> HIDE DEF ref
    <2> QED BY <1>0, <1>1, <1>7, <1>8, ReferencesAre
<1>10. PICK e \in edges : e.from = caller /\ e.to = Key(n) /\ e.kind = "calls"
    <2>1. /\ ReferenceEdge(p, ref, n).from = caller
          /\ ReferenceEdge(p, ref, n).to = Key(n)
          /\ ReferenceEdge(p, ref, n).kind = "calls"
        BY <1>3 DEF ReferenceEdge
    <2> QED BY <1>9, <2>1
<1>11. <<e.to, e.from>> \in Hops("impact")
    BY <1>10 DEF Hops
<1> QED BY <1>10, <1>11

\* What the graph means does not change while it does not.
LEMMA Unmoved ==
    ASSUME UNCHANGED <<src, nodes, edges>>
    PROVE  /\ Paths' = Paths /\ Keys' = Keys
           /\ \A p : /\ Lines(p)' = Lines(p) /\ Scope(p)' = Scope(p)
                     /\ HasSymbols(p)' <=> HasSymbols(p)
           /\ \A p, name : Means(p, name)' = Means(p, name)
           /\ \A relation : Hops(relation)' = Hops(relation)
           /\ \A relation, seed, depth : Ball(relation, seed, depth)' = Ball(relation, seed, depth)
PROOF
<1>1. Paths' = Paths
    BY Zenon DEF Paths
<1>2. Keys' = Keys
    BY Zenon DEF Keys, Key
<1>3. ASSUME NEW p PROVE Lines(p)' = Lines(p)
    BY Zenon DEF Lines
<1>4. ASSUME NEW p PROVE Scope(p)' = Scope(p)
    BY ZenonT(60) DEF Scope, Definitions, Lines
<1>5. ASSUME NEW p PROVE HasSymbols(p)' <=> HasSymbols(p)
    BY Zenon DEF HasSymbols, Lines
<1>6. ASSUME NEW p, NEW name PROVE Means(p, name)' = Means(p, name)
    BY Zenon DEF Means, InFile
<1>7. ASSUME NEW relation PROVE Hops(relation)' = Hops(relation)
    BY Zenon DEF Hops
<1>8. ASSUME NEW relation, NEW seed, NEW depth
      PROVE  Ball(relation, seed, depth)' = Ball(relation, seed, depth)
    BY Zenon DEF Ball, Hops
<1> QED BY <1>1, <1>2, <1>3, <1>4, <1>5, <1>6, <1>7, <1>8

\* The answer that is selected is right.
LEMMA SelectAnswers ==
    ASSUME CodeGraphAssumption, GraphInv, Select
    PROVE  NearestOnly' /\ ImpactIsSafe'
PROOF
<1> DEFINE least(w) == Min({v.depth : v \in {x \in rows : x.node = w.node}})
<1>1. /\ src \in Sources /\ nodes = BuiltNodes /\ edges = DefinesEdges \cup ReferenceEdges
      /\ ask \in Asked /\ front = {} /\ UNCHANGED <<src, nodes, edges, ask, rows, front>>
    BY DEF Select, indexVars, GraphInv, Indexed, QueryInv
<1>2. PICK d \in 1 .. ask.depth + 1 : Walked(ask, rows, {}, d)
    BY <1>1 DEF Select, GraphInv, QueryInv
<1>3. /\ \A w \in rows : Walk(ask, w)
      /\ \A k \in 1 .. ask.depth : Nearest(ask, rows, k)
      /\ ask.depth \in Nat \ {0}
    BY <1>1, <1>2, WalkEnds, Reaches DEF Walked
<1>4. PICK kept \in SUBSET Reached :
          /\ reply' = {w \in rows : w.node \in kept /\ w.depth = least(w)}
          /\ ask.limit = Unlimited => Cardinality(kept) = Cardinality(Reached)
    BY DEF Select, kSubset
<1>5. ask.limit = Unlimited => kept = Reached
    <2>1. ASSUME NEW w \in rows PROVE w.node \in Keys
        <3>1. <<w.via, w.node>> \in Hops(ask.relation)
            BY <1>3 DEF Walk
        <3>2. <<w.via, w.node>>[2] \in Keys
            <4> DEFINE h == <<w.via, w.node>>
            <4> HIDE DEF h
            <4>1. h \in Hops(ask.relation)
                BY <3>1 DEF h
            <4>2. h[2] \in Keys
                BY <1>1, <4>1, HopsJoinNodes
            <4> QED BY <4>2 DEF h
        <3> QED BY <3>2
    <2>2. Reached \in SUBSET Keys
        BY <2>1 DEF Reached
    <2>3. IsFiniteSet(Reached)
        BY <1>1, <2>2, FiniteNodes, FS_Subset
    <2> QED BY <1>4, <2>3, FS_Subset
<1>6. ASSUME NEW w \in rows
      PROVE  /\ \E v \in rows : v.node = w.node /\ v.depth = least(w) /\ least(v) = least(w)
             /\ \A v \in rows : v.node = w.node => least(w) <= v.depth
    <2> DEFINE S == {v.depth : v \in {x \in rows : x.node = w.node}}
    <2>0. ASSUME NEW v \in rows PROVE v.depth \in Nat
        <3>1. Walk(ask, v)
            BY <1>3
        <3>2. v.depth \in 1 .. ask.depth
            BY <3>1 DEF Walk
        <3> QED BY <1>3, <3>2
    <2>1. S \subseteq Nat /\ S # {}
        BY <2>0
    <2>2. Min(S) \in S /\ \A y \in S : Min(S) <= y
        <3> HIDE DEF S
        <3> QED BY <2>1, MinIsLeast
    <2>3. PICK v \in rows : v.node = w.node /\ v.depth = Min(S)
        BY <2>2
    <2>4. least(v) = least(w) /\ least(w) = Min(S)
        BY <2>3
    <2> QED BY <2>2, <2>3, <2>4
<1> HIDE DEF least
<1>7. ASSUME NEW w \in reply'
      PROVE  w \in rows /\ w.node \in Reach(ask, w.depth) \ Reach(ask, w.depth - 1)
    <2>1. w \in rows /\ w.depth = least(w)
        BY <1>4
    <2>2. PICK v \in rows : /\ v.node = w.node /\ v.depth <= w.depth
                            /\ v.node \in Reach(ask, v.depth) \ Reach(ask, v.depth - 1)
        BY <1>1, <1>3, <2>1, RowsAreNearest
    <2>3. w.depth <= v.depth
        BY <1>6, <2>1, <2>2
    <2>4. v.depth \in 1 .. ask.depth /\ w.depth \in 1 .. ask.depth
        BY <1>3, <2>1 DEF Walk
    <2>5. v.depth = w.depth
        BY <1>3, <2>2, <2>3, <2>4
    <2> QED BY <2>1, <2>2, <2>5
<1>8. ask.limit = Unlimited => {w.node : w \in reply'} = Reach(ask, ask.depth) \ {ask.seed}
    <2> SUFFICES ASSUME ask.limit = Unlimited
                 PROVE  {w.node : w \in reply'} = Reach(ask, ask.depth) \ {ask.seed}
        OBVIOUS
    <2>1. {w.node : w \in rows} = Reach(ask, ask.depth) \ {ask.seed}
        BY <1>1, <1>3, RowsAreReach
    <2>2. ASSUME NEW w \in rows PROVE \E v \in reply' : v.node = w.node
        <3>1. PICK v \in rows : v.node = w.node /\ v.depth = least(w) /\ least(v) = least(w)
            BY <1>6
        <3>2. v.node \in kept
            BY <1>5, <3>1 DEF Reached
        <3> QED BY <1>4, <3>1, <3>2
    <2>3. {w.node : w \in reply'} = {w.node : w \in rows}
        BY <1>7, <2>2
    <2> QED BY <2>1, <2>3
<1>9. /\ Paths' = Paths
      /\ \A p : /\ Lines(p)' = Lines(p) /\ Scope(p)' = Scope(p)
                /\ HasSymbols(p)' <=> HasSymbols(p)
      /\ \A p, name : Means(p, name)' = Means(p, name)
      /\ \A relation : Hops(relation)' = Hops(relation)
      /\ \A relation, seed, depth : Ball(relation, seed, depth)' = Ball(relation, seed, depth)
    BY <1>1, Unmoved
<1>10. NearestOnly'
    <2>1. \A w \in reply' : <<w.via, w.node>> \in Hops(ask.relation)
        BY <1>3, <1>7 DEF Walk
    <2> QED BY <1>1, <1>7, <1>8, <1>9, <2>1 DEF NearestOnly, Reach
<1>11. ImpactIsSafe'
    <2>1. SUFFICES ASSUME ask.relation = "impact", ask.limit = Unlimited,
                          NEW p \in Paths, NEW i \in Lines(p), src[p][i].kind = "call", HasSymbols(p),
                          ask.seed \in {Key(n) : n \in Means(p, src[p][i].name)} \ {<<p, Scope(p)[i]>>},
                          Cardinality(Means(p, src[p][i].name)) <= MaxTargets
                   PROVE  <<p, Scope(p)[i]>> \in {w.node : w \in reply'}
        BY <1>1, <1>9, Zenon DEF ImpactIsSafe, Key
    <2>6. PICK n \in Means(p, src[p][i].name) : ask.seed = Key(n)
        BY <2>1
    <2>7. ask.seed # <<p, Scope(p)[i]>>
        BY <2>1
    <2>2. PICK h \in Hops("impact") : h[1] = ask.seed /\ h[2] = <<p, Scope(p)[i]>>
        <3>1. Calls(p, i, n)
            BY <2>1, <2>6, <2>7 DEF Calls
        <3>2. \E h \in Hops("impact") : h[1] = Key(n) /\ h[2] = <<p, Scope(p)[i]>>
            <4>1. /\ CodeGraphAssumption /\ src \in Sources /\ nodes = BuiltNodes
                  /\ edges = DefinesEdges \cup ReferenceEdges
                BY <1>1
            <4> QED BY <4>1, <3>1, CallersAreNear, ZenonT(60)
        <3> QED BY <2>6, <3>2
    <2>3. 1 \in 1 .. ask.depth /\ 1 \in 0 .. ask.depth /\ 1 - 1 = 0 /\ ask.depth \in 0 .. ask.depth
          /\ 1 \in 0 .. ask.depth
        BY <1>3
    <2>4. h[2] \in Reach(ask, 1)
        <3>1. h[1] \in Reach(ask, 0) /\ h \in Hops(ask.relation)
            BY <1>1, <2>1, <2>2, Reaches
        <3>2. \A y : (\E g \in Hops(ask.relation) : g[1] \in Reach(ask, 1 - 1) /\ g[2] = y)
                       => y \in Reach(ask, 1)
            BY <1>1, <2>3, Reaches
        <3> QED BY <2>3, <3>1, <3>2
    <2>5. h[2] \in Reach(ask, ask.depth) /\ h[2] # ask.seed
        <3>1. Reach(ask, 1) \subseteq Reach(ask, ask.depth)
            <4>1. 1 \in 0 .. ask.depth /\ ask.depth \in 0 .. ask.depth
                BY <2>3
            <4> QED BY <1>1, <4>1, Reaches
        <3> QED BY <2>2, <2>4, <2>7, <3>1
    <2> QED BY <1>8, <2>1, <2>2, <2>5
<1> QED BY <1>10, <1>11

-----------------------------------------------------------------------------
(* The steps.                                                              *)

\* The nodes depend on the sources alone, the edges on them and the nodes.
LEMMA Rebuilt ==
    ASSUME UNCHANGED src
    PROVE  /\ BuiltNodes' = BuiltNodes
           /\ UNCHANGED nodes => DefinesEdges' = DefinesEdges /\ ReferenceEdges' = ReferenceEdges
PROOF
<1>1. Paths' = Paths
    BY Zenon DEF Paths
<1>2. ASSUME NEW p PROVE Lines(p)' = Lines(p)
    BY Zenon DEF Lines
<1>3. ASSUME NEW p PROVE Definitions(p)' = Definitions(p)
    BY <1>2, Zenon DEF Definitions
<1>4. ASSUME NEW p PROVE Scope(p)' = Scope(p)
    BY ZenonT(60) DEF Scope, Definitions, Lines
<1>5. ASSUME NEW p PROVE HasSymbols(p)' <=> HasSymbols(p)
    BY <1>2, Zenon DEF HasSymbols
<1>6. ASSUME NEW p PROVE Around(p)' = Around(p)
    BY Zenon DEF Around
<1>7. ASSUME NEW p, NEW i PROVE KindOf(p, i)' = KindOf(p, i)
    <2>1. Enclosing(p, i)' = Enclosing(p, i)
        BY <1>3, <1>6, Zenon DEF Enclosing
    <2> QED BY <2>1, Zenon DEF KindOf
<1>8. BuiltNodes' = BuiltNodes
    <2>1. ASSUME NEW p, NEW i
          PROVE  (First(p, i)' <=> First(p, i)) /\ DefinitionNode(p, i)' = DefinitionNode(p, i)
        BY <1>3, <1>4, <1>7 DEF First, DefinitionNode
    <2>2. ASSUME NEW n PROVE n \in BuiltNodes' <=> n \in BuiltNodes
        <3>1. ASSUME NEW p PROVE ModuleNode(p)' = ModuleNode(p)
            BY DEF ModuleNode
        <3>2. n \in BuiltNodes <=> \/ \E p \in Paths : HasSymbols(p) /\ n = ModuleNode(p)
                                  \/ \E p \in Paths : \E i \in Definitions(p) :
                                        First(p, i) /\ n = DefinitionNode(p, i)
            BY NodesAre
        <3>3. (n \in BuiltNodes <=> \/ \E p \in Paths : HasSymbols(p) /\ n = ModuleNode(p)
                                   \/ \E p \in Paths : \E i \in Definitions(p) :
                                        First(p, i) /\ n = DefinitionNode(p, i))'
            BY NodesAre, PTL
        <3> QED BY <1>1, <1>3, <1>5, <2>1, <3>1, <3>2, <3>3
    <2> QED BY <2>2
<1>9. DefinesEdges' = DefinesEdges
    BY <1>1, <1>3, <1>4 DEF DefinesEdges
<1>10. UNCHANGED nodes => ReferenceEdges' = ReferenceEdges
    <2> SUFFICES ASSUME UNCHANGED nodes PROVE ReferenceEdges' = ReferenceEdges
        OBVIOUS
    <2>1. ASSUME NEW p PROVE References(p)' = References(p)
        <3> DEFINE Of(kind) == {j \in Lines(p) : src[p][j].kind = kind}
                   Bases == {j \in Definitions(p) : /\ src[p][j].kind \in TypeKinds
                                                    /\ src[p][j].base \notin {None, src[p][j].name}}
                   Call(i) == [from |-> Scope(p)[i], target |-> src[p][i].name, kind |-> "calls"]
                   Base(i) == [from |-> Scope(p)[i], target |-> src[p][i].base, kind |-> "inherits"]
                   Import(i) == [from |-> <<>>, target |-> src[p][i].name, kind |-> "imports"]
        <3>1. References(p) = {Call(i) : i \in Of("call")} \cup {Base(i) : i \in Bases}
                                \cup {Import(i) : i \in Of("import")}
            BY Zenon DEF References
        <3>2. (References(p) = {Call(i) : i \in Of("call")} \cup {Base(i) : i \in Bases}
                                \cup {Import(i) : i \in Of("import")})'
            BY Zenon DEF References
        <3>3. Of("call")' = Of("call") /\ Of("import")' = Of("import") /\ Bases' = Bases
            BY <1>2, <1>3
        <3>4. \A i : Call(i)' = Call(i) /\ Base(i)' = Base(i) /\ Import(i)' = Import(i)
            BY <1>4
        <3> HIDE DEF Of, Bases, Call, Base, Import
        <3> QED BY <3>1, <3>2, <3>3, <3>4
    <2>2. ASSUME NEW p, NEW ref PROVE Targets(p, ref)' = Targets(p, ref)
        BY Zenon DEF Targets, Candidates, InFile, Key, Precedes
    <2>3. Paths' = Paths /\ Keys' = Keys
        BY Zenon DEF Paths, Keys, Key
    <2>4. ASSUME NEW p, NEW ref, NEW n PROVE ReferenceEdge(p, ref, n)' = ReferenceEdge(p, ref, n)
        BY DEF ReferenceEdge, Key
    <2>5. ASSUME NEW e PROVE e \in ReferenceEdges' <=> e \in ReferenceEdges
        <3>1. e \in ReferenceEdges <=>
                \E p \in Paths : \E ref \in References(p) : \E n \in Targets(p, ref) :
                   <<p, ref.from>> \in Keys /\ e = ReferenceEdge(p, ref, n)
            BY ReferencesAre
        <3>2. (e \in ReferenceEdges <=>
                \E p \in Paths : \E ref \in References(p) : \E n \in Targets(p, ref) :
                   <<p, ref.from>> \in Keys /\ e = ReferenceEdge(p, ref, n))'
            BY ReferencesAre, PTL
        <3> QED BY <2>1, <2>2, <2>3, <2>4, <3>1, <3>2
    <2> QED BY <2>5
<1> QED BY <1>8, <1>9, <1>10

\* A graph that does not change is still that of the sources.
LEMMA StaysIndexed == ASSUME Indexed, UNCHANGED <<src, nodes, edges>> PROVE Indexed'
PROOF
    BY Rebuilt DEF Indexed

\* A walk of a graph that does not change is still one.
LEMMA StaysWalked ==
    ASSUME NEW q, NEW R, NEW F, NEW d, UNCHANGED <<src, nodes, edges>>
    PROVE  Walked(q, R, F, d)' <=> Walked(q, R, F, d)
PROOF
<1>1. /\ \A relation : Hops(relation)' = Hops(relation)
      /\ \A relation, seed, depth : Ball(relation, seed, depth)' = Ball(relation, seed, depth)
    BY Unmoved
<1> QED BY <1>1, Zenon DEF Walked, Walk, Nearest, Reach

\* The graph that a query walks.
LEMMA WalkedGraph ==
    ASSUME GraphInv, edges # None
    PROVE  src \in Sources /\ nodes = BuiltNodes /\ edges = DefinesEdges \cup ReferenceEdges
PROOF
    BY DEF GraphInv, Indexed

\* While nothing is answered there is no answer to be wrong.
LEMMA NoAnswer == ASSUME reply' = None PROVE NearestOnly' /\ ImpactIsSafe'
PROOF
    BY Zenon DEF NearestOnly, ImpactIsSafe

\* The nodes are built.
LEMMA BuildNodesKeeps == ASSUME GraphInv, BuildNodes PROVE GraphInv'
PROOF
<1>1. nodes = None /\ edges = None /\ ask = NoQuery /\ reply = None
    BY DEF GraphInv, Indexed, QueryInv, BuildNodes
<1>2. /\ nodes' = BuiltNodes' /\ edges' = None /\ ask' = NoQuery /\ reply' = None
      /\ src' \in Sources
    BY <1>1, Rebuilt DEF BuildNodes, GraphInv, Indexed, NoQuery
<1>3. Indexed'
    BY <1>2 DEF Indexed
<1>4. QueryInv'
    BY <1>2 DEF QueryInv, NoQuery
<1> QED BY <1>2, <1>3, <1>4, NoAnswer DEF GraphInv

\* The edges are built.
LEMMA BuildEdgesKeeps == ASSUME GraphInv, BuildEdges PROVE GraphInv'
PROOF
<1>1. nodes # None /\ edges = None /\ ask = NoQuery /\ reply = None /\ nodes = BuiltNodes
    BY DEF GraphInv, Indexed, QueryInv, BuildEdges
<1>2. /\ nodes' = nodes /\ nodes' = BuiltNodes' /\ edges' = DefinesEdges' \cup ReferenceEdges'
      /\ ask' = NoQuery /\ reply' = None /\ src' \in Sources
    BY <1>1, Rebuilt DEF BuildEdges, GraphInv, Indexed, NoQuery
<1>3. Indexed'
    BY <1>1, <1>2 DEF Indexed
<1>4. QueryInv'
    BY <1>2 DEF QueryInv, NoQuery
<1> QED BY <1>2, <1>3, <1>4, NoAnswer DEF GraphInv

\* A query is made.
LEMMA QueryKeeps == ASSUME CodeGraphAssumption, GraphInv, Query PROVE GraphInv'
PROOF
<1>1. /\ src \in Sources /\ nodes = BuiltNodes /\ edges = DefinesEdges \cup ReferenceEdges
      /\ edges # None /\ reply = None /\ reply' = None /\ UNCHANGED <<src, nodes, edges>>
    BY WalkedGraph DEF Query, GraphInv, indexVars
<1>2. PICK q \in Asked : /\ ask' = q /\ rows' = SeedRows(q.relation, q.seed)
                         /\ front' = SeedRows(q.relation, q.seed)
    <2>1. PICK relation \in Relations, seed \in Keys, depth \in Depths, limit \in Limits :
              /\ ask' = [relation |-> relation, seed |-> seed, depth |-> depth, limit |-> limit]
              /\ rows' = SeedRows(relation, seed)
              /\ front' = SeedRows(relation, seed)
        BY DEF Query
    <2> DEFINE q == [relation |-> relation, seed |-> seed, depth |-> depth, limit |-> limit]
    <2>2. q \in Asked /\ q.relation = relation /\ q.seed = seed
        BY DEF Asked
    <2> HIDE DEF q
    <2>3. ask' = q
        BY <2>1 DEF q
    <2> QED BY <2>1, <2>2, <2>3
<1>3. PICK R : R = SeedRows(q.relation, q.seed)
    OBVIOUS
<1>4. Walked(q, R, R, 1)
    BY <1>1, <1>3, SeedWalks
<1>5. Walked(q, R, R, 1)'
    BY <1>1, <1>4, StaysWalked
<1>6. 1 \in 1 .. q.depth + 1 /\ q \in Asked'
    <2>1. q.depth \in Nat \ {0}
        BY Reaches
    <2>2. Keys' = Keys
        BY <1>1, Unmoved
    <2>3. Asked' = Asked
        BY <2>2, Zenon DEF Asked
    <2> QED BY <2>1, <2>3
<1>7. QueryInv'
    <2>1. \E d \in 1 .. q.depth + 1 : Walked(q, R, R, d)'
        BY <1>5, <1>6
    <2>2. ask' = q /\ rows' = R /\ front' = R /\ edges' # None /\ ask' \in Asked'
        BY <1>1, <1>2, <1>3, <1>6
    <2> QED BY <2>1, <2>2 DEF QueryInv
<1>8. Indexed'
    BY <1>1, StaysIndexed DEF GraphInv
<1> QED BY <1>1, <1>7, <1>8, NoAnswer DEF GraphInv

\* The recursion takes a round.
LEMMA RecurseKeeps == ASSUME CodeGraphAssumption, GraphInv, Recurse PROVE GraphInv'
PROOF
<1>1. /\ src \in Sources /\ nodes = BuiltNodes /\ edges = DefinesEdges \cup ReferenceEdges
      /\ edges # None /\ reply = None /\ reply' = None /\ UNCHANGED <<src, nodes, edges>>
      /\ ask \in Asked /\ ask' = ask /\ front # {}
    BY WalkedGraph DEF Recurse, GraphInv, QueryInv, indexVars
<1>2. PICK d \in 1 .. ask.depth + 1 : Walked(ask, rows, front, d)
    BY DEF Recurse, GraphInv, QueryInv
<1>3. PICK q, R, G : q = ask /\ R = rows' /\ G = front'
    OBVIOUS
<1>4. d <= ask.depth /\ Walked(ask, R, G, d + 1)
    <2>1. G = UNION {Extended(w) : w \in front} /\ R = rows \cup G
        BY <1>3 DEF Recurse
    <2> HIDE <1>3
    <2> QED BY <1>1, <1>2, <2>1, RoundWalks
<1>5. Walked(q, R, G, d + 1)'
    BY <1>1, <1>3, <1>4, StaysWalked
<1>6. d + 1 \in 1 .. q.depth + 1 /\ q \in Asked'
    <2>1. q.depth \in Nat \ {0}
        BY <1>1, <1>3, Reaches
    <2>2. Keys' = Keys
        BY <1>1, Unmoved
    <2>3. Asked' = Asked
        BY <2>2, Zenon DEF Asked
    <2> QED BY <1>1, <1>3, <1>4, <2>1, <2>3
<1>7. QueryInv'
    <2>1. \E e \in 1 .. q.depth + 1 : Walked(q, R, G, e)'
        BY <1>5, <1>6
    <2>2. ask' = q /\ rows' = R /\ front' = G /\ edges' # None /\ ask' \in Asked'
        BY <1>1, <1>3, <1>6
    <2> QED BY <2>1, <2>2 DEF QueryInv
<1>8. Indexed'
    BY <1>1, StaysIndexed DEF GraphInv
<1> QED BY <1>1, <1>7, <1>8, NoAnswer DEF GraphInv

\* A step that leaves the graph, the query and its rows leaves the walk.
LEMMA StaysAsked ==
    ASSUME QueryInv, UNCHANGED <<src, nodes, edges, ask, rows, front>>
    PROVE  QueryInv'
PROOF
<1>1. SUFFICES ASSUME ask # NoQuery PROVE QueryInv'
    BY DEF QueryInv, NoQuery
<1>2. PICK q, R, F : q = ask /\ R = rows /\ F = front
    OBVIOUS
<1>3. PICK d \in 1 .. q.depth + 1 : Walked(q, R, F, d)
    BY <1>1, <1>2 DEF QueryInv
<1>4. Walked(q, R, F, d)'
    BY <1>3, StaysWalked
<1>5. Asked' = Asked
    <2>1. Keys' = Keys
        BY Unmoved
    <2> QED BY <2>1, Zenon DEF Asked
<1>6. ask' = q /\ rows' = R /\ front' = F /\ edges' # None /\ ask' \in Asked'
    BY <1>1, <1>2, <1>5 DEF QueryInv
<1> QED BY <1>3, <1>4, <1>6 DEF QueryInv

\* The answer is selected.
LEMMA SelectKeeps == ASSUME CodeGraphAssumption, GraphInv, Select PROVE GraphInv'
PROOF
<1>1. /\ UNCHANGED <<src, nodes, edges, ask, rows, front>>
      /\ ask # NoQuery /\ front = {}
    BY DEF Select, indexVars
<1>2. Indexed' /\ QueryInv'
    BY <1>1, StaysIndexed, StaysAsked DEF GraphInv
<1>3. NearestOnly' /\ ImpactIsSafe'
    BY SelectAnswers
<1> QED BY <1>1, <1>2, <1>3 DEF GraphInv, NoQuery

\* A step that leaves all of it: a search, or a stutter.
LEMMA GraphStays == ASSUME GraphInv, UNCHANGED graphVars PROVE GraphInv'
PROOF
<1>1. UNCHANGED <<src, nodes, edges, ask, rows, front>> /\ UNCHANGED reply
    BY DEF graphVars, indexVars
<1>2. Indexed' /\ QueryInv'
    BY <1>1, StaysIndexed, StaysAsked DEF GraphInv
<1>3. /\ Paths' = Paths
      /\ \A p : /\ Lines(p)' = Lines(p) /\ Scope(p)' = Scope(p)
                /\ HasSymbols(p)' <=> HasSymbols(p)
      /\ \A p, name : Means(p, name)' = Means(p, name)
      /\ \A relation : Hops(relation)' = Hops(relation)
      /\ \A relation, seed, depth : Ball(relation, seed, depth)' = Ball(relation, seed, depth)
    BY <1>1, Unmoved
<1>4. NearestOnly'
    BY <1>1, <1>3, Zenon DEF GraphInv, NearestOnly
<1>5. ImpactIsSafe'
    BY <1>1, <1>3, Zenon DEF GraphInv, ImpactIsSafe, Key
<1> QED BY <1>1, <1>2, <1>4, <1>5 DEF GraphInv, NoQuery

\* The graph is built from the sources, and its walks find nearest first.
LEMMA GraphInvHolds == Spec => []GraphInv
PROOF
<1>1. CodeGraphAssumption
    BY CodeGraphAssumption
<1>2. Init => GraphInv
    BY Zenon DEF Init, GraphInit, GraphInv, Indexed, QueryInv, NearestOnly, ImpactIsSafe
<1>3. GraphInv /\ [Next]_searchVars => GraphInv'
    <2> SUFFICES ASSUME GraphInv, [Next]_searchVars PROVE GraphInv'
        OBVIOUS
    <2>1. CASE BuildNodes
        BY <2>1, BuildNodesKeeps
    <2>2. CASE BuildEdges
        BY <2>2, BuildEdgesKeeps
    <2>3. CASE Query
        BY <1>1, <2>3, QueryKeeps
    <2>4. CASE Recurse
        BY <1>1, <2>4, RecurseKeeps
    <2>5. CASE Select
        BY <1>1, <2>5, SelectKeeps
    <2>6. CASE UNCHANGED graphVars
        BY <2>6, GraphStays
    <2>7. Search => UNCHANGED graphVars
        BY DEF Search
    <2>8. UNCHANGED searchVars => UNCHANGED graphVars
        BY DEF searchVars
    <2> QED BY <2>1, <2>2, <2>3, <2>4, <2>5, <2>6, <2>7, <2>8 DEF Next, GraphStep
<1> QED BY <1>2, <1>3, PTL DEF Spec

\* A query of the graph returns nodes within the depth it asks for, each at its
\* least distance alone and never the seed, whatever cycles the graph has, and all of
\* them unless it has a limit: the recursive table of graph_store.py holds a row of
\* every node at a distance d after d rounds.
THEOREM QueriesAreNearest == Spec => []NearestOnly
PROOF
<1>1. GraphInv => NearestOnly
    BY DEF GraphInv
<1> QED BY <1>1, GraphInvHolds, PTL

\* The impact of a definition has every scope that calls it by name, unless the
\* name means more definitions than graph_builder.py links to.
THEOREM ImpactsAreSafe == Spec => []ImpactIsSafe
PROOF
<1>1. GraphInv => ImpactIsSafe
    BY DEF GraphInv
<1> QED BY <1>1, GraphInvHolds, PTL

-----------------------------------------------------------------------------
(* Sorting.                                                                *)

\* R orders the numbers up to n strictly.
Orders(R, n) ==
    /\ \A i \in 1 .. n : <<i, i>> \notin R
    /\ \A i, j, k \in 1 .. n : <<i, j>> \in R /\ <<j, k>> \in R => <<i, k>> \in R
    /\ \A i, j \in 1 .. n : i = j \/ <<i, j>> \in R \/ <<j, i>> \in R

\* In a strict order every number up to n has its own number of predecessors.
LEMMA Places ==
    ASSUME NEW n \in Nat, NEW R, Orders(R, n)
    PROVE  /\ \A k \in 1 .. n : Cardinality(Before(R, n, k)) \in 0 .. n - 1
           /\ \A j, k \in 1 .. n : <<j, k>> \in R =>
                 Cardinality(Before(R, n, j)) < Cardinality(Before(R, n, k))
           /\ \A i \in 1 .. n : \E k \in 1 .. n : Cardinality(Before(R, n, k)) = i - 1
PROOF
<1> DEFINE B(k) == Before(R, n, k)
           rank == [k \in 1 .. n |-> Cardinality(B(k)) + 1]
<1>1. IsFiniteSet(1 .. n) /\ Cardinality(1 .. n) = n
    BY FS_Interval
<1>2. ASSUME NEW k \in 1 .. n PROVE IsFiniteSet(B(k)) /\ Cardinality(B(k)) \in 0 .. n - 1
    <2>1. IsFiniteSet((1 .. n) \ {k}) /\ Cardinality((1 .. n) \ {k}) = n - 1
        BY <1>1, FS_RemoveElement
    <2>2. B(k) \in SUBSET ((1 .. n) \ {k})
        BY DEF Orders, Before
    <2> HIDE DEF B
    <2>3. IsFiniteSet(B(k)) /\ Cardinality(B(k)) <= n - 1 /\ Cardinality(B(k)) \in Nat
        BY <2>1, <2>2, FS_Subset, FS_CardinalityType
    <2> QED BY <2>3
<1>3. ASSUME NEW j \in 1 .. n, NEW k \in 1 .. n, <<j, k>> \in R
      PROVE  Cardinality(B(j)) < Cardinality(B(k))
    <2>1. j \in B(k) /\ B(j) \in SUBSET (B(k) \ {j})
        BY <1>3 DEF Orders, Before
    <2> HIDE DEF B
    <2>2. IsFiniteSet(B(k) \ {j}) /\ Cardinality(B(k) \ {j}) = Cardinality(B(k)) - 1
        BY <1>2, <2>1, FS_RemoveElement
    <2>3. Cardinality(B(j)) <= Cardinality(B(k) \ {j})
        BY <2>1, <2>2, FS_Subset
    <2> QED BY <1>2, <2>2, <2>3
<1> HIDE DEF B
<1>4. rank \in Injection(1 .. n, 1 .. n)
    <2>1. rank \in [1 .. n -> 1 .. n]
        BY <1>2
    <2>2. ASSUME NEW j \in 1 .. n, NEW k \in 1 .. n, rank[j] = rank[k] PROVE j = k
        <3>1. Cardinality(B(j)) = Cardinality(B(k))
            BY <1>2, <2>2
        <3>2. Cardinality(B(j)) \in Nat /\ Cardinality(B(k)) \in Nat
            BY <1>2
        <3>3. <<j, k>> \notin R /\ <<k, j>> \notin R
            BY <1>3, <3>1, <3>2
        <3> QED BY <3>3 DEF Orders
    <2> QED BY <2>1, <2>2 DEF Injection, IsInjective
<1>5. rank \in Surjection(1 .. n, 1 .. n)
    <2> HIDE DEF rank
    <2> QED BY <1>1, <1>4, FS_Injection
<1>6. ASSUME NEW i \in 1 .. n PROVE \E k \in 1 .. n : Cardinality(B(k)) = i - 1
    <2>1. PICK k \in 1 .. n : rank[k] = i
        BY <1>5 DEF Surjection
    <2>2. Cardinality(B(k)) = i - 1
        BY <1>2, <2>1
    <2> QED BY <2>2
<1> QED BY <1>2, <1>3, <1>6 DEF B

\* Numbers placed by how many are before them are in order, and all of them.
LEMMA SortedBy ==
    ASSUME NEW n \in Nat, NEW R, Orders(R, n), NEW f, f \in [1 .. n -> 1 .. n],
           \A i \in 1 .. n : Cardinality(Before(R, n, f[i])) = i - 1
    PROVE  /\ \A k \in 1 .. n : \E i \in 1 .. n : f[i] = k
           /\ \A i, j \in 1 .. n : <<f[i], f[j]>> \in R => i < j
PROOF
<1>1. \A j, k \in 1 .. n : <<j, k>> \in R => Cardinality(Before(R, n, j)) < Cardinality(Before(R, n, k))
    BY Places
<1>2. ASSUME NEW k \in 1 .. n PROVE \E i \in 1 .. n : f[i] = k
    <2>1. Cardinality(Before(R, n, k)) \in 0 .. n - 1
        BY Places
    <2>2. PICK i \in 1 .. n : i = Cardinality(Before(R, n, k)) + 1
        BY <2>1
    <2>3. Cardinality(Before(R, n, f[i])) = Cardinality(Before(R, n, k)) /\ f[i] \in 1 .. n
        BY <2>1, <2>2
    <2>4. PICK x \in 1 .. n : x = f[i]
        BY <2>3
    <2>5. Cardinality(Before(R, n, x)) = Cardinality(Before(R, n, k))
        BY <2>3, <2>4
    <2> HIDE <2>4
    <2>8. PICK c \in Nat : c = Cardinality(Before(R, n, x)) /\ c = Cardinality(Before(R, n, k))
        BY <2>1, <2>5
    <2>9. ~ (c < c)
        OBVIOUS
    <2>6. <<x, k>> \notin R /\ <<k, x>> \notin R
        BY <1>1, <2>8, <2>9, Zenon
    <2>7. x = k
        BY <2>6 DEF Orders
    <2> QED BY <2>4, <2>7
<1>3. ASSUME NEW i \in 1 .. n, NEW j \in 1 .. n, <<f[i], f[j]>> \in R PROVE i < j
    <2>1. f[i] \in 1 .. n /\ f[j] \in 1 .. n
        OBVIOUS
    <2>2. Cardinality(Before(R, n, f[i])) < Cardinality(Before(R, n, f[j]))
        BY <1>1, <1>3, <2>1
    <2> QED BY <2>2
<1> QED BY <1>2, <1>3

-----------------------------------------------------------------------------
(* Ranking.                                                                *)

\* Among finitely many values there is a greatest.
LEMMA Greatest ==
    ASSUME NEW n \in Nat \ {0}, NEW v, \A i \in 1 .. n : v[i] \in Nat
    PROVE  \E k \in 1 .. n : \A j \in 1 .. n : v[j] <= v[k]
PROOF
<1> DEFINE T == {m \in 0 .. n : m = 0 \/ \E k \in 1 .. m : \A j \in 1 .. m : v[j] <= v[k]}
<1>1. 0 \in T
    OBVIOUS
<1>2. ASSUME NEW m \in 1 .. n, \A i \in 0 .. m - 1 : i \in T PROVE m \in T
    <2>1. CASE m = 1
        BY <2>1
    <2>2. CASE m > 1
        <3>1. PICK k \in 1 .. m - 1 : \A j \in 1 .. m - 1 : v[j] <= v[k]
            BY <1>2, <2>2
        <3>2. v[k] \in Nat /\ v[m] \in Nat /\ \A j \in 1 .. m : v[j] \in Nat
            OBVIOUS
        <3>3. CASE v[m] <= v[k]
            <4>1. \A j \in 1 .. m : v[j] <= v[k]
                BY <3>1, <3>3
            <4> QED BY <4>1
        <3>4. CASE v[k] <= v[m]
            <4>1. \A j \in 1 .. m - 1 : v[j] <= v[m]
                BY <3>1, <3>2, <3>4
            <4>2. \A j \in 1 .. m : v[j] <= v[m]
                BY <3>2, <4>1
            <4> QED BY <4>2
        <3> QED BY <3>2, <3>3, <3>4
    <2> QED BY <2>1, <2>2
<1>3. \A m \in 0 .. n : m \in T
    <2> HIDE DEF T
    <2> QED BY <1>1, <1>2, Induction
<1> QED BY <1>3

\* The parts of values are over one denominator, and greater for a greater value.
Scaled(v, n, all, den) ==
    /\ \A k \in 1 .. n : Part(v[k], all).den = den /\ Part(v[k], all).num \in Nat
    /\ \A j, k \in 1 .. n : v[k] <= v[j] => Part(v[k], all).num <= Part(v[j], all).num

\* The normalised scores of a pool are such parts.
LEMMA Parts ==
    ASSUME NEW n \in Nat \ {0}, NEW v, \A i \in 1 .. n : v[i] \in Nat
    PROVE  \E den \in Nat \ {0} : Scaled(v, n, {v[i] : i \in 1 .. n}, den)
PROOF
<1> DEFINE all == {v[i] : i \in 1 .. n}
<1>1. PICK k \in 1 .. n : \A j \in 1 .. n : v[j] <= v[k]
    BY Greatest
<1>2. v[k] \in all /\ all \subseteq Nat /\ all # {} /\ \A y \in all : v[k] >= y
    BY <1>1
<1>3. \A i \in 1 .. n : v[i] \in all /\ v[i] \in Nat
    OBVIOUS
<1> HIDE DEF all
<1>4. Max(all) \in Nat /\ \A y \in all : y <= Max(all)
    BY <1>2 DEF Max
<1>5. Min(all) \in Nat /\ \A y \in all : Min(all) <= y
    BY <1>2, MinIsLeast
<1>6. PICK a \in Nat, b \in Nat : a = Max(all) /\ b = Min(all)
    BY <1>4, <1>5
<1>7. \A i \in 1 .. n : b <= v[i] /\ v[i] <= a
    BY <1>3, <1>4, <1>5, <1>6
<1>8. CASE a - b = 0
    <2>1. \A i \in 1 .. n : Part(v[i], all).num = 1 /\ Part(v[i], all).den = 2
        BY <1>6, <1>8 DEF Part
    <2>2. Scaled(v, n, all, 2)
        BY <2>1 DEF Scaled
    <2> QED BY <2>2 DEF all
<1>9. CASE a - b # 0
    <2>1. \A i \in 1 .. n : Part(v[i], all).num = v[i] - b /\ Part(v[i], all).den = a - b
        BY <1>6, <1>9 DEF Part
    <2>2. a - b \in Nat \ {0}
        BY <1>7, <1>3, <1>9
    <2>3. \A i \in 1 .. n : v[i] - b \in Nat
        BY <1>3, <1>7
    <2>4. \A i, j \in 1 .. n : v[i] <= v[j] => v[i] - b <= v[j] - b
        BY <1>3
    <2>5. Scaled(v, n, all, a - b)
        BY <2>1, <2>3, <2>4 DEF Scaled
    <2> QED BY <2>2, <2>5 DEF all
<1> QED BY <1>8, <1>9

\* A greater number makes a greater product.
LEMMA Products ==
    ASSUME NEW a \in Nat, NEW b \in Nat, NEW c \in Nat, a <= b
    PROVE  c * a <= c * b /\ a * c <= b * c
PROOF
    OBVIOUS

\* A pool: scored hits in the order of their scores.
IsPool(pool) ==
    /\ Len(pool) \in Nat /\ DOMAIN pool = 1 .. Len(pool)
    /\ \A k \in DOMAIN pool : pool[k].score \in Nat /\ pool[k].rerank \in Nat
    /\ \A j, k \in DOMAIN pool : j < k => pool[k].score <= pool[j].score

\* The blend of two scores, neither less than another's, is not less.
LEMMA Blended ==
    ASSUME NEW pool, IsPool(pool), NEW blend \in 0 .. 10
    PROVE  /\ \A k \in 1 .. Len(pool) : Fused(pool, blend, k) \in Nat
           /\ \A j, k \in 1 .. Len(pool) :
                 pool[k].score <= pool[j].score /\ pool[k].rerank <= pool[j].rerank =>
                    Fused(pool, blend, k) <= Fused(pool, blend, j)
PROOF
<1> DEFINE n == Len(pool)
           sv == [k \in 1 .. n |-> pool[k].score]
           rv == [k \in 1 .. n |-> pool[k].rerank]
           S == {sv[i] : i \in 1 .. n}
           R == {rv[i] : i \in 1 .. n}
<1>1. SUFFICES ASSUME n # 0 PROVE
           /\ \A k \in 1 .. n : Fused(pool, blend, k) \in Nat
           /\ \A j, k \in 1 .. n :
                 pool[k].score <= pool[j].score /\ pool[k].rerank <= pool[j].rerank =>
                    Fused(pool, blend, k) <= Fused(pool, blend, j)
    BY DEF IsPool
<1>2. n \in Nat \ {0} /\ DOMAIN pool = 1 .. n
    BY <1>1 DEF IsPool
<1>3. \A i \in 1 .. n : sv[i] = pool[i].score /\ rv[i] = pool[i].rerank /\ sv[i] \in Nat /\ rv[i] \in Nat
    BY <1>2 DEF IsPool
<1>4. S = {pool[i].score : i \in DOMAIN pool} /\ R = {pool[i].rerank : i \in DOMAIN pool}
    BY <1>2
<1> HIDE DEF n, sv, rv
<1>5. PICK sd \in Nat \ {0} : Scaled(sv, n, S, sd)
    <2>1. \A i \in 1 .. n : sv[i] \in Nat
        BY <1>3
    <2> QED BY <1>2, <2>1, Parts, Zenon
<1>6. PICK rd \in Nat \ {0} : Scaled(rv, n, R, rd)
    <2>1. \A i \in 1 .. n : rv[i] \in Nat
        BY <1>3
    <2> QED BY <1>2, <2>1, Parts, Zenon
<1> HIDE DEF S, R
<1> DEFINE sn(k) == Part(sv[k], S).num
           rn(k) == Part(rv[k], R).num
<1>7. ASSUME NEW k \in 1 .. n
      PROVE  Fused(pool, blend, k) = blend * rn(k) * sd + (10 - blend) * sn(k) * rd
    BY <1>3, <1>4, <1>5, <1>6 DEF Fused, Scaled
<1>8. \A k \in 1 .. n : sn(k) \in Nat /\ rn(k) \in Nat
    BY <1>5, <1>6 DEF Scaled
<1>9. ASSUME NEW j \in 1 .. n, NEW k \in 1 .. n, sv[k] <= sv[j], rv[k] <= rv[j]
      PROVE  sn(k) <= sn(j) /\ rn(k) <= rn(j)
    BY <1>5, <1>6, <1>9 DEF Scaled
<1> HIDE DEF sn, rn
<1>10. ASSUME NEW a \in Nat, NEW b \in Nat, NEW c \in Nat, NEW d \in Nat, a <= b, c <= d
       PROVE  blend * a * sd + (10 - blend) * c * rd <= blend * b * sd + (10 - blend) * d * rd
    <2>1. blend * a <= blend * b /\ (10 - blend) * c <= (10 - blend) * d
        BY <1>10, Products
    <2>2. /\ blend * a \in Nat /\ blend * b \in Nat
          /\ (10 - blend) * c \in Nat /\ (10 - blend) * d \in Nat
        OBVIOUS
    <2>3. blend * a * sd <= blend * b * sd /\ (10 - blend) * c * rd <= (10 - blend) * d * rd
        BY <2>1, <2>2, Products
    <2>4. /\ blend * a * sd \in Nat /\ blend * b * sd \in Nat
          /\ (10 - blend) * c * rd \in Nat /\ (10 - blend) * d * rd \in Nat
        BY <2>2
    <2> QED BY <2>3, <2>4
<1>11. \A k \in 1 .. n : Fused(pool, blend, k) \in Nat
    <2>1. ASSUME NEW a \in Nat, NEW b \in Nat PROVE blend * a * sd + (10 - blend) * b * rd \in Nat
        <3>1. blend * a \in Nat /\ (10 - blend) * b \in Nat
            OBVIOUS
        <3>2. blend * a * sd \in Nat /\ (10 - blend) * b * rd \in Nat
            BY <3>1
        <3> QED BY <3>2
    <2> QED BY <1>7, <1>8, <2>1
<1>12. \A j, k \in 1 .. n : pool[k].score <= pool[j].score /\ pool[k].rerank <= pool[j].rerank =>
          Fused(pool, blend, k) <= Fused(pool, blend, j)
    <2>1. SUFFICES ASSUME NEW j \in 1 .. n, NEW k \in 1 .. n,
                          pool[k].score <= pool[j].score, pool[k].rerank <= pool[j].rerank
                   PROVE  Fused(pool, blend, k) <= Fused(pool, blend, j)
        OBVIOUS
    <2>2. sn(k) <= sn(j) /\ rn(k) <= rn(j)
        BY <1>3, <1>9, <2>1
    <2>3. PICK a \in Nat, b \in Nat, c \in Nat, d \in Nat :
              a = rn(k) /\ b = rn(j) /\ c = sn(k) /\ d = sn(j)
        BY <1>8
    <2>4. blend * a * sd + (10 - blend) * c * rd <= blend * b * sd + (10 - blend) * d * rd
        BY <1>10, <2>2, <2>3
    <2> QED BY <1>7, <2>3, <2>4
<1> QED BY <1>11, <1>12

\* The ranking has every hit of the pool, and none before one that neither score
\* puts after it.
LEMMA RerankedIs ==
    ASSUME CodeSearchAssumption, NEW pool, IsPool(pool), NEW blend \in Blends \cup {None}
    PROVE  LET n == Len(pool)
               ranked == Reranked(pool, blend)
           IN /\ ranked \in [1 .. n -> 1 .. n]
              /\ \A k \in 1 .. n : \E i \in 1 .. n : ranked[i] = k
              /\ \A i, j \in 1 .. n :
                    /\ ranked[i] < ranked[j]
                    /\ blend # None => pool[ranked[j]].rerank <= pool[ranked[i]].rerank
                    => i < j
PROOF
<1> DEFINE n == Len(pool)
           ranked == Reranked(pool, blend)
<1>1. n \in Nat /\ DOMAIN pool = 1 .. n
    BY DEF IsPool
<1>2. CASE blend = None
    <2>1. ranked = [k \in 1 .. n |-> k]
        BY <1>1, <1>2 DEF Reranked
    <2> QED BY <1>1, <2>1
<1>3. CASE blend # None
    <2> DEFINE fused == [k \in DOMAIN pool |-> Fused(pool, blend, k)]
               F(k) == fused[k]
               before(j, k) == F(j) > F(k) \/ (F(j) = F(k) /\ j < k)
               R == {e \in (1 .. n) \X (1 .. n) : before(e[1], e[2])}
    <2>1. blend \in 0 .. 10
        BY <1>3 DEF CodeSearchAssumption
    <2>2. /\ \A k \in 1 .. n : F(k) \in Nat
          /\ \A j, k \in 1 .. n : pool[k].score <= pool[j].score /\ pool[k].rerank <= pool[j].rerank
                                     => F(k) <= F(j)
        <3>1. \A k \in 1 .. n : F(k) = Fused(pool, blend, k)
            BY <1>1
        <3> HIDE DEF F
        <3> QED BY <2>1, <3>1, Blended, ZenonT(60)
    <2>3. ranked = [i \in 1 .. n |-> CHOOSE k \in 1 .. n : Cardinality(Before(R, n, k)) = i - 1]
        BY <1>1, <1>3 DEF Reranked, Sorted
    <2> HIDE DEF n, fused, F, ranked
    <2>4. \A j, k \in 1 .. n : <<j, k>> \in R <=> before(j, k)
        OBVIOUS
    <2>5. Orders(R, n)
        <3> HIDE DEF R
        <3>1. \A i \in 1 .. n : ~ before(i, i)
            BY <2>2
        <3>2. \A i, j, k \in 1 .. n : before(i, j) /\ before(j, k) => before(i, k)
            BY <1>1, <2>2
        <3>3. \A i, j \in 1 .. n : i = j \/ before(i, j) \/ before(j, i)
            BY <1>1, <2>2
        <3> HIDE DEF before
        <3> QED BY <2>4, <3>1, <3>2, <3>3 DEF Orders
    <2> HIDE DEF R
    <2>7. \A i \in 1 .. n : \E k \in 1 .. n : Cardinality(Before(R, n, k)) = i - 1
        BY <1>1, <2>5, Places
    <2>8. \A i \in 1 .. n : ranked[i] \in 1 .. n /\ Cardinality(Before(R, n, ranked[i])) = i - 1
        BY <2>3, <2>7
    <2>9. ranked \in [1 .. n -> 1 .. n]
        BY <2>3, <2>8
    <2>10. \A i \in 1 .. n : Cardinality(Before(R, n, ranked[i])) = i - 1
        BY <2>8
    <2>11. /\ \A k \in 1 .. n : \E i \in 1 .. n : ranked[i] = k
           /\ \A i, j \in 1 .. n : <<ranked[i], ranked[j]>> \in R => i < j
        BY <1>1, <2>5, <2>9, <2>10, SortedBy
    <2>12. ASSUME NEW i \in 1 .. n, NEW j \in 1 .. n, ranked[i] < ranked[j],
                  pool[ranked[j]].rerank <= pool[ranked[i]].rerank
           PROVE  i < j
        <3>1. PICK a \in 1 .. n, b \in 1 .. n : a = ranked[i] /\ b = ranked[j]
            BY <2>8
        <3>2. pool[b].score <= pool[a].score /\ pool[b].rerank <= pool[a].rerank
            BY <1>1, <2>12, <3>1 DEF IsPool
        <3>3. F(b) <= F(a) /\ F(a) \in Nat /\ F(b) \in Nat
            BY <2>2, <3>2
        <3>4. before(a, b)
            BY <2>12, <3>1, <3>3
        <3>5. <<a, b>> \in R
            BY <2>4, <3>4
        <3> QED BY <2>11, <3>1, <3>5
    <2> QED BY <1>3, <2>9, <2>11, <2>12 DEF n, ranked
<1> QED BY <1>2, <1>3

\* Every hit is kept, exact ones before others, and the rest as ranked.
Promotes(p, pool, terms, ranked, n) ==
    LET exact(k) == Exact(pool[k], terms)
    IN /\ p \in [1 .. n -> 1 .. n]
       /\ \A k \in 1 .. n : \E a \in 1 .. n : p[a] = k
       /\ \A x, y \in 1 .. n :
             \/ exact(x) /\ ~ exact(y)
             \/ /\ exact(x) <=> exact(y)
                /\ \A i, j \in 1 .. n : ranked[i] = x /\ ranked[j] = y => i < j
             => \A b \in 1 .. n : p[b] = y => \E a \in 1 .. n : p[a] = x /\ a < b

\* The promotion does so.
LEMMA PromotedIs ==
    ASSUME NEW pool, NEW terms, NEW ranked, Len(ranked) \in Nat,
           ranked \in [1 .. Len(ranked) -> 1 .. Len(ranked)],
           \A k \in 1 .. Len(ranked) : \E i \in 1 .. Len(ranked) : ranked[i] = k
    PROVE  Promotes(Promoted(pool, terms, ranked), pool, terms, ranked, Len(ranked))
PROOF
<1> DEFINE n == Len(ranked)
           p == Promoted(pool, terms, ranked)
           exact(i) == Exact(pool[ranked[i]], terms)
           E == {i \in 1 .. n : exact(i)}
           before(i, j) == IF (i \in E) # (j \in E) THEN i \in E ELSE i < j
           R == {e \in (1 .. n) \X (1 .. n) : before(e[1], e[2])}
           places == [i \in 1 .. n |-> CHOOSE k \in 1 .. n : Cardinality(Before(R, n, k)) = i - 1]
<1>1. p = [i \in 1 .. n |-> ranked[places[i]]]
    BY Zenon DEF Promoted, Sorted
<1>2. \A i, j \in 1 .. n : before(i, j) <=> \/ i \in E /\ j \notin E
                                            \/ (i \in E <=> j \in E) /\ i < j
    <2> SUFFICES ASSUME NEW i \in 1 .. n, NEW j \in 1 .. n
                 PROVE  before(i, j) <=> \/ i \in E /\ j \notin E
                                         \/ (i \in E <=> j \in E) /\ i < j
        OBVIOUS
    <2> HIDE DEF E
    <2>1. CASE i \in E /\ j \in E
        BY <2>1
    <2>2. CASE i \in E /\ j \notin E
        BY <2>2
    <2>3. CASE i \notin E /\ j \in E
        BY <2>3
    <2>4. CASE i \notin E /\ j \notin E
        BY <2>4
    <2> QED BY <2>1, <2>2, <2>3, <2>4
<1>3. \A i, j \in 1 .. n : <<i, j>> \in R <=> before(i, j)
    OBVIOUS
<1>4. \A i \in 1 .. n : i \in E <=> exact(i)
    OBVIOUS
<1>0. /\ n \in Nat /\ ranked \in [1 .. n -> 1 .. n]
      /\ \A k \in 1 .. n : \E i \in 1 .. n : ranked[i] = k
    OBVIOUS
<1> HIDE DEF n, p, E, R, before, exact
<1>5. Orders(R, n)
    <2>1. \A i \in 1 .. n : ~ before(i, i)
        BY <1>0, <1>2
    <2>2. ASSUME NEW i \in 1 .. n, NEW j \in 1 .. n, NEW k \in 1 .. n, before(i, j), before(j, k)
          PROVE  before(i, k)
        <3>1. /\ (i \in E /\ j \notin E) \/ ((i \in E <=> j \in E) /\ i < j)
              /\ (j \in E /\ k \notin E) \/ ((j \in E <=> k \in E) /\ j < k)
            <4>1. (i \in E /\ j \notin E) \/ ((i \in E <=> j \in E) /\ i < j)
                BY <1>2, <2>2
            <4>2. (j \in E /\ k \notin E) \/ ((j \in E <=> k \in E) /\ j < k)
                BY <1>2, <2>2
            <4> QED BY <4>1, <4>2
        <3>2. (i \in E /\ k \notin E) \/ ((i \in E <=> k \in E) /\ i < k)
            <4>1. i < j /\ j < k => i < k
                BY <1>0
            <4> QED BY <3>1, <4>1, Zenon
        <3> QED BY <1>2, <3>2
    <2>3. ASSUME NEW i \in 1 .. n, NEW j \in 1 .. n, i # j PROVE before(i, j) \/ before(j, i)
        <3>1. i < j \/ j < i
            BY <1>0, <2>3
        <3>2. \/ (i \in E /\ j \notin E) \/ ((i \in E <=> j \in E) /\ i < j)
              \/ (j \in E /\ i \notin E) \/ ((j \in E <=> i \in E) /\ j < i)
            BY <3>1
        <3> QED BY <1>2, <3>2
    <2> QED BY <1>3, <2>1, <2>2, <2>3 DEF Orders
<1>7. \A i \in 1 .. n : \E k \in 1 .. n : Cardinality(Before(R, n, k)) = i - 1
    BY <1>0, <1>5, Places
<1>8. \A i \in 1 .. n : places[i] \in 1 .. n /\ Cardinality(Before(R, n, places[i])) = i - 1
    BY <1>7
<1>9. places \in [1 .. n -> 1 .. n]
    BY <1>8
<1> HIDE DEF places
<1>10. \A i \in 1 .. n : Cardinality(Before(R, n, places[i])) = i - 1
    BY <1>8
<1>11. /\ \A k \in 1 .. n : \E i \in 1 .. n : places[i] = k
       /\ \A i, j \in 1 .. n : <<places[i], places[j]>> \in R => i < j
    BY <1>0, <1>5, <1>9, <1>10, SortedBy
<1>12. p \in [1 .. n -> 1 .. n] /\ \A a \in 1 .. n : p[a] = ranked[places[a]] /\ places[a] \in 1 .. n
    BY <1>0, <1>1, <1>9
<1>13. ASSUME NEW k \in 1 .. n PROVE \E a \in 1 .. n : p[a] = k
    <2>1. PICK i \in 1 .. n : ranked[i] = k
        BY <1>0
    <2>2. PICK a \in 1 .. n : places[a] = i
        BY <1>11
    <2> QED BY <1>12, <2>1, <2>2
<1>14. ASSUME NEW x \in 1 .. n, NEW y \in 1 .. n,
              \/ Exact(pool[x], terms) /\ ~ Exact(pool[y], terms)
              \/ /\ Exact(pool[x], terms) <=> Exact(pool[y], terms)
                 /\ \A i, j \in 1 .. n : ranked[i] = x /\ ranked[j] = y => i < j,
              NEW b \in 1 .. n, p[b] = y
       PROVE  \E a \in 1 .. n : p[a] = x /\ a < b
    <2>1. PICK i \in 1 .. n : ranked[i] = x
        BY <1>0
    <2>2. PICK a \in 1 .. n : places[a] = i
        BY <1>11
    <2>3. PICK j \in 1 .. n : j = places[b] /\ ranked[j] = y
        BY <1>12, <1>14
    <2>4. (i \in E <=> Exact(pool[x], terms)) /\ (j \in E <=> Exact(pool[y], terms))
        BY <1>4, <2>1, <2>3 DEF exact
    <2>5. before(i, j)
        BY <1>2, <1>14, <2>1, <2>3, <2>4
    <2>6. <<places[a], places[b]>> \in R
        BY <1>3, <2>2, <2>3, <2>5
    <2>7. a < b
        BY <1>11, <2>6
    <2> QED BY <1>12, <2>1, <2>2, <2>7
<1>15. Promotes(p, pool, terms, ranked, n)
    BY <1>12, <1>13, <1>14 DEF Promotes
<1> QED BY <1>15 DEF n, p

\* A function on the numbers up to n is a sequence of length n.
LEMMA Lengths == ASSUME NEW n \in Nat, NEW T, NEW f \in [1 .. n -> T] PROVE Len(f) = n /\ f \in Seq(T)
PROOF
    OBVIOUS

\* A set of numbers up to n with 0 in it has its Max.
LEMMA MaxIsGreatest ==
    ASSUME NEW n \in Nat, NEW S, S \subseteq 0 .. n, S # {}
    PROVE  Max(S) \in S /\ \A y \in S : y <= Max(S)
PROOF
<1> DEFINE T == {n - k : k \in S}
<1>1. T \subseteq Nat /\ T # {}
    <2>1. \A k \in S : n - k \in Nat
        OBVIOUS
    <2>2. PICK k \in S : TRUE
        OBVIOUS
    <2>3. n - k \in T
        OBVIOUS
    <2> QED BY <2>1, <2>3, Zenon
<1>2. PICK t \in T : \A m \in T : t <= m
    <2> HIDE DEF T
    <2> QED BY <1>1, Least
<1>3. PICK k \in S : t = n - k
    OBVIOUS
<1>4. \A y \in S : n - k <= n - y
    BY <1>2, <1>3
<1>5. \A y \in S : k >= y
    BY <1>4
<1> QED BY <1>5 DEF Max

\* The lesser and the greater of two numbers.
LEMMA OfTwo ==
    ASSUME NEW a \in Nat, NEW b \in Int
    PROVE  /\ b \in Nat => Min({a, b}) = IF a <= b THEN a ELSE b
           /\ Max({a, b}) = IF b <= a THEN a ELSE b
PROOF
<1>1. b \in Nat => Min({a, b}) = IF a <= b THEN a ELSE b
    BY DEF Min
<1>2. Max({a, b}) = IF b <= a THEN a ELSE b
    BY DEF Max
<1> QED BY <1>1, <1>2

\* A hit that is exact where another is not, or that neither ranking puts after it.
Above(x, y, pool, terms, blend) ==
    \/ Exact(pool[x], terms) /\ ~ Exact(pool[y], terms)
    \/ /\ Exact(pool[x], terms) <=> Exact(pool[y], terms)
       /\ x < y /\ (blend # None => pool[y].rerank <= pool[x].rerank)

\* The first m of an order of n hits: none without those above it, before it.
Keeps(order, m, n, pool, terms, blend) ==
    /\ order \in [1 .. m -> 1 .. n]
    /\ \A x, y \in 1 .. n : Above(x, y, pool, terms, blend) =>
          \A b \in 1 .. m : order[b] = y => \E a \in 1 .. m : order[a] = x /\ a < b

\* The hits that are kept, in order: none without those that come before it.
LEMMA CutIs ==
    ASSUME CodeSearchAssumption, NEW pool, IsPool(pool), NEW terms,
           NEW blend \in Blends \cup {None}, NEW limit \in Answers
    PROVE  LET order == Cut(pool, terms, Reranked(pool, blend), limit)
           IN \E m \in 0 .. Len(pool) :
                /\ Len(pool) # 0 => m # 0
                /\ Len(order) = m /\ Keeps(order, m, Len(pool), pool, terms, blend)
PROOF
<1> DEFINE n == Len(pool)
           ranked == Reranked(pool, blend)
           p == Promoted(pool, terms, ranked)
           m == Min({limit, Len(ranked)})
           order == Cut(pool, terms, ranked, limit)
           exact(k) == Exact(pool[k], terms)
<1>1. n \in Nat
    BY DEF IsPool
<1>2. /\ ranked \in [1 .. n -> 1 .. n] /\ \A k \in 1 .. n : \E i \in 1 .. n : ranked[i] = k
      /\ \A i, j \in 1 .. n : /\ ranked[i] < ranked[j]
                              /\ blend # None => pool[ranked[j]].rerank <= pool[ranked[i]].rerank
                              => i < j
    BY RerankedIs
<1>3. Len(ranked) = n
    <2> HIDE DEF n, ranked
    <2> QED BY <1>1, <1>2, Lengths
<1>4. /\ p \in [1 .. n -> 1 .. n]
      /\ \A x, y \in 1 .. n :
            \/ exact(x) /\ ~ exact(y)
            \/ /\ exact(x) <=> exact(y)
               /\ \A i, j \in 1 .. n : ranked[i] = x /\ ranked[j] = y => i < j
            => \A b \in 1 .. n : p[b] = y => \E a \in 1 .. n : p[a] = x /\ a < b
    <2> HIDE DEF ranked
    <2>1. Len(ranked) \in Nat
        BY <1>1, <1>3
    <2>3. ranked \in [1 .. Len(ranked) -> 1 .. Len(ranked)]
        BY <1>2, <1>3
    <2>4. \A k \in 1 .. Len(ranked) : \E i \in 1 .. Len(ranked) : ranked[i] = k
        BY <1>2, <1>3
    <2> HIDE DEF n
    <2>2. Promotes(p, pool, terms, ranked, Len(ranked))
        BY <2>1, <2>3, <2>4, PromotedIs
    <2> QED BY <1>3, <2>2 DEF Promotes
<1>5. order = SubSeq(p, 1, m)
    BY DEF Cut
<1>6. m \in 0 .. n /\ (n # 0 => m # 0)
    <2>1. limit \in Nat \ {0}
        BY DEF CodeSearchAssumption
    <2> HIDE DEF n, ranked
    <2> QED BY <1>1, <1>3, <2>1, OfTwo
<1> HIDE DEF n, ranked, p, m, order, exact
<1>7. Len(order) = m /\ order \in [1 .. m -> 1 .. n] /\ \A b \in 1 .. m : order[b] = p[b]
    <2>1. \A b \in 1 .. m : p[b] \in 1 .. n
        BY <1>1, <1>4, <1>6
    <2>2. /\ order \in Seq(1 .. n) /\ Len(order) = m
          /\ \A b \in 1 .. m : order[b] = p[b]
        <3>1. order = [b \in 1 .. m |-> p[b]]
            BY <1>4, <1>5, <1>6, <1>1
        <3>2. \A b \in 1 .. m : order[b] = p[b]
            BY <3>1
        <3>3. order \in [1 .. m -> 1 .. n]
            BY <2>1, <3>1
        <3> QED BY <1>1, <1>6, <3>2, <3>3, Lengths
    <2> QED BY <2>1, <2>2
<1>8. ASSUME NEW x \in 1 .. n, NEW y \in 1 .. n, Above(x, y, pool, terms, blend),
             NEW b \in 1 .. m, order[b] = y
      PROVE  \E a \in 1 .. m : order[a] = x /\ a < b
    <2>1. \/ exact(x) /\ ~ exact(y)
          \/ /\ exact(x) <=> exact(y)
             /\ \A i, j \in 1 .. n : ranked[i] = x /\ ranked[j] = y => i < j
        <3>3. \/ exact(x) /\ ~ exact(y)
              \/ /\ exact(x) <=> exact(y)
                 /\ x < y /\ (blend # None => pool[y].rerank <= pool[x].rerank)
            BY <1>8, Zenon DEF Above, exact
        <3>1. CASE exact(x) /\ ~ exact(y)
            BY <3>1
        <3>2. CASE /\ exact(x) <=> exact(y)
                   /\ x < y /\ (blend # None => pool[y].rerank <= pool[x].rerank)
            <4>1. \A i, j \in 1 .. n : ranked[i] = x /\ ranked[j] = y => i < j
                <5>1. SUFFICES ASSUME NEW i \in 1 .. n, NEW j \in 1 .. n, ranked[i] = x, ranked[j] = y
                               PROVE  i < j
                    OBVIOUS
                <5> HIDE DEF ranked
                <5> QED BY <1>2, <3>2, <5>1
            <4> QED BY <3>2, <4>1
        <3> QED BY <3>3, <3>1, <3>2
    <2>2. p[b] = y /\ b \in 1 .. n
        BY <1>1, <1>6, <1>7, <1>8
    <2>3. PICK a \in 1 .. n : p[a] = x /\ a < b
        BY <1>4, <2>1, <2>2
    <2>4. a \in 1 .. m
        BY <1>1, <1>6, <2>3
    <2> QED BY <1>7, <2>3, <2>4
<1>9. Keeps(order, m, n, pool, terms, blend)
    BY <1>7, <1>8 DEF Keeps
<1> QED BY <1>6, <1>7, <1>9 DEF n, ranked, order

\* What is shown is the first of the hits, the best at least.
LEMMA ShownIs ==
    ASSUME NEW hits, NEW m \in Nat, Len(hits) = m, DOMAIN hits = 1 .. m, NEW terms, NEW policy
    PROVE  LET shown == Shown(hits, terms, policy)
           IN \E s \in 0 .. m :
                /\ m # 0 => s # 0
                /\ Len(shown) = s /\ DOMAIN shown = 1 .. s
                /\ \A i \in 1 .. s : shown[i] = IF policy = None THEN Whole(hits[i])
                                                ELSE Trimmed(hits[i], terms, policy)
                /\ policy # None => s <= 1 \/ Spent(shown) <= policy.budget
PROOF
<1> DEFINE shown == Shown(hits, terms, policy)
<1>1. CASE policy = None
    <2>1. shown = [k \in 1 .. m |-> Whole(hits[k])]
        BY <1>1 DEF Shown
    <2>2. Len(shown) = m
        BY <2>1
    <2> HIDE DEF shown
    <2>3. DOMAIN shown = 1 .. m /\ \A i \in 1 .. m : shown[i] = Whole(hits[i])
        BY <2>1
    <2> QED BY <1>1, <2>2, <2>3 DEF shown
<1>2. CASE policy # None
    <2> DEFINE full == [k \in 1 .. m |-> Trimmed(hits[k], terms, policy)]
               fits(k) == k <= 1 \/ Spent(SubSeq(full, 1, k)) <= policy.budget
               K == {k \in 0 .. m : \A j \in 1 .. k : fits(j)}
               s == Max(K)
    <2>1. shown = SubSeq(full, 1, s)
        BY <1>2 DEF Shown, Compressed
    <2>2. 0 \in K /\ K \subseteq 0 .. m /\ (m # 0 => 1 \in K)
        OBVIOUS
    <2>3. \A k \in K : k >= 1 => fits(k)
        OBVIOUS
    <2>4. Len(full) = m /\ DOMAIN full = 1 .. m /\ full \in Seq({full[k] : k \in 1 .. m})
        OBVIOUS
    <2>5. \A i \in 1 .. m : full[i] = Trimmed(hits[i], terms, policy)
        OBVIOUS
    <2> HIDE DEF K, full, shown
    <2>6. s \in K /\ \A y \in K : y <= s
        BY <2>2, MaxIsGreatest
    <2>7. s \in 0 .. m /\ (m # 0 => s # 0)
        <3>1. PICK x \in 0 .. m : x = s /\ x \in K
            BY <2>2, <2>6
        <3>2. 1 \in K => 1 <= x
            BY <2>6, <3>1
        <3> QED BY <2>2, <3>1, <3>2
    <2>8. s <= 1 \/ Spent(shown) <= policy.budget
        BY <2>1, <2>3, <2>6, <2>7
    <2> HIDE DEF s, fits
    <2>9. Len(shown) = s /\ DOMAIN shown = 1 .. s /\ \A i \in 1 .. s : shown[i] = full[i]
        <3>1. shown = [i \in 1 .. s |-> full[i]]
            BY <2>1, <2>4, <2>7
        <3> QED BY <2>7, <3>1
    <2>10. \A i \in 1 .. s : shown[i] = Trimmed(hits[i], terms, policy)
        BY <2>5, <2>7, <2>9
    <2> QED BY <1>2, <2>7, <2>8, <2>9, <2>10 DEF shown
<1> QED BY <1>1, <1>2

-----------------------------------------------------------------------------
(* What a search finds.                                                    *)

\* The record of a search of a pool.
Finds(pool, terms, blend, limit, policy) ==
    LET order == Cut(pool, terms, Reranked(pool, blend), limit)
    IN [pool |-> pool, terms |-> terms, blend |-> blend, policy |-> policy, order |-> order,
        shown |-> Shown([k \in DOMAIN order |-> pool[order[k]]], terms, policy)]

\* A recalled pool is one, and its hits are chunks.
LEMMA PoolsArePools ==
    ASSUME CodeSearchAssumption, NEW size \in Nat, NEW pool \in Pools(size)
    PROVE  /\ Len(pool) = size /\ IsPool(pool)
           /\ \A k \in 1 .. size : \E c \in Chunks : pool[k].start = c.start /\ pool[k].lines = c.lines
PROOF
<1>1. /\ pool \in [1 .. size -> Hits]
      /\ \A j, k \in 1 .. size : j < k => pool[j].score >= pool[k].score
    BY Zenon DEF Pools
<1>2. \A h \in Hits : /\ h.score \in Scores /\ h.rerank \in Scores
                      /\ \E c \in Chunks : h.start = c.start /\ h.lines = c.lines
    BY DEF Hits
<1>3. Len(pool) = size /\ DOMAIN pool = 1 .. size
    BY <1>1, Lengths
<1>4. \A k \in 1 .. size : /\ pool[k].score \in Nat /\ pool[k].rerank \in Nat
                           /\ \E c \in Chunks : pool[k].start = c.start /\ pool[k].lines = c.lines
    BY <1>1, <1>2 DEF CodeSearchAssumption
<1>5. \A j, k \in 1 .. size : j < k => pool[k].score <= pool[j].score
    BY <1>1, <1>4
<1>6. IsPool(pool)
    BY <1>3, <1>4, <1>5 DEF IsPool
<1> QED BY <1>3, <1>4, <1>6

\* A search records what it found of a pool.
LEMMA SearchFinds ==
    ASSUME CodeSearchAssumption, Search
    PROVE  \E size \in Nat : \E pool \in Pools(size) :
             \E terms \in SUBSET Names, blend \in Blends \cup {None},
                limit \in Answers, policy \in Policies :
                found' = Finds(pool, terms, blend, limit, policy)
PROOF
<1>1. PICK pool \in UNION {Pools(size) : size \in 0 .. MaxPool} :
         \E terms \in SUBSET Names, blend \in Blends \cup {None},
            limit \in Answers, policy \in Policies :
                found' = Finds(pool, terms, blend, limit, policy)
    BY Zenon DEF Search, Finds
<1>3. PICK size \in 0 .. MaxPool : pool \in Pools(size)
    OBVIOUS
<1>2. size \in Nat
    BY DEF CodeSearchAssumption
<1> QED BY <1>1, <1>2, <1>3, Zenon

\* A record of a pool of n hits: m are kept in order, and s are shown.
FoundAs(f, m, s, n, pool, terms, blend, policy) ==
    /\ n # 0 => s # 0
    /\ Keeps(f.order, m, n, pool, terms, blend)
    /\ Len(f.shown) = s /\ DOMAIN f.shown = 1 .. s
    /\ \A i \in 1 .. s : f.shown[i] = IF policy = None THEN Whole(pool[f.order[i]])
                                      ELSE Trimmed(pool[f.order[i]], terms, policy)
    /\ policy # None => s <= 1 \/ Spent(f.shown) <= policy.budget

\* What is found is such a record.
LEMMA FoundParts ==
    ASSUME CodeSearchAssumption, NEW size \in Nat, NEW pool \in Pools(size), NEW terms,
           NEW blend \in Blends \cup {None}, NEW limit \in Answers, NEW policy,
           NEW f, f = Finds(pool, terms, blend, limit, policy)
    PROVE  \E m \in 0 .. size : \E s \in 0 .. m : FoundAs(f, m, s, size, pool, terms, blend, policy)
PROOF
<1> DEFINE order == Cut(pool, terms, Reranked(pool, blend), limit)
           hits == [k \in DOMAIN order |-> pool[order[k]]]
<1>1. Len(pool) = size /\ IsPool(pool)
    BY PoolsArePools
<1>2. PICK m \in 0 .. size :
          /\ size # 0 => m # 0
          /\ Len(order) = m
          /\ Keeps(order, m, size, pool, terms, blend)
    BY <1>1, CutIs
<1>3. f.order = order /\ f.shown = Shown(hits, terms, policy)
    BY DEF Finds
<1> HIDE DEF order
<1>4. hits = [k \in 1 .. m |-> pool[order[k]]]
    BY <1>2 DEF Keeps
<1>5. Len(hits) = m /\ DOMAIN hits = 1 .. m /\ \A i \in 1 .. m : hits[i] = pool[order[i]]
    <2>1. DOMAIN hits = 1 .. m /\ \A i \in 1 .. m : hits[i] = pool[order[i]]
        BY <1>4
    <2>2. hits \in [1 .. m -> {pool[order[k]] : k \in 1 .. m}] /\ m \in Nat
        BY <1>4
    <2> HIDE DEF hits
    <2> QED BY <2>1, <2>2, Lengths
<1> HIDE DEF hits
<1>6. PICK s \in 0 .. m :
          /\ m # 0 => s # 0
          /\ Len(f.shown) = s /\ DOMAIN f.shown = 1 .. s
          /\ \A i \in 1 .. s : f.shown[i] = IF policy = None THEN Whole(hits[i])
                                            ELSE Trimmed(hits[i], terms, policy)
          /\ policy # None => s <= 1 \/ Spent(f.shown) <= policy.budget
    <2>1. m \in Nat
        OBVIOUS
    <2> QED BY <1>3, <1>5, <2>1, ShownIs
<1>7. \A i \in 1 .. s : hits[i] = pool[order[i]]
    BY <1>5
<1>8. /\ size # 0 => s # 0
      /\ \A i \in 1 .. s : f.shown[i] = IF policy = None THEN Whole(pool[f.order[i]])
                                        ELSE Trimmed(pool[f.order[i]], terms, policy)
    BY <1>2, <1>3, <1>6, <1>7
<1>9. FoundAs(f, m, s, size, pool, terms, blend, policy)
    BY <1>2, <1>3, <1>6, <1>8 DEF FoundAs
<1> QED BY <1>9

-----------------------------------------------------------------------------
(* The order of a search.                                                  *)

\* DominanceKept of a record, in a graph with the nodes N.
ExactIn(N, hit, terms) ==
    hit.qual # <<>> /\ Last(hit.qual) \in terms
      /\ \E n \in N : n.name = Last(hit.qual) /\ n.kind # "module"
Dominates(N, pool, terms, blend, order, shown) ==
    LET exact(k) == ExactIn(N, pool[k], terms)
        above(j, k) == IF exact(j) # exact(k) THEN exact(j)
                       ELSE j < k /\ (blend # None => pool[j].rerank >= pool[k].rerank)
        place(k) == {i \in DOMAIN shown : order[i] = k}
    IN \A j, k \in DOMAIN pool :
         above(j, k) => \A b \in place(k) : \E a \in place(j) : a < b
Dominant(N, f) == Dominates(N, f.pool, f.terms, f.blend, f.order, f.shown)

\* What a search records is dominant.
LEMMA FoundIsDominant ==
    ASSUME CodeSearchAssumption, NEW size \in Nat, NEW pool \in Pools(size), NEW terms,
           NEW blend \in Blends \cup {None}, NEW limit \in Answers, NEW policy,
           NEW f, f = Finds(pool, terms, blend, limit, policy)
    PROVE  Dominant(nodes, f)
PROOF
<1> DEFINE exact(k) == Exact(pool[k], terms)
           above(j, k) == IF exact(j) # exact(k) THEN exact(j)
                          ELSE j < k /\ (blend # None => pool[j].rerank >= pool[k].rerank)
<1>1. f.pool = pool /\ f.terms = terms /\ f.blend = blend
    BY DEF Finds
<1>2. DOMAIN pool = 1 .. size /\ \A i \in 1 .. size : pool[i].rerank \in Nat
    <2>1. Len(pool) = size /\ IsPool(pool)
        BY PoolsArePools
    <2> QED BY <2>1 DEF IsPool
<1>3. PICK m \in 0 .. size : \E s \in 0 .. m : FoundAs(f, m, s, size, pool, terms, blend, policy)
    BY FoundParts
<1>4. PICK s \in 0 .. m :
          DOMAIN f.shown = 1 .. s /\ Keeps(f.order, m, size, pool, terms, blend)
    BY <1>3 DEF FoundAs
<1>5. ASSUME NEW j \in 1 .. size, NEW k \in 1 .. size, above(j, k), NEW b \in 1 .. s, f.order[b] = k
      PROVE  \E a \in 1 .. s : f.order[a] = j /\ a < b
    <2>1. pool[j].rerank >= pool[k].rerank => pool[k].rerank <= pool[j].rerank
        BY <1>2
    <2>2. Above(j, k, pool, terms, blend)
        BY <1>5, <2>1, Zenon DEF Above, Exact
    <2>3. b \in 1 .. m
        OBVIOUS
    <2>4. \E a \in 1 .. m : f.order[a] = j /\ a < b
        BY <1>4, <1>5, <2>2, <2>3, Zenon DEF Keeps
    <2>5. \A a \in 1 .. m : a < b => a \in 1 .. s
        OBVIOUS
    <2> QED BY <2>4, <2>5
<1>6. \A j, k \in DOMAIN pool : above(j, k) =>
          \A b \in {i \in DOMAIN f.shown : f.order[i] = k} :
             \E a \in {i \in DOMAIN f.shown : f.order[i] = j} : a < b
    <2> HIDE DEF above
    <2> QED BY <1>2, <1>4, <1>5
<1>7. Dominates(nodes, pool, terms, blend, f.order, f.shown)
    BY <1>6, Zenon DEF Dominates, Exact, ExactIn
<1> QED BY <1>1, <1>7, Zenon DEF Dominant

\* A step finds nothing new, or is a search that keeps the order.
LEMMA DominanceKeptStep ==
    ASSUME CodeSearchAssumption, DominanceKept, [Next]_searchVars
    PROVE  DominanceKept'
PROOF
<1>1. CASE UNCHANGED searchVars
    <2>1. UNCHANGED <<nodes, found>>
        BY <1>1 DEF searchVars, graphVars, indexVars
    <2> QED BY <2>1 DEF DominanceKept, Exact
<1>2. CASE GraphStep /\ found = None /\ found' = found
    BY <1>2 DEF DominanceKept
<1>3. CASE Search
    <2>1. Dominant(nodes, found')
        BY <1>3, SearchFinds, FoundIsDominant
    <2>2. nodes' = nodes
        BY <1>3 DEF Search, graphVars, indexVars
    <2>3. Dominant(nodes', found')
        BY <2>1, <2>2
    <2>4. DominanceKept' <=> (found' # None => Dominant(nodes', found'))
        BY Zenon DEF DominanceKept, Dominant, Dominates, Exact, ExactIn
    <2> QED BY <2>3, <2>4
<1> QED BY <1>1, <1>2, <1>3 DEF Next

\* SearchService.search: a hit that is exact where another is not, or that
\* neither ranking puts after it, is shown whenever the other is, and before it,
\* whatever the blend, the limit and the budget.
THEOREM DominanceHolds == Spec => []DominanceKept
PROOF
<1>1. Init => DominanceKept
    BY DEF Init, DominanceKept
<1>2. DominanceKept /\ [Next]_searchVars => DominanceKept'
    BY CodeSearchAssumption, DominanceKeptStep
<1> QED BY <1>1, <1>2, PTL DEF Spec

-----------------------------------------------------------------------------
(* The characters of lines.                                                *)

\* Lines: a sequence of them, with a width and finitely many words.
AreLines(lines) ==
    /\ Len(lines) \in Nat /\ DOMAIN lines = 1 .. Len(lines)
    /\ \A k \in 1 .. Len(lines) : lines[k].width \in Nat /\ IsFiniteSet(lines[k].words)

\* Each line adds its width and, after the first, a newline.
LEMMA LengthStep ==
    ASSUME NEW lines, Len(lines) \in Nat, \A k \in 1 .. Len(lines) : lines[k].width \in Nat
    PROVE  /\ \A k \in 0 .. Len(lines) : LengthOf(lines, k) \in Nat
           /\ LengthOf(lines, 0) = 0
           /\ \A k \in 1 .. Len(lines) :
                 LengthOf(lines, k) = LengthOf(lines, k - 1) + lines[k].width + (IF k = 1 THEN 0 ELSE 1)
PROOF
<1> DEFINE n == Len(lines)
           add == [k \in 1 .. n |-> lines[k].width + (IF k = 1 THEN 0 ELSE 1)]
           up == [k \in 1 .. n |-> k - 1]
           step == [k \in 1 .. n |-> [v \in Nat |-> v + add[k]]]
           Line(s, j) == s[j - 1] + lines[j].width + (IF j = 1 THEN 0 ELSE 1)
           Body(s) == [j \in 0 .. n |-> IF j = 0 THEN 0 ELSE Line(s, j)]
           chars == CHOOSE s : s = Body(s)
<1>1. n \in Nat /\ \A k \in 1 .. n : lines[k].width \in Nat
    OBVIOUS
<1>2. \A k \in 1 .. n : add[k] \in Nat /\ add[k] = lines[k].width + (IF k = 1 THEN 0 ELSE 1)
    BY <1>1
<1> HIDE DEF n, add
<1>3. Recurrence(n, Nat, 0, step, up)
    <2>1. step \in [1 .. n -> [Nat -> Nat]]
        BY <1>2
    <2>2. up \in [1 .. n -> Nat] /\ \A k \in 1 .. n : up[k] < k
        BY <1>1
    <2> QED BY <1>1, <2>1, <2>2 DEF Recurrence
<1>4. PICK s : Solution(s, n, Nat, 0, step, up)
    BY <1>3, Recursion
<1>5. ASSUME NEW k \in 1 .. n PROVE s[k] = Line(s, k)
    <2>1. s[k] = step[k][s[up[k]]] /\ up[k] = k - 1 /\ k - 1 \in 0 .. n
        <3> HIDE DEF step
        <3> QED BY <1>1, <1>4 DEF Solution
    <2>2. s[k - 1] \in Nat
        BY <1>4, <2>1 DEF Solution
    <2>3. \A v \in Nat : step[k][v] = v + add[k]
        OBVIOUS
    <2>4. s[k] = s[k - 1] + add[k]
        <3> HIDE DEF step, up
        <3> QED BY <2>1, <2>2, <2>3
    <2> QED BY <1>1, <1>2, <2>2, <2>4
<1>6. s = Body(s)
    <2> HIDE DEF Line
    <2> QED BY <1>1, <1>4, <1>5 DEF Solution
<1>7. chars = Body(chars)
    <2> HIDE DEF Body
    <2> QED BY <1>6
<1>8. chars[0] = 0 /\ \A k \in 1 .. n : chars[k] = Line(chars, k)
    <2>1. Body(chars)[0] = 0 /\ \A k \in 1 .. n : Body(chars)[k] = Line(chars, k)
        <3> HIDE DEF Line, chars
        <3> QED BY <1>1
    <2> HIDE DEF Body, chars, Line
    <2> QED BY <1>7, <2>1
<1>9. \A k : LengthOf(lines, k) = chars[k]
    BY Zenon DEF LengthOf, n
<1> HIDE DEF chars
<1>10. \A k \in 0 .. n : chars[k] \in Nat
    <2> DEFINE T == {k \in 0 .. n : chars[k] \in Nat}
    <2>1. 0 \in T
        BY <1>1, <1>8
    <2>2. ASSUME NEW k \in 1 .. n, \A j \in 0 .. k - 1 : j \in T PROVE k \in T
        <3>1. k - 1 \in 0 .. k - 1 /\ k \in 0 .. n
            BY <1>1
        <3>2. chars[k - 1] \in Nat
            BY <2>2, <3>1
        <3>3. chars[k] \in Nat
            BY <1>1, <1>8, <3>2, SMTT(60)
        <3> QED BY <3>1, <3>3
    <2>3. \A k \in 0 .. n : k \in T
        <3> HIDE DEF T
        <3> QED BY <1>1, <2>1, <2>2, Induction
    <2> QED BY <2>3
<1> QED BY <1>8, <1>9, <1>10 DEF n

\* More lines have no fewer characters.
LEMMA LengthGrows ==
    ASSUME NEW lines, AreLines(lines)
    PROVE  \A j, k \in 0 .. Len(lines) : j <= k => LengthOf(lines, j) <= LengthOf(lines, k)
PROOF
<1> DEFINE n == Len(lines)
           L(k) == LengthOf(lines, k)
           T == {k \in 0 .. n : \A j \in 0 .. k : L(j) <= L(k)}
<1>1. n \in Nat /\ \A k \in 1 .. n : lines[k].width \in Nat
    BY DEF AreLines
<1>2. /\ \A k \in 0 .. n : L(k) \in Nat
      /\ \A k \in 1 .. n : L(k) = L(k - 1) + lines[k].width + (IF k = 1 THEN 0 ELSE 1)
    BY <1>1, LengthStep
<1> HIDE DEF n, L
<1>3. \A k \in 1 .. n : L(k - 1) <= L(k)
    BY <1>1, <1>2
<1>4. 0 \in T
    BY <1>1, <1>2
<1>5. ASSUME NEW k \in 1 .. n, \A j \in 0 .. k - 1 : j \in T PROVE k \in T
    <2>1. k - 1 \in T /\ k \in 0 .. n /\ k - 1 \in 0 .. n
        BY <1>1, <1>5
    <2>2. ASSUME NEW j \in 0 .. k PROVE L(j) <= L(k)
        <3>1. CASE j = k
            BY <1>2, <2>1, <3>1
        <3>2. CASE j # k
            <4>1. j \in 0 .. k - 1 /\ j \in 0 .. n
                BY <1>1, <3>2
            <4>2. L(j) <= L(k - 1) /\ L(k - 1) <= L(k)
                BY <1>3, <2>1, <4>1
            <4> QED BY <1>2, <2>1, <4>1, <4>2
        <3> QED BY <3>1, <3>2
    <2> QED BY <2>1, <2>2
<1>6. \A k \in 0 .. n : k \in T
    <2> HIDE DEF T
    <2> QED BY <1>1, <1>4, <1>5, Induction
<1> QED BY <1>6 DEF n, L

\* The characters of the first lines depend on these alone.
LEMMA LengthSame ==
    ASSUME NEW lines, AreLines(lines), NEW k \in 0 .. Len(lines),
           NEW other, Len(other) \in Nat, k <= Len(other),
           \A j \in 1 .. Len(other) : other[j].width \in Nat,
           \A j \in 1 .. k : other[j] = lines[j]
    PROVE  LengthOf(other, k) = LengthOf(lines, k)
PROOF
<1> DEFINE L(j) == LengthOf(lines, j)
           M(j) == LengthOf(other, j)
           T == {j \in 0 .. k : M(j) = L(j)}
<1>1. /\ Len(lines) \in Nat /\ Len(other) \in Nat /\ k \in Nat
      /\ \A j \in 1 .. Len(lines) : lines[j].width \in Nat
    BY DEF AreLines
<1>2. /\ L(0) = 0
      /\ \A j \in 1 .. Len(lines) : L(j) = L(j - 1) + lines[j].width + (IF j = 1 THEN 0 ELSE 1)
    BY <1>1, LengthStep
<1>3. /\ M(0) = 0
      /\ \A j \in 1 .. Len(other) : M(j) = M(j - 1) + other[j].width + (IF j = 1 THEN 0 ELSE 1)
    BY <1>1, LengthStep
<1> HIDE DEF L, M
<1>4. 0 \in T
    BY <1>1, <1>2, <1>3
<1>5. ASSUME NEW j \in 1 .. k, \A i \in 0 .. j - 1 : i \in T PROVE j \in T
    <2>1. j - 1 \in T /\ j \in 0 .. k /\ j \in 1 .. Len(lines) /\ j \in 1 .. Len(other)
        BY <1>1, <1>5
    <2>2. M(j) = L(j)
        BY <1>2, <1>3, <2>1
    <2> QED BY <2>1, <2>2
<1>6. \A j \in 0 .. k : j \in T
    <2> HIDE DEF T
    <2> QED BY <1>1, <1>4, <1>5, Induction
<1>7. k \in 0 .. k
    BY <1>1
<1> QED BY <1>6, <1>7 DEF L, M

-----------------------------------------------------------------------------
(* The lines of a chunk.                                                   *)

\* The lines of a chunk have the widths of their kinds.
LEMMA LinesAre ==
    ASSUME CodeGraphAssumption, CodeSearchAssumption, src \in Sources, NEW p \in Paths,
           NEW first \in Nat \ {0}, NEW last \in Nat, first <= last, last <= Len(src[p]),
           NEW ends \in BOOLEAN
    PROVE  AreLines(LinesOf(p, first, last, ends)) /\ Len(LinesOf(p, first, last, ends)) # 0
PROOF
<1> DEFINE n == last - first + 1
           line(k) == [width |-> Width[src[p][first + k - 1].kind],
                       words |-> {src[p][first + k - 1].name, src[p][first + k - 1].base} \ {None}]
           text == [k \in 1 .. n |-> line(k)]
           none == [width |-> 0, words |-> {}]
           tail == IF ends THEN <<none>> ELSE <<>>
           V == {line(k) : k \in 1 .. n} \cup {none}
<1>1. n \in Nat \ {0} /\ DOMAIN src[p] = 1 .. Len(src[p]) /\ Len(src[p]) \in Nat
    BY DEF CodeGraphAssumption, Paths
<1>2. LinesOf(p, first, last, ends) = text \o tail
    BY Zenon DEF LinesOf
<1>3. ASSUME NEW k \in 1 .. n PROVE line(k).width \in Nat /\ IsFiniteSet(line(k).words)
    <2>1. first + k - 1 \in DOMAIN src[p]
        BY <1>1
    <2>2. src[p][first + k - 1].kind \in DefKinds \cup {"call", "import", "block"}
        BY <2>1 DEF CodeGraphAssumption, Paths
    <2>3. Width[src[p][first + k - 1].kind] \in Nat
        BY <2>2 DEF CodeSearchAssumption
    <2>4. ASSUME NEW a, NEW b PROVE IsFiniteSet({a, b} \ {None})
        <3>1. IsFiniteSet({}) /\ {a, b} \ {None} \subseteq ({} \cup {a}) \cup {b}
            BY FS_EmptySet
        <3>2. IsFiniteSet(({} \cup {a}) \cup {b})
            BY <3>1, FS_AddElement
        <3> QED BY <3>1, <3>2, FS_Subset
    <2> QED BY <2>3, <2>4
<1>4. \A x \in V : x.width \in Nat /\ IsFiniteSet(x.words)
    <2>1. none.width \in Nat /\ IsFiniteSet(none.words)
        BY FS_EmptySet
    <2> HIDE DEF line, none
    <2> QED BY <1>3, <2>1
<1>5. text \in [1 .. n -> V] /\ tail \in Seq(V) /\ Len(tail) \in Nat
    <2>1. text \in [1 .. n -> V]
        <3> HIDE DEF line, n, none
        <3> QED OBVIOUS
    <2>2. none \in V
        OBVIOUS
    <2> HIDE DEF none, V
    <2>3. tail \in Seq(V) /\ Len(tail) \in Nat
        BY <2>2
    <2> QED BY <2>1, <2>3
<1> HIDE DEF n, line, none, text, tail, V
<1>6. text \in Seq(V) /\ Len(text) = n
    BY <1>1, <1>5, Lengths
<1>7. text \o tail \in Seq(V) /\ Len(text \o tail) = n + Len(tail)
    BY <1>5, <1>6
<1>8. PICK lines : lines = text \o tail
    OBVIOUS
<1>9. lines \in Seq(V) /\ Len(lines) \in Nat \ {0}
    BY <1>1, <1>5, <1>7, <1>8
<1>10. DOMAIN lines = 1 .. Len(lines) /\ \A k \in 1 .. Len(lines) : lines[k] \in V
    BY <1>9
<1>11. AreLines(lines)
    BY <1>4, <1>9, <1>10 DEF AreLines
<1> QED BY <1>2, <1>8, <1>9, <1>11

\* The lines around a line are up to it, itself included.
LEMMA AroundIs ==
    ASSUME CodeGraphAssumption, src \in Sources, NEW p \in Paths
    PROVE  \A i \in 1 .. Len(src[p]) : i \in Around(p)[i] /\ Around(p)[i] \subseteq 1 .. i
PROOF
<1> DEFINE n == Len(src[p])
           V == SUBSET Nat
           up == [i \in 1 .. n |-> src[p][i].up]
           step == [i \in 1 .. n |-> [v \in V |-> {i} \cup v]]
           Line(s, i) == {i} \cup s[src[p][i].up]
           Body(s) == [i \in 0 .. n |-> IF i = 0 THEN {} ELSE Line(s, i)]
           A(i) == Around(p)[i]
<1>1. n \in Nat /\ \A i \in 1 .. n : src[p][i].up \in 0 .. i - 1
    BY DEF CodeGraphAssumption, Paths
<1>2. Recurrence(n, V, {}, step, up)
    <2> HIDE DEF n
    <2>1. n \in Nat /\ {} \in V /\ step \in [1 .. n -> [V -> V]]
        <3>1. {} \in V /\ \A i \in 1 .. n : \A v \in V : {i} \cup v \in V
            <4>1. \A i \in 1 .. n : i \in Nat
                BY <1>1
            <4> QED BY <4>1, Zenon
        <3> HIDE DEF V
        <3> QED BY <1>1, <3>1
    <2>2. up \in [1 .. n -> Nat] /\ \A i \in 1 .. n : up[i] < i
        BY <1>1
    <2> QED BY <2>1, <2>2 DEF Recurrence
<1>3. PICK s : Solution(s, n, V, {}, step, up)
    BY <1>2, Recursion
<1>4. ASSUME NEW i \in 1 .. n PROVE s[i] = Line(s, i)
    <2> HIDE DEF n, V
    <2>1. s[i] = step[i][s[up[i]]] /\ up[i] = src[p][i].up /\ up[i] \in 0 .. n
        <3> HIDE DEF step
        <3> QED BY <1>1, <1>3 DEF Solution
    <2>2. s[up[i]] \in V
        BY <1>3, <2>1 DEF Solution
    <2>3. \A v \in V : step[i][v] = {i} \cup v
        OBVIOUS
    <2> QED BY <2>1, <2>2, <2>3
<1>5. s = Body(s)
    <2> HIDE DEF n, V, Line
    <2> QED BY <1>1, <1>3, <1>4, SMTT(60) DEF Solution
<1>6. Around(p) = Body(Around(p))
    BY <1>5 DEF Around
<1>7. /\ Body(Around(p))[0] = {}
      /\ \A i \in 1 .. n : Body(Around(p))[i] = Line(Around(p), i)
    <2> HIDE DEF Line
    <2> QED BY <1>1
<1>8. A(0) = {} /\ \A i \in 1 .. n : A(i) = {i} \cup A(src[p][i].up)
    <2> HIDE DEF Body
    <2> QED BY <1>6, <1>7
<1> DEFINE T == {i \in 0 .. n : A(i) \subseteq 1 .. i}
<1> HIDE DEF n, A
<1>9. 0 \in T
    BY <1>1, <1>8
<1>10. ASSUME NEW i \in 1 .. n, \A j \in 0 .. i - 1 : j \in T PROVE i \in T
    <2>1. PICK u \in 0 .. i - 1 : u = src[p][i].up
        BY <1>1
    <2>2. A(u) \subseteq 1 .. u /\ A(i) = {i} \cup A(u) /\ i \in 0 .. n
        BY <1>1, <1>8, <1>10, <2>1
    <2>3. 1 .. u \subseteq 1 .. i /\ i \in 1 .. i
        BY <1>1, <2>1
    <2>4. A(i) \subseteq 1 .. i
        BY <2>2, <2>3
    <2> QED BY <2>2, <2>4
<1>11. \A i \in 0 .. n : i \in T
    <2> HIDE DEF T
    <2> QED BY <1>1, <1>9, <1>10, Induction
<1>12. \A i \in 1 .. n : i \in A(i)
    BY <1>8
<1>13. \A i \in 1 .. n : A(i) \subseteq 1 .. i
    <2>1. \A i \in 1 .. n : i \in 0 .. n
        BY <1>1
    <2> QED BY <1>11, <2>1
<1> QED BY <1>12, <1>13 DEF n, A

\* Every chunk has lines, and a first one.
LEMMA ChunksHaveLines ==
    ASSUME CodeGraphAssumption, CodeSearchAssumption, src \in Sources, NEW c \in Chunks
    PROVE  c.start \in Nat /\ AreLines(c.lines) /\ Len(c.lines) # 0
PROOF
<1>1. PICK p \in Paths : c \in Preambles(p) \cup {DefinitionChunk(p, i) : i \in Definitions(p)}
    BY Zenon DEF Chunks
<1>2. PICK n \in Nat : n = Len(src[p]) /\ Lines(p) = 1 .. n
    BY DEF CodeGraphAssumption, Paths, Lines
<1>3. Definitions(p) \subseteq 1 .. n
    BY <1>2 DEF Definitions
<1>4. CASE c \in Preambles(p)
    <2> DEFINE top == Outermost(p)
               last == IF top = {} THEN Len(src[p]) ELSE Min(top) - 1
               lines == LinesOf(p, 1, last, top # {})
    <2>1. top \subseteq 1 .. n
        BY <1>3 DEF Outermost
    <2>2. last # 0 /\ c.start = 1 /\ c.lines = lines
        BY <1>4 DEF Preambles
    <2> HIDE DEF top
    <2>3. last \in 0 .. n
        <3>1. CASE top = {}
            BY <1>2, <3>1
        <3>2. CASE top # {}
            <4>1. Min(top) \in top
                <5>1. top \subseteq Nat
                    BY <2>1
                <5> QED BY <3>2, <5>1, MinIsLeast
            <4>2. PICK m \in top : m = Min(top)
                BY <4>1
            <4>3. m \in 1 .. n
                BY <2>1
            <4> QED BY <3>2, <4>2, <4>3
        <3> QED BY <3>1, <3>2
    <2> HIDE DEF last
    <2>4. AreLines(lines) /\ Len(lines) # 0
        <3>1. 1 \in Nat \ {0} /\ last \in Nat /\ 1 <= last /\ last <= Len(src[p])
            BY <1>2, <2>2, <2>3
        <3> QED BY <3>1, LinesAre
    <2> QED BY <2>2, <2>4
<1>5. ASSUME NEW i \in Definitions(p), c = DefinitionChunk(p, i)
      PROVE  c.start \in Nat /\ AreLines(c.lines) /\ Len(c.lines) # 0
    <2> DEFINE within == Within(p, i)
               inner == NestedIn(p, i)
               last == IF inner = {} THEN Max(within) ELSE Min(inner) - 1
               lines == LinesOf(p, i, last, inner # {})
    <2>1. c.start = i /\ c.lines = lines
        BY <1>5 DEF DefinitionChunk
    <2>2. \A j \in within : j \in 1 .. n /\ i <= j
        <3>1. \A j \in within : j \in 1 .. n /\ i \in Around(p)[j]
            BY <1>2 DEF Within
        <3>2. \A j \in 1 .. n : Around(p)[j] \subseteq 1 .. j
            BY <1>2, AroundIs
        <3> HIDE DEF within
        <3> QED BY <3>1, <3>2
    <2>3. i \in within
        BY <1>2, <1>3, AroundIs DEF Within
    <2>4. inner \subseteq within \ {i}
        BY DEF NestedIn
    <2>5. i \in 1 .. n
        BY <1>3
    <2> HIDE DEF within, inner
    <2>6. last \in 0 .. n /\ i <= last
        <3>1. CASE inner = {}
            <4>1. Max(within) \in within
                <5>1. within \subseteq 0 .. n /\ within # {}
                    BY <2>2, <2>3
                <5> QED BY <5>1, MaxIsGreatest
            <4>2. PICK m \in within : m = Max(within)
                BY <4>1
            <4> QED BY <2>2, <3>1, <4>2
        <3>2. CASE inner # {}
            <4>1. Min(inner) \in inner
                <5>1. inner \subseteq Nat
                    BY <2>2, <2>4
                <5> QED BY <3>2, <5>1, MinIsLeast
            <4>2. PICK m \in inner : m = Min(inner)
                BY <4>1
            <4>3. m \in 1 .. n /\ i <= m /\ m # i
                BY <2>2, <2>4
            <4> QED BY <2>5, <3>2, <4>2, <4>3
        <3> QED BY <3>1, <3>2
    <2> HIDE DEF last
    <2>7. AreLines(lines) /\ Len(lines) # 0
        <3>1. last \in Nat /\ i \in Nat \ {0} /\ last <= Len(src[p])
            BY <1>2, <2>5, <2>6
        <3> QED BY <2>6, <3>1, LinesAre
    <2> QED BY <2>1, <2>5, <2>7
<1> QED BY <1>1, <1>4, <1>5

-----------------------------------------------------------------------------
(* What is shown of a hit.                                                 *)

\* The densest line is one of the lines.
LEMMA DensestIs ==
    ASSUME NEW lines, AreLines(lines), Len(lines) # 0, NEW terms
    PROVE  DensestLine(lines, terms) \in 1 .. Len(lines)
PROOF
<1> DEFINE n == Len(lines)
           dense == [k \in 1 .. n |-> Cardinality(lines[k].words \cap terms)]
           best == {k \in 1 .. n : \A j \in 1 .. n : dense[j] <= dense[k]}
<1>1. n \in Nat \ {0} /\ DOMAIN lines = 1 .. n
    BY DEF AreLines
<1>2. ASSUME NEW k \in 1 .. n PROVE dense[k] \in Nat
    <2>1. IsFiniteSet(lines[k].words)
        BY DEF AreLines
    <2>2. IsFiniteSet(lines[k].words \cap terms)
        BY <2>1, FS_Subset
    <2>3. Cardinality(lines[k].words \cap terms) \in Nat
        BY <2>2, FS_CardinalityType
    <2> QED BY <2>3
<1>3. DensestLine(lines, terms) = Min(best)
    <2>1. best = {k \in 1 .. n : \A j \in 1 .. n : Cardinality(lines[j].words \cap terms)
                                                      <= Cardinality(lines[k].words \cap terms)}
        <3> HIDE DEF n
        <3>1. \A k \in 1 .. n : dense[k] = Cardinality(lines[k].words \cap terms)
            OBVIOUS
        <3> HIDE DEF dense
        <3> QED BY <3>1
    <2> HIDE DEF best
    <2> QED BY <1>1, <2>1, Zenon DEF DensestLine
<1> HIDE DEF dense
<1>4. \E k \in 1 .. n : \A j \in 1 .. n : dense[j] <= dense[k]
    BY <1>1, <1>2, Greatest
<1>5. best # {} /\ best \subseteq 1 .. n
    BY <1>4
<1> HIDE DEF best
<1>6. Min(best) \in best
    <2>1. best \subseteq Nat
        BY <1>1, <1>5
    <2> QED BY <1>5, <2>1, MinIsLeast
<1> QED BY <1>3, <1>5, <1>6

\* A window of m lines that follow the a lines it skips.
IsWindow(w, lines, a, m) ==
    /\ a + m <= Len(lines)
    /\ w.skip = a /\ Len(w.lines) = m /\ AreLines(w.lines)
    /\ \A k \in 1 .. m : w.lines[k] = lines[a + k]

\* What is shown of a hit is a window of its lines.
LEMMA WindowIs ==
    ASSUME NEW lines, AreLines(lines), Len(lines) # 0, NEW terms, NEW context \in Nat
    PROVE  \E a \in Nat, m \in Nat \ {0} : IsWindow(WindowOf(lines, terms, context), lines, a, m)
PROOF
<1> DEFINE n == Len(lines)
           span == 2 * context + 1
           centre == IF terms = {} THEN 0 ELSE DensestLine(lines, terms) - 1
           low == Max({0, centre - context})
           end == Min({n, low + span})
           start == Max({0, end - span})
           w == WindowOf(lines, terms, context)
<1>1. n \in Nat \ {0} /\ DOMAIN lines = 1 .. n
    BY DEF AreLines
<1>2. w = [skip |-> start, lines |-> SubSeq(lines, start + 1, end)]
    BY Zenon DEF WindowOf
<1>3. centre \in 0 .. n - 1
    BY <1>1, DensestIs
<1> HIDE DEF n, centre
<1>4. low \in Nat
    <2>1. PICK b \in Int : b = centre - context
        BY <1>1, <1>3
    <2>2. Max({0, b}) = IF b <= 0 THEN 0 ELSE b
        BY OfTwo
    <2>3. low = IF b <= 0 THEN 0 ELSE b
        BY <2>1, <2>2
    <2> QED BY <2>3
<1>5. span \in Nat \ {0}
    OBVIOUS
<1> HIDE DEF low, span
<1>6. end \in 1 .. n
    <2>1. low + span \in Nat \ {0}
        BY <1>4, <1>5
    <2>2. end = IF n <= low + span THEN n ELSE low + span
        BY <1>1, <2>1, OfTwo
    <2> QED BY <1>1, <2>1, <2>2
<1> HIDE DEF end
<1>7. start \in Nat /\ start < end
    <2>1. PICK b \in Int : b = end - span
        BY <1>1, <1>5, <1>6
    <2>2. Max({0, b}) = IF b <= 0 THEN 0 ELSE b
        BY OfTwo
    <2>3. start = IF b <= 0 THEN 0 ELSE b
        BY <2>1, <2>2
    <2> QED BY <1>1, <1>5, <1>6, <2>1, <2>3
<1> HIDE DEF start
<1>8. PICK a \in Nat, m \in Nat \ {0} : a = start /\ m = end - start
    BY <1>1, <1>6, <1>7
<1>9. a + m = end /\ a + m <= n
    BY <1>1, <1>6, <1>7, <1>8
<1>10. w.skip = a /\ w.lines = SubSeq(lines, a + 1, a + m)
    BY <1>2, <1>8, <1>9
<1> DEFINE kept == [k \in 1 .. m |-> lines[a + k]]
           V == {lines[k] : k \in 1 .. n}
<1>11. kept \in [1 .. m -> V]
    BY <1>1, <1>9
<1>12. SubSeq(lines, a + 1, a + m) = kept
    BY <1>1, <1>9
<1>13. Len(kept) = m /\ DOMAIN kept = 1 .. m /\ \A k \in 1 .. m : kept[k] = lines[a + k]
    <2>1. DOMAIN kept = 1 .. m /\ \A k \in 1 .. m : kept[k] = lines[a + k]
        OBVIOUS
    <2> HIDE DEF kept, V
    <2> QED BY <1>11, <2>1, Lengths
<1> HIDE DEF kept
<1>14. AreLines(kept)
    <2>1. \A k \in 1 .. m : a + k \in 1 .. n
        BY <1>1, <1>9
    <2>2. \A k \in 1 .. m : kept[k].width \in Nat /\ IsFiniteSet(kept[k].words)
        BY <1>13, <2>1 DEF AreLines, n
    <2> QED BY <1>13, <2>2 DEF AreLines
<1>15. IsWindow(w, lines, a, m)
    BY <1>9, <1>10, <1>12, <1>13, <1>14 DEF n, IsWindow
<1> QED BY <1>15

\* As many newlines as come before the last character leave that many lines and
\* one, which hold all the characters.
LEMMA BreaksAre ==
    ASSUME NEW lines, AreLines(lines), Len(lines) # 0,
           NEW chars \in Nat, chars <= LengthOf(lines, Len(lines))
    PROVE  LET breaks == {k \in 1 .. Len(lines) - 1 : LengthOf(lines, k) < chars}
           IN /\ Cardinality(breaks) \in 0 .. Len(lines) - 1
              /\ chars <= LengthOf(lines, Cardinality(breaks) + 1)
PROOF
<1> DEFINE n == Len(lines)
           L(k) == LengthOf(lines, k)
           breaks == {k \in 1 .. n - 1 : L(k) < chars}
           rest == (1 .. n - 1) \ breaks
<1>1. n \in Nat \ {0} /\ \A k \in 1 .. n : lines[k].width \in Nat
    BY DEF AreLines
<1>2. chars <= L(n) /\ (\A k \in 0 .. n : L(k) \in Nat)
    BY <1>1, LengthStep
<1>3. \A j, k \in 0 .. n : j <= k => L(j) <= L(k)
    BY LengthGrows
<1> HIDE DEF n, L
<1>4. CASE rest = {}
    <2>1. breaks = 1 .. n - 1
        BY <1>4
    <2> HIDE DEF breaks
    <2>2. Cardinality(breaks) = n - 1
        BY <1>1, <2>1, FS_Interval
    <2> QED BY <1>1, <1>2, <2>2 DEF n, L, breaks
<1>5. CASE rest # {}
    <2>1. rest \subseteq Nat
        BY <1>1
    <2> HIDE DEF rest
    <2>2. PICK m \in rest : \A k \in rest : m <= k
        BY <1>5, <2>1, Least
    <2> USE DEF rest
    <2>3. m \in 1 .. n - 1 /\ ~ (L(m) < chars)
        OBVIOUS
    <2>4. m \in 0 .. n /\ chars <= L(m)
        BY <1>1, <1>2, <2>3
    <2>5. ASSUME NEW k \in 1 .. n - 1 PROVE k \in breaks <=> k \in 1 .. m - 1
        <3>1. k < m => k \in breaks
            BY <1>1, <2>2, <2>3
        <3>2. m <= k => k \notin breaks
            <4>1. k \in 0 .. n
                BY <1>1
            <4>2. m <= k => L(m) <= L(k)
                BY <1>3, <2>4, <4>1
            <4>3. L(k) \in Nat /\ L(m) \in Nat
                BY <1>2, <2>4, <4>1
            <4> QED BY <2>4, <4>2, <4>3
        <3> QED BY <1>1, <2>3, <3>1, <3>2
    <2>6. breaks = 1 .. m - 1
        <3>1. breaks \subseteq 1 .. n - 1 /\ 1 .. m - 1 \subseteq 1 .. n - 1
            BY <1>1, <2>3
        <3> HIDE DEF breaks
        <3> QED BY <2>5, <3>1
    <2> HIDE DEF breaks
    <2>7. Cardinality(breaks) = m - 1
        BY <1>1, <2>3, <2>6, FS_Interval
    <2>8. m - 1 \in 0 .. n - 1 /\ (m - 1) + 1 = m
        BY <1>1, <2>3
    <2> QED BY <2>4, <2>7, <2>8 DEF n, L, breaks
<1> QED BY <1>4, <1>5

\* What is shown of a hit are lines of it at their own numbers.
SeenIsReal(hit, seen) ==
    LET text(k) == hit.lines[k - hit.start + 1]
    IN /\ hit.start <= seen.from /\ seen.from <= seen.to
       /\ seen.to < hit.start + Len(hit.lines)
       /\ seen.chars <= LengthOf([k \in 1 .. seen.to - seen.from + 1 |-> text(seen.from + k - 1)],
                                 seen.to - seen.from + 1)

\* It is, when its lines are m that follow the first a.
LEMMA SeenLines ==
    ASSUME NEW hit, hit.start \in Nat, AreLines(hit.lines),
           NEW a \in Nat, NEW m \in Nat \ {0}, a + m <= Len(hit.lines),
           NEW lines, AreLines(lines), m <= Len(lines), \A k \in 1 .. m : lines[k] = hit.lines[a + k],
           NEW seen, seen.from = hit.start + a, seen.to = hit.start + a + m - 1,
           seen.chars <= LengthOf(lines, m)
    PROVE  SeenIsReal(hit, seen)
PROOF
<1> DEFINE text == [k \in 1 .. seen.to - seen.from + 1 |-> hit.lines[(seen.from + k - 1) - hit.start + 1]]
<1>1. Len(hit.lines) \in Nat /\ Len(lines) \in Nat /\ \A k \in 1 .. m : lines[k].width \in Nat
    BY DEF AreLines
<1>2. seen.to - seen.from + 1 = m
    OBVIOUS
<1>3. text = [k \in 1 .. m |-> lines[k]]
    <2>1. \A k \in 1 .. m : (seen.from + k - 1) - hit.start + 1 = a + k
        OBVIOUS
    <2> QED BY <1>2, <2>1
<1>4. text \in [1 .. m -> {lines[k] : k \in 1 .. m}] /\ m \in Nat
    BY <1>3
<1>5. Len(text) = m
    <2> HIDE DEF text
    <2> QED BY <1>4, Lengths
<1>6. \A k \in 1 .. m : text[k] = lines[k]
    BY <1>3
<1>9. LengthOf(text, m) = LengthOf(lines, m)
    <2> HIDE DEF text
    <2>1. m \in 0 .. Len(lines) /\ Len(text) \in Nat /\ m <= Len(text)
        BY <1>1, <1>5
    <2>2. \A k \in 1 .. Len(text) : text[k].width \in Nat
        BY <1>1, <1>5, <1>6
    <2> QED BY <1>6, <2>1, <2>2, LengthSame
<1>7. seen.chars <= LengthOf(text, seen.to - seen.from + 1)
    <2> HIDE DEF text
    <2> QED BY <1>2, <1>9
<1>8. hit.start <= seen.from /\ seen.from <= seen.to /\ seen.to < hit.start + Len(hit.lines)
    BY <1>1, SMTT(60)
<1> QED BY <1>7, <1>8, Zenon DEF SeenIsReal

\* A hit shown whole is.
LEMMA WholeIsReal ==
    ASSUME NEW hit, hit.start \in Nat, AreLines(hit.lines), Len(hit.lines) # 0
    PROVE  SeenIsReal(hit, Whole(hit))
PROOF
<1> DEFINE m == Len(hit.lines)
           seen == Whole(hit)
<1>1. m \in Nat \ {0} /\ \A k \in 1 .. m : hit.lines[k].width \in Nat
    BY DEF AreLines
<1>2. seen.from = hit.start /\ seen.to = hit.start + m - 1 /\ seen.chars = LengthOf(hit.lines, m)
    BY DEF Whole
<1> HIDE DEF seen
<1>3. seen.chars <= LengthOf(hit.lines, m)
    <2>1. LengthOf(hit.lines, m) \in Nat
        BY <1>1, LengthStep, SMTT(60)
    <2> QED BY <1>2, <2>1
<1>4. seen.from = hit.start + 0 /\ seen.to = hit.start + 0 + m - 1 /\ 0 + m <= m /\ m <= m
    BY <1>1, <1>2
<1>5. \A k \in 1 .. m : hit.lines[k] = hit.lines[0 + k]
    OBVIOUS
<1>6. SeenIsReal(hit, seen)
    BY <1>1, <1>3, <1>4, <1>5, SeenLines
<1> QED BY <1>6 DEF seen

\* So is its window, cut to the characters one hit may have.
LEMMA TrimmedIsReal ==
    ASSUME NEW hit, hit.start \in Nat, AreLines(hit.lines), Len(hit.lines) # 0,
           NEW terms, NEW policy, policy.each \in Nat, policy.context \in Nat
    PROVE  SeenIsReal(hit, Trimmed(hit, terms, policy))
PROOF
<1> DEFINE window == WindowOf(hit.lines, terms, policy.context)
           all == LengthOf(window.lines, Len(window.lines))
           chars == Min({all, policy.each})
           breaks == {k \in 1 .. Len(window.lines) - 1 : LengthOf(window.lines, k) < chars}
           seen == Trimmed(hit, terms, policy)
<1>0. PICK a \in Nat, m \in Nat \ {0} : IsWindow(window, hit.lines, a, m)
    BY WindowIs
<1>1. /\ a + m <= Len(hit.lines)
      /\ window.skip = a /\ Len(window.lines) = m /\ AreLines(window.lines)
      /\ \A k \in 1 .. m : window.lines[k] = hit.lines[a + k]
    BY <1>0 DEF IsWindow
<1>2. seen = [from |-> hit.start + window.skip, chars |-> chars,
              to |-> hit.start + window.skip + Cardinality(breaks)]
    BY Zenon DEF Trimmed, FirstLine
<1> HIDE DEF window
<1>3. all \in Nat
    <2>1. PICK lines : lines = window.lines
        OBVIOUS
    <2>2. Len(lines) \in Nat /\ \A k \in 1 .. Len(lines) : lines[k].width \in Nat
        BY <1>1, <2>1 DEF AreLines
    <2>3. Len(lines) \in 0 .. Len(lines)
        BY <2>2
    <2>4. LengthOf(lines, Len(lines)) \in Nat
        BY <2>2, <2>3, LengthStep
    <2> QED BY <2>1, <2>4
<1> HIDE DEF all
<1>4. chars \in Nat /\ chars <= all
    BY <1>3, OfTwo
<1> HIDE DEF chars
<1>5. Cardinality(breaks) \in 0 .. m - 1 /\ chars <= LengthOf(window.lines, Cardinality(breaks) + 1)
    <2>1. chars <= LengthOf(window.lines, Len(window.lines)) /\ Len(window.lines) # 0
        BY <1>1, <1>4 DEF all
    <2> QED BY <1>1, <1>4, <2>1, BreaksAre
<1> HIDE DEF breaks, seen
<1>6. PICK b \in 0 .. m - 1 : b = Cardinality(breaks)
    BY <1>5
<1>7. PICK c \in Nat \ {0} : c = b + 1
    OBVIOUS
<1>8. seen.from = hit.start + a /\ seen.to = hit.start + a + c - 1 /\ seen.chars = chars
    BY <1>1, <1>2, <1>6, <1>7
<1>9. a + c <= Len(hit.lines) /\ c <= Len(window.lines) /\ seen.chars <= LengthOf(window.lines, c)
    <2>1. Len(hit.lines) \in Nat
        BY DEF AreLines
    <2> QED BY <1>1, <1>5, <1>6, <1>7, <1>8, <2>1, SMTT(60)
<1>10. \A k \in 1 .. c : window.lines[k] = hit.lines[a + k]
    <2>1. \A k \in 1 .. c : k \in 1 .. m
        BY <1>6, <1>7
    <2> QED BY <1>1, <2>1
<1>11. SeenIsReal(hit, seen)
    BY <1>1, <1>8, <1>9, <1>10, SeenLines
<1> QED BY <1>11 DEF seen

-----------------------------------------------------------------------------
(* What a search shows.                                                    *)

\* What a search records is real.
LEMMA FoundIsReal ==
    ASSUME CodeGraphAssumption, CodeSearchAssumption, src \in Sources,
           NEW size \in Nat, NEW pool \in Pools(size), NEW terms,
           NEW blend \in Blends \cup {None}, NEW limit \in Answers, NEW policy \in Policies,
           NEW f, f = Finds(pool, terms, blend, limit, policy)
    PROVE  /\ \A i \in DOMAIN f.shown : SeenIsReal(f.pool[f.order[i]], f.shown[i])
           /\ f.policy # None => Len(f.shown) <= 1 \/ Spent(f.shown) <= f.policy.budget
           /\ f.pool # <<>> => f.shown # <<>>
PROOF
<1>1. f.pool = pool /\ f.policy = policy
    BY DEF Finds
<1>2. Len(pool) = size /\ \A k \in 1 .. size : \E c \in Chunks : pool[k].start = c.start /\ pool[k].lines = c.lines
    BY PoolsArePools
<1>3. PICK m \in 0 .. size : \E s \in 0 .. m : FoundAs(f, m, s, size, pool, terms, blend, policy)
    BY FoundParts
<1>4. PICK s \in 0 .. m :
          /\ size # 0 => s # 0
          /\ Keeps(f.order, m, size, pool, terms, blend)
          /\ Len(f.shown) = s /\ DOMAIN f.shown = 1 .. s
          /\ \A i \in 1 .. s : f.shown[i] = IF policy = None THEN Whole(pool[f.order[i]])
                                            ELSE Trimmed(pool[f.order[i]], terms, policy)
          /\ policy # None => s <= 1 \/ Spent(f.shown) <= policy.budget
    BY <1>3 DEF FoundAs
<1>5. ASSUME NEW i \in 1 .. s PROVE SeenIsReal(pool[f.order[i]], f.shown[i])
    <2>1. f.order[i] \in 1 .. size
        BY <1>4 DEF Keeps
    <2>2. PICK hit : hit = pool[f.order[i]]
        OBVIOUS
    <2>3. hit.start \in Nat /\ AreLines(hit.lines) /\ Len(hit.lines) # 0
        BY <1>2, <2>1, <2>2, ChunksHaveLines
    <2>4. CASE policy = None
        BY <1>4, <2>2, <2>3, <2>4, WholeIsReal, SMTT(60)
    <2>5. CASE policy # None
        <3>1. policy.each \in Nat /\ policy.context \in Nat
            BY <2>5 DEF CodeSearchAssumption
        <3>2. f.shown[i] = Trimmed(hit, terms, policy)
            BY <1>4, <2>2, <2>5
        <3>3. SeenIsReal(hit, Trimmed(hit, terms, policy))
            BY <2>3, <3>1, TrimmedIsReal
        <3> QED BY <2>2, <3>2, <3>3
    <2> QED BY <2>4, <2>5
<1>6. pool # <<>> => f.shown # <<>>
    <2>1. pool # <<>> => size # 0
        BY <1>2, PoolsArePools DEF IsPool
    <2>2. Len(<<>>) = 0
        OBVIOUS
    <2> QED BY <1>4, <2>1, <2>2
<1> QED BY <1>1, <1>4, <1>5, <1>6

\* ShownIsReal of a record.
LEMMA RealIs ==
    ShownIsReal <=>
      (found # None =>
         /\ \A i \in DOMAIN found.shown : SeenIsReal(found.pool[found.order[i]], found.shown[i])
         /\ found.policy # None =>
              Len(found.shown) <= 1 \/ Spent(found.shown) <= found.policy.budget
         /\ found.pool # <<>> => found.shown # <<>>)
PROOF
    BY Zenon DEF ShownIsReal, SeenIsReal

\* A step finds nothing new, or is a search that shows what is there.
LEMMA ShownIsRealStep ==
    ASSUME CodeGraphAssumption, CodeSearchAssumption, GraphInv, ShownIsReal, [Next]_searchVars
    PROVE  ShownIsReal'
PROOF
<1>1. CASE found' = found
    BY <1>1, Zenon DEF ShownIsReal
<1>2. CASE Search
    <2>1. src \in Sources
        BY DEF GraphInv, Indexed
    <2>2. PICK f : /\ found' = f
                   /\ \A i \in DOMAIN f.shown : SeenIsReal(f.pool[f.order[i]], f.shown[i])
                   /\ f.policy # None => Len(f.shown) <= 1 \/ Spent(f.shown) <= f.policy.budget
                   /\ f.pool # <<>> => f.shown # <<>>
        BY <1>2, <2>1, SearchFinds, FoundIsReal
    <2> QED BY <2>2, Zenon DEF ShownIsReal, SeenIsReal
<1> QED BY <1>1, <1>2 DEF Next, searchVars

\* compress_hits: what is shown of a hit are lines of its chunk at their own
\* numbers, all of it keeps the budget unless it is one hit, and a search that
\* found something shows its best, for any pool, window, caps and budget.
THEOREM ShownHitsAreReal == Spec => []ShownIsReal
PROOF
<1>1. Init => ShownIsReal
    BY DEF Init, ShownIsReal
<1>2. GraphInv /\ ShownIsReal /\ [Next]_searchVars => ShownIsReal'
    BY CodeGraphAssumption, CodeSearchAssumption, ShownIsRealStep
<1> QED BY <1>1, <1>2, GraphInvHolds, PTL DEF Spec
=============================================================================
