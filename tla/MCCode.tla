------------------------------- MODULE MCCode -------------------------------
(***************************************************************************)
(* Model checking CodeGraph and CodeSearch: every source file of up to     *)
(* MaxLines lines over SourceNames next to a fixed second file, its graph  *)
(* queried from every seed; and searches over two of these workspaces.     *)
(***************************************************************************)
EXTENDS CodeSearch, TLC

CONSTANTS
    MaxLines,    \* bound: lines of the first file
    SourceNames  \* bound: identifiers of the sources

\* What a line may be; only a class has a base.
Shapes ==
    [kind : {"function", "class", "call", "import"}, name : SourceNames, base : {None}]
    \cup [kind : {"class"}, name : SourceNames, base : SourceNames]
    \cup {[kind |-> "block", name |-> None, base |-> None]}

\* Syntax trees: a line is enclosed by the line before it, or by one of those
\* around that line; an import encloses nothing.
Trees ==
    LET shape(i) == {[kind |-> s.kind, name |-> s.name, base |-> s.base, up |-> u] :
                       s \in Shapes, u \in 0 .. i - 1}
        f[n \in 0 .. MaxLines] ==
          IF n = 0 THEN {<<>>}
          ELSE {Append(t, x) : t \in f[n - 1], x \in shape(n)}
        around(t, i) == LET a[j \in 0 .. Len(t)] == IF j = 0 THEN {0} ELSE {j} \cup a[t[j].up]
                        IN a[i]
    IN {t \in UNION {f[n] : n \in 0 .. MaxLines} :
          \A i \in DOMAIN t : /\ t[i].up \in around(t, i - 1)
                              /\ t[i].up # 0 => t[t[i].up].kind # "import"}

\* The second file: a function that calls across files, or back.
Other == <<[kind |-> "function", name |-> "a", base |-> None, up |-> 0],
           [kind |-> "call", name |-> "b", base |-> None, up |-> 1]>>

MCSources == {<<t, Other>> : t \in Trees}
\* The second file is module "b": an import of "b" and a function of that name
\* are told apart.
MCModuleName == <<"m", "b">>

\* The workspaces that are searched: one with a preamble, one with a nested
\* definition.
Node(kind, name, up) == [kind |-> kind, name |-> name, base |-> None, up |-> up]
MCSearched ==
    {<<<<Node("import", "b", 0), Node("function", "a", 0), Node("call", "b", 2)>>, Other>>,
     <<<<Node("class", "a", 0), Node("call", "a", 1), Node("function", "b", 1)>>, Other>>}

\* Widths and policies of a size at which windows are cut, budgets exceeded.
MCWidth == [function |-> 2, class |-> 1, call |-> 3, import |-> 1, block |-> 1]
MCPolicies == {None, [budget |-> 3, each |-> 4, context |-> 0],
               [budget |-> 6, each |-> 3, context |-> 1]}
=============================================================================
