----------------------------- MODULE CodeSearch -----------------------------
(***************************************************************************)
(* A search of the code (codeintel/application/search.py): the chunks the  *)
(* extractor cut, the pool the vector index recalls in the order of its    *)
(* fused score, the reranker's blend (codeintel/domain/reranking.py), the  *)
(* promotion of exact names, the limit, and the compression to a window    *)
(* and a budget (codeintel/domain/compression.py).  What the embedders and *)
(* the reranker make of a text is any score.                               *)
(***************************************************************************)
EXTENDS CodeGraph, SequencesExt

CONSTANTS
    Names,       \* identifiers a query may hold
    Width,       \* characters of a line of each kind
    Searched,    \* the workspaces that are searched
    Scores,      \* scores of the index, and of the reranker
    Blends,      \* tenths: rerank_blend
    Answers,     \* limits a search may ask for
    Policies,    \* None, or [budget, each, context]: CompressionPolicy
    MaxPool      \* bound: hits recalled

ASSUME CodeSearchAssumption ==
    /\ Scores \subseteq Nat /\ Blends \subseteq 0 .. 10 /\ MaxPool \in Nat
    /\ Answers \subseteq Nat \ {0}
    /\ \A kind \in DefKinds \cup {"call", "import", "block"} : Width[kind] \in Nat
    /\ \A policy \in Policies \ {None} :
         policy.budget \in Nat /\ policy.each \in Nat /\ policy.context \in Nat

VARIABLE found \* the search made: its pool, its settings and what it shows

---------------------------------------------------------------------------
(* Chunks.                                                                 *)

Outermost(p)  == {i \in Definitions(p) : Enclosing(p, i) = {}}
NestedIn(p, i) == (Within(p, i) \cap Definitions(p)) \ {i}

\* The lines of a text that ends where a definition begins include an empty one.
LinesOf(p, first, last, cut) ==
    [k \in 1 .. last - first + 1 |->
        LET x == src[p][first + k - 1]
        IN [width |-> Width[x.kind], words |-> {x.name, x.base} \ {None}]]
    \o (IF cut THEN <<[width |-> 0, words |-> {}]>> ELSE <<>>)

\* A definition's chunk ends where its first nested definition begins.
DefinitionChunk(p, i) ==
    LET inner == NestedIn(p, i)
        last  == IF inner = {} THEN Max(Within(p, i)) ELSE Min(inner) - 1
    IN [path |-> p, qual |-> Scope(p)[i], start |-> i,
        lines |-> LinesOf(p, i, last, inner # {})]

\* The preamble ends where the first definition at the top begins.
Preambles(p) ==
    LET last == IF Outermost(p) = {} THEN Len(src[p]) ELSE Min(Outermost(p)) - 1
    IN IF last = 0 THEN {}
       ELSE {[path |-> p, qual |-> <<>>, start |-> 1,
              lines |-> LinesOf(p, 1, last, Outermost(p) # {})]}

Chunks == UNION {Preambles(p) \cup {DefinitionChunk(p, i) : i \in Definitions(p)} : p \in Paths}

---------------------------------------------------------------------------
(* Ranking.  A hit is a chunk with its score and the reranker's.           *)

\* Min-max normalisation, as a fraction: a flat vector is a half throughout.
Part(value, all) ==
    LET span == Max(all) - Min(all)
    IN IF span = 0 THEN [num |-> 1, den |-> 2]
       ELSE [num |-> value - Min(all), den |-> span]

\* The blend of the two normalised scores, over one denominator for the pool.
Fused(pool, blend, k) ==
    LET s == Part(pool[k].score, {pool[j].score : j \in DOMAIN pool})
        r == Part(pool[k].rerank, {pool[j].rerank : j \in DOMAIN pool})
    IN blend * r.num * s.den + (10 - blend) * s.num * r.den

\* The numbers up to n in the order R: the i-th has i - 1 before it.
Before(R, n, k) == {j \in 1 .. n : <<j, k>> \in R}
Sorted(n, R) ==
    [i \in 1 .. n |-> CHOOSE k \in 1 .. n : Cardinality(Before(R, n, k)) = i - 1]

\* rerank_hits: by fused score, then by place in the pool; None without one.
Reranked(pool, blend) ==
    IF blend = None THEN [k \in DOMAIN pool |-> k]
    ELSE LET fused == [k \in DOMAIN pool |-> Fused(pool, blend, k)]
             before(j, k) == fused[j] > fused[k] \/ (fused[j] = fused[k] /\ j < k)
         IN Sorted(Len(pool), {e \in (DOMAIN pool) \X (DOMAIN pool) : before(e[1], e[2])})

\* Only names that a symbol of the workspace bears are exact.
Exact(hit, terms) ==
    hit.qual # <<>> /\ Last(hit.qual) \in terms
      /\ \E n \in nodes : n.name = Last(hit.qual) /\ n.kind # "module"

\* A stable sort: exact hits first.
Promoted(pool, terms, ranked) ==
    LET n        == Len(ranked)
        exact    == {i \in 1 .. n : Exact(pool[ranked[i]], terms)}
        before(i, j) == IF (i \in exact) # (j \in exact) THEN i \in exact ELSE i < j
        places   == Sorted(n, {e \in (1 .. n) \X (1 .. n) : before(e[1], e[2])})
    IN [i \in 1 .. n |-> ranked[places[i]]]

\* Mutant: the limit is applied before the promotion.
CutFirst(pool, terms, ranked, limit) ==
    Promoted(pool, terms, SubSeq(ranked, 1, Min({limit, Len(ranked)})))
Cut(pool, terms, ranked, limit) ==
    SubSeq(Promoted(pool, terms, ranked), 1, Min({limit, Len(ranked)}))

---------------------------------------------------------------------------
(* Compression.                                                            *)

\* The first line with the most terms of the query; the first without any.
DensestLine(lines, terms) ==
    LET dense(k) == Cardinality(lines[k].words \cap terms)
    IN Min({k \in DOMAIN lines : \A j \in DOMAIN lines : dense(j) <= dense(k)})

\* The lines before a window and the lines in it.
WindowOf(lines, terms, context) ==
    LET span   == 2 * context + 1
        centre == IF terms = {} THEN 0 ELSE DensestLine(lines, terms) - 1
        end    == Min({Len(lines), Max({0, centre - context}) + span})
        start  == Max({0, end - span})
    IN [skip |-> start, lines |-> SubSeq(lines, start + 1, end)]

\* Characters of the first k lines joined by newlines.
LengthOf(lines, k) ==
    LET chars[j \in 0 .. Len(lines)] ==
          IF j = 0 THEN 0
          ELSE chars[j - 1] + lines[j].width + (IF j = 1 THEN 0 ELSE 1)
    IN chars[k]

\* Mutant: the window's place in the chunk is forgotten.
FirstUnmoved(hit, window) == hit.start
FirstLine(hit, window) == hit.start + window.skip

\* A hit as it is shown: its window, cut to the characters one hit may have.
Trimmed(hit, terms, policy) ==
    LET window == WindowOf(hit.lines, terms, policy.context)
        all    == LengthOf(window.lines, Len(window.lines))
        chars  == Min({all, policy.each})
        breaks == {k \in 1 .. Len(window.lines) - 1 : LengthOf(window.lines, k) < chars}
    IN [from |-> FirstLine(hit, window), chars |-> chars,
        to |-> FirstLine(hit, window) + Cardinality(breaks)]

Whole(hit) ==
    [from |-> hit.start, chars |-> LengthOf(hit.lines, Len(hit.lines)),
     to |-> hit.start + Len(hit.lines) - 1]

Spent(shown) == FoldFunction(+, 0, [k \in DOMAIN shown |-> shown[k].chars])

\* Hits are shown until the next one would exceed the budget; the first always.
Compressed(hits, terms, policy) ==
    LET shown == [k \in DOMAIN hits |-> Trimmed(hits[k], terms, policy)]
        fits(k) == k <= 1 \/ Spent(SubSeq(shown, 1, k)) <= policy.budget
    IN SubSeq(shown, 1, Max({k \in 0 .. Len(hits) : \A j \in 1 .. k : fits(j)}))

Shown(hits, terms, policy) ==
    IF policy = None THEN [k \in DOMAIN hits |-> Whole(hits[k])]
    ELSE Compressed(hits, terms, policy)

---------------------------------------------------------------------------
searchVars == <<graphVars, found>>

\* A hit is a chunk with its fused score and the reranker's.
Hits == {[path |-> c.path, qual |-> c.qual, start |-> c.start, lines |-> c.lines,
          score |-> s, rerank |-> r] : c \in Chunks, s \in Scores, r \in Scores}

\* Pools the index may recall: distinct chunks in the order of their scores.
Pools(size) ==
    {pool \in [1 .. size -> Hits] :
       \A j, k \in 1 .. size : j < k =>
         /\ pool[j].score >= pool[k].score
         /\ <<pool[j].path, pool[j].start, pool[j].qual>>
              # <<pool[k].path, pool[k].start, pool[k].qual>>}

Search ==
    /\ src \in Searched /\ edges # None /\ ask = NoQuery /\ found = None
    /\ \E pool \in UNION {Pools(size) : size \in 0 .. MaxPool} :
         \E terms \in SUBSET Names, blend \in Blends \cup {None},
            limit \in Answers, policy \in Policies :
           LET order == Cut(pool, terms, Reranked(pool, blend), limit)
           IN found' = [pool |-> pool, terms |-> terms, blend |-> blend, policy |-> policy,
                        order |-> order,
                        shown |-> Shown([k \in DOMAIN order |-> pool[order[k]]], terms, policy)]
    /\ UNCHANGED graphVars

Init == GraphInit /\ found = None
Next == \/ GraphStep /\ found = None /\ found' = found
        \/ Search
Spec == Init /\ [][Next]_searchVars

---------------------------------------------------------------------------
\* A hit that is exact where another is not, or that neither ranking puts after
\* it, is shown whenever the other is, and before it: neither the blend, nor the
\* promotion, the limit or the budget turns the order round (SearchService.search).
DominanceKept ==
    found # None =>
      LET pool == found.pool
          exact(k) == Exact(pool[k], found.terms)
          above(j, k) == IF exact(j) # exact(k) THEN exact(j)
                         ELSE j < k /\ (found.blend # None => pool[j].rerank >= pool[k].rerank)
          place(k) == {i \in DOMAIN found.shown : found.order[i] = k}
      IN \A j, k \in DOMAIN pool :
           above(j, k) => \A b \in place(k) : \E a \in place(j) : a < b

\* What is shown of a hit are lines of its chunk, at their own numbers, and all
\* of it together keeps the budget, unless it is one hit; a search that found
\* something shows its best (compress_hits).
ShownIsReal ==
    found # None =>
      /\ \A i \in DOMAIN found.shown :
           LET hit  == found.pool[found.order[i]]
               seen == found.shown[i]
               text(k) == hit.lines[k - hit.start + 1]
           IN /\ hit.start <= seen.from /\ seen.from <= seen.to
              /\ seen.to < hit.start + Len(hit.lines)
              /\ seen.chars <= LengthOf([k \in 1 .. seen.to - seen.from + 1
                                           |-> text(seen.from + k - 1)],
                                        seen.to - seen.from + 1)
      /\ found.policy # None =>
           Len(found.shown) <= 1 \/ Spent(found.shown) <= found.policy.budget
      /\ found.pool # <<>> => found.shown # <<>>
=============================================================================
