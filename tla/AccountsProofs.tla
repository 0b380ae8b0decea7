--------------------------- MODULE AccountsProofs ---------------------------
(***************************************************************************)
(* Proofs about Identity and Accounts, for any rows and any number of      *)
(* requests and failures: a committed row never loses the row it hangs on, *)
(* a family of refresh tokens has at most one that works and one for each  *)
(* refresh that overlapped another, the attempts on a password are         *)
(* bounded, and a memory is in both of its stores or, once its deletion is *)
(* committed, in neither.                                                  *)
(***************************************************************************)
EXTENDS Accounts, FiniteSetTheorems, TLAPS

\* Rows and requests are of their types; a row hangs on a row of the table its
\* foreign key names.
Typed ==
    /\ db \subseteq born /\ born \subseteq Rows /\ burnt \subseteq Tokens \cup {None}
    /\ marks \in [Tokens -> SUBSET {"used", "revoked", "expired"}]
    /\ parent \in [Rows -> Rows \cup {None}]
    /\ family \in [Tokens -> Tokens \cup {None}]
    /\ req \in [Requests -> Working \cup {Idle}]
    /\ guard \in [fails : Nat, locked : BOOLEAN]
    /\ tries \in Nat /\ served \in 0 .. MaxRequests /\ faults \in 0 .. MaxFaults
    /\ vectors \subseteq Notes /\ asked \subseteq Notes /\ forgotten \subseteq Notes

ForeignKeys ==
    /\ \A r \in Chats \cup Tokens : parent[r] \in Users \cup {None}
    /\ \A r \in Messages : parent[r] \in Chats \cup {None}
    /\ \A r \in Users \cup Notes : parent[r] = None

\* What a request may be doing, and the kind of row it inserts.
KindOf(op) ==
    CASE op \in {"login", "refresh"} -> Tokens
      [] op = "create"   -> Users
      [] op = "open"     -> Chats
      [] op = "say"      -> Messages
      [] op = "remember" -> Notes
      [] OTHER           -> {}
Inserting == {"login", "refresh", "create", "open", "say", "remember"}
Course(q) ==
    LET r == req[q] IN
    /\ r.ins \subseteq KindOf(r.op) /\ r.ins \subseteq {r.new} /\ r.ins \subseteq born \ db
    /\ r.ins # {} => r.at \in {"upsert", "commit"}
    /\ r.gone # {} => r.op \in {"close", "delete", "forget"} /\ r.at \in {"drop", "commit"}
    /\ r.at = "insert" => r.op \in Inserting
    /\ r.at \in {"mark", "burn"} => r.op = "refresh"
    /\ r.at = "setpw" => r.op = "password"
    /\ r.at = "revoke" => r.op \in {"logout", "password", "delete"}
    /\ r.op \in {"delete", "password", "open"} => r.row \in Users
    /\ r.op = "login" /\ r.at = "insert" => r.row \in Users
    /\ r.op \in {"close", "say"} => r.row \in Chats
    /\ r.op \in {"close", "delete"} => r.gone \cap Notes = {}
    /\ r.op = "remember" /\ r.at = "upsert" => r.new \in r.ins
    /\ r.op = "forget" => r.row \in asked /\ r.gone \subseteq {r.row}
    /\ r.op = "refresh" => r.row \in Tokens
    /\ r.op = "refresh" /\ r.at \in {"mark", "insert"} => r.row \in born /\ parent[r.row] \in Users

\* Requests insert different rows, and hold no locks that exclude each other.
Apart ==
    \A p, q \in Requests : p # q =>
        /\ req[p].ins \cap req[q].ins = {}
        /\ \A a \in req[p].held, b \in req[q].held : ~Clash(a, b)

\* A row that is inserted keeps its parent from being removed; rows that are
\* removed are all that hang on each other, and none can be added to them.
Hanging ==
    /\ \A r \in db : parent[r] \in db \cup {None}
    /\ \A q \in Requests : \A n \in req[q].ins : parent[n] # None =>
           parent[n] \in db /\ <<"share", parent[n]>> \in req[q].held
    /\ \A q \in Requests : \A y \in req[q].gone :
           /\ <<"remove", y>> \in req[q].held
           /\ \A x \in db : parent[x] = y => x \in req[q].gone

RowsInv == Typed /\ ForeignKeys /\ (\A q \in Requests : Course(q)) /\ Apart /\ Hanging

\* Tokens that were committed once, whatever became of them.
Settled == {t \in born \cap Tokens : \A q \in Requests : t \notin req[q].ins}

\* What a refresh carries, and whose family a login founds.
Turn(q) ==
    LET r == req[q] f == family[r.row] IN
    r.op = "refresh" =>
        /\ r.row \in Tokens /\ f # None
        /\ r.at \in {"read", "mark", "insert", "commit", "burn"}
        /\ r.at \in {"read", "mark"} => r.kill = {}
        /\ r.at # "read" => r.row \in Settled
        /\ r.at \in {"insert", "commit"} => r.kill = {r.row}
        /\ r.at \in {"read", "mark", "insert", "burn"} => r.ins = {}
        /\ \A n \in r.ins : family[n] = f
Founding(q) ==
    req[q].op = "login" =>
        \A n \in req[q].ins : n \notin burnt /\ \A t \in Tokens : family[t] = n <=> t = n

TokensInv ==
    /\ burnt \subseteq born \cap Tokens
    /\ \A q \in Requests : Turn(q) /\ Founding(q)
    /\ \A t \in Tokens : t \notin born => family[t] = None
    /\ \A t \in Tokens : family[t] # None => family[t] \in born

\* Every refresh under way will add a token and end the one it was sent, if that
\* still works: the others that work, and those it adds, are what a family can
\* come to have.
Spare(f)  == LiveIn(f) \ {req[q].row : q \in Rotating(f)}
Weight(f) == Cardinality(Spare(f)) + Cardinality(Rotating(f))

\* What a family can come to have is bounded; a reuse about to be reported finds
\* all of it, or overlapped a refresh that was counted.
Lasting(f) ==
    /\ IsFiniteSet(LiveIn(f))
    /\ Weight(f) <= slips[f] + (IF f \in burnt THEN 0 ELSE 1)
    /\ \A q \in Burning(f) :
           Weight(f) <= slips[f] \/ (Rotating(f) = {} /\ LiveIn(f) \subseteq req[q].found)
FamiliesInv == slips \in [Tokens -> Nat] /\ \A f \in Tokens : Lasting(f)

\* Where the requests are that have yet to try a password, or to lock the name.
Verifying == {q \in Requests : At(q, "login", "verify")}
Locking   == {q \in Requests : At(q, "login", "lock")}
GuardInv ==
    /\ ~guard.locked => tries <= guard.fails
    /\ guard.fails <= Threshold - 1 + Cardinality(Locking) + faults
    /\ tries + (IF guard.locked THEN Cardinality(Verifying) ELSE 0)
           <= Threshold - 1 + Cardinality(Requests) + faults

\* Memories.
NotesInv ==
    /\ MemoryInStep
    /\ asked \subseteq born /\ forgotten \subseteq asked
    /\ \A q \in Requests :
           /\ req[q].ins \cap asked = {}
           /\ At(q, "remember", "commit") => req[q].ins \subseteq vectors
           /\ At(q, "forget", "commit") => req[q].row \notin vectors

-----------------------------------------------------------------------------
(* Rows.                                                                   *)

\* An identifier that is chosen is fresh.
LEMMA Chosen == ASSUME NEW S, S # {} PROVE (CHOOSE n \in S : TRUE) \in S
PROOF
    OBVIOUS

\* The tables are apart, and None is in none of them.
LEMMA Tables ==
    ASSUME IdentityAssumption
    PROVE  /\ Users \cap Tokens = {} /\ Users \cap Chats = {} /\ Users \cap Messages = {}
           /\ Users \cap Notes = {} /\ Tokens \cap Chats = {} /\ Tokens \cap Messages = {}
           /\ Tokens \cap Notes = {} /\ Chats \cap Messages = {} /\ Chats \cap Notes = {}
           /\ Messages \cap Notes = {}
           /\ Users \subseteq Rows /\ Tokens \subseteq Rows /\ Chats \subseteq Rows
           /\ Messages \subseteq Rows /\ Notes \subseteq Rows
           /\ None \notin Rows
PROOF
    BY DEF IdentityAssumption, Rows

\* Only some statements take locks, and each takes locks on rows.
LEMMA NeedsTyped ==
    ASSUME IdentityAssumption, Typed, NEW q \in Requests, Course(q)
    PROVE  /\ Needs(q) \subseteq Locks
           /\ req[q].at \notin {"mark", "setpw", "revoke", "burn", "remove", "insert"}
                  => Needs(q) = {}
PROOF
<1> DEFINE r == req[q]
<1>1. req[q] \in Working \cup {Idle}
    BY DEF Typed
<1>2. r.found \subseteq Rows
    BY <1>1, Tables DEF Working, Idle
<1>3. CASE r.at = "mark"
    BY <1>3, Tables DEF Course, Needs, Locks
<1>4. CASE r.at = "setpw"
    BY <1>4, Tables DEF Course, Needs, Locks
<1>5. CASE r.at \in {"revoke", "burn"}
    BY <1>2, <1>5 DEF Needs, Locks
<1>6. CASE r.at = "remove"
    BY <1>6 DEF Needs, Locks, Below, Typed
<1>7. CASE r.at = "insert"
    <2>1. CASE r.op = "create" \/ r.op = "remember"
        BY <1>7, <2>1 DEF Needs, Locks
    <2>2. CASE r.op = "refresh"
        BY <1>7, <2>2, Tables DEF Course, Needs, Locks
    <2>3. CASE r.op \in {"login", "open", "say"}
        BY <1>7, <2>3, Tables DEF Course, Needs, Locks
    <2> QED BY <1>7, <2>1, <2>2, <2>3 DEF Course, Inserting
<1>8. CASE r.at \notin {"mark", "setpw", "revoke", "burn", "remove", "insert"}
    BY <1>8 DEF Needs
<1> QED BY <1>3, <1>4, <1>5, <1>6, <1>7, <1>8

\* Locks exclude each other, not one the other.
LEMMA ClashSymmetric == ASSUME NEW a, NEW b PROVE Clash(a, b) <=> Clash(b, a)
PROOF
    BY DEF Clash

\* One request moves: the others stay apart, and it stays apart from them.
LEMMA ApartStep ==
    ASSUME Apart, NEW q \in Requests, \A y \in Requests \ {q} : req'[y] = req[y],
           \A y \in Requests \ {q} : req[y].ins \cap req'[q].ins = {},
           \A a \in req'[q].held :
               \/ a \in req[q].held
               \/ a \in Needs(q) /\ Granted(q)
    PROVE  Apart'
PROOF
<1>1. ASSUME NEW y \in Requests \ {q}, NEW a \in req'[q].held, NEW b \in req[y].held
      PROVE  ~Clash(a, b)
    <2>1. CASE a \in req[q].held
        BY <1>1, <2>1 DEF Apart
    <2>2. CASE a \in Needs(q) /\ Granted(q)
        BY <1>1, <2>2 DEF Granted, WaitsFor
    <2> QED BY <1>1, <2>1, <2>2
<1>2. \A y \in Requests \ {q} : \A a \in req'[y].held, b \in req'[q].held :
          ~Clash(a, b) /\ ~Clash(b, a)
    BY <1>1, ClashSymmetric
<1> QED BY <1>2 DEF Apart

\* What the others do leaves a request in its course.
LEMMA CourseKept ==
    ASSUME NEW q, Course(q), req'[q] = req[q],
           born \subseteq born', asked \subseteq asked',
           req[q].ins \cap db' = {},
           req[q].row \in born => parent'[req[q].row] = parent[req[q].row]
    PROVE  Course(q)'
PROOF
<1> DEFINE r == req[q]
<1>1. r.ins \subseteq born' \ db'
    BY DEF Course
<1>2. r.op = "forget" => r.row \in asked'
    BY DEF Course
<1>3. r.op = "refresh" /\ r.at \in {"mark", "insert"} => r.row \in born' /\ parent'[r.row] \in Users
    BY DEF Course
<1> QED BY <1>1, <1>2, <1>3 DEF Course

\* A request goes on without writing a row: it keeps or drops what it holds,
\* or is granted what it needs.
LEMMA QuietStep ==
    ASSUME RowsInv, NEW q \in Requests, UNCHANGED rowVars, asked \subseteq asked',
           \A p \in Requests \ {q} : req'[p] = req[p],
           Course(q)',
           req'[q].ins \subseteq req[q].ins, req'[q].gone \in {req[q].gone, {}},
           req'[q].ins # {} \/ req'[q].gone # {} => req[q].held \subseteq req'[q].held,
           \/ req'[q].held \subseteq req[q].held
           \/ Granted(q) /\ req'[q].held \subseteq req[q].held \cup Needs(q)
    PROVE  ForeignKeys' /\ (\A p \in Requests : Course(p)') /\ Apart' /\ Hanging'
PROOF
<1> USE DEF rowVars
<1>1. ForeignKeys'
    BY DEF RowsInv, ForeignKeys
<1>2. \A p \in Requests : Course(p)'
    BY DEF RowsInv, Course
<1>3. Apart'
    <2>1. \A p \in Requests \ {q} : req[p].ins \cap req'[q].ins = {}
        BY DEF RowsInv, Apart
    <2> QED BY <2>1, ApartStep DEF RowsInv
<1>4. Hanging'
    BY DEF RowsInv, Hanging
<1> QED BY <1>1, <1>2, <1>3, <1>4

\* A request inserts a row, under a parent it has locked, or is refused.
ParentOf(Kind) ==
    IF Kind \in {Tokens, Chats} THEN Users ELSE IF Kind = Messages THEN Chats ELSE {}

LEMMA InsertStep ==
    ASSUME IdentityAssumption, RowsInv, NEW q \in Requests, NEW Kind, NEW p, NEW f, NEW next,
           Insert(q, Kind, p, f, next), UNCHANGED memoryVars,
           KindOf(req[q].op) = Kind, next \in {"upsert", "commit"},
           p # None => <<"share", p>> \in Needs(q) /\ p \in ParentOf(Kind),
           Kind \in {Users, Tokens, Chats, Messages, Notes},
           f \in Tokens \cup {None}
    PROVE  RowsInv'
PROOF
<1> DEFINE n == AnyFresh(Kind)
           r == req[q]
           x == [r EXCEPT !.at = next, !.new = n, !.ins = @ \cup {n}, !.held = @ \cup Needs(q)]
<1> USE DEF memoryVars, guardVars, boundVars
<1>1. r.at = "insert" /\ Granted(q) /\ Fresh(Kind) # {}
    BY DEF Insert
<1>2. n \in Kind /\ n \notin born /\ n \in Rows /\ Kind \subseteq Rows
    BY <1>1, Chosen, Tables DEF AnyFresh, Fresh
<1>3. /\ Typed /\ r \in Working /\ Course(q) /\ r.ins = {} /\ r.gone = {}
      /\ r.op \in Inserting
    BY <1>1 DEF RowsInv, Typed, Idle, Course
<1>4. CASE UNCHANGED <<born, parent, family>> /\ Refused(q)
    <2>1. UNCHANGED <<rowVars, marks, burnt, guardVars, boundVars>>
        BY <1>4 DEF Insert, rowVars
    <2>2. req' = [req EXCEPT ![q] = Idle]
        BY <1>4 DEF Refused
    <2>3. Typed'
        BY <1>3, <1>4, <2>1, <2>2 DEF Typed, rowVars
    <2>4. req'[q] = Idle /\ \A y \in Requests \ {q} : req'[y] = req[y]
        BY <1>3, <2>2 DEF Typed
    <2>5. Course(q)'
        BY <2>4 DEF Course, Idle
    <2> QED BY <2>1, <2>3, <2>4, <2>5, QuietStep DEF RowsInv, Idle
<1>5. CASE /\ req' = [req EXCEPT ![q] = x]
           /\ born' = born \cup {n} /\ parent' = [parent EXCEPT ![n] = p]
           /\ family' = IF n \in Tokens THEN [family EXCEPT ![n] = IF f = None THEN n ELSE f]
                        ELSE family
           /\ p # None => p \in db
    <2>1. UNCHANGED <<db, marks, burnt, guardVars, boundVars>>
        BY DEF Insert
    <2>2. Needs(q) \subseteq Locks
        BY <1>3, NeedsTyped
    <2>3. x \in Working /\ x.ins = {n} /\ x.gone = {} /\ x.held = r.held \cup Needs(q)
          /\ x.op = r.op /\ x.at = next /\ x.new = n /\ x.row = r.row
        BY <1>2, <1>3, <2>2 DEF Working, Points
    <2>4. req'[q] = x /\ \A y \in Requests \ {q} : req'[y] = req[y]
        BY <1>3, <1>5 DEF Typed
    <2>5. p \in Rows \cup {None}
        BY Tables DEF ParentOf
    <2>6. Typed'
        <3>1. family' \in [Tokens -> Tokens \cup {None}]
            BY <1>3, <1>5 DEF Typed
        <3>2. req' \in [Requests -> Working \cup {Idle}]
            BY <1>3, <1>5, <2>3 DEF Typed
        <3> QED BY <1>2, <1>3, <1>5, <2>1, <2>5, <3>1, <3>2 DEF Typed
    <2>7. parent'[n] = p /\ \A y \in Rows \ {n} : parent'[y] = parent[y]
        BY <1>2, <1>3, <1>5 DEF Typed
    <2>8. ForeignKeys'
        <3>1. p # None => p \in ParentOf(Kind)
            OBVIOUS
        <3> QED BY <1>2, <2>7, <3>1, Tables DEF RowsInv, ForeignKeys, ParentOf
    <2>9. \A y \in Requests : Course(y)'
        <3>1. ASSUME NEW y \in Requests \ {q} PROVE Course(y)'
            <4>1. Course(y)
                BY DEF RowsInv
            <4>2. req[y].row \in born => req[y].row \in Rows /\ req[y].row # n
                BY <1>2, <1>3 DEF Typed
            <4>3. born \subseteq born' /\ req[y].ins \cap db' = {}
                BY <1>5, <2>1, <4>1 DEF Course
            <4> QED BY <2>4, <2>7, <4>1, <4>2, <4>3, CourseKept
        <3>2. Course(q)'
            BY <1>1, <1>2, <1>3, <1>5, <2>1, <2>3, <2>4 DEF Course, Inserting, Typed
        <3> QED BY <3>1, <3>2
    <2>10. Apart'
        <3>2. \A y \in Requests \ {q} : n \notin req[y].ins
            BY <1>2 DEF RowsInv, Course
        <3>3. \A a \in req'[q].held : a \in req[q].held \/ (a \in Needs(q) /\ Granted(q))
            BY <1>1, <2>3, <2>4
        <3>4. \A y \in Requests \ {q} : req[y].ins \cap req'[q].ins = {}
            BY <2>3, <2>4, <3>2
        <3> QED BY <2>4, <3>3, <3>4, ApartStep DEF RowsInv
    <2>11. Hanging'
        <3>1. \A z \in db : z \in Rows /\ z # n
            BY <1>2, <1>3 DEF Typed
        <3>2. \A z \in db : parent'[z] \in db' \cup {None}
            BY <2>1, <2>7, <3>1 DEF RowsInv, Hanging
        <3>3. \A y \in Requests : \A z \in req'[y].ins : parent'[z] # None =>
                  parent'[z] \in db' /\ <<"share", parent'[z]>> \in req'[y].held
            <4>1. ASSUME NEW y \in Requests \ {q}, NEW z \in req[y].ins, parent'[z] # None
                  PROVE  parent'[z] \in db' /\ <<"share", parent'[z]>> \in req[y].held
                <5>1. z # n /\ z \in Rows
                    BY <1>2, <1>3 DEF RowsInv, Course, Typed
                <5> QED BY <2>1, <2>7, <4>1, <5>1 DEF RowsInv, Hanging
            <4>2. ASSUME NEW z \in req'[q].ins, parent'[z] # None
                  PROVE  parent'[z] \in db' /\ <<"share", parent'[z]>> \in req'[q].held
                <5>1. z = n
                    BY <2>3, <2>4, <4>2
                <5>2. parent'[z] = p /\ p # None
                    BY <2>7, <4>2, <5>1
                <5>3. p \in db' /\ <<"share", p>> \in Needs(q)
                    BY <1>5, <2>1, <5>2
                <5> QED BY <2>3, <2>4, <5>2, <5>3
            <4> QED BY <2>4, <4>1, <4>2
        <3>4. \A y \in Requests : \A z \in req'[y].gone :
                  /\ <<"remove", z>> \in req'[y].held
                  /\ \A w \in db' : parent'[w] = z => w \in req'[y].gone
            <4>1. req'[q].gone = {}
                BY <2>3, <2>4
            <4>2. \A w \in db : parent'[w] = parent[w]
                BY <2>7, <3>1
            <4> QED BY <2>1, <2>4, <4>1, <4>2, ZenonT(60) DEF RowsInv, Hanging
        <3> QED BY <2>1, <3>2, <3>3, <3>4 DEF Hanging
    <2> QED BY <2>6, <2>8, <2>9, <2>10, <2>11 DEF RowsInv
<1> QED BY <1>4, <1>5 DEF Insert

\* A request removes a row and what hangs on it.
LEMMA RemoveStep ==
    ASSUME IdentityAssumption, RowsInv, NEW q \in Requests, NEW next \in {"drop", "commit"},
           req[q].at = "remove", Granted(q), req[q].op \in {"close", "delete", "forget"},
           req' = [req EXCEPT ![q].at = next, ![q].gone = Below(req[q].row),
                              ![q].held = @ \cup Needs(q)],
           UNCHANGED <<memoryVars, rowVars, tokenVars, guardVars, boundVars>>
    PROVE  RowsInv'
PROOF
<1> DEFINE r == req[q]
           gone == Below(r.row)
           x == [r EXCEPT !.at = next, !.gone = gone, !.held = @ \cup Needs(q)]
<1> USE DEF memoryVars, rowVars, tokenVars, guardVars, boundVars
<1>1. Typed /\ r \in Working /\ Course(q) /\ ForeignKeys
    BY DEF RowsInv, Typed, Idle
<1>2. gone \subseteq db /\ gone \subseteq Rows /\ r.ins = {}
    BY <1>1 DEF Below, Typed, Course
<1>3. /\ Needs(q) \subseteq Locks /\ \A y \in gone : <<"remove", y>> \in Needs(q)
    BY <1>1, NeedsTyped DEF Needs
<1>4. x \in Working /\ req'[q] = x /\ \A y \in Requests \ {q} : req'[y] = req[y]
    BY <1>1, <1>2, <1>3, ZenonT(60) DEF Working, Points, Typed
<1>5. Typed'
    <2>1. req' \in [Requests -> Working \cup {Idle}]
        BY <1>1, <1>4 DEF Typed
    <2> QED BY <1>1, <2>1 DEF Typed
<1>6. /\ x.ins = {} /\ x.gone = gone /\ x.held = r.held \cup Needs(q)
      /\ x.op = r.op /\ x.at = next /\ x.row = r.row
    BY <1>1, <1>2 DEF Working
<1>7. r.row \in Users \cup Chats \cup Notes
    BY <1>1, Tables DEF Course, Typed
<1>8. \A y \in gone : \A z \in db : parent[z] = y => z \in gone
    <2>1. ASSUME NEW y \in gone, NEW z \in db, parent[z] = y PROVE z \in gone
        <3>1. y \in Rows /\ z \in Rows /\ y # None
            BY <1>1, <1>2, <2>1, Tables DEF Typed
        <3>2. CASE y = r.row
            BY <2>1, <3>2 DEF Below
        <3>3. CASE parent[y] = r.row
            BY <2>1, <3>1, <3>3 DEF Below
        <3>4. CASE parent[y] # None /\ parent[parent[y]] = r.row
            <4>1. y \in Users \cup Chats
                BY <1>1, <2>1, <3>1, Tables DEF ForeignKeys, Rows
            <4>2. y \in Chats /\ parent[y] \in Users
                BY <1>1, <3>4, <4>1 DEF ForeignKeys
            <4>3. parent[parent[y]] = None
                BY <1>1, <4>2 DEF ForeignKeys
            <4> QED BY <1>7, <3>4, <4>3, Tables
        <3> QED BY <2>1, <3>2, <3>3, <3>4 DEF Below
    <2> QED BY <2>1
<1>9. r.op \in {"close", "delete"} => gone \cap Notes = {}
    <2>1. \A y \in Notes : parent[y] = None /\ y \notin Users \cup Chats
        BY <1>1, Tables DEF ForeignKeys
    <2>2. ASSUME r.op \in {"close", "delete"}, NEW y \in gone, y \in Notes PROVE FALSE
        <3>1. r.row \in Users \cup Chats /\ r.row # None
            BY <1>1, <2>2, Tables DEF Course
        <3>2. y # r.row /\ parent[y] = None
            BY <2>1, <2>2, <3>1
        <3> QED BY <2>2, <3>1, <3>2 DEF Below
    <2> QED BY <2>2
<1>10. r.op = "forget" => gone \subseteq {r.row}
    <2>1. ASSUME r.op = "forget", NEW y \in gone, y # r.row PROVE FALSE
        <3>1. r.row \in Notes /\ y \in Rows
            BY <1>1, <1>2, <2>1 DEF Course, Typed
        <3>2. parent[y] \in Users \cup Chats \cup {None}
            BY <1>1, <3>1 DEF ForeignKeys, Rows
        <3>3. parent[y] # None => parent[parent[y]] \in Users \cup {None}
            BY <1>1, <3>2 DEF ForeignKeys
        <3> QED BY <2>1, <3>1, <3>2, <3>3, Tables DEF Below
    <2> QED BY <2>1
<1> HIDE DEF gone, x
<1>11. Course(q)'
    <2>1. UNCHANGED <<db, born, parent, asked>>
        OBVIOUS
    <2>2. /\ req'[q].ins = {} /\ req'[q].gone = gone /\ req'[q].op = r.op
          /\ req'[q].at = next /\ req'[q].row = r.row
        BY <1>4, <1>6
    <2>3. r.op = "forget" => r.row \in asked'
        BY <1>1, <2>1 DEF Course
    <2>4. r.op \in {"delete", "password", "open"} => r.row \in Users
        BY <1>1 DEF Course
    <2>5. r.op \in {"close", "say"} => r.row \in Chats
        BY <1>1 DEF Course
    <2> QED BY <1>9, <1>10, <2>1, <2>2, <2>3, <2>4, <2>5 DEF Course
<1>12. \A y \in Requests : Course(y)'
    <2>1. ASSUME NEW y \in Requests \ {q} PROVE Course(y)'
        <3>1. Course(y) /\ req'[y] = req[y] /\ UNCHANGED <<db, born, parent, asked>>
            BY <1>4 DEF RowsInv
        <3>2. req[y].ins \cap db' = {}
            BY <3>1 DEF Course
        <3> QED BY <3>1, <3>2, CourseKept
    <2> QED BY <1>11, <2>1
<1>13. Apart'
    BY <1>4, <1>6, ApartStep DEF RowsInv
<1>14. Hanging'
    <2>1. \A y \in Requests \ {q} : \A z \in req'[y].gone :
              /\ <<"remove", z>> \in req'[y].held
              /\ \A w \in db' : parent'[w] = z => w \in req'[y].gone
        BY <1>4 DEF RowsInv, Hanging
    <2>2. \A y \in Requests : \A z \in req'[y].ins : parent'[z] # None =>
              parent'[z] \in db' /\ <<"share", parent'[z]>> \in req'[y].held
        BY <1>4, <1>6 DEF RowsInv, Hanging
    <2>3. \A z \in db' : parent'[z] \in db' \cup {None}
        BY DEF RowsInv, Hanging
    <2>4. \A z \in req'[q].gone : /\ <<"remove", z>> \in req'[q].held
                                  /\ \A w \in db' : parent'[w] = z => w \in req'[q].gone
        BY <1>3, <1>4, <1>6, <1>8
    <2> QED BY <2>1, <2>2, <2>3, <2>4 DEF Hanging
<1>15. ForeignKeys'
    BY <1>1 DEF ForeignKeys
<1> QED BY <1>5, <1>12, <1>13, <1>14, <1>15 DEF RowsInv

\* A request commits.
LEMMA CommitStep ==
    ASSUME IdentityAssumption, RowsInv, NEW q \in Requests, Commit(q), UNCHANGED <<vectors, asked>>,
           forgotten' = forgotten \cup ((db \ db') \cap Notes)
    PROVE  RowsInv'
PROOF
<1> DEFINE r == req[q]
<1> USE DEF guardVars, boundVars
<1>1. Typed /\ r \in Working /\ Course(q) /\ r.at = "commit"
    BY DEF RowsInv, Typed, Idle, Commit
<1>2. req'[q] = Idle /\ \A y \in Requests \ {q} : req'[y] = req[y]
    BY <1>1 DEF Commit, Refused, Typed
<1>3. db' = (db \cup r.ins) \ r.gone /\ UNCHANGED <<born, parent, family, burnt, guard, tries, served, faults>>
    BY DEF Commit
<1>4. r.ins = {} \/ r.gone = {}
    BY <1>1 DEF Course, KindOf
<1>5. \A y \in Requests \ {q} : req[y].ins \cap r.ins = {}
    BY DEF RowsInv, Apart
<1>6. Typed'
    <2>1. marks' \in [Tokens -> SUBSET {"used", "revoked", "expired"}]
        BY <1>1 DEF Commit, Marked, Typed
    <2>2. req' \in [Requests -> Working \cup {Idle}]
        BY <1>1 DEF Commit, Refused, Typed
    <2>3. db' \subseteq born
        BY <1>1, <1>3 DEF Course, Typed
    <2>4. forgotten' \subseteq Notes
        BY <1>1 DEF Typed
    <2> QED BY <1>1, <1>3, <2>1, <2>2, <2>3, <2>4 DEF Typed
<1>7. ForeignKeys'
    BY <1>3 DEF RowsInv, ForeignKeys
<1>8. \A y \in Requests : Course(y)'
    <2>1. ASSUME NEW y \in Requests \ {q} PROVE Course(y)'
        <3>1. Course(y)
            BY DEF RowsInv
        <3>2. req[y].ins \subseteq born' \ db'
            BY <1>3, <1>5, <3>1 DEF Course
        <3> QED BY <1>2, <1>3, <3>1, <3>2 DEF Course
    <2>2. Course(q)'
        BY <1>2 DEF Course, Idle
    <2> QED BY <2>1, <2>2
<1>9. Apart'
    BY <1>2 DEF RowsInv, Apart, Idle
<1>10. ASSUME NEW y \in Requests \ {q}, NEW a \in req[y].held, NEW b \in r.held, a[2] = b[2]
       PROVE  {a[1], b[1]} \in {{"share"}, {"share", "update"}}
    BY <1>10 DEF RowsInv, Apart, Clash
<1>11. Hanging'
    <2>1. \A z \in db' : parent'[z] \in db' \cup {None}
        BY <1>3, <1>4 DEF RowsInv, Hanging
    <2>2. ASSUME NEW y \in Requests \ {q}, NEW z \in req[y].ins, parent[z] # None
          PROVE  parent[z] \in db' /\ <<"share", parent[z]>> \in req[y].held
        <3>1. parent[z] \in db /\ <<"share", parent[z]>> \in req[y].held
            BY <2>2 DEF RowsInv, Hanging
        <3>2. ASSUME parent[z] \in r.gone PROVE FALSE
            <4>1. <<"remove", parent[z]>> \in r.held
                BY <3>2 DEF RowsInv, Hanging
            <4>2. {"share", "remove"} \in {{"share"}, {"share", "update"}}
                BY <1>10, <3>1, <4>1
            <4> QED BY <4>2
        <3> QED BY <1>3, <3>1, <3>2
    <2>3. ASSUME NEW y \in Requests \ {q}, NEW z \in req[y].gone
          PROVE  /\ <<"remove", z>> \in req[y].held
                 /\ \A w \in db' : parent[w] = z => w \in req[y].gone
        <3>1. <<"remove", z>> \in req[y].held /\ \A w \in db : parent[w] = z => w \in req[y].gone
            BY <2>3 DEF RowsInv, Hanging
        <3>2. ASSUME NEW w \in r.ins, parent[w] = z PROVE FALSE
            <4>1. z # None
                <5>1. req[y].op \in {"close", "delete", "forget"} /\ y \in Requests
                    BY <2>3 DEF RowsInv, Course
                <5>2. z \in Rows
                    BY <1>1, <2>3 DEF Typed, Working, Idle
                <5> QED BY <5>2, Tables
            <4>2. <<"share", z>> \in r.held
                BY <3>2, <4>1 DEF RowsInv, Hanging
            <4>3. {"remove", "share"} \in {{"share"}, {"share", "update"}}
                BY <1>10, <3>1, <4>2
            <4> QED BY <4>3
        <3> QED BY <1>3, <3>1, <3>2
    <2> QED BY <1>2, <1>3, <2>1, <2>2, <2>3 DEF Hanging, Idle
<1> QED BY <1>6, <1>7, <1>8, <1>9, <1>11 DEF RowsInv

\* A request moves on, or is answered, and writes no row.
LEMMA MoveStep ==
    ASSUME RowsInv, NEW q \in Requests, NEW x \in Working \cup {Idle},
           req' = [req EXCEPT ![q] = x], UNCHANGED <<rowVars, family, served>>,
           marks' \in [Tokens -> SUBSET {"used", "revoked", "expired"}],
           burnt' \subseteq Tokens \cup {None}, guard' \in [fails : Nat, locked : BOOLEAN],
           tries' \in Nat, faults' \in 0 .. MaxFaults,
           vectors' \subseteq Notes, asked \subseteq asked', asked' \subseteq Notes,
           forgotten' \subseteq Notes,
           x \in Working => /\ x.ins = req[q].ins /\ x.gone = req[q].gone
                            /\ \/ x.held = req[q].held
                               \/ Granted(q) /\ x.held = req[q].held \cup Needs(q)
                            /\ Course(q)'
    PROVE  RowsInv'
PROOF
<1> USE DEF rowVars
<1>1. Typed
    BY DEF RowsInv
<1>2. req'[q] = x /\ \A p \in Requests \ {q} : req'[p] = req[p]
    BY <1>1 DEF Typed
<1>3. Typed'
    <2>1. req' \in [Requests -> Working \cup {Idle}]
        BY <1>1 DEF Typed
    <2> QED BY <1>1, <2>1 DEF Typed
<1>4. x = Idle => Course(q)'
    BY <1>2 DEF Course, Idle
<1>5. x = Idle => x.ins = {} /\ x.gone = {} /\ x.held = {}
    BY DEF Idle
<1> QED BY <1>2, <1>3, <1>4, <1>5, QuietStep DEF RowsInv

\* A request is refused, or rolled back.
LEMMA RefusedStep ==
    ASSUME RowsInv, NEW q \in Requests, Refused(q), UNCHANGED <<rowVars, family, served>>,
           marks' \in [Tokens -> SUBSET {"used", "revoked", "expired"}],
           burnt' \subseteq Tokens \cup {None}, guard' \in [fails : Nat, locked : BOOLEAN],
           tries' \in Nat, faults' \in 0 .. MaxFaults,
           vectors' \subseteq Notes, UNCHANGED asked, forgotten' \subseteq Notes
    PROVE  RowsInv'
PROOF
<1>1. Idle \notin Working
    BY DEF Idle, Working, Ops
<1>2. asked \subseteq Notes
    BY DEF RowsInv, Typed
<1> QED BY <1>1, <1>2, MoveStep DEF Refused

\* A request begins.
LEMMA BeginStep ==
    ASSUME IdentityAssumption, RowsInv, NEW q \in Requests, NEW op \in Ops, NEW row \in Rows \cup {None},
           NEW at \in Points, NEW found \in SUBSET Tokens, Begin(q, op, row, at, found),
           Elsewhere, vectors' \subseteq Notes, asked \subseteq asked', asked' \subseteq Notes,
           forgotten' \subseteq Notes
    PROVE  /\ req'[q] \in Working /\ req'[q].op = op /\ req'[q].at = at /\ req'[q].row = row
           /\ req'[q].found = found /\ req'[q].ins = {} /\ req'[q].gone = {}
           /\ req'[q].held = {} /\ req'[q].kill = {} /\ req[q] = Idle
           /\ \A p \in Requests \ {q} : req'[p] = req[p]
           /\ Course(q)' => RowsInv'
PROOF
<1> DEFINE x == [Idle EXCEPT !.op = op, !.row = row, !.at = at, !.found = found]
<1>1. /\ x \in Working /\ x.op = op /\ x.at = at /\ x.row = row /\ x.found = found
      /\ x.ins = {} /\ x.gone = {} /\ x.held = {} /\ x.kill = {}
    BY DEF Idle, Working
<1>2. Typed /\ req' = [req EXCEPT ![q] = x] /\ req[q] = Idle
    BY DEF Begin, RowsInv
<1>3. req'[q] = x /\ \A p \in Requests \ {q} : req'[p] = req[p]
    BY <1>2 DEF Typed
<1>4. ASSUME Course(q)' PROVE RowsInv'
    <2>1. Typed'
        <3>1. req' \in [Requests -> Working \cup {Idle}]
            BY <1>1, <1>2 DEF Typed
        <3>2. served' \in 0 .. MaxRequests
            BY <1>2 DEF Begin, Typed, IdentityAssumption
        <3> QED BY <1>2, <3>1, <3>2 DEF Typed, Elsewhere, rowVars, tokenVars, guardVars
    <2>2. UNCHANGED rowVars
        BY DEF Elsewhere
    <2> QED BY <1>1, <1>3, <1>4, <2>1, <2>2, QuietStep DEF RowsInv
<1> QED BY <1>1, <1>2, <1>3, <1>4

\* Every request that begins keeps the rows in order.
LEMMA BeginsRows ==
    ASSUME IdentityAssumption, RowsInv, NEW q \in Requests,
           \/ IdentityBegins(q) /\ UNCHANGED memoryVars
           \/ OpenChat(q) \/ Say(q) \/ CloseChat(q) \/ Remember(q) \/ Forget(q)
    PROVE  RowsInv'
PROOF
<1> USE DEF memoryVars
<1>1. Typed
    BY DEF RowsInv
<1>2. db \subseteq Rows
    BY <1>1 DEF Typed
<1>3. asked \subseteq Notes /\ vectors \subseteq Notes /\ forgotten \subseteq Notes
    BY <1>1 DEF Typed
<1>4. \A f : UnrevokedIn(f) \subseteq Tokens /\ UnrevokedOf(f) \subseteq Tokens
    BY DEF UnrevokedIn, UnrevokedOf, Unrevoked
<1>5. {"login", "refresh", "logout", "password", "create", "delete", "open", "say", "close",
       "remember", "forget"} \subseteq Ops
      /\ {"check", "read", "revoke", "setpw", "insert", "remove"} \subseteq Points
    BY DEF Ops, Points
<1>6. UNCHANGED memoryVars => asked \subseteq asked' /\ vectors' \subseteq Notes /\ asked' \subseteq Notes
                                /\ forgotten' \subseteq Notes
    BY <1>3
<1>7. CASE Login(q) /\ UNCHANGED memoryVars
    <2>1. Begin(q, "login", None, "check", {}) /\ Elsewhere
        BY <1>7 DEF Login, Elsewhere
    <2>2. Course(q)' => RowsInv'
        BY <1>5, <1>6, <1>7, <2>1, BeginStep
    <2>3. req'[q].op = "login" /\ req'[q].at = "check" /\ req'[q].ins = {} /\ req'[q].gone = {}
        BY <1>5, <1>6, <1>7, <2>1, BeginStep
    <2> QED BY <2>2, <2>3 DEF Course
<1>8. CASE Refresh(q) /\ UNCHANGED memoryVars
    <2>1. PICK t \in Tokens : Begin(q, "refresh", t, "read", {}) /\ Elsewhere
        BY <1>8 DEF Refresh, Elsewhere
    <2>2. Course(q)' => RowsInv'
        BY <1>5, <1>6, <1>8, <2>1, BeginStep, Tables
    <2>3. /\ req'[q].op = "refresh" /\ req'[q].at = "read" /\ req'[q].row = t
          /\ req'[q].ins = {} /\ req'[q].gone = {}
        BY <1>5, <1>6, <1>8, <2>1, BeginStep, Tables
    <2> QED BY <2>2, <2>3 DEF Course
<1>9. CASE Logout(q) /\ UNCHANGED memoryVars
    <2>1. PICK t \in db \cap Tokens : Begin(q, "logout", t, "revoke", UnrevokedIn(family[t])) /\ Elsewhere
        BY <1>9 DEF Logout, Elsewhere
    <2>2. UnrevokedIn(family[t]) \in SUBSET Tokens
        BY <1>4
    <2>3. Course(q)' => RowsInv'
        BY <1>2, <1>5, <1>6, <1>9, <2>1, <2>2, BeginStep
    <2>4. req'[q].op = "logout" /\ req'[q].at = "revoke" /\ req'[q].ins = {} /\ req'[q].gone = {}
        BY <1>2, <1>5, <1>6, <1>9, <2>1, <2>2, BeginStep
    <2> QED BY <2>3, <2>4 DEF Course
<1>10. CASE ChangePassword(q) /\ UNCHANGED memoryVars
    <2>1. PICK u \in db \cap Users : Begin(q, "password", u, "setpw", {}) /\ Elsewhere
        BY <1>10 DEF ChangePassword, Elsewhere
    <2>2. Course(q)' => RowsInv'
        BY <1>2, <1>5, <1>6, <1>10, <2>1, BeginStep
    <2>3. /\ req'[q].op = "password" /\ req'[q].at = "setpw" /\ req'[q].row \in Users
          /\ req'[q].ins = {} /\ req'[q].gone = {}
        BY <1>2, <1>5, <1>6, <1>10, <2>1, BeginStep
    <2> QED BY <2>2, <2>3 DEF Course
<1>11. CASE CreateUser(q) /\ UNCHANGED memoryVars
    <2>1. Begin(q, "create", None, "insert", {}) /\ Elsewhere
        BY <1>11 DEF CreateUser, Elsewhere
    <2>2. Course(q)' => RowsInv'
        BY <1>5, <1>6, <1>11, <2>1, BeginStep
    <2>3. req'[q].op = "create" /\ req'[q].at = "insert" /\ req'[q].ins = {} /\ req'[q].gone = {}
        BY <1>5, <1>6, <1>11, <2>1, BeginStep
    <2> QED BY <2>2, <2>3 DEF Course, Inserting
<1>12. CASE DeleteUser(q) /\ UNCHANGED memoryVars
    <2>1. PICK u \in db \cap Users : Begin(q, "delete", u, "revoke", UnrevokedOf(u)) /\ Elsewhere
        BY <1>12 DEF DeleteUser, Elsewhere
    <2>2. UnrevokedOf(u) \in SUBSET Tokens
        BY <1>4
    <2>3. Course(q)' => RowsInv'
        BY <1>2, <1>5, <1>6, <1>12, <2>1, <2>2, BeginStep
    <2>4. /\ req'[q].op = "delete" /\ req'[q].at = "revoke" /\ req'[q].row \in Users
          /\ req'[q].ins = {} /\ req'[q].gone = {}
        BY <1>2, <1>5, <1>6, <1>12, <2>1, <2>2, BeginStep
    <2> QED BY <2>3, <2>4 DEF Course
<1>13. CASE OpenChat(q)
    <2>1. PICK u \in db \cap Users : Begin(q, "open", u, "insert", {}) /\ Elsewhere
        BY <1>13 DEF OpenChat
    <2>2. UNCHANGED memoryVars
        BY <1>13 DEF OpenChat
    <2>3. Course(q)' => RowsInv'
        BY <1>2, <1>5, <1>6, <2>1, <2>2, BeginStep
    <2>4. /\ req'[q].op = "open" /\ req'[q].at = "insert" /\ req'[q].row \in Users
          /\ req'[q].ins = {} /\ req'[q].gone = {}
        BY <1>2, <1>5, <1>6, <2>1, <2>2, BeginStep
    <2> QED BY <2>3, <2>4 DEF Course, Inserting
<1>14. CASE Say(q)
    <2>1. PICK c \in db \cap Chats : Begin(q, "say", c, "insert", {}) /\ Elsewhere
        BY <1>14 DEF Say
    <2>2. UNCHANGED memoryVars
        BY <1>14 DEF Say
    <2>3. Course(q)' => RowsInv'
        BY <1>2, <1>5, <1>6, <2>1, <2>2, BeginStep
    <2>4. /\ req'[q].op = "say" /\ req'[q].at = "insert" /\ req'[q].row \in Chats
          /\ req'[q].ins = {} /\ req'[q].gone = {}
        BY <1>2, <1>5, <1>6, <2>1, <2>2, BeginStep
    <2> QED BY <2>3, <2>4 DEF Course, Inserting
<1>15. CASE CloseChat(q)
    <2>1. PICK c \in db \cap Chats : Begin(q, "close", c, "remove", {}) /\ Elsewhere
        BY <1>15 DEF CloseChat
    <2>2. UNCHANGED memoryVars
        BY <1>15 DEF CloseChat
    <2>3. Course(q)' => RowsInv'
        BY <1>2, <1>5, <1>6, <2>1, <2>2, BeginStep
    <2>4. /\ req'[q].op = "close" /\ req'[q].at = "remove" /\ req'[q].row \in Chats
          /\ req'[q].ins = {} /\ req'[q].gone = {}
        BY <1>2, <1>5, <1>6, <2>1, <2>2, BeginStep
    <2> QED BY <2>3, <2>4 DEF Course
<1>16. CASE Remember(q)
    <2>1. Begin(q, "remember", None, "insert", {}) /\ Elsewhere /\ UNCHANGED memoryVars
        BY <1>16 DEF Remember
    <2>2. Course(q)' => RowsInv'
        BY <1>5, <1>6, <2>1, BeginStep
    <2>3. req'[q].op = "remember" /\ req'[q].at = "insert" /\ req'[q].ins = {} /\ req'[q].gone = {}
        BY <1>5, <1>6, <2>1, BeginStep
    <2> QED BY <2>2, <2>3 DEF Course, Inserting
<1>17. CASE Forget(q)
    <2>1. PICK n \in db \cap Notes : /\ Begin(q, "forget", n, "remove", {}) /\ Elsewhere
                                     /\ asked' = asked \cup {n} /\ UNCHANGED <<vectors, forgotten>>
        BY <1>17 DEF Forget
    <2>2. asked \subseteq asked' /\ asked' \subseteq Notes /\ vectors' \subseteq Notes /\ forgotten' \subseteq Notes
        BY <1>3, <2>1
    <2>3. Course(q)' => RowsInv'
        BY <1>2, <1>5, <2>1, <2>2, BeginStep
    <2>4. /\ req'[q].op = "forget" /\ req'[q].at = "remove" /\ req'[q].row = n /\ n \in asked'
          /\ req'[q].ins = {} /\ req'[q].gone = {}
        BY <1>2, <1>5, <2>1, <2>2, BeginStep
    <2> QED BY <2>3, <2>4 DEF Course
<1> QED BY <1>7, <1>8, <1>9, <1>10, <1>11, <1>12, <1>13, <1>14, <1>15, <1>16, <1>17 DEF IdentityBegins

\* The statements that write no row keep the rows in order.
LEMMA MovesRows ==
    ASSUME IdentityAssumption, RowsInv, NEW q \in Requests,
           \/ /\ \/ CheckLock(q) \/ WrongPassword(q) \/ LockOut(q) \/ RightPassword(q)
                 \/ ReadToken(q) \/ Burn(q) \/ MarkUsed(q) \/ SetPassword(q) \/ Revoke(q)
                 \/ DeadlockVictim(q) \/ Rollback(q)
              /\ UNCHANGED <<vectors, asked>> /\ forgotten' = forgotten \cup ((db \ db') \cap Notes)
           \/ UpsertVector(q) \/ DropVector(q)
    PROVE  RowsInv'
PROOF
<1> DEFINE r == req[q]
<1> USE DEF rowVars, tokenVars, guardVars, boundVars
<1>1. /\ Typed /\ r \in Working \cup {Idle} /\ Course(q) /\ ForeignKeys /\ Hanging
      /\ served' = served
      /\ \A p \in Requests : req'[p] = req'[p]
    BY DEF RowsInv, Typed, CheckLock, WrongPassword, LockOut, RightPassword, ReadToken, Burn,
           MarkUsed, SetPassword, Revoke, DeadlockVictim, Rollback, UpsertVector, DropVector
<1>2. UNCHANGED <<rowVars, family>> /\ faults' \in 0 .. MaxFaults
    BY <1>1 DEF Typed, IdentityAssumption, CheckLock, WrongPassword, LockOut, RightPassword, ReadToken, Burn,
           MarkUsed, SetPassword, Revoke, DeadlockVictim, Rollback, UpsertVector, DropVector
<1>3. /\ tries' \in Nat /\ guard' \in [fails : Nat, locked : BOOLEAN]
    <2>1. CASE WrongPassword(q)
        BY <1>1, <2>1 DEF Typed, WrongPassword
    <2>2. CASE LockOut(q) \/ RightPassword(q)
        <3>1. guard' = [fails |-> 0, locked |-> TRUE] \/ guard' = [fails |-> 0, locked |-> FALSE]
            BY <2>2 DEF LockOut, RightPassword
        <3>2. tries' = tries \/ tries' = 0
            BY <2>2 DEF LockOut, RightPassword
        <3>3. [fails |-> 0, locked |-> TRUE] \in [fails : Nat, locked : BOOLEAN]
              /\ [fails |-> 0, locked |-> FALSE] \in [fails : Nat, locked : BOOLEAN]
            OBVIOUS
        <3>4. tries \in Nat
            BY <1>1 DEF Typed
        <3> QED BY <3>1, <3>2, <3>3, <3>4
    <2>3. CASE UNCHANGED <<guard, tries>>
        BY <1>1, <2>3 DEF Typed
    <2> QED BY <2>1, <2>2, <2>3 DEF CheckLock, ReadToken, Burn,
           MarkUsed, SetPassword, Revoke, DeadlockVictim, Rollback, UpsertVector, DropVector
<1>4. /\ marks' \in [Tokens -> SUBSET {"used", "revoked", "expired"}]
      /\ burnt' \subseteq Tokens \cup {None}
    <2>1. CASE Burn(q)
        <3>1. r.op = "refresh" /\ r.row \in Tokens
            BY <1>1, <2>1 DEF Burn, Course
        <3> QED BY <1>1, <2>1, <3>1 DEF Typed, Burn, Marked
    <2>2. CASE UNCHANGED <<marks, burnt>>
        BY <1>1, <2>2 DEF Typed
    <2> QED BY <2>1, <2>2 DEF CheckLock, WrongPassword, LockOut, RightPassword, ReadToken,
               MarkUsed, SetPassword, Revoke, DeadlockVictim, Rollback, UpsertVector, DropVector
<1>5. /\ vectors' \subseteq Notes /\ UNCHANGED asked /\ asked' \subseteq Notes
      /\ forgotten' \subseteq Notes
    <2>1. CASE UpsertVector(q)
        <3>1. r \in Working /\ Idle.op = "idle"
            BY <1>1, <2>1 DEF UpsertVector, At, Idle
        <3>2. r.new \in Notes
            BY <1>1, <2>1 DEF UpsertVector, At, Course, KindOf
        <3> QED BY <1>1, <2>1, <3>2 DEF UpsertVector, Typed
    <2>2. CASE DropVector(q)
        BY <1>1, <2>2 DEF DropVector, Typed
    <2> QED BY <1>1, <2>1, <2>2 DEF Typed
<1>6. CASE Refused(q)
    BY <1>2, <1>3, <1>4, <1>5, <1>6, <1>1, RefusedStep
<1>7. ASSUME NEW x \in Working, req' = [req EXCEPT ![q] = x],
             x.ins = r.ins, x.gone = r.gone,
             x.held = r.held \/ (Granted(q) /\ x.held = r.held \cup Needs(q)),
             Course(q)'
      PROVE  RowsInv'
    BY <1>1, <1>2, <1>3, <1>4, <1>5, <1>7, MoveStep
<1>8. Points = {"check", "verify", "lock", "read", "burn", "mark", "insert", "setpw",
                "revoke", "remove", "upsert", "drop", "commit"}
    BY DEF Points
<1>9. \A x \in Working : req' = [req EXCEPT ![q] = x] => req'[q] = x
    BY <1>1 DEF Typed
<1>10. UNCHANGED <<db, born, parent, asked>>
    BY <1>2, <1>5
<1>11. Needs(q) \subseteq Locks
    BY <1>1, NeedsTyped
<1>12. ASSUME NEW at \in Points, Go(q, at), r \in Working, r.at # "insert", Needs(q) = {},
              r.ins # {} => at = "commit",
              r.gone # {} => at = "commit",
              \/ at \in {"verify", "lock", "commit"}
              \/ at = "mark" /\ r.op = "refresh" /\ r.row \in born /\ parent[r.row] \in Users
       PROVE  RowsInv'
    <2> DEFINE x == [r EXCEPT !.at = at, !.held = @ \cup Needs(q)]
    <2>1. /\ x \in Working /\ x.op = r.op /\ x.at = at /\ x.row = r.row /\ x.new = r.new
          /\ x.ins = r.ins /\ x.gone = r.gone /\ x.held = r.held
        BY <1>12 DEF Working
    <2>2. req' = [req EXCEPT ![q] = x]
        BY <1>12 DEF Go
    <2>3. req'[q] = x
        BY <1>9, <2>1, <2>2
    <2> HIDE DEF x
    <2>4. Course(q)'
        BY <1>1, <1>10, <1>12, <2>1, <2>3 DEF Course
    <2> QED BY <1>7, <2>1, <2>2, <2>4
<1>13. CASE Refused(q) \/ CheckLock(q) \/ WrongPassword(q) \/ LockOut(q) \/ UpsertVector(q)
             \/ DropVector(q)
    <2>1. CASE CheckLock(q) \/ WrongPassword(q)
        <3>1. /\ r \in Working /\ r.at \in {"check", "verify"} /\ r.ins = {} /\ r.gone = {}
            BY <1>1, <2>1 DEF CheckLock, WrongPassword, At, Idle, Course
        <3>2. Needs(q) = {}
            BY <3>1 DEF Needs
        <3> QED BY <1>6, <1>8, <1>12, <2>1, <3>1, <3>2 DEF CheckLock, WrongPassword
    <2>2. CASE UpsertVector(q) \/ DropVector(q)
        <3>1. r \in Working /\ r.at \in {"upsert", "drop"} /\ Go(q, "commit")
            BY <1>1, <2>2 DEF UpsertVector, DropVector, At, Idle
        <3>2. Needs(q) = {}
            BY <3>1 DEF Needs
        <3> QED BY <1>8, <1>12, <3>1, <3>2
    <2> QED BY <1>6, <1>13, <2>1, <2>2 DEF LockOut
<1>14. CASE RightPassword(q)
    <2>1. PICK u \in db \cap Users : req' = [req EXCEPT ![q].at = "insert", ![q].row = u]
        BY <1>14 DEF RightPassword
    <2> DEFINE x == [r EXCEPT !.at = "insert", !.row = u]
    <2>2. r \in Working /\ r.op = "login" /\ r.ins = {} /\ r.gone = {}
        BY <1>1, <1>14 DEF RightPassword, At, Idle, Course
    <2>3. /\ x \in Working /\ x.op = "login" /\ x.at = "insert" /\ x.row = u
          /\ x.ins = {} /\ x.gone = {} /\ x.held = r.held
        BY <1>1, <1>8, <2>2 DEF Working, Typed
    <2>4. req' = [req EXCEPT ![q] = x]
        BY <2>1
    <2>5. req'[q] = x
        BY <1>9, <2>3, <2>4
    <2> HIDE DEF x
    <2>6. Course(q)'
        BY <2>3, <2>5 DEF Course, Inserting
    <2> QED BY <1>7, <2>2, <2>3, <2>4, <2>6
<1>15. CASE ReadToken(q)
    <2>1. r \in Working /\ r.op = "refresh" /\ r.at = "read" /\ r.ins = {} /\ r.gone = {}
        BY <1>1, <1>15 DEF ReadToken, At, Idle, Course
    <2>2. Needs(q) = {}
        BY <2>1 DEF Needs
    <2>3. CASE Go(q, "mark") /\ r.row \in LiveTokens /\ parent[r.row] \in db
        <3>1. r.row \in born /\ r.row \in Tokens
            BY <1>1, <2>3 DEF LiveTokens, Typed
        <3>2. parent[r.row] \in Users
            BY <1>1, <2>3, <3>1, Tables DEF ForeignKeys, Typed
        <3> QED BY <1>8, <1>12, <2>1, <2>2, <2>3, <3>1, <3>2
    <2>4. CASE req' = [req EXCEPT ![q].at = "burn", ![q].found = UnrevokedIn(family[r.row])]
        <3> DEFINE x == [r EXCEPT !.at = "burn", !.found = UnrevokedIn(family[r.row])]
        <3>1. UnrevokedIn(family[r.row]) \subseteq Tokens
            BY DEF UnrevokedIn, Unrevoked
        <3>2. /\ x \in Working /\ x.op = "refresh" /\ x.at = "burn" /\ x.row = r.row
              /\ x.ins = {} /\ x.gone = {} /\ x.held = r.held
            BY <1>8, <2>1, <3>1 DEF Working
        <3>3. req' = [req EXCEPT ![q] = x]
            BY <2>4
        <3>4. req'[q] = x
            BY <1>9, <3>2, <3>3
        <3> HIDE DEF x
        <3>5. Course(q)'
            BY <1>1, <2>1, <3>2, <3>4 DEF Course
        <3> QED BY <1>7, <2>1, <3>2, <3>3, <3>5
    <2> QED BY <1>6, <1>15, <2>3, <2>4 DEF ReadToken
<1>16. CASE MarkUsed(q)
    <2> DEFINE x == [r EXCEPT !.at = "insert", !.kill = @ \cup {r.row}, !.held = @ \cup Needs(q)]
    <2>1. r \in Working /\ r.op = "refresh" /\ r.at = "mark" /\ r.ins = {} /\ r.gone = {} /\ Granted(q)
        BY <1>1, <1>16 DEF MarkUsed, At, Idle, Course
    <2>2. r.row \in Tokens /\ r.row \in born /\ parent[r.row] \in Users
        BY <1>1, <2>1 DEF Course
    <2>3. /\ x \in Working /\ x.op = "refresh" /\ x.at = "insert" /\ x.row = r.row
          /\ x.ins = {} /\ x.gone = {} /\ x.held = r.held \cup Needs(q)
        BY <1>8, <1>11, <2>1, <2>2 DEF Working
    <2>4. req' = [req EXCEPT ![q] = x]
        BY <1>16 DEF MarkUsed
    <2>5. req'[q] = x
        BY <1>9, <2>3, <2>4
    <2> HIDE DEF x
    <2>6. Course(q)'
        BY <1>10, <2>2, <2>3, <2>5 DEF Course, Inserting
    <2> QED BY <1>7, <2>1, <2>3, <2>4, <2>6
<1>17. CASE SetPassword(q)
    <2> DEFINE x == [r EXCEPT !.at = "revoke", !.held = @ \cup Needs(q), !.found = UnrevokedOf(r.row)]
    <2>1. r \in Working /\ r.op = "password" /\ r.at = "setpw" /\ r.ins = {} /\ r.gone = {} /\ Granted(q)
        BY <1>1, <1>17 DEF SetPassword, Idle, Course
    <2>2. UnrevokedOf(r.row) \subseteq Tokens
        BY DEF UnrevokedOf, Unrevoked
    <2>3. /\ x \in Working /\ x.op = "password" /\ x.at = "revoke" /\ x.row = r.row
          /\ x.ins = {} /\ x.gone = {} /\ x.held = r.held \cup Needs(q)
        BY <1>8, <1>11, <2>1, <2>2 DEF Working
    <2>4. req' = [req EXCEPT ![q] = x]
        BY <1>17 DEF SetPassword
    <2>5. req'[q] = x
        BY <1>9, <2>3, <2>4
    <2> HIDE DEF x
    <2>6. Course(q)'
        BY <1>1, <2>1, <2>3, <2>5 DEF Course
    <2> QED BY <1>7, <2>1, <2>3, <2>4, <2>6
<1>18. CASE Revoke(q)
    <2> DEFINE next == IF r.op = "delete" THEN "remove" ELSE "commit"
               x == [r EXCEPT !.at = next, !.kill = @ \cup r.found, !.held = @ \cup Needs(q)]
    <2>1. r \in Working /\ r.at = "revoke" /\ r.ins = {} /\ r.gone = {} /\ Granted(q)
        BY <1>1, <1>18 DEF Revoke, Idle, Course
    <2>2. r.found \subseteq Tokens
        BY <2>1 DEF Working
    <2>3. /\ x \in Working /\ x.op = r.op /\ x.at = next /\ x.row = r.row
          /\ x.ins = {} /\ x.gone = {} /\ x.held = r.held \cup Needs(q)
        BY <1>8, <1>11, <2>1, <2>2 DEF Working
    <2>4. req' = [req EXCEPT ![q] = x]
        BY <1>18 DEF Revoke
    <2>5. req'[q] = x
        BY <1>9, <2>3, <2>4
    <2> HIDE DEF x
    <2>6. Course(q)'
        BY <1>1, <1>10, <2>1, <2>3, <2>5 DEF Course
    <2> QED BY <1>7, <2>1, <2>3, <2>4, <2>6
<1> QED BY <1>6, <1>13, <1>14, <1>15, <1>16, <1>17, <1>18 DEF Burn, DeadlockVictim, Rollback

\* Every insertion keeps the rows in order: a request inserts under a row that
\* it locks.
LEMMA InsertsRows ==
    ASSUME IdentityAssumption, RowsInv, NEW q \in Requests,
           \/ (IssueFirst(q) \/ Rotate(q) \/ InsertUser(q)) /\ UNCHANGED memoryVars
           \/ InsertChat(q) \/ InsertMessage(q) \/ InsertNote(q)
    PROVE  RowsInv'
PROOF
<1> DEFINE r == req[q]
<1>1. Typed /\ Course(q) /\ None \notin Rows
    BY Tables DEF RowsInv
<1>2. /\ UNCHANGED memoryVars /\ r.at = "insert"
      /\ r.op \in {"login", "refresh", "create", "open", "say", "remember"}
    BY DEF IssueFirst, Rotate, InsertUser, InsertChat, InsertMessage, InsertNote, Insert
<1>3. CASE IssueFirst(q)
    <2>1. r.op = "login" /\ Insert(q, Tokens, r.row, None, "commit")
        BY <1>3 DEF IssueFirst
    <2>2. r.row \in Users /\ <<"share", r.row>> \in Needs(q)
        BY <1>1, <1>2, <2>1 DEF Course, Needs
    <2> QED BY <1>2, <2>1, <2>2, InsertStep DEF KindOf, ParentOf
<1>4. CASE Rotate(q)
    <2>1. r.op = "refresh" /\ Insert(q, Tokens, parent[r.row], family[r.row], "commit")
        BY <1>4 DEF Rotate
    <2>2. r.row \in Tokens /\ parent[r.row] \in Users /\ <<"share", parent[r.row]>> \in Needs(q)
        BY <1>1, <1>2, <2>1 DEF Course, Needs
    <2>3. family[r.row] \in Tokens \cup {None}
        BY <1>1, <2>2 DEF Typed
    <2> QED BY <1>2, <2>1, <2>2, <2>3, InsertStep DEF KindOf, ParentOf
<1>5. CASE InsertUser(q)
    <2>1. r.op = "create" /\ Insert(q, Users, None, None, "commit")
        BY <1>5 DEF InsertUser
    <2> QED BY <1>2, <2>1, InsertStep DEF KindOf
<1>6. CASE InsertChat(q)
    <2>1. r.op = "open" /\ Insert(q, Chats, r.row, None, "commit")
        BY <1>6 DEF InsertChat
    <2>2. r.row \in Users /\ <<"share", r.row>> \in Needs(q)
        BY <1>1, <1>2, <2>1 DEF Course, Needs
    <2> QED BY <1>2, <2>1, <2>2, InsertStep DEF KindOf, ParentOf
<1>7. CASE InsertMessage(q)
    <2>1. r.op = "say" /\ Insert(q, Messages, r.row, None, "commit")
        BY <1>7 DEF InsertMessage
    <2>2. r.row \in Chats /\ <<"share", r.row>> \in Needs(q)
        BY <1>1, <1>2, <2>1 DEF Course, Needs
    <2>3. ParentOf(Messages) = Chats \/ Messages \in {Tokens, Chats}
        BY DEF ParentOf
    <2>4. ASSUME Messages \in {Tokens, Chats} PROVE RowsInv'
        <3>1. Insert(q, Messages, r.row, None, "commit") /\ Fresh(Messages) # {}
            BY <2>1 DEF Insert
        <3>2. Messages # {} /\ Messages \cap Chats = {} /\ Messages \cap Tokens = {}
            BY <3>1, Tables DEF Fresh
        <3> QED BY <2>4, <3>2
    <2> QED BY <1>2, <2>1, <2>2, <2>3, <2>4, InsertStep DEF KindOf
<1>8. CASE InsertNote(q)
    <2>1. r.op = "remember" /\ Insert(q, Notes, None, None, "upsert")
        BY <1>8 DEF InsertNote
    <2> QED BY <1>2, <2>1, InsertStep DEF KindOf
<1> QED BY <1>3, <1>4, <1>5, <1>6, <1>7, <1>8

\* Every step keeps the rows in order.
LEMMA RowsStep == ASSUME IdentityAssumption, RowsInv, [Next]_vars PROVE RowsInv'
PROOF
<1> USE DEF memoryVars, rowVars, tokenVars, guardVars, boundVars
<1>1. Typed
    BY DEF RowsInv
<1>2. CASE UNCHANGED vars
    <2>1. UNCHANGED <<db, marks, born, parent, family, req, guard, tries, burnt, served, faults,
                      vectors, asked, forgotten>>
        BY <1>2 DEF vars
    <2> QED BY <2>1 DEF RowsInv, Typed, ForeignKeys, Course, Apart, Hanging
<1>3. CASE (LockExpires \/ CountExpires \/ TokenExpires) /\ UNCHANGED memoryVars
    <2>1. UNCHANGED <<db, born, parent, family, req, burnt, served, faults, vectors, asked, forgotten>>
        BY <1>3 DEF LockExpires, CountExpires, TokenExpires
    <2>2. guard' \in [fails : Nat, locked : BOOLEAN] /\ tries' \in Nat
        <3>1. guard \in [fails : Nat, locked : BOOLEAN] /\ tries \in Nat
            BY <1>1 DEF Typed
        <3>2. CASE LockExpires
            BY <3>1, <3>2 DEF LockExpires
        <3>3. CASE CountExpires
            BY <3>1, <3>3 DEF CountExpires
        <3> QED BY <1>3, <3>1, <3>2, <3>3 DEF TokenExpires
    <2>3. marks' \in [Tokens -> SUBSET {"used", "revoked", "expired"}]
        BY <1>1, <1>3 DEF Typed, LockExpires, CountExpires, TokenExpires, Marked
    <2>4. Typed'
        BY <1>1, <2>1, <2>2, <2>3 DEF Typed
    <2> QED BY <2>1, <2>4 DEF RowsInv, ForeignKeys, Course, Apart, Hanging
<1>4. CASE \E q \in Requests :
             \/ OpenChat(q) \/ Say(q) \/ CloseChat(q) \/ Remember(q) \/ Forget(q)
             \/ GoesOn(q)
             \/ (IdentityBegins(q) \/ Rollback(q)) /\ UNCHANGED memoryVars
    <2>1. PICK q \in Requests :
             \/ OpenChat(q) \/ Say(q) \/ CloseChat(q) \/ Remember(q) \/ Forget(q)
             \/ GoesOn(q)
             \/ (IdentityBegins(q) \/ Rollback(q)) /\ UNCHANGED memoryVars
        BY <1>4
    <2>2. CASE \/ OpenChat(q) \/ Say(q) \/ CloseChat(q) \/ Remember(q) \/ Forget(q)
               \/ IdentityBegins(q) /\ UNCHANGED memoryVars
        BY <2>2, BeginsRows
    <2>3. CASE Rollback(q) /\ UNCHANGED memoryVars
        <3>1. forgotten' = forgotten \cup ((db \ db') \cap Notes)
            BY <2>3, SMTT(60) DEF Rollback
        <3> QED BY <2>3, <3>1, MovesRows
    <2>4. CASE RemoveChat(q) \/ RemoveNote(q)
        <3>1. /\ req[q].at = "remove" /\ req[q].op \in {"close", "forget"} /\ Granted(q)
            BY <2>4 DEF RemoveChat, RemoveNote, Remove, At
        <3>2. UNCHANGED <<memoryVars, rowVars, tokenVars, guardVars, boundVars>>
            BY <2>4 DEF RemoveChat, RemoveNote, Remove
        <3>3. \/ Refused(q)
              \/ \E next \in {"drop", "commit"} :
                     req' = [req EXCEPT ![q].at = next, ![q].gone = Below(req[q].row),
                                        ![q].held = @ \cup Needs(q)]
            BY <2>4 DEF RemoveChat, RemoveNote, Remove
        <3>4. CASE Refused(q)
            BY <1>1, <3>2, <3>4, RefusedStep DEF Typed
        <3> QED BY <3>1, <3>2, <3>3, <3>4, RemoveStep
    <2>5. CASE /\ req[q].op = "delete" /\ Remove(q, "commit")
               /\ forgotten' = forgotten \cup ((db \ db') \cap Notes)
               /\ UNCHANGED <<vectors, asked>>
        <3>1. req[q].at = "remove" /\ Granted(q)
            BY <2>5 DEF Remove
        <3>2. UNCHANGED <<memoryVars, rowVars, tokenVars, guardVars, boundVars>>
            BY <2>5 DEF Remove
        <3>3. CASE Refused(q)
            BY <1>1, <3>2, <3>3, RefusedStep DEF Typed
        <3>4. CASE req' = [req EXCEPT ![q].at = "commit", ![q].gone = Below(req[q].row),
                                      ![q].held = @ \cup Needs(q)]
            BY <2>5, <3>1, <3>2, <3>4, RemoveStep
        <3> QED BY <2>5, <3>3, <3>4 DEF Remove
    <2>6. CASE InsertChat(q) \/ InsertMessage(q) \/ InsertNote(q)
        BY <2>6, InsertsRows
    <2>7. CASE UpsertVector(q) \/ DropVector(q)
        BY <2>7, MovesRows
    <2>8. CASE /\ IdentityGoesOn(q)
               /\ forgotten' = forgotten \cup ((db \ db') \cap Notes)
               /\ UNCHANGED <<vectors, asked>>
        <3>1. CASE Commit(q)
            BY <2>8, <3>1, CommitStep
        <3>2. CASE IssueFirst(q) \/ Rotate(q) \/ InsertUser(q)
            <4>1. db' = db
                BY <3>2 DEF IssueFirst, Rotate, InsertUser, Insert
            <4>2. UNCHANGED memoryVars
                BY <2>8, <4>1
            <4> QED BY <3>2, <4>2, InsertsRows
        <3> QED BY <2>5, <2>8, <3>1, <3>2, MovesRows DEF IdentityGoesOn
    <2> QED BY <2>1, <2>2, <2>3, <2>4, <2>5, <2>6, <2>7, <2>8 DEF GoesOn
<1> QED BY <1>2, <1>3, <1>4 DEF Next

\* Initially there are no rows.
LEMMA InitRows == ASSUME IdentityAssumption, Init PROVE RowsInv
PROOF
<1>1. \A q \in Requests : req[q] = Idle
    BY DEF Init, IdentityInit
<1>2. Typed
    BY DEF Init, IdentityInit, Typed, IdentityAssumption
<1>3. ForeignKeys
    BY Tables DEF Init, IdentityInit, ForeignKeys
<1>4. \A q \in Requests : Course(q)
    BY <1>1 DEF Course, Idle
<1>5. Apart
    BY <1>1 DEF Apart, Idle
<1>6. Hanging
    BY <1>1 DEF Hanging, Idle, Init, IdentityInit
<1> QED BY <1>2, <1>3, <1>4, <1>5, <1>6 DEF RowsInv

-----------------------------------------------------------------------------
(* Tokens.                                                                 *)

\* A row that was committed once stays so: only new rows are inserted.
LEMMA SettledKept ==
    ASSUME born \subseteq born',
           \A y \in Requests : req'[y].ins \cap born \subseteq req[y].ins
    PROVE  Settled \subseteq Settled'
PROOF
    BY DEF Settled

\* Committed rows are settled.
LEMMA CommittedSettled ==
    ASSUME RowsInv PROVE db \cap Tokens \subseteq Settled
PROOF
    BY DEF RowsInv, Typed, Course, Settled

\* A family loses working tokens unless one is committed in it.
LEMMA LiveShrinks ==
    ASSUME db' \cap Tokens \subseteq db, \A t \in db \cap Tokens : family'[t] = family[t],
           \A t \in Tokens : marks[t] \subseteq marks'[t]
    PROVE  \A f : LiveIn(f)' \subseteq LiveIn(f) /\ UnrevokedIn(f)' \subseteq UnrevokedIn(f)
PROOF
    BY DEF LiveIn, LiveTokens, UnrevokedIn, Unrevoked

\* What a refresh carries stays true while it rests.
LEMMA TurnKept ==
    ASSUME NEW p, Turn(p), req'[p] = req[p],
           req[p].op = "refresh" =>
               /\ family'[req[p].row] = family[req[p].row]
               /\ \A n \in req[p].ins : family'[n] = family[n]
               /\ Settled \subseteq Settled'
    PROVE  Turn(p)'
PROOF
<1> DEFINE r == req[p]
           f == family[r.row]
<1>1. CASE r.op # "refresh"
    BY <1>1 DEF Turn
<1>2. CASE r.op = "refresh"
    <2>1. family'[r.row] = f /\ req'[p] = r
        BY <1>2
    <2>2. r.at # "read" => r.row \in Settled'
        BY <1>2 DEF Turn
    <2>3. /\ r.row \in Tokens /\ f # None
          /\ r.at \in {"read", "mark", "insert", "commit", "burn"}
          /\ r.at \in {"read", "mark"} => r.kill = {}
          /\ r.at \in {"insert", "commit"} => r.kill = {r.row}
          /\ r.at \in {"read", "mark", "insert", "burn"} => r.ins = {}
          /\ \A n \in r.ins : family'[n] = f
        BY <1>2 DEF Turn
    <2> HIDE DEF r, f
    <2> QED BY <2>1, <2>2, <2>3 DEF Turn
<1> QED BY <1>1, <1>2

\* A request that does not rotate a token has no turn.
LEMMA OtherWork ==
    ASSUME NEW q, req'[q].op # "refresh" PROVE Turn(q)'
PROOF
    BY DEF Turn

\* A request goes on, and no token is inserted or reported.
LEMMA QuietTokens ==
    ASSUME RowsInv, TokensInv, NEW q \in Requests, family' = family, burnt' = burnt,
           born \subseteq born', (born' \ born) \cap Tokens = {},
           \A p \in Requests \ {q} : req'[p] = req[p],
           req'[q].ins \cap born \subseteq req[q].ins,
           req'[q].op = "refresh" => Turn(q)',
           req'[q].op = "login" => req'[q].ins = {}
    PROVE  TokensInv'
PROOF
<1>1. Settled \subseteq Settled'
    BY SettledKept
<1>2. ASSUME NEW p \in Requests \ {q} PROVE Turn(p)' /\ Founding(p)'
    <2>1. Turn(p) /\ Founding(p)
        BY DEF TokensInv
    <2>2. Turn(p)'
        BY <1>1, <2>1, TurnKept
    <2>3. Founding(p)'
        BY <2>1 DEF Founding
    <2> QED BY <2>2, <2>3
<1>3. Turn(q)' /\ Founding(q)'
    BY DEF Turn, Founding
<1>4. burnt' \subseteq born' \cap Tokens
    BY DEF TokensInv
<1>5. \A t \in Tokens : (t \notin born' => family'[t] = None) /\ (family'[t] # None => family'[t] \in born')
    BY DEF TokensInv
<1>6. \A x \in Requests : Turn(x)' /\ Founding(x)'
    BY <1>2, <1>3
<1> QED BY <1>4, <1>5, <1>6 DEF TokensInv

\* A request inserts the token that founds a family, or succeeds the one it has
\* marked.
LEMMA InsertTokens ==
    ASSUME IdentityAssumption, RowsInv, TokensInv, NEW q \in Requests, NEW n \in Tokens \ born, NEW f,
           \/ req[q].op = "login" /\ f = n
           \/ req[q].op = "refresh" /\ req[q].at = "insert" /\ f = family[req[q].row],
           req' = [req EXCEPT ![q].at = "commit", ![q].new = n, ![q].ins = @ \cup {n},
                              ![q].held = @ \cup Needs(q)],
           req[q] \in Working, req[q].ins = {}, Needs(q) \subseteq Locks,
           born' = born \cup {n}, family' = [family EXCEPT ![n] = f], UNCHANGED <<db, marks, burnt>>
    PROVE  TokensInv'
PROOF
<1> DEFINE r == req[q]
           x == [r EXCEPT !.at = "commit", !.new = n, !.ins = @ \cup {n}, !.held = @ \cup Needs(q)]
<1>1. Typed /\ n \in Rows
    BY Tables DEF RowsInv
<1>2. x.op = r.op /\ x.at = "commit" /\ x.row = r.row /\ x.ins = {n} /\ x.kill = r.kill
    BY DEF Working
<1>3. req'[q] = x /\ \A p \in Requests \ {q} : req'[p] = req[p]
    BY <1>1 DEF Typed
<1> HIDE DEF x
<1>4. family'[n] = f /\ \A t \in Tokens \ {n} : family'[t] = family[t]
    BY <1>1 DEF Typed
<1>5. Settled \subseteq Settled'
    BY <1>2, <1>3, SettledKept
<1>7. \A t \in Tokens : family[t] # n
    BY <1>1, Tables DEF TokensInv
<1>8. family[n] = None
    BY DEF TokensInv
<1>9. \A p \in Requests : req[p].op = "refresh" => req[p].row \in Tokens /\ req[p].row # n
    BY <1>8 DEF TokensInv, Turn
<1>10. \A p \in Requests : \A m \in req[p].ins : m # n
    BY DEF RowsInv, Course
<1>11. ASSUME r.op = "refresh", NEW m \in Tokens, \A t \in Tokens : family[t] = m <=> t = m
       PROVE  m \in born \cap Settled \/ f # m
    <2>1. r.row \in Settled /\ f = family[r.row] /\ r.row \in Tokens
        BY <1>11 DEF TokensInv, Turn
    <2> QED BY <1>11, <2>1 DEF Settled
<1>12. ASSUME NEW p \in Requests \ {q} PROVE Turn(p)' /\ Founding(p)'
    <2>1. Turn(p) /\ Founding(p)
        BY DEF TokensInv
    <2>2. req[p].op = "refresh" => \A m \in req[p].ins : family'[m] = family[m]
        <3>1. req[p].op = "refresh" => req[p].ins \subseteq Tokens
            BY DEF RowsInv, Course, KindOf
        <3> QED BY <1>4, <1>10, <3>1
    <2>3. Turn(p)'
        BY <1>3, <1>4, <1>5, <1>9, <2>1, <2>2, TurnKept
    <2>4. ASSUME req[p].op = "login", NEW m \in req[p].ins
          PROVE  m \notin burnt /\ \A t \in Tokens : family'[t] = m <=> t = m
        <3>1. m \in Tokens /\ m # n /\ m \notin Settled
            BY <1>10, <2>4 DEF RowsInv, Course, KindOf, Settled
        <3>2. m \notin burnt /\ \A t \in Tokens : family[t] = m <=> t = m
            BY <2>1, <2>4 DEF Founding
        <3>3. f # m
            BY <1>11, <3>1, <3>2
        <3> QED BY <1>4, <3>1, <3>2, <3>3
    <2>5. Founding(p)'
        BY <1>3, <2>4 DEF Founding
    <2> QED BY <2>3, <2>5
<1>13. ASSUME r.op = "login", f = n PROVE Turn(q)' /\ Founding(q)'
    <2>1. n \notin burnt /\ \A t \in Tokens : family'[t] = n <=> t = n
        BY <1>4, <1>7, <1>13 DEF TokensInv
    <2>2. Turn(q)' /\ Founding(q)'
        <3>1. req'[q].op = "login" /\ req'[q].ins = {n}
            BY <1>2, <1>3, <1>13
        <3>2. Founding(q)'
            BY <2>1, <3>1 DEF Founding
        <3> QED BY <3>1, <3>2, OtherWork
    <2> QED BY <2>2
<1>14. ASSUME r.op = "refresh", r.at = "insert", f = family[r.row]
       PROVE  Turn(q)' /\ Founding(q)'
    <2>1. r.row \in Tokens /\ f # None /\ r.row \in Settled /\ r.kill = {r.row}
        BY <1>14 DEF TokensInv, Turn
    <2>2. family'[r.row] = f
        BY <1>4, <1>9, <1>14
    <2>4. Turn(q)'
        <3>1. /\ req'[q].op = "refresh" /\ req'[q].at = "commit" /\ req'[q].ins = {n}
              /\ req'[q].row = r.row /\ req'[q].kill = {r.row} /\ r.row \in Settled'
            BY <1>2, <1>3, <1>5, <1>14, <2>1
        <3>2. family'[n] = f
            BY <1>4
        <3>3. family'[req'[q].row] = f
            BY <2>1, <2>2, <3>1
        <3> QED BY <2>1, <3>1, <3>2, <3>3 DEF Turn
    <2>5. Founding(q)'
        <3>1. req'[q].op = "refresh"
            BY <1>2, <1>3, <1>14
        <3> QED BY <3>1 DEF Founding
    <2> QED BY <2>4, <2>5
<1>15. \A p \in Requests : Turn(p)' /\ Founding(p)'
    BY <1>12, <1>13, <1>14
<1>16. \A t \in Tokens : (t \notin born' => family'[t] = None) /\ (family'[t] # None => family'[t] \in born')
    BY <1>4, <1>1 DEF TokensInv, Turn
<1>17. burnt' \subseteq born' \cap Tokens
    BY DEF TokensInv
<1> QED BY <1>15, <1>16, <1>17 DEF TokensInv

\* A request commits, and carries nothing any more.
LEMMA CommitTokens ==
    ASSUME RowsInv, TokensInv, NEW q \in Requests, Commit(q) PROVE TokensInv'
PROOF
<1>1. /\ req'[q] = Idle /\ \A p \in Requests \ {q} : req'[p] = req[p]
      /\ Idle.op = "idle" /\ Idle.ins = {}
    BY DEF RowsInv, Typed, Commit, Refused, Idle
<1>2. UNCHANGED <<born, family, burnt>>
    BY DEF Commit
<1> QED BY <1>1, <1>2, QuietTokens

\* A reuse is reported.
LEMMA BurnTokens ==
    ASSUME RowsInv, TokensInv, NEW q \in Requests, Burn(q) PROVE TokensInv'
PROOF
<1> DEFINE r == req[q]
           g == family[r.row]
<1>1. /\ Typed /\ r.at = "burn" /\ r.op = "refresh" /\ Idle.op = "idle" /\ Idle.ins = {}
      /\ req'[q] = Idle /\ \A p \in Requests \ {q} : req'[p] = req[p]
    BY DEF RowsInv, Typed, Burn, Refused, Idle, Course
<1>2. UNCHANGED <<born, family>> /\ burnt' = burnt \cup {g}
    BY DEF Burn, rowVars
<1>3. r.row \in Tokens /\ g # None /\ r.row \in Settled
    BY <1>1 DEF TokensInv, Turn
<1>4. g \in born /\ g \in Tokens
    BY <1>1, <1>3 DEF TokensInv, Typed
<1>5. Settled \subseteq Settled'
    BY <1>1, <1>2, SettledKept
<1>6. ASSUME NEW p \in Requests \ {q} PROVE Turn(p)' /\ Founding(p)'
    <2>1. Turn(p) /\ Founding(p)
        BY DEF TokensInv
    <2>2. Turn(p)'
        BY <1>1, <1>2, <1>5, <2>1, TurnKept
    <2>3. ASSUME req[p].op = "login", NEW n \in req[p].ins PROVE n # g
        BY <1>3, <2>1, <2>3 DEF Founding, Settled
    <2>4. Founding(p)'
        BY <1>1, <1>2, <2>1, <2>3 DEF Founding
    <2> QED BY <2>2, <2>4
<1>7. Turn(q)' /\ Founding(q)'
    BY <1>1, OtherWork DEF Founding
<1>8. \A t \in Tokens : (t \notin born' => family'[t] = None) /\ (family'[t] # None => family'[t] \in born')
    BY <1>2 DEF TokensInv
<1>9. burnt' \subseteq born' \cap Tokens
    BY <1>2, <1>4 DEF TokensInv
<1>10. \A p \in Requests : Turn(p)' /\ Founding(p)'
    BY <1>6, <1>7
<1> QED BY <1>8, <1>9, <1>10 DEF TokensInv

\* Nobody does anything with a token.
LEMMA LapseTokens ==
    ASSUME TokensInv, UNCHANGED <<req, born, family, burnt>> PROVE TokensInv'
PROOF
<1>1. Settled \subseteq Settled'
    BY SettledKept
<1>2. ASSUME NEW p \in Requests PROVE Turn(p)' /\ Founding(p)'
    <2>1. Turn(p) /\ Founding(p)
        BY DEF TokensInv
    <2>2. Turn(p)'
        BY <1>1, <2>1, TurnKept
    <2> QED BY <2>1, <2>2 DEF Founding
<1> QED BY <1>2 DEF TokensInv

\* A request looks a token up, and marks it.
LEMMA ReadTokens ==
    ASSUME RowsInv, TokensInv, NEW q \in Requests, ReadToken(q) \/ MarkUsed(q)
    PROVE  TokensInv'
PROOF
<1> DEFINE r == req[q]
           f == family[r.row]
<1>1. /\ Typed /\ r \in Working /\ r.op = "refresh" /\ Idle.op = "idle" /\ Idle.ins = {}
      /\ UNCHANGED <<db, marks, born, family, burnt>>
    BY DEF RowsInv, Typed, Idle, ReadToken, MarkUsed, At, rowVars, tokenVars
<1>2. r.row \in Tokens /\ f # None /\ Turn(q) /\ r.at \in {"read", "mark"} /\ r.kill = {} /\ r.ins = {}
    BY <1>1 DEF TokensInv, Turn, ReadToken, MarkUsed, At
<1>3. \A p \in Requests \ {q} : req'[p] = req[p]
    BY <1>1 DEF ReadToken, MarkUsed, Refused, Go, Typed
<1>4. req'[q].ins = {} => Settled \subseteq Settled'
    BY <1>1, <1>3, SettledKept
<1>5. CASE req'[q] = Idle
    BY <1>1, <1>3, <1>5, QuietTokens
<1>6. ASSUME req'[q].op = "refresh", req'[q].row = r.row, req'[q].ins = {}, r.row \in Settled,
             \/ req'[q].at \in {"mark", "burn"} /\ req'[q].kill = {}
             \/ req'[q].at = "insert" /\ req'[q].kill = {r.row}
      PROVE  TokensInv'
    <2>1. Turn(q)'
        BY <1>1, <1>2, <1>4, <1>6 DEF Turn
    <2> QED BY <1>1, <1>2, <1>3, <1>6, <2>1, QuietTokens
<1>7. CASE ReadToken(q)
    <2>1. CASE Refused(q)
        BY <1>1, <1>5, <2>1 DEF Refused, Typed
    <2>2. CASE r.row \in LiveTokens /\ Go(q, "mark")
        <3>1. /\ req'[q].op = "refresh" /\ req'[q].at = "mark" /\ req'[q].row = r.row
              /\ req'[q].ins = {} /\ req'[q].kill = {}
            BY <1>1, <1>2, <2>2 DEF Go, Typed, Working
        <3>2. r.row \in Settled
            BY <1>2, <2>2, CommittedSettled DEF LiveTokens
        <3> QED BY <1>6, <3>1, <3>2
    <2>3. CASE r.row \in db \ LiveTokens /\ req' = [req EXCEPT ![q].at = "burn", ![q].found = UnrevokedIn(f)]
        <3>1. /\ req'[q].op = "refresh" /\ req'[q].at = "burn" /\ req'[q].row = r.row
              /\ req'[q].ins = {} /\ req'[q].kill = {}
            BY <1>1, <1>2, <2>3 DEF Typed, Working
        <3>2. r.row \in Settled
            BY <1>2, <2>3, CommittedSettled
        <3> QED BY <1>6, <3>1, <3>2
    <2> QED BY <1>7, <2>1, <2>2, <2>3 DEF ReadToken
<1>8. CASE MarkUsed(q)
    <2>1. /\ req'[q].op = "refresh" /\ req'[q].at = "insert" /\ req'[q].row = r.row
          /\ req'[q].ins = {} /\ req'[q].kill = {r.row}
        BY <1>1, <1>2, <1>8 DEF MarkUsed, Typed, Working
    <2>2. r.row \in Settled
        BY <1>1, <1>2, <1>8 DEF Turn, MarkUsed, At
    <2> QED BY <1>6, <2>1, <2>2
<1> QED BY <1>7, <1>8

\* What a request is when it has begun.
LEMMA Began ==
    ASSUME Typed, NEW q \in Requests, NEW op, NEW row, NEW at, NEW found, Begin(q, op, row, at, found)
    PROVE  /\ req'[q].op = op /\ req'[q].at = at /\ req'[q].row = row /\ req'[q].ins = {}
           /\ req'[q].kill = {} /\ req[q] = Idle
           /\ \A p \in Requests \ {q} : req'[p] = req[p]
PROOF
    BY DEF Begin, Typed, Idle

\* A request that rotates no token, and founds no family yet.
LEMMA OtherTokens ==
    ASSUME RowsInv, TokensInv, NEW q \in Requests,
           UNCHANGED <<family, burnt>>, born \subseteq born', (born' \ born) \cap Tokens = {},
           \A p \in Requests \ {q} : req'[p] = req[p],
           req'[q].op # "refresh", req'[q].ins \cap born \subseteq req[q].ins,
           req'[q].op = "login" => req'[q].ins = {}
    PROVE  TokensInv'
PROOF
    BY QuietTokens

\* A new token, of a founder or of a refresh, or a refusal.
LEMMA IssueTokens ==
    ASSUME IdentityAssumption, RowsInv, TokensInv, NEW q \in Requests, IssueFirst(q) \/ Rotate(q)
    PROVE  TokensInv'
PROOF
<1> DEFINE r == req[q]
           n == AnyFresh(Tokens)
           f == IF r.op = "login" THEN None ELSE family[r.row]
           p == IF r.op = "login" THEN r.row ELSE parent[r.row]
<1>1. /\ r.op \in {"login", "refresh"} /\ Insert(q, Tokens, p, f, "commit")
      /\ r.at = "insert" /\ Fresh(Tokens) # {}
    BY DEF IssueFirst, Rotate, Insert
<1>2. /\ Typed /\ Course(q) /\ r \in Working /\ r.ins = {} /\ Needs(q) \subseteq Locks
      /\ Idle.op = "idle" /\ Idle.ins = {}
    BY <1>1, NeedsTyped DEF RowsInv, Typed, Idle, Course
<1>3. n \in Tokens \ born
    BY <1>1, Chosen DEF AnyFresh, Fresh
<1>4. UNCHANGED <<db, marks, burnt>>
    BY <1>1 DEF Insert
<1>5. r.op = "refresh" => f # None
    BY <1>1 DEF TokensInv, Turn
<1>6. CASE Refused(q) /\ UNCHANGED <<born, parent, family>>
    <2>1. req'[q] = Idle /\ \A y \in Requests \ {q} : req'[y] = req[y]
        BY <1>2, <1>6 DEF Refused, Typed
    <2> QED BY <1>2, <1>4, <1>6, <2>1, OtherTokens
<1>7. CASE /\ req' = [req EXCEPT ![q].at = "commit", ![q].new = n, ![q].ins = @ \cup {n},
                                 ![q].held = @ \cup Needs(q)]
           /\ born' = born \cup {n}
           /\ family' = [family EXCEPT ![n] = IF f = None THEN n ELSE f]
    <2> DEFINE g == IF f = None THEN n ELSE f
    <2>1. \/ r.op = "login" /\ g = n
          \/ r.op = "refresh" /\ r.at = "insert" /\ g = family[r.row]
        BY <1>1, <1>5
    <2>2. family' = [family EXCEPT ![n] = g]
        BY <1>7
    <2> HIDE DEF g, n
    <2> QED BY <1>2, <1>3, <1>4, <1>7, <2>1, <2>2, InsertTokens
<1> QED BY <1>1, <1>3, <1>6, <1>7 DEF Insert

\* Every step keeps the families of tokens in order.
LEMMA TokensStep ==
    ASSUME IdentityAssumption, RowsInv, TokensInv, [Next]_vars PROVE TokensInv'
PROOF
<1> USE DEF memoryVars, rowVars, tokenVars, guardVars, boundVars
<1>1. Typed /\ Idle.op = "idle" /\ Idle.ins = {}
    BY DEF RowsInv, Idle
<1>2. CASE UNCHANGED vars
    BY <1>2, LapseTokens DEF vars
<1>3. CASE (LockExpires \/ CountExpires \/ TokenExpires) /\ UNCHANGED memoryVars
    BY <1>3, LapseTokens DEF LockExpires, CountExpires, TokenExpires
<1>4. CASE \E q \in Requests :
             \/ OpenChat(q) \/ Say(q) \/ CloseChat(q) \/ Remember(q) \/ Forget(q)
             \/ GoesOn(q)
             \/ (IdentityBegins(q) \/ Rollback(q)) /\ UNCHANGED memoryVars
    <2>1. PICK q \in Requests :
             \/ OpenChat(q) \/ Say(q) \/ CloseChat(q) \/ Remember(q) \/ Forget(q)
             \/ GoesOn(q)
             \/ (IdentityBegins(q) \/ Rollback(q)) /\ UNCHANGED memoryVars
        BY <1>4
    <2> DEFINE r == req[q]
    <2>2. Course(q) /\ Turn(q) /\ r \in Working \cup {Idle}
        BY <1>1 DEF RowsInv, TokensInv, Typed
    <2>3. CASE Login(q) \/ CreateUser(q) \/ Remember(q)
        <3>1. PICK op \in {"login", "create", "remember"}, at \in {"check", "insert"} :
                  Begin(q, op, None, at, {}) /\ UNCHANGED <<db, marks, family, burnt, born>>
            BY <2>3 DEF Login, CreateUser, Remember, Elsewhere
        <3> QED BY <1>1, <3>1, Began, OtherTokens
    <2>4. CASE Logout(q) \/ ChangePassword(q) \/ DeleteUser(q) \/ OpenChat(q) \/ Say(q)
               \/ CloseChat(q) \/ Forget(q)
        <3>1. \E op \in {"logout", "password", "delete", "open", "say", "close", "forget"} :
                \E row, at, found :
                  Begin(q, op, row, at, found) /\ UNCHANGED <<db, marks, family, burnt, born>>
            BY <2>4 DEF Logout, ChangePassword, DeleteUser, OpenChat, Say, CloseChat, Forget, Elsewhere
        <3>2. PICK op \in {"logout", "password", "delete", "open", "say", "close", "forget"} :
                \E row, at, found :
                  Begin(q, op, row, at, found) /\ UNCHANGED <<db, marks, family, burnt, born>>
            BY <3>1
        <3>3. PICK row, at, found :
                  Begin(q, op, row, at, found) /\ UNCHANGED <<db, marks, family, burnt, born>>
            BY <3>2
        <3>4. /\ req'[q].op = op /\ req'[q].ins = {}
              /\ \A p \in Requests \ {q} : req'[p] = req[p]
            BY <1>1, <3>3, Began
        <3> QED BY <3>3, <3>4, OtherTokens
    <2>5. CASE Refresh(q)
        <3>1. PICK t \in Tokens :
                  /\ family[t] # None /\ Begin(q, "refresh", t, "read", {})
                  /\ UNCHANGED <<db, marks, family, burnt, born>>
            BY <2>5 DEF Refresh
        <3>2. /\ req'[q].op = "refresh" /\ req'[q].at = "read" /\ req'[q].row = t
              /\ req'[q].ins = {} /\ req'[q].kill = {}
              /\ \A p \in Requests \ {q} : req'[p] = req[p]
            BY <1>1, <3>1, Began
        <3>3. Turn(q)'
            BY <3>1, <3>2 DEF Turn
        <3> QED BY <3>1, <3>2, <3>3, QuietTokens
    <2>6. ASSUME Refused(q), UNCHANGED <<db, marks, family, burnt, born>> PROVE TokensInv'
        <3>1. req'[q] = Idle /\ \A p \in Requests \ {q} : req'[p] = req[p]
            BY <1>1, <2>6 DEF Refused, Typed
        <3> QED BY <1>1, <2>6, <3>1, OtherTokens
    <2>7. ASSUME UNCHANGED <<db, marks, family, burnt, born>>, r \in Working, r.op # "refresh",
                 r.op = "login" => r.ins = {},
                 \A p \in Requests \ {q} : req'[p] = req[p],
                 req'[q].op = r.op /\ req'[q].ins = r.ins
          PROVE  TokensInv'
        BY <2>7, OtherTokens
    <2>8. CASE CheckLock(q) \/ WrongPassword(q) \/ LockOut(q) \/ RightPassword(q)
        <3>1. /\ r \in Working /\ r.op = "login" /\ r.at \in {"check", "verify", "lock"}
              /\ UNCHANGED <<db, marks, family, burnt, born>>
            BY <1>1, <2>2, <2>8 DEF CheckLock, WrongPassword, LockOut, RightPassword, At
        <3>2. r.ins = {}
            BY <2>2, <3>1 DEF Course
        <3>3. CASE CheckLock(q) \/ WrongPassword(q) \/ LockOut(q)
            <4>1. Refused(q) \/ Go(q, "verify") \/ Go(q, "lock")
                BY <3>3 DEF CheckLock, WrongPassword, LockOut
            <4>2. CASE Go(q, "verify") \/ Go(q, "lock")
                <5>1. /\ \A p \in Requests \ {q} : req'[p] = req[p]
                      /\ req'[q].op = r.op /\ req'[q].ins = r.ins
                    BY <1>1, <3>1, <4>2 DEF Go, Typed, Working
                <5> QED BY <2>7, <3>1, <3>2, <5>1
            <4> QED BY <2>6, <3>1, <4>1, <4>2
        <3>4. CASE RightPassword(q)
            <4>1. /\ \A p \in Requests \ {q} : req'[p] = req[p]
                  /\ req'[q].op = r.op /\ req'[q].ins = r.ins
                BY <1>1, <3>1, <3>4 DEF RightPassword, Typed, Working
            <4> QED BY <2>7, <3>1, <3>2, <4>1
        <3> QED BY <2>8, <3>3, <3>4
    <2>9. CASE SetPassword(q) \/ Revoke(q) \/ UpsertVector(q) \/ DropVector(q) \/ RemoveChat(q)
               \/ RemoveNote(q) \/ (r.op = "delete" /\ Remove(q, "commit"))
        <3>1. /\ r \in Working /\ r.at \in {"setpw", "revoke", "upsert", "drop", "remove"}
              /\ UNCHANGED <<db, marks, family, burnt, born>>
            BY <1>1, <2>2, <2>9 DEF SetPassword, Revoke, UpsertVector, DropVector, RemoveChat,
                   RemoveNote, Remove, At, Idle
        <3>2. r.op # "refresh" /\ (r.op = "login" => r.ins = {})
            <4>1. r.at = "upsert" => r.op = "remember"
                BY <2>9, <3>1 DEF SetPassword, Revoke, UpsertVector, DropVector, RemoveChat,
                   RemoveNote, Remove, At
            <4> QED BY <2>2, <3>1, <4>1 DEF Turn, Course
        <3>3. CASE Refused(q)
            BY <2>6, <3>1, <3>3
        <3>4. CASE ~Refused(q)
            <4>1. /\ \A p \in Requests \ {q} : req'[p] = req[p]
                  /\ req'[q].op = r.op /\ req'[q].ins = r.ins
                BY <1>1, <2>9, <3>1, <3>4 DEF SetPassword, Revoke, UpsertVector, DropVector, RemoveChat,
                   RemoveNote, Remove, Go, Typed, Working
            <4> QED BY <2>7, <3>1, <3>2, <4>1
        <3> QED BY <3>3, <3>4
    <2>10. CASE InsertUser(q) \/ InsertChat(q) \/ InsertMessage(q) \/ InsertNote(q)
        <3>1. PICK Kind \in {Users, Chats, Messages, Notes}, next \in {"commit", "upsert"} :
                  \E p \in {None, r.row} : Insert(q, Kind, p, None, next)
            BY <2>10 DEF InsertUser, InsertChat, InsertMessage, InsertNote
        <3>2. r.op \in {"create", "open", "say", "remember"} /\ r.at = "insert"
            BY <2>10 DEF InsertUser, InsertChat, InsertMessage, InsertNote, Insert
        <3>3. r \in Working /\ r.ins = {}
            BY <2>2, <3>2 DEF Course, Idle
        <3> DEFINE n == AnyFresh(Kind)
        <3>4. n \in Kind /\ n \notin born /\ n \notin Tokens
            BY <3>1, Chosen, Tables DEF Insert, AnyFresh, Fresh
        <3>5. UNCHANGED <<db, marks, burnt>>
            BY <3>1 DEF Insert
        <3>6. CASE Refused(q) /\ UNCHANGED <<born, parent, family>>
            BY <2>6, <3>5, <3>6
        <3>7. CASE /\ req' = [req EXCEPT ![q].at = next, ![q].new = n, ![q].ins = @ \cup {n},
                                         ![q].held = @ \cup Needs(q)]
                   /\ born' = born \cup {n} /\ family' = family
            <4>1. /\ \A p \in Requests \ {q} : req'[p] = req[p]
                  /\ req'[q].op = r.op /\ req'[q].ins = {n}
                BY <1>1, <3>3, <3>7 DEF Typed, Working
            <4> HIDE DEF n
            <4> QED BY <3>2, <3>4, <3>5, <3>7, <4>1, OtherTokens, ZenonT(60)
        <3> QED BY <3>1, <3>4, <3>6, <3>7 DEF Insert
    <2> QED BY <2>1, <2>3, <2>4, <2>5, <2>6, <2>8, <2>9, <2>10, BurnTokens, CommitTokens,
               ReadTokens, IssueTokens
            DEF GoesOn, IdentityBegins, IdentityGoesOn, Rollback, DeadlockVictim
<1> QED BY <1>2, <1>3, <1>4 DEF Next

\* Initially there are no tokens.
LEMMA InitTokens == ASSUME IdentityAssumption, Init PROVE TokensInv
PROOF
<1>1. \A q \in Requests : req[q].op = "idle"
    BY DEF Init, IdentityInit, Idle
<1>2. db = {} /\ burnt = {} /\ \A t \in Tokens : family[t] = None
    BY DEF Init, IdentityInit
<1> QED BY <1>1, <1>2 DEF TokensInv, Turn, Founding

-----------------------------------------------------------------------------
(* Families.                                                               *)

\* Refreshes that are past their read are finitely many.
LEMMA FinitePast ==
    ASSUME IdentityAssumption, NEW g PROVE IsFiniteSet(Rotating(g)) /\ IsFiniteSet(Rotating(g)')
PROOF
<1>1. Rotating(g) \subseteq Requests /\ Rotating(g)' \subseteq Requests
    BY DEF Rotating, Past
<1> QED BY <1>1, FS_Subset DEF IdentityAssumption

\* What is left of a finite set, and one more, is no more than one more.
LEMMA OneMore ==
    ASSUME NEW S, IsFiniteSet(S), NEW x, NEW T, T \subseteq S \cup {x}
    PROVE  /\ IsFiniteSet(T) /\ Cardinality(S) \in Nat /\ Cardinality(T) \in Nat
           /\ Cardinality(T) <= Cardinality(S) + 1
PROOF
<1>1. /\ IsFiniteSet(S \cup {x}) /\ Cardinality(S) \in Nat
      /\ Cardinality(S \cup {x}) = Cardinality(S) \/ Cardinality(S \cup {x}) = Cardinality(S) + 1
    BY FS_AddElement, FS_CardinalityType
<1>2. IsFiniteSet(T) /\ Cardinality(T) <= Cardinality(S \cup {x})
    BY <1>1, FS_Subset
<1>3. Cardinality(T) \in Nat /\ Cardinality(S \cup {x}) \in Nat
    BY <1>1, <1>2, FS_CardinalityType
<1> QED BY <1>1, <1>2, <1>3

\* A part of a finite set is finite and no larger.
LEMMA NoMore ==
    ASSUME NEW S, IsFiniteSet(S), NEW T, T \subseteq S
    PROVE  /\ IsFiniteSet(T) /\ Cardinality(S) \in Nat /\ Cardinality(T) \in Nat
           /\ Cardinality(T) <= Cardinality(S)
PROOF
    BY FS_Subset, FS_CardinalityType

\* A finite set without one of its elements has one less.
LEMMA OneLess ==
    ASSUME NEW S, IsFiniteSet(S), NEW x \in S
    PROVE  /\ Cardinality(S) \in Nat /\ Cardinality(S \ {x}) \in Nat
           /\ Cardinality(S \ {x}) = Cardinality(S) - 1
PROOF
    BY FS_RemoveElement, FS_CardinalityType, FS_Subset

\* What a family can come to have is a finite number.
LEMMA WeightTyped ==
    ASSUME IdentityAssumption, NEW g, Lasting(g)
    PROVE  /\ IsFiniteSet(Spare(g)) /\ IsFiniteSet(Rotating(g))
           /\ Cardinality(Spare(g)) \in Nat /\ Cardinality(Rotating(g)) \in Nat
PROOF
<1>1. Spare(g) \subseteq LiveIn(g) /\ IsFiniteSet(LiveIn(g))
    BY DEF Spare, Lasting
<1> HIDE DEF Spare
<1>2. IsFiniteSet(Spare(g)) /\ Cardinality(Spare(g)) \in Nat
    BY <1>1, NoMore
<1> QED BY <1>2, FinitePast, FS_CardinalityType

\* Tokens end, and at most one refresh leaves: a family can come to have no more
\* than before.
LEMMA FamilyShrinks ==
    ASSUME IdentityAssumption, NEW g \in Tokens, Lasting(g), NEW q,
           slips[g] \in Nat, slips'[g] = slips[g], g \in burnt' => g \in burnt,
           LiveIn(g)' \subseteq LiveIn(g),
           Rotating(g)' \subseteq Rotating(g), Rotating(g) \subseteq Rotating(g)' \cup {q},
           \A p \in Rotating(g)' : req'[p].row = req[p].row,
           \A p \in Burning(g)' : p \in Burning(g) /\ req'[p].found = req[p].found
    PROVE  Lasting(g)'
PROOF
<1> DEFINE S == Spare(g)  SS == Spare(g)'
           R == Rotating(g)  RR == Rotating(g)'
<1>1. /\ IsFiniteSet(S) /\ IsFiniteSet(R)
      /\ Cardinality(S) \in Nat /\ Cardinality(R) \in Nat
    BY WeightTyped
<1>2. IsFiniteSet(LiveIn(g)')
    BY NoMore DEF Lasting
<1>3. /\ Cardinality(SS) \in Nat /\ Cardinality(RR) \in Nat
      /\ Cardinality(SS) + Cardinality(RR) <= Cardinality(S) + Cardinality(R)
    <2>1. CASE RR = R
        <3>1. SS \subseteq S
            BY <2>1 DEF Spare
        <3> HIDE DEF S, SS, R, RR
        <3> QED BY <1>1, <2>1, <3>1, NoMore
    <2>2. CASE q \in R /\ RR = R \ {q}
        <3>1. SS \subseteq S \cup {req[q].row}
            BY <2>2 DEF Spare
        <3> HIDE DEF S, SS, R, RR
        <3>2. Cardinality(SS) \in Nat /\ Cardinality(SS) <= Cardinality(S) + 1
            BY <1>1, <3>1, OneMore
        <3>3. Cardinality(RR) \in Nat /\ Cardinality(RR) = Cardinality(R) - 1
            BY <1>1, <2>2, OneLess
        <3> QED BY <1>1, <3>2, <3>3
    <2>3. RR = R \/ (q \in R /\ RR = R \ {q})
        OBVIOUS
    <2> HIDE DEF S, SS, R, RR
    <2> QED BY <2>1, <2>2, <2>3
<1>4. Weight(g)' <= Weight(g) /\ Weight(g) \in Nat /\ Weight(g)' \in Nat
    BY <1>1, <1>3 DEF Weight
<1>5. Weight(g)' <= slips'[g] + (IF g \in burnt' THEN 0 ELSE 1)
    BY <1>4 DEF Lasting
<1>6. ASSUME NEW p \in Burning(g)'
      PROVE  Weight(g)' <= slips'[g] \/ (Rotating(g)' = {} /\ LiveIn(g)' \subseteq req'[p].found)
    <2>1. p \in Burning(g) /\ req'[p].found = req[p].found
        BY <1>6
    <2>2. Weight(g) <= slips[g] \/ (Rotating(g) = {} /\ LiveIn(g) \subseteq req[p].found)
        BY <2>1 DEF Lasting
    <2>3. CASE Weight(g) <= slips[g]
        BY <1>4, <2>3
    <2>4. CASE Rotating(g) = {} /\ LiveIn(g) \subseteq req[p].found
        BY <2>1, <2>4
    <2> QED BY <2>2, <2>3, <2>4
<1> HIDE DEF S, SS, R, RR
<1> QED BY <1>2, <1>5, <1>6 DEF Lasting

\* The other requests are where they were.
LEMMA PastKept ==
    ASSUME NEW q, \A p \in Requests \ {q} : req'[p] = req[p],
           \A p \in Requests : req[p].op = "refresh" => family'[req[p].row] = family[req[p].row],
           NEW g
    PROVE  \A p \in Requests \ {q} : /\ p \in Rotating(g)' <=> p \in Rotating(g)
                                     /\ p \in Burning(g)' <=> p \in Burning(g)
PROOF
    BY DEF Rotating, Burning, Past

\* A step of a request that rotates nothing in the family, or goes on doing so.
LEMMA FamilyRests ==
    ASSUME IdentityAssumption, NEW g \in Tokens, Lasting(g), NEW q \in Requests,
           \A p \in Requests \ {q} : req'[p] = req[p],
           \A p \in Requests : req[p].op = "refresh" => family'[req[p].row] = family[req[p].row],
           slips[g] \in Nat, slips'[g] = slips[g], g \in burnt' => g \in burnt,
           LiveIn(g)' \subseteq LiveIn(g),
           q \in Rotating(g)' => q \in Rotating(g) /\ req'[q].row = req[q].row,
           q \in Burning(g)' => q \in Burning(g) /\ req'[q].found = req[q].found
    PROVE  Lasting(g)'
PROOF
<1>1. /\ Rotating(g) \subseteq Requests /\ Rotating(g)' \subseteq Requests
      /\ Burning(g)' \subseteq Requests
    BY DEF Rotating, Burning, Past
<1>2. \A p \in Requests \ {q} : /\ p \in Rotating(g)' <=> p \in Rotating(g)
                                /\ p \in Burning(g)' <=> p \in Burning(g)
    BY PastKept
<1>3. Rotating(g)' \subseteq Rotating(g) /\ Rotating(g) \subseteq Rotating(g)' \cup {q}
    BY <1>1, <1>2
<1>4. \A p \in Rotating(g)' : req'[p].row = req[p].row
    BY <1>1
<1>5. \A p \in Burning(g)' : p \in Burning(g) /\ req'[p].found = req[p].found
    BY <1>1, <1>2
<1> QED BY <1>3, <1>4, <1>5, FamilyShrinks

\* A step in which no token is committed, reported or found to work.
LEMMA QuietFamilies ==
    ASSUME IdentityAssumption, FamiliesInv, NEW q \in Requests,
           \A p \in Requests \ {q} : req'[p] = req[p],
           \A p \in Requests : req[p].op = "refresh" => family'[req[p].row] = family[req[p].row],
           \A t \in db \cap Tokens : family'[t] = family[t],
           slips' = slips, burnt' = burnt, db' \cap Tokens \subseteq db,
           \A t \in Tokens : marks[t] \subseteq marks'[t],
           req'[q].op = "refresh" /\ req'[q].at # "read" =>
               /\ req[q].op = "refresh" /\ req[q].at \in {"mark", "insert", "commit"}
               /\ req'[q].at # "burn" /\ req'[q].row = req[q].row
    PROVE  FamiliesInv'
PROOF
<1>1. \A f : LiveIn(f)' \subseteq LiveIn(f)
    BY LiveShrinks
<1>2. ASSUME NEW g \in Tokens PROVE Lasting(g)'
    <2>1. Lasting(g) /\ slips[g] \in Nat /\ slips'[g] = slips[g]
        BY DEF FamiliesInv
    <2>2. /\ q \in Rotating(g)' => q \in Rotating(g) /\ req'[q].row = req[q].row
          /\ q \notin Burning(g)'
        BY DEF Rotating, Burning, Past
    <2> QED BY <1>1, <2>1, <2>2, FamilyRests
<1> QED BY <1>2 DEF FamiliesInv

\* Nobody does anything with a token, but some expire.
LEMMA LapseFamilies ==
    ASSUME IdentityAssumption, FamiliesInv, UNCHANGED <<req, family, slips, burnt, db>>,
           \A t \in Tokens : marks[t] \subseteq marks'[t]
    PROVE  FamiliesInv'
PROOF
<1>1. \A f : LiveIn(f)' \subseteq LiveIn(f)
    BY LiveShrinks
<1>2. ASSUME NEW g \in Tokens PROVE Lasting(g)'
    <2>1. Lasting(g) /\ slips[g] \in Nat /\ slips'[g] = slips[g]
        BY DEF FamiliesInv
    <2>2. Rotating(g)' = Rotating(g) /\ Burning(g)' = Burning(g)
        BY DEF Rotating, Burning, Past
    <2> QED BY <1>1, <2>1, <2>2, FamilyShrinks
<1> QED BY <1>2 DEF FamiliesInv

\* A token is found to work: its family can come to have what it could before,
\* and one more if another refresh is under way.
LEMMA FoundWorking ==
    ASSUME IdentityAssumption, RowsInv, TokensInv, FamiliesInv, NEW q \in Requests, ReadToken(q),
           req[q].row \in LiveTokens, Go(q, "mark"),
           Slip(family[req[q].row], Rotating(family[req[q].row]) \cup Burning(family[req[q].row]) # {})
    PROVE  FamiliesInv'
PROOF
<1> DEFINE r == req[q]
<1>0. PICK f : f = family[r.row]
    OBVIOUS
<1>1. /\ Typed /\ r \in Working /\ r.op = "refresh" /\ r.at = "read"
      /\ UNCHANGED <<db, marks, family, burnt>>
    BY DEF RowsInv, Typed, Idle, ReadToken, At, rowVars
<1>2. r.row \in Tokens /\ f \in Tokens
    BY <1>0, <1>1 DEF TokensInv, Turn, Typed
<1>3. /\ \A p \in Requests \ {q} : req'[p] = req[p]
      /\ req'[q].op = "refresh" /\ req'[q].at = "mark" /\ req'[q].row = r.row
    BY <1>1 DEF Go, Typed, Working
<1>4. \A g : LiveIn(g)' = LiveIn(g)
    BY <1>1 DEF LiveIn, LiveTokens
<1>5. slips \in [Tokens -> Nat] /\ \A g \in Tokens : Lasting(g)
    BY DEF FamiliesInv
<1> DEFINE overlaps == Rotating(f) \cup Burning(f) # {}
<1>6. /\ slips' \in [Tokens -> Nat] /\ \A g \in Tokens \ {f} : slips'[g] = slips[g]
      /\ slips'[f] = slips[f] + IF overlaps THEN 1 ELSE 0
    BY <1>0, <1>2, <1>5 DEF Slip
<1>7. /\ Rotating(f)' = Rotating(f) \cup {q} /\ q \notin Rotating(f) /\ Burning(f)' = Burning(f)
      /\ \A p \in Rotating(f) : req'[p].row = req[p].row
      /\ \A p \in Burning(f) : req'[p].found = req[p].found
    BY <1>0, <1>1, <1>3 DEF Rotating, Burning, Past
<1>8. Spare(f)' = Spare(f) \ {r.row} /\ r.row \in LiveIn(f)
    <2>1. {req'[p].row : p \in Rotating(f)'} = {req[p].row : p \in Rotating(f)} \cup {r.row}
        BY <1>3, <1>7
    <2>2. r.row \in LiveIn(f)
        BY <1>0 DEF LiveIn
    <2> QED BY <1>4, <2>1, <2>2 DEF Spare
<1>9. /\ IsFiniteSet(Spare(f)) /\ IsFiniteSet(Rotating(f))
      /\ Cardinality(Spare(f)) \in Nat /\ Cardinality(Rotating(f)) \in Nat
    BY <1>2, <1>5, WeightTyped
<1>10. Cardinality(Rotating(f)') = Cardinality(Rotating(f)) + 1
    BY <1>7, <1>9, FS_AddElement
<1>11. /\ Cardinality(Spare(f)') \in Nat /\ Cardinality(Spare(f)') <= Cardinality(Spare(f))
       /\ r.row \in Spare(f) => Cardinality(Spare(f)') = Cardinality(Spare(f)) - 1
    BY <1>8, <1>9, NoMore, OneLess
<1>12. Rotating(f) = {} => r.row \in Spare(f)
    BY <1>8 DEF Spare
<1>13. /\ Weight(f) \in Nat /\ Weight(f)' \in Nat /\ Weight(f)' <= Weight(f) + 1
       /\ Rotating(f) = {} => Weight(f)' = Weight(f)
    BY <1>9, <1>10, <1>11, <1>12 DEF Weight
<1>14. Lasting(f)'
    <2> HIDE DEF r
    <2>1. /\ IsFiniteSet(LiveIn(f)') /\ Lasting(f) /\ slips[f] \in Nat
          /\ Weight(f) <= slips[f] + (IF f \in burnt THEN 0 ELSE 1)
        BY <1>2, <1>4, <1>5 DEF Lasting
    <2>2. Weight(f)' <= slips'[f] + (IF f \in burnt' THEN 0 ELSE 1)
        <3>1. CASE overlaps
            BY <1>1, <1>6, <1>13, <2>1, <3>1
        <3>2. CASE ~overlaps
            BY <1>1, <1>6, <1>13, <2>1, <3>2
        <3> QED BY <3>1, <3>2
    <2>3. ASSUME NEW p \in Burning(f)' PROVE Weight(f)' <= slips'[f]
        <3>1. p \in Burning(f) /\ overlaps
            BY <1>7, <2>3
        <3>2. Weight(f) <= slips[f] \/ (Rotating(f) = {} /\ LiveIn(f) \subseteq req[p].found)
            BY <2>1, <3>1 DEF Lasting
        <3> QED BY <1>6, <1>13, <2>1, <3>1, <3>2
    <2> QED BY <2>1, <2>2, <2>3 DEF Lasting
<1>15. ASSUME NEW g \in Tokens \ {f} PROVE Lasting(g)'
    <2>1. q \notin Rotating(g)' /\ q \notin Burning(g)'
        BY <1>0, <1>1, <1>3 DEF Rotating, Burning, Past
    <2>2. Lasting(g) /\ slips[g] \in Nat /\ slips'[g] = slips[g]
        BY <1>5, <1>6
    <2> HIDE DEF r
    <2> QED BY <1>1, <1>3, <1>4, <2>1, <2>2, FamilyRests
<1> QED BY <1>6, <1>14, <1>15 DEF FamiliesInv

\* A token is found to be used: what works in its family is found with it, but
\* for what a refresh under way adds.
LEMMA FoundUsed ==
    ASSUME IdentityAssumption, RowsInv, TokensInv, FamiliesInv, NEW q \in Requests, ReadToken(q),
           req' = [req EXCEPT ![q].at = "burn", ![q].found = UnrevokedIn(family[req[q].row])],
           Slip(family[req[q].row], Rotating(family[req[q].row]) # {})
    PROVE  FamiliesInv'
PROOF
<1> DEFINE r == req[q]
<1>0. PICK f : f = family[r.row]
    OBVIOUS
<1>1. /\ Typed /\ r \in Working /\ r.op = "refresh" /\ r.at = "read"
      /\ UNCHANGED <<db, marks, family, burnt>>
    BY DEF RowsInv, Typed, Idle, ReadToken, At, rowVars
<1>2. r.row \in Tokens /\ f \in Tokens
    BY <1>0, <1>1 DEF TokensInv, Turn, Typed
<1>3. /\ \A p \in Requests \ {q} : req'[p] = req[p]
      /\ req'[q].op = "refresh" /\ req'[q].at = "burn" /\ req'[q].row = r.row
      /\ req'[q].found = UnrevokedIn(f)
    BY <1>0, <1>1 DEF Typed, Working
<1>4. \A g : LiveIn(g)' = LiveIn(g)
    BY <1>1 DEF LiveIn, LiveTokens
<1>5. slips \in [Tokens -> Nat] /\ \A g \in Tokens : Lasting(g)
    BY DEF FamiliesInv
<1> DEFINE overlaps == Rotating(f) # {}
<1>6. /\ slips' \in [Tokens -> Nat] /\ \A g \in Tokens \ {f} : slips'[g] = slips[g]
      /\ slips'[f] = slips[f] + IF overlaps THEN 1 ELSE 0
    BY <1>0, <1>2, <1>5 DEF Slip
<1>7. /\ Rotating(f)' = Rotating(f) /\ Burning(f)' = Burning(f) \cup {q}
      /\ \A p \in Rotating(f) : req'[p].row = req[p].row
      /\ \A p \in Burning(f) : req'[p].found = req[p].found
    <2>1. \A p \in Requests \ {q} : (p \in Rotating(f)' <=> p \in Rotating(f))
                                   /\ (p \in Burning(f)' <=> p \in Burning(f))
        BY <1>0, <1>1, <1>3 DEF Rotating, Burning, Past
    <2>2. q \notin Rotating(f) /\ q \notin Rotating(f)' /\ q \notin Burning(f) /\ q \in Burning(f)'
        BY <1>0, <1>1, <1>2, <1>3 DEF Rotating, Burning, Past
    <2>3. Rotating(f) \subseteq Requests /\ Burning(f) \subseteq Requests
          /\ Rotating(f)' \subseteq Requests /\ Burning(f)' \subseteq Requests
        BY DEF Rotating, Burning, Past
    <2>4. Rotating(f)' = Rotating(f) /\ Burning(f)' = Burning(f) \cup {q}
        BY <2>1, <2>2, <2>3
    <2> QED BY <1>3, <2>2, <2>3, <2>4
<1>8. Weight(f)' = Weight(f) /\ Weight(f) \in Nat
    <2>1. {req'[p].row : p \in Rotating(f)'} = {req[p].row : p \in Rotating(f)}
        <3> DEFINE same == Rotating(f)
        <3>1. Rotating(f)' = same /\ \A p \in same : req'[p].row = req[p].row
            BY <1>7
        <3>2. {req'[p].row : p \in Rotating(f)'} = {req'[p].row : p \in same}
            BY <3>1
        <3> HIDE DEF same
        <3>3. {req'[p].row : p \in same} = {req[p].row : p \in same}
            BY <3>1
        <3> QED BY <3>2, <3>3 DEF same
    <2>2. Spare(f)' = Spare(f)
        BY <1>4, <2>1 DEF Spare
    <2> QED BY <1>2, <1>5, <1>7, <2>2, WeightTyped DEF Weight
<1>9. LiveIn(f) \subseteq UnrevokedIn(f)
    BY DEF LiveIn, LiveTokens, UnrevokedIn, Unrevoked
<1>10. Lasting(f)'
    <2> HIDE DEF r
    <2>1. /\ IsFiniteSet(LiveIn(f)') /\ Lasting(f) /\ slips[f] \in Nat
          /\ Weight(f) <= slips[f] + (IF f \in burnt THEN 0 ELSE 1)
        BY <1>2, <1>4, <1>5 DEF Lasting
    <2>2. Weight(f)' <= slips'[f] + (IF f \in burnt' THEN 0 ELSE 1)
        BY <1>1, <1>6, <1>8, <2>1
    <2>3. ASSUME NEW p \in Burning(f)'
          PROVE  Weight(f)' <= slips'[f] \/ (Rotating(f)' = {} /\ LiveIn(f)' \subseteq req'[p].found)
        <3>1. CASE overlaps
            BY <1>6, <1>8, <2>1, <3>1
        <3>2. CASE ~overlaps /\ p = q
            BY <1>3, <1>4, <1>7, <1>9, <3>2
        <3>3. CASE ~overlaps /\ p # q
            <4>1. p \in Burning(f)
                BY <1>7, <2>3, <3>3
            <4>2. Weight(f) <= slips[f] \/ (Rotating(f) = {} /\ LiveIn(f) \subseteq req[p].found)
                BY <2>1, <4>1 DEF Lasting
            <4>3. CASE Weight(f) <= slips[f]
                BY <1>6, <1>8, <2>1, <3>3, <4>3
            <4>4. CASE Rotating(f) = {} /\ LiveIn(f) \subseteq req[p].found
                <5>1. req'[p].found = req[p].found
                    BY <1>7, <4>1
                <5> QED BY <1>4, <1>7, <4>4, <5>1
            <4> QED BY <4>2, <4>3, <4>4
        <3> QED BY <3>1, <3>2, <3>3
    <2> QED BY <2>1, <2>2, <2>3 DEF Lasting
<1>11. ASSUME NEW g \in Tokens \ {f} PROVE Lasting(g)'
    <2>1. q \notin Rotating(g)' /\ q \notin Burning(g)'
        BY <1>0, <1>1, <1>3 DEF Rotating, Burning, Past
    <2>2. Lasting(g) /\ slips[g] \in Nat /\ slips'[g] = slips[g]
        BY <1>5, <1>6
    <2> HIDE DEF r
    <2> QED BY <1>1, <1>3, <1>4, <2>1, <2>2, FamilyRests
<1> QED BY <1>6, <1>10, <1>11 DEF FamiliesInv

\* A refresh commits: its successor takes the place of the token it was sent.
LEMMA SucceededFamily ==
    ASSUME IdentityAssumption, RowsInv, TokensInv, FamiliesInv, NEW q \in Requests, Commit(q),
           NEW n \in Tokens, req[q].op = "refresh", req[q].ins = {n}, NEW f, f = family[n]
    PROVE  Lasting(f)'
PROOF
<1> DEFINE r == req[q]
<1>1. /\ Typed /\ r.at = "commit" /\ req'[q] = Idle /\ Idle.op = "idle"
      /\ \A p \in Requests \ {q} : req'[p] = req[p]
    BY DEF RowsInv, Typed, Commit, Refused, Idle
<1>2. /\ UNCHANGED <<family, burnt, slips>> /\ db' = (db \cup r.ins) \ r.gone
      /\ marks' = Marked(r.kill, "used")
    BY DEF Commit
<1>3. f = family[r.row] /\ r.row \in Tokens /\ f \in Tokens /\ r.kill = {r.row}
    BY <1>1 DEF TokensInv, Turn, Typed
<1>4. Lasting(f) /\ slips[f] \in Nat /\ slips'[f] = slips[f]
    BY <1>2, <1>3 DEF FamiliesInv
<1>5. q \in Rotating(f) /\ Rotating(f)' = Rotating(f) \ {q} /\ Burning(f)' = Burning(f)
    BY <1>1, <1>2, <1>3 DEF Rotating, Burning, Past
<1>6. "used" \in marks'[r.row] /\ \A t \in Tokens : marks[t] \subseteq marks'[t]
    BY <1>2, <1>3 DEF Marked
<1>7. LiveIn(f)' \subseteq (LiveIn(f) \ {r.row}) \cup {n}
    BY <1>2, <1>6 DEF LiveIn, LiveTokens
<1>8. Spare(f)' \subseteq Spare(f) \cup {n}
    <2>1. ASSUME NEW x \in Spare(f)', x # n PROVE x \in Spare(f)
        <3>1. x \in LiveIn(f) /\ x # r.row /\ \A p \in Rotating(f)' : x # req'[p].row
            BY <1>7, <2>1 DEF Spare
        <3>2. \A p \in Rotating(f) \ {q} : x # req[p].row
            BY <1>1, <1>5, <3>1 DEF Rotating, Past
        <3> QED BY <3>1, <3>2 DEF Spare
    <2> QED BY <2>1
<1>9. /\ IsFiniteSet(Spare(f)) /\ IsFiniteSet(Rotating(f))
      /\ Cardinality(Spare(f)) \in Nat /\ Cardinality(Rotating(f)) \in Nat
    BY <1>3, <1>4, WeightTyped
<1>10. Cardinality(Spare(f)') \in Nat /\ Cardinality(Spare(f)') <= Cardinality(Spare(f)) + 1
    BY <1>8, <1>9, OneMore
<1>11. Cardinality(Rotating(f)') \in Nat /\ Cardinality(Rotating(f)') = Cardinality(Rotating(f)) - 1
    BY <1>5, <1>9, OneLess
<1>12. Weight(f)' <= Weight(f) /\ Weight(f) \in Nat /\ Weight(f)' \in Nat
    BY <1>9, <1>10, <1>11 DEF Weight
<1>13. IsFiniteSet(LiveIn(f)')
    BY <1>4, <1>7, OneMore DEF Lasting
<1>14. Lasting(f)'
    <2> HIDE DEF r
    <2>1. \A p \in Burning(f)' : Weight(f) <= slips[f]
        BY <1>4, <1>5 DEF Lasting
    <2> QED BY <1>2, <1>4, <1>12, <1>13, <2>1 DEF Lasting
<1> QED BY <1>14

\* A login commits: a family begins.
LEMMA FoundedFamily ==
    ASSUME IdentityAssumption, RowsInv, TokensInv, FamiliesInv, NEW q \in Requests, Commit(q),
           NEW n \in Tokens, req[q].op = "login", req[q].ins = {n}
    PROVE  family[n] = n /\ Lasting(n)'
PROOF
<1> DEFINE r == req[q]
<1>1. /\ Typed /\ r.at = "commit" /\ req'[q] = Idle /\ Idle.op = "idle"
      /\ \A p \in Requests \ {q} : req'[p] = req[p]
    BY DEF RowsInv, Typed, Commit, Refused, Idle
<1>2. /\ UNCHANGED <<family, burnt, slips>> /\ db' = (db \cup r.ins) \ r.gone
    BY DEF Commit
<1>3. n \notin burnt /\ n \notin Settled /\ \A t \in Tokens : family[t] = n <=> t = n
    BY DEF TokensInv, Founding, Settled
<1>4. slips[n] \in Nat /\ slips'[n] = slips[n]
    BY <1>2 DEF FamiliesInv
<1>5. Rotating(n)' = {} /\ Burning(n)' = {}
    <2>1. \A p \in Requests : req[p].op = "refresh" /\ req[p].at # "read" => family[req[p].row] # n
        BY <1>3 DEF TokensInv, Turn
    <2> QED BY <1>1, <1>2, <2>1 DEF Rotating, Burning, Past
<1>6. LiveIn(n)' \subseteq {n}
    BY <1>2, <1>3 DEF LiveIn, LiveTokens
<1>7. Spare(n)' \subseteq {n}
    BY <1>6 DEF Spare
<1>8. IsFiniteSet({n}) /\ Cardinality({n}) = 1
    BY FS_Singleton
<1>9. IsFiniteSet(LiveIn(n)') /\ Cardinality(Spare(n)') \in Nat /\ Cardinality(Spare(n)') <= 1
    BY <1>6, <1>7, <1>8, NoMore
<1>10. Cardinality(Rotating(n)') = 0
    BY <1>5, FS_EmptySet
<1>11. Weight(n)' <= slips'[n] + (IF n \in burnt' THEN 0 ELSE 1)
    <2> HIDE DEF r
    <2> QED BY <1>2, <1>3, <1>4, <1>9, <1>10 DEF Weight
<1> QED BY <1>3, <1>5, <1>9, <1>11 DEF Lasting

\* A request commits.
LEMMA CommitFamilies ==
    ASSUME IdentityAssumption, RowsInv, TokensInv, FamiliesInv, NEW q \in Requests, Commit(q)
    PROVE  FamiliesInv'
PROOF
<1> DEFINE r == req[q]
<1>1. /\ Typed /\ r.at = "commit" /\ r \in Working /\ Course(q)
      /\ req'[q] = Idle /\ Idle.op = "idle" /\ \A p \in Requests \ {q} : req'[p] = req[p]
    BY DEF RowsInv, Typed, Commit, Refused, Idle
<1>2. /\ UNCHANGED <<family, burnt, slips>> /\ db' = (db \cup r.ins) \ r.gone
      /\ marks' = Marked(r.kill, IF r.op = "refresh" THEN "used" ELSE "revoked")
    BY DEF Commit
<1>3. \A t \in Tokens : marks[t] \subseteq marks'[t]
    BY <1>2 DEF Marked
<1>4. CASE r.ins \cap Tokens = {}
    <2>1. db' \cap Tokens \subseteq db
        BY <1>2, <1>4
    <2> QED BY <1>1, <1>2, <1>3, <2>1, QuietFamilies
<1>5. CASE r.ins \cap Tokens # {}
    <2>1. PICK n \in Tokens : n \in r.ins
        BY <1>5
    <2>2. r.op \in {"login", "refresh"} /\ r.ins = {n}
        BY <1>1, <2>1, Tables DEF Course, KindOf
    <2>3. PICK f : f = family[n]
        OBVIOUS
    <2>4. Lasting(f)'
        <3>1. CASE r.op = "refresh"
            BY <2>2, <2>3, <3>1, SucceededFamily
        <3>2. CASE r.op = "login"
            <4>1. family[n] = n /\ Lasting(n)'
                BY <2>2, <3>2, FoundedFamily
            <4> QED BY <2>3, <4>1
        <3> QED BY <2>2, <3>1, <3>2
    <2>5. ASSUME NEW g \in Tokens PROVE Lasting(g)'
        <3>1. CASE g # f
            <4>1. LiveIn(g)' \subseteq LiveIn(g)
                BY <1>2, <1>3, <2>2, <2>3, <3>1 DEF LiveIn, LiveTokens
            <4>2. q \notin Rotating(g)' /\ q \notin Burning(g)'
                BY <1>1 DEF Rotating, Burning, Past
            <4>3. Lasting(g) /\ slips[g] \in Nat /\ slips'[g] = slips[g]
                BY <1>2 DEF FamiliesInv
            <4> QED BY <1>1, <1>2, <4>1, <4>2, <4>3, FamilyRests
        <3> QED BY <2>4, <3>1
    <2> QED BY <1>2, <2>5 DEF FamiliesInv
<1> QED BY <1>4, <1>5

\* A reuse is reported: what works afterwards was added by a refresh that
\* overlapped it.
LEMMA BurnFamilies ==
    ASSUME IdentityAssumption, RowsInv, TokensInv, FamiliesInv, NEW q \in Requests, Burn(q)
    PROVE  FamiliesInv'
PROOF
<1> DEFINE r == req[q]
<1>0. PICK f : f = family[r.row]
    OBVIOUS
<1>1. /\ Typed /\ r.at = "burn" /\ r.op = "refresh" /\ req'[q] = Idle /\ Idle.op = "idle"
      /\ \A p \in Requests \ {q} : req'[p] = req[p]
    BY DEF RowsInv, Typed, Burn, Refused, Idle, Course
<1>2. UNCHANGED <<db, family, slips>> /\ burnt' = burnt \cup {f} /\ marks' = Marked(r.found, "revoked")
    BY <1>0 DEF Burn, rowVars
<1>3. r.row \in Tokens /\ f \in Tokens
    BY <1>0, <1>1 DEF TokensInv, Turn, Typed
<1>4. \A t \in Tokens : marks[t] \subseteq marks'[t]
    BY <1>2 DEF Marked
<1>5. \A g : LiveIn(g)' \subseteq LiveIn(g)
    BY <1>2, <1>4, LiveShrinks
<1>6. LiveIn(f)' \cap r.found = {}
    BY <1>2 DEF LiveIn, LiveTokens, Marked
<1>7. ASSUME NEW g \in Tokens \ {f} PROVE Lasting(g)'
    <2>1. q \notin Rotating(g)' /\ q \notin Burning(g)'
        BY <1>1 DEF Rotating, Burning, Past
    <2>2. Lasting(g) /\ slips[g] \in Nat /\ slips'[g] = slips[g]
        BY <1>2 DEF FamiliesInv
    <2> QED BY <1>1, <1>2, <1>5, <2>1, <2>2, FamilyRests
<1>8. Lasting(f)'
    <2>1. /\ Rotating(f)' = Rotating(f) /\ q \in Burning(f) /\ Burning(f)' = Burning(f) \ {q}
          /\ \A p \in Rotating(f) : req'[p].row = req[p].row
          /\ \A p \in Burning(f)' : req'[p].found = req[p].found
        BY <1>0, <1>1, <1>2 DEF Rotating, Burning, Past
    <2>2. /\ Lasting(f) /\ slips[f] \in Nat /\ slips'[f] = slips[f] /\ IsFiniteSet(LiveIn(f))
        BY <1>2, <1>3 DEF FamiliesInv, Lasting
    <2>3. {req'[p].row : p \in Rotating(f)'} = {req[p].row : p \in Rotating(f)}
        BY <2>1
    <2>4. Spare(f)' \subseteq Spare(f)
        BY <1>5, <2>3 DEF Spare
    <2>5. /\ IsFiniteSet(Spare(f)) /\ IsFiniteSet(Rotating(f))
          /\ Cardinality(Spare(f)) \in Nat /\ Cardinality(Rotating(f)) \in Nat
        BY <1>3, <2>2, WeightTyped
    <2>6. Cardinality(Spare(f)') \in Nat /\ Cardinality(Spare(f)') <= Cardinality(Spare(f))
        BY <2>4, <2>5, NoMore
    <2>7. Weight(f)' <= Weight(f) /\ Weight(f)' \in Nat /\ Weight(f) \in Nat
        BY <2>1, <2>5, <2>6 DEF Weight
    <2>8. IsFiniteSet(LiveIn(f)')
        BY <1>5, <2>2, NoMore
    <2>9. Weight(f)' <= slips'[f]
        <3>1. Weight(f) <= slips[f] \/ (Rotating(f) = {} /\ LiveIn(f) \subseteq r.found)
            BY <2>1, <2>2 DEF Lasting
        <3>2. CASE Weight(f) <= slips[f]
            BY <2>2, <2>7, <3>2
        <3>3. CASE Rotating(f) = {} /\ LiveIn(f) \subseteq r.found
            <4>1. LiveIn(f)' = {} /\ Rotating(f)' = {}
                BY <1>5, <1>6, <2>1, <3>3
            <4>2. Spare(f)' = {}
                BY <4>1 DEF Spare
            <4>3. Weight(f)' = 0
                BY <4>1, <4>2, FS_EmptySet DEF Weight
            <4> QED BY <2>2, <4>3
        <3> QED BY <3>1, <3>2, <3>3
    <2>10. f \in burnt'
        BY <1>2
    <2> HIDE DEF r
    <2> QED BY <2>2, <2>7, <2>8, <2>9, <2>10 DEF Lasting
<1> QED BY <1>2, <1>7, <1>8 DEF FamiliesInv

\* A token is looked up.
LEMMA ReadFamilies ==
    ASSUME IdentityAssumption, RowsInv, TokensInv, FamiliesInv, NEW q \in Requests, ReadToken(q)
    PROVE  FamiliesInv'
PROOF
<1>1. /\ Typed /\ UNCHANGED <<db, marks, family, burnt>> /\ Idle.op = "idle"
    BY DEF RowsInv, ReadToken, rowVars, Idle
<1>2. CASE Refused(q) /\ UNCHANGED slips
    <2>1. req'[q] = Idle /\ \A p \in Requests \ {q} : req'[p] = req[p]
        BY <1>1, <1>2 DEF Refused, Typed
    <2> QED BY <1>1, <1>2, <2>1, QuietFamilies
<1> QED BY <1>2, FoundWorking, FoundUsed DEF ReadToken

\* Every step keeps what families can come to have.
LEMMA FamiliesStep ==
    ASSUME IdentityAssumption, RowsInv, TokensInv, FamiliesInv, [Next]_vars PROVE FamiliesInv'
PROOF
<1> USE DEF memoryVars, rowVars, tokenVars, guardVars, boundVars
<1>1. Typed /\ Idle.op = "idle"
    BY DEF RowsInv, Idle
<1>2. CASE UNCHANGED vars
    BY <1>2, LapseFamilies DEF vars
<1>3. CASE (LockExpires \/ CountExpires \/ TokenExpires) /\ UNCHANGED memoryVars
    <2>1. \A t \in Tokens : marks[t] \subseteq marks'[t]
        BY <1>3 DEF LockExpires, CountExpires, TokenExpires, Marked
    <2> QED BY <1>3, <2>1, LapseFamilies DEF LockExpires, CountExpires, TokenExpires
<1>4. CASE \E q \in Requests :
             \/ OpenChat(q) \/ Say(q) \/ CloseChat(q) \/ Remember(q) \/ Forget(q)
             \/ GoesOn(q)
             \/ (IdentityBegins(q) \/ Rollback(q)) /\ UNCHANGED memoryVars
    <2>1. PICK q \in Requests :
             \/ OpenChat(q) \/ Say(q) \/ CloseChat(q) \/ Remember(q) \/ Forget(q)
             \/ GoesOn(q)
             \/ (IdentityBegins(q) \/ Rollback(q)) /\ UNCHANGED memoryVars
        BY <1>4
    <2> DEFINE r == req[q]
    <2>2. Course(q) /\ Turn(q) /\ r \in Working \cup {Idle}
        BY <1>1 DEF RowsInv, TokensInv, Typed
    <2>3. ASSUME UNCHANGED <<db, marks, family, burnt, slips>>,
                 \A p \in Requests \ {q} : req'[p] = req[p],
                 req'[q].op = "refresh" /\ req'[q].at # "read" =>
                    /\ r.op = "refresh" /\ r.at \in {"mark", "insert", "commit"}
                    /\ req'[q].at # "burn" /\ req'[q].row = r.row
          PROVE  FamiliesInv'
        BY <2>3, QuietFamilies
    <2>4. ASSUME Refused(q), UNCHANGED <<db, marks, family, burnt, slips>> PROVE FamiliesInv'
        <3>1. req'[q] = Idle /\ \A p \in Requests \ {q} : req'[p] = req[p]
            BY <1>1, <2>4 DEF Refused, Typed
        <3> QED BY <1>1, <2>3, <2>4, <3>1
    <2>5. CASE Login(q) \/ CreateUser(q) \/ Remember(q) \/ Logout(q) \/ ChangePassword(q)
               \/ DeleteUser(q) \/ OpenChat(q) \/ Say(q) \/ CloseChat(q) \/ Forget(q) \/ Refresh(q)
        <3>1. \E op, row, at, found :
                  /\ Begin(q, op, row, at, found) /\ UNCHANGED <<db, marks, family, burnt, slips>>
                  /\ op = "refresh" => at = "read"
            BY <2>5 DEF Login, CreateUser, Remember, Logout, ChangePassword, DeleteUser, OpenChat,
                   Say, CloseChat, Forget, Refresh, Elsewhere
        <3>2. PICK op, row, at, found :
                  /\ Begin(q, op, row, at, found) /\ UNCHANGED <<db, marks, family, burnt, slips>>
                  /\ op = "refresh" => at = "read"
            BY <3>1
        <3>3. /\ req'[q].op = op /\ req'[q].at = at
              /\ \A p \in Requests \ {q} : req'[p] = req[p]
            BY <1>1, <3>2, Began
        <3> QED BY <2>3, <3>2, <3>3
    <2>6. CASE CheckLock(q) \/ WrongPassword(q) \/ LockOut(q) \/ RightPassword(q)
               \/ SetPassword(q) \/ Revoke(q) \/ UpsertVector(q) \/ DropVector(q) \/ RemoveChat(q)
               \/ RemoveNote(q) \/ (r.op = "delete" /\ Remove(q, "commit"))
        <3>1. /\ r \in Working /\ UNCHANGED <<db, marks, family, burnt, slips>>
              /\ r.at \in {"check", "verify", "lock", "setpw", "revoke", "upsert", "drop", "remove"}
            BY <1>1, <2>2, <2>6 DEF CheckLock, WrongPassword, LockOut, RightPassword, SetPassword,
                   Revoke, UpsertVector, DropVector, RemoveChat, RemoveNote, Remove, At, Idle
        <3>2. r.op # "refresh"
            BY <2>2, <3>1 DEF Turn
        <3>3. CASE Refused(q)
            BY <2>4, <3>1, <3>3
        <3>4. CASE ~Refused(q)
            <4>1. /\ \A p \in Requests \ {q} : req'[p] = req[p]
                  /\ req'[q].op = r.op
                BY <1>1, <2>6, <3>1, <3>4 DEF CheckLock, WrongPassword, LockOut, RightPassword,
                       SetPassword, Revoke, UpsertVector, DropVector, RemoveChat, RemoveNote,
                       Remove, Go, Typed, Working
            <4> QED BY <2>3, <3>1, <3>2, <4>1
        <3> QED BY <3>3, <3>4
    <2>7. CASE MarkUsed(q)
        <3>1. /\ \A p \in Requests \ {q} : req'[p] = req[p] /\ r \in Working
              /\ req'[q].op = "refresh" /\ req'[q].at = "insert" /\ req'[q].row = r.row
              /\ r.op = "refresh" /\ r.at = "mark" /\ UNCHANGED <<db, marks, family, burnt, slips>>
            BY <1>1, <2>2, <2>7 DEF MarkUsed, At, Typed, Working, Idle
        <3> QED BY <2>3, <3>1
    <2>8. CASE InsertUser(q) \/ InsertChat(q) \/ InsertMessage(q) \/ InsertNote(q)
               \/ IssueFirst(q) \/ Rotate(q)
        <3>1. PICK Kind \in {Users, Chats, Messages, Notes, Tokens}, next \in {"commit", "upsert"} :
                  \E p, f : Insert(q, Kind, p, f, next)
            BY <2>8 DEF InsertUser, InsertChat, InsertMessage, InsertNote, IssueFirst, Rotate
        <3>2. PICK p, f : Insert(q, Kind, p, f, next)
            BY <3>1
        <3> DEFINE n == AnyFresh(Kind)
        <3>3. n \notin born /\ r.at = "insert" /\ r \in Working /\ UNCHANGED <<db, marks, burnt, slips>>
            <4>1. /\ req[q].at = "insert" /\ Kind \ born # {}
                  /\ UNCHANGED <<db, marks, burnt, slips>>
                BY <3>2 DEF Insert, Fresh
            <4>2. n \in Kind \ born
                BY <4>1, Chosen DEF AnyFresh, Fresh
            <4>3. r \in Working
                BY <2>2, <4>1 DEF Idle
            <4> QED BY <4>1, <4>2, <4>3
        <3>4. CASE Refused(q) /\ UNCHANGED <<born, parent, family>>
            BY <2>4, <3>3, <3>4
        <3>5. CASE /\ req' = [req EXCEPT ![q].at = next, ![q].new = n, ![q].ins = @ \cup {n},
                                         ![q].held = @ \cup Needs(q)]
                   /\ family' = IF n \in Tokens THEN [family EXCEPT ![n] = IF f = None THEN n ELSE f]
                                ELSE family
            <4> HIDE DEF n
            <4>1. /\ \A y \in Requests \ {q} : req'[y] = req[y]
                  /\ req'[q].op = r.op /\ req'[q].at = next /\ req'[q].row = r.row
                BY <1>1, <3>3, <3>5 DEF Typed, Working
            <4>2. \A t \in Tokens : t \in born => family'[t] = family[t]
                BY <1>1, <3>3, <3>5 DEF Typed
            <4>3. \A y \in Requests : req[y].op = "refresh" => family'[req[y].row] = family[req[y].row]
                <5>1. \A y \in Requests : req[y].op = "refresh" =>
                          req[y].row \in Tokens /\ req[y].row \in born
                    BY DEF TokensInv, Turn
                <5> QED BY <4>2, <5>1
            <4>4. \A t \in db \cap Tokens : family'[t] = family[t]
                BY <1>1, <4>2 DEF Typed
            <4> QED BY <3>3, <4>1, <4>3, <4>4, QuietFamilies
        <3> QED BY <3>2, <3>4, <3>5 DEF Insert
    <2>9. CASE Rollback(q) \/ DeadlockVictim(q)
        BY <2>4, <2>9 DEF Rollback, DeadlockVictim
    <2> QED BY <2>1, <2>5, <2>6, <2>7, <2>8, <2>9, BurnFamilies, CommitFamilies, ReadFamilies
            DEF GoesOn, IdentityBegins, IdentityGoesOn
<1> QED BY <1>2, <1>3, <1>4 DEF Next

\* Initially there are no families.
LEMMA InitFamilies == ASSUME IdentityAssumption, Init PROVE FamiliesInv
PROOF
<1>1. slips = [t \in Tokens |-> 0] /\ db = {} /\ burnt = {} /\ \A q \in Requests : req[q].op = "idle"
    BY DEF Init, IdentityInit, Idle
<1>2. ASSUME NEW f \in Tokens PROVE Lasting(f)
    <2>1. LiveIn(f) = {} /\ Rotating(f) = {} /\ Burning(f) = {}
        BY <1>1 DEF LiveIn, LiveTokens, Rotating, Burning, Past
    <2>2. Spare(f) = {} /\ IsFiniteSet({}) /\ Cardinality({}) = 0
        BY <2>1, FS_EmptySet DEF Spare
    <2> QED BY <1>1, <2>1, <2>2 DEF Lasting, Weight
<1> QED BY <1>1, <1>2 DEF FamiliesInv

-----------------------------------------------------------------------------
(* Attempts on a password.                                                 *)

\* The requests at one statement are finitely many.
LEMMA AttemptsCounted ==
    ASSUME IdentityAssumption
    PROVE  /\ IsFiniteSet(Requests) /\ IsFiniteSet(Verifying) /\ IsFiniteSet(Locking)
           /\ Cardinality(Requests) \in Nat /\ Cardinality(Verifying) \in Nat
           /\ Cardinality(Locking) \in Nat
           /\ Cardinality(Verifying) + Cardinality(Locking) <= Cardinality(Requests)
PROOF
<1>1. IsFiniteSet(Requests)
    BY DEF IdentityAssumption
<1>2. Verifying \subseteq Requests /\ Locking \subseteq Requests /\ Verifying \cap Locking = {}
    BY DEF Verifying, Locking, At
<1>3. IsFiniteSet(Verifying) /\ IsFiniteSet(Locking)
    BY <1>1, <1>2, FS_Subset
<1>4. Verifying \cup Locking \subseteq Requests
    BY <1>2
<1>5. /\ IsFiniteSet(Verifying \cup Locking)
      /\ Cardinality(Verifying \cup Locking) =
            Cardinality(Verifying) + Cardinality(Locking) - Cardinality(Verifying \cap Locking)
    BY <1>3, FS_Union
<1>6. Cardinality(Verifying \cap Locking) = 0
    BY <1>2, FS_EmptySet
<1>7. Cardinality(Verifying \cup Locking) <= Cardinality(Requests)
    BY <1>1, <1>4, FS_Subset
<1>8. Cardinality(Requests) \in Nat /\ Cardinality(Verifying) \in Nat /\ Cardinality(Locking) \in Nat
    BY <1>1, <1>3, FS_CardinalityType
<1> QED BY <1>1, <1>3, <1>5, <1>6, <1>7, <1>8

\* A step that leaves the counter alone, and no lock unset.
LEMMA GuardKept ==
    ASSUME IdentityAssumption, Typed, GuardInv, UNCHANGED guardVars,
           faults' \in {faults, faults + 1}, Verifying' \subseteq Verifying,
           \/ Locking' = Locking
           \/ faults' = faults + 1 /\ \E q : Locking' = Locking \ {q}
    PROVE  GuardInv'
PROOF
<1>1. /\ Cardinality(Verifying') \in Nat /\ Cardinality(Verifying) \in Nat
      /\ Cardinality(Verifying') <= Cardinality(Verifying)
    BY AttemptsCounted, FS_Subset, FS_CardinalityType
<1>2. Cardinality(Locking) \in Nat /\ Cardinality(Requests) \in Nat /\ IsFiniteSet(Locking)
    BY AttemptsCounted
<1>3. /\ Cardinality(Locking') \in Nat
      /\ Cardinality(Locking) + faults <= Cardinality(Locking') + faults'
    <2>1. faults \in Nat
        BY DEF Typed, IdentityAssumption
    <2>2. CASE Locking' = Locking
        BY <1>2, <2>1, <2>2
    <2>3. CASE faults' = faults + 1 /\ \E q : Locking' = Locking \ {q}
        <3>1. PICK q : Locking' = Locking \ {q}
            BY <2>3
        <3>2. /\ IsFiniteSet(Locking \ {q})
              /\ Cardinality(Locking \ {q}) =
                    IF q \in Locking THEN Cardinality(Locking) - 1 ELSE Cardinality(Locking)
            BY <1>2, FS_RemoveElement
        <3>3. Cardinality(Locking') \in Nat
            BY <3>1, <3>2, FS_CardinalityType
        <3>4. Cardinality(Locking') \in {Cardinality(Locking) - 1, Cardinality(Locking)}
            BY <3>1, <3>2
        <3>5. faults' = faults + 1
            BY <2>3
        <3> HIDE DEF Locking
        <3> QED BY <1>2, <2>1, <3>3, <3>4, <3>5
    <2> QED BY <2>2, <2>3
<1>4. /\ guard' = guard /\ tries' = tries /\ faults \in Nat /\ faults' \in Nat /\ faults <= faults'
      /\ guard.fails \in Nat /\ guard.locked \in BOOLEAN /\ tries \in Nat /\ Threshold \in Nat
    BY DEF guardVars, Typed, IdentityAssumption
<1> QED BY <1>1, <1>2, <1>3, <1>4 DEF GuardInv

\* What else a request does is none of the counter's business.
LEMMA OutsideGuard ==
    ASSUME IdentityAssumption, Typed, GuardInv, NEW q \in Requests, UNCHANGED <<guardVars, faults>>,
           \A p \in Requests \ {q} : req'[p] = req[p], ~At(q, "login", "lock"),
           req'[q].op # "login" \/ req'[q].at \notin {"verify", "lock"}
    PROVE  GuardInv'
PROOF
<1>1. Verifying' \subseteq Verifying /\ Locking' = Locking
    BY DEF Verifying, Locking, At
<1> QED BY <1>1, GuardKept

\* An attempt is checked, and counted: the counter keeps up with the attempts.
LEMMA AttemptSteps ==
    ASSUME IdentityAssumption, Typed, GuardInv, NEW q \in Requests,
           CheckLock(q) \/ WrongPassword(q) \/ LockOut(q) \/ RightPassword(q)
    PROVE  GuardInv'
PROOF
<1> DEFINE r == req[q]
           V == Cardinality(Verifying)
           L == Cardinality(Locking)
           R == Cardinality(Requests)
<1>1. /\ IsFiniteSet(Verifying) /\ IsFiniteSet(Locking)
      /\ V \in Nat /\ L \in Nat /\ R \in Nat /\ V + L <= R
    BY AttemptsCounted
<1>2. /\ guard.fails \in Nat /\ guard.locked \in BOOLEAN /\ tries \in Nat /\ faults \in Nat
      /\ Threshold \in Nat \ {0} /\ guard \in [fails : Nat, locked : BOOLEAN] /\ faults' = faults
    BY DEF Typed, IdentityAssumption, CheckLock, WrongPassword, LockOut, RightPassword, boundVars
<1>3. /\ r \in Working /\ r.op = "login" /\ Idle.op = "idle"
    BY DEF Typed, Idle, CheckLock, WrongPassword, LockOut, RightPassword, At
<1>4. /\ ~guard.locked => tries <= guard.fails
      /\ guard.fails <= Threshold - 1 + L + faults
      /\ tries + (IF guard.locked THEN V ELSE 0) <= Threshold - 1 + R + faults
    BY DEF GuardInv
<1>5. ASSUME NEW x, req' = [req EXCEPT ![q] = x]
      PROVE  req'[q] = x /\ \A p \in Requests \ {q} : req'[p] = req[p]
    BY <1>5 DEF Typed
<1>6. \A at : Go(q, at) => /\ req'[q].op = "login" /\ req'[q].at = at
                           /\ \A p \in Requests \ {q} : req'[p] = req[p]
    BY <1>3 DEF Go, Typed, Working
<1>7. Refused(q) => req'[q].op = "idle" /\ \A p \in Requests \ {q} : req'[p] = req[p]
    BY <1>3 DEF Refused, Typed
<1>8. Cardinality(Locking') \in Nat /\ Cardinality(Verifying') \in Nat
    <2>1. Locking' \subseteq Requests /\ Verifying' \subseteq Requests /\ IsFiniteSet(Requests)
        BY DEF Locking, Verifying, IdentityAssumption
    <2>2. IsFiniteSet(Locking') /\ IsFiniteSet(Verifying')
        BY <2>1, FS_Subset
    <2> QED BY <2>2, FS_CardinalityType
<1>9. CASE CheckLock(q)
    <2>1. r.at = "check" /\ UNCHANGED guardVars
        BY <1>9 DEF CheckLock, At
    <2>2. CASE Refused(q)
        BY <1>2, <1>7, <2>1, <2>2, OutsideGuard DEF At, boundVars, guardVars
    <2>3. CASE ~guard.locked /\ Go(q, "verify")
        <3>1. Locking' = Locking
            BY <1>6, <2>1, <2>3 DEF Locking, At
        <3>2. guard' = guard /\ tries' = tries
            BY <2>1 DEF guardVars
        <3> QED BY <1>2, <1>4, <1>1, <2>3, <3>1, <3>2 DEF GuardInv
    <2> QED BY <1>9, <2>2, <2>3 DEF CheckLock
<1>10. CASE WrongPassword(q)
    <2>1. /\ r.at = "verify" /\ tries' = tries + 1 /\ guard' = [guard EXCEPT !.fails = @ + 1]
          /\ IF guard.fails + 1 >= Threshold THEN Go(q, "lock") ELSE Refused(q)
        BY <1>10 DEF WrongPassword, At, Tripped
    <2>2. guard'.fails = guard.fails + 1 /\ guard'.locked = guard.locked
        BY <1>2, <2>1
    <2>3. q \in Verifying /\ q \notin Locking /\ Verifying' = Verifying \ {q}
        BY <1>3, <1>6, <1>7, <2>1 DEF Verifying, Locking, At
    <2>4. Cardinality(Verifying') = V - 1
        BY <1>1, <2>3, FS_RemoveElement
    <2>5. /\ L <= R - 1
          /\ guard'.locked => tries' + Cardinality(Verifying') <= Threshold - 1 + R + faults
        BY <1>1, <1>2, <1>4, <1>8, <2>1, <2>2, <2>4
    <2>6. guard'.fails <= Threshold - 1 + Cardinality(Locking') + faults
        <3>1. CASE guard.fails + 1 >= Threshold /\ Go(q, "lock")
            <4>1. Locking' = Locking \cup {q}
                BY <1>3, <1>6, <3>1 DEF Locking, At
            <4>2. Cardinality(Locking') = L + 1
                BY <1>1, <2>3, <4>1, FS_AddElement
            <4> HIDE DEF L
            <4> QED BY <1>1, <1>2, <1>4, <2>2, <4>2
        <3>2. CASE guard.fails + 1 < Threshold
            BY <1>2, <1>8, <2>2, <3>2
        <3> QED BY <1>2, <2>1, <3>1, <3>2
    <2>7. ~guard'.locked => tries' <= guard'.fails
        BY <1>2, <1>4, <2>1, <2>2
    <2>8. ~guard'.locked => tries' <= Threshold - 1 + R + faults
        <3> HIDE DEF L, R
        <3> QED BY <1>1, <1>2, <1>4, <2>1, <2>2, <2>5
    <2>9. tries' \in Nat /\ guard'.locked \in BOOLEAN
        BY <1>2, <2>1, <2>2
    <2> QED BY <1>2, <2>5, <2>6, <2>7, <2>8, <2>9 DEF GuardInv
<1>11. CASE LockOut(q)
    <2>1. r.at = "lock" /\ guard' = [fails |-> 0, locked |-> TRUE] /\ tries' = tries /\ Refused(q)
        BY <1>11 DEF LockOut, At
    <2>2. guard'.fails = 0 /\ guard'.locked
        BY <2>1
    <2>3. Verifying' = Verifying
        BY <1>7, <2>1 DEF Verifying, At
    <2>4. tries + V <= Threshold - 1 + R + faults
        <3> HIDE DEF V, L, R
        <3> QED BY <1>1, <1>2, <1>4
    <2>5. 0 <= Threshold - 1 + Cardinality(Locking') + faults
        BY <1>2, <1>8
    <2> QED BY <1>2, <2>1, <2>2, <2>3, <2>4, <2>5 DEF GuardInv
<1>12. CASE RightPassword(q)
    <2>1. guard' = [fails |-> 0, locked |-> FALSE] /\ tries' = 0
        BY <1>12 DEF RightPassword
    <2>2. guard'.fails = 0 /\ guard'.locked = FALSE
        BY <2>1
    <2>3. 0 <= Threshold - 1 + Cardinality(Locking') + faults /\ 0 <= Threshold - 1 + R + faults
        BY <1>1, <1>2, <1>8
    <2> QED BY <1>1, <1>2, <2>1, <2>2, <2>3 DEF GuardInv
<1> QED BY <1>9, <1>10, <1>11, <1>12

\* Every step keeps the attempts counted.
LEMMA GuardStep ==
    ASSUME IdentityAssumption, RowsInv, GuardInv, [Next]_vars PROVE GuardInv'
PROOF
<1> USE DEF memoryVars, rowVars, tokenVars, boundVars
<1>1. Typed /\ Idle.op = "idle"
    BY DEF RowsInv, Idle
<1>2. CASE UNCHANGED vars
    <2>1. UNCHANGED <<req, guardVars, faults>>
        BY <1>2 DEF vars
    <2> QED BY <1>1, <2>1, GuardKept DEF Verifying, Locking, At
<1>3. CASE (LockExpires \/ CountExpires \/ TokenExpires) /\ UNCHANGED memoryVars
    <2>1. UNCHANGED <<req, faults>>
        BY <1>3 DEF LockExpires, CountExpires, TokenExpires
    <2>2. Verifying' = Verifying /\ Locking' = Locking
        BY <2>1 DEF Verifying, Locking, At
    <2>3. CASE TokenExpires
        BY <1>1, <2>1, <2>2, <2>3, GuardKept DEF TokenExpires
    <2>4. /\ guard \in [fails : Nat, locked : BOOLEAN] /\ faults \in Nat /\ Threshold \in Nat \ {0}
          /\ guard.fails \in Nat /\ guard.locked \in BOOLEAN
          /\ Cardinality(Verifying) \in Nat /\ Cardinality(Locking) \in Nat
          /\ Cardinality(Requests) \in Nat /\ Cardinality(Verifying) <= Cardinality(Requests)
        BY <1>1, AttemptsCounted DEF Typed, IdentityAssumption
    <2>5. /\ guard.fails <= Threshold - 1 + Cardinality(Locking) + faults
          /\ 0 <= Threshold - 1 + Cardinality(Locking) + faults
          /\ Cardinality(Verifying) <= Threshold - 1 + Cardinality(Requests) + faults
          /\ 0 <= Threshold - 1 + Cardinality(Requests) + faults
        BY <2>4 DEF GuardInv
    <2>6. CASE LockExpires
        <3>1. guard'.fails = guard.fails /\ guard'.locked = FALSE /\ tries' = 0
            BY <2>4, <2>6 DEF LockExpires
        <3> HIDE DEF Verifying, Locking
        <3> QED BY <2>1, <2>2, <2>4, <2>5, <3>1 DEF GuardInv
    <2>7. CASE CountExpires
        <3>1. guard'.fails = 0 /\ guard'.locked = guard.locked /\ tries' = 0
            BY <2>4, <2>7 DEF CountExpires
        <3> QED BY <2>1, <2>2, <2>4, <2>5, <3>1 DEF GuardInv
    <2> QED BY <1>3, <2>3, <2>6, <2>7
<1>4. CASE \E q \in Requests :
             \/ OpenChat(q) \/ Say(q) \/ CloseChat(q) \/ Remember(q) \/ Forget(q)
             \/ GoesOn(q)
             \/ (IdentityBegins(q) \/ Rollback(q)) /\ UNCHANGED memoryVars
    <2>1. PICK q \in Requests :
             \/ OpenChat(q) \/ Say(q) \/ CloseChat(q) \/ Remember(q) \/ Forget(q)
             \/ GoesOn(q)
             \/ (IdentityBegins(q) \/ Rollback(q)) /\ UNCHANGED memoryVars
        BY <1>4
    <2> DEFINE r == req[q]
    <2>2. r \in Working \cup {Idle} /\ Course(q)
        BY <1>1 DEF RowsInv, Typed
    <2>3. CASE CheckLock(q) \/ WrongPassword(q) \/ LockOut(q) \/ RightPassword(q)
        BY <1>1, <2>3, AttemptSteps
    <2>4. CASE Rollback(q)
        <3>1. req'[q] = Idle /\ \A p \in Requests \ {q} : req'[p] = req[p]
            BY <1>1, <2>4 DEF Rollback, Refused, Typed
        <3>2. Verifying' \subseteq Verifying /\ Locking' = Locking \ {q}
            BY <1>1, <3>1 DEF Verifying, Locking, At
        <3>3. faults' = faults + 1 /\ UNCHANGED guardVars
            BY <2>4 DEF Rollback
        <3> QED BY <1>1, <3>2, <3>3, GuardKept
    <2>5. CASE IdentityBegins(q) \/ OpenChat(q) \/ Say(q) \/ CloseChat(q) \/ Remember(q) \/ Forget(q)
        <3>1. PICK at \in {"check", "read", "revoke", "setpw", "insert", "remove"} :
                \E op, row, found : Begin(q, op, row, at, found) /\ UNCHANGED <<guardVars, faults>>
            BY <2>5 DEF IdentityBegins, Login, Refresh, Logout, ChangePassword, CreateUser, DeleteUser,
                        OpenChat, Say, CloseChat, Remember, Forget, Elsewhere
        <3>2. PICK op, row, found : Begin(q, op, row, at, found) /\ UNCHANGED <<guardVars, faults>>
            BY <3>1
        <3>3. /\ req'[q].at = at /\ req[q] = Idle
              /\ \A p \in Requests \ {q} : req'[p] = req[p]
            BY <1>1, <3>2, Began
        <3> QED BY <1>1, <3>1, <3>2, <3>3, OutsideGuard DEF At
    <2>6. ASSUME Refused(q), ~At(q, "login", "lock"), UNCHANGED <<guardVars, faults>> PROVE GuardInv'
        <3>1. req'[q] = Idle /\ \A p \in Requests \ {q} : req'[p] = req[p]
            BY <1>1, <2>6 DEF Refused, Typed
        <3> QED BY <1>1, <2>6, <3>1, OutsideGuard
    <2>7. CASE DeadlockVictim(q)
        <3>1. Needs(q) # {}
            BY <2>7 DEF DeadlockVictim, WaitsFor
        <3>2. r.at # "lock"
            BY <3>1 DEF Needs
        <3> QED BY <2>6, <2>7, <3>2 DEF DeadlockVictim, At
    <2>8. CASE Commit(q) \/ Burn(q)
        BY <2>6, <2>8 DEF Commit, Burn, At
    <2>9. ASSUME NEW Kind, NEW p, NEW f, NEW next, Insert(q, Kind, p, f, next), next \in {"commit", "upsert"}
           PROVE  GuardInv'
        <3>1. r.at = "insert" /\ UNCHANGED <<guardVars, faults>>
            BY <2>9 DEF Insert
        <3>2. CASE Refused(q)
            BY <2>6, <3>1, <3>2 DEF At
        <3>3. CASE \E n : req' = [req EXCEPT ![q].at = next, ![q].new = n, ![q].ins = @ \cup {n},
                                        ![q].held = @ \cup Needs(q)]
            <4>1. PICK n : req' = [req EXCEPT ![q].at = next, ![q].new = n, ![q].ins = @ \cup {n},
                                        ![q].held = @ \cup Needs(q)]
                BY <3>3
            <4>2. r \in Working
                BY <2>2, <3>1 DEF Idle
            <4>3. /\ \A y \in Requests \ {q} : req'[y] = req[y]
                  /\ req'[q].at = next
                BY <1>1, <4>1, <4>2 DEF Typed, Working
            <4> QED BY <1>1, <2>9, <3>1, <4>3, OutsideGuard DEF At
        <3> QED BY <2>9, <3>2, <3>3 DEF Insert
    <2>10. CASE IssueFirst(q) \/ Rotate(q) \/ InsertUser(q) \/ InsertChat(q) \/ InsertMessage(q)
                \/ InsertNote(q)
        BY <2>9, <2>10 DEF IssueFirst, Rotate, InsertUser, InsertChat, InsertMessage, InsertNote
    <2>11. CASE ReadToken(q) \/ MarkUsed(q) \/ SetPassword(q) \/ Revoke(q) \/ UpsertVector(q)
                \/ DropVector(q) \/ RemoveChat(q) \/ RemoveNote(q) \/ (r.op = "delete" /\ Remove(q, "commit"))
        <3>1. /\ r.at \in {"read", "mark", "setpw", "revoke", "upsert", "drop", "remove"}
              /\ r \in Working /\ UNCHANGED <<guardVars, faults>>
            BY <2>2, <2>11 DEF ReadToken, MarkUsed, SetPassword, Revoke, UpsertVector, DropVector,
                   RemoveChat, RemoveNote, Remove, At, Idle
        <3>2. CASE Refused(q)
            BY <2>6, <3>1, <3>2 DEF At
        <3>3. CASE ~Refused(q)
            <4>1. /\ \A p \in Requests \ {q} : req'[p] = req[p]
                  /\ req'[q].at \in {"mark", "burn", "insert", "revoke", "remove", "commit", "drop"}
                BY <1>1, <2>11, <3>1, <3>3 DEF ReadToken, MarkUsed, SetPassword, Revoke, UpsertVector,
                   DropVector, RemoveChat, RemoveNote, Remove, Go, Typed, Working
            <4> QED BY <1>1, <3>1, <4>1, OutsideGuard DEF At
        <3> QED BY <3>2, <3>3
    <2> QED BY <2>1, <2>3, <2>4, <2>5, <2>7, <2>8, <2>10, <2>11 DEF GoesOn, IdentityGoesOn
<1> QED BY <1>2, <1>3, <1>4 DEF Next

\* Initially nobody has tried.
LEMMA InitGuard == ASSUME IdentityAssumption, Init PROVE GuardInv
PROOF
<1>1. /\ guard = [fails |-> 0, locked |-> FALSE] /\ tries = 0 /\ faults = 0
      /\ Threshold \in Nat \ {0}
    BY DEF Init, IdentityInit, IdentityAssumption
<1>2. Cardinality(Requests) \in Nat /\ Cardinality(Locking) \in Nat
    BY AttemptsCounted
<1> QED BY <1>1, <1>2 DEF GuardInv

-----------------------------------------------------------------------------
(* Memories.                                                               *)

\* A step that leaves both stores alone, and brings no request to the commit of
\* a memory.
LEMMA NotesKept ==
    ASSUME NotesInv, NEW q \in Requests, UNCHANGED <<db, vectors, asked, forgotten>>,
           born \subseteq born', \A p \in Requests \ {q} : req'[p] = req[p],
           req'[q].ins \cap asked = {},
           req'[q].op \in {"remember", "forget"} => req'[q].at # "commit"
    PROVE  NotesInv'
PROOF
    BY DEF NotesInv, MemoryInStep, At

\* What is committed to the table of memories was written to Qdrant before, and
\* what is removed from it was dropped there.
LEMMA CommitNotes ==
    ASSUME IdentityAssumption, RowsInv, NotesInv, NEW q \in Requests, Commit(q),
           UNCHANGED <<vectors, asked>>, forgotten' = forgotten \cup ((db \ db') \cap Notes)
    PROVE  NotesInv'
PROOF
<1> DEFINE r == req[q]
<1>1. /\ Typed /\ Course(q) /\ r.at = "commit" /\ Idle.op = "idle" /\ Idle.ins = {}
      /\ req'[q] = Idle /\ \A p \in Requests \ {q} : req'[p] = req[p]
      /\ db' = (db \cup r.ins) \ r.gone /\ born' = born
    BY DEF RowsInv, Typed, Commit, Refused, Idle
<1>2. r.ins \cap Notes \subseteq vectors
    <2>1. r.op = "remember" => r.ins \subseteq vectors
        BY <1>1 DEF NotesInv, At
    <2>2. r.op # "remember" => r.ins \cap Notes = {}
        BY <1>1, Tables DEF Course, KindOf
    <2> QED BY <2>1, <2>2
<1>3. r.ins \cap asked = {}
    BY DEF NotesInv
<1>4. \A n \in r.gone \cap Notes : n \in asked /\ n \notin vectors
    BY <1>1 DEF Course, NotesInv, At
<1>5. (db \ db') \cap Notes \subseteq r.gone \cap Notes
    BY <1>1
<1>6. MemoryInStep'
    <2>1. db' \cap Notes \subseteq vectors' \cup asked'
        BY <1>1, <1>2 DEF NotesInv, MemoryInStep
    <2>2. forgotten' \cap (db' \cup vectors') = {}
        BY <1>1, <1>3, <1>4, <1>5 DEF NotesInv, MemoryInStep
    <2> QED BY <2>1, <2>2 DEF MemoryInStep
<1>7. asked' \subseteq born' /\ forgotten' \subseteq asked'
    BY <1>1, <1>4, <1>5 DEF NotesInv
<1>8. \A p \in Requests : /\ req'[p].ins \cap asked' = {}
                          /\ At(p, "remember", "commit")' => req'[p].ins \subseteq vectors'
                          /\ At(p, "forget", "commit")' => req'[p].row \notin vectors'
    BY <1>1 DEF NotesInv, At
<1> QED BY <1>6, <1>7, <1>8 DEF NotesInv

\* A point is written before the row is committed, and dropped before it is gone.
LEMMA PointsNotes ==
    ASSUME IdentityAssumption, RowsInv, NotesInv, NEW q \in Requests, UpsertVector(q) \/ DropVector(q)
    PROVE  NotesInv'
PROOF
<1> DEFINE r == req[q]
<1>1. /\ Typed /\ Course(q) /\ UNCHANGED <<db, born, asked, forgotten>> /\ Go(q, "commit")
      /\ r \in Working /\ r.at \in {"upsert", "drop"}
    BY DEF RowsInv, Typed, UpsertVector, DropVector, At, Idle, rowVars
<1>2. /\ req'[q].op = r.op /\ req'[q].at = "commit" /\ req'[q].ins = r.ins /\ req'[q].row = r.row
      /\ \A p \in Requests \ {q} : req'[p] = req[p]
    BY <1>1 DEF Go, Typed, Working
<1>3. \A p \in Requests : Course(p)
    BY DEF RowsInv
<1>4. CASE UpsertVector(q)
    <2>1. r.op = "remember" /\ r.new \in r.ins /\ r.ins \subseteq {r.new} /\ vectors' = vectors \cup {r.new}
        BY <1>1, <1>4 DEF UpsertVector, At, Course
    <2>2. r.new \notin asked /\ r.new \notin forgotten
        BY <2>1 DEF NotesInv
    <2>3. MemoryInStep'
        BY <1>1, <2>1, <2>2 DEF NotesInv, MemoryInStep
    <2>4. \A p \in Requests : At(p, "forget", "commit")' => req'[p].row \notin vectors'
        BY <1>2, <1>3, <2>1, <2>2 DEF NotesInv, At, Course
    <2>5. \A p \in Requests : /\ req'[p].ins \cap asked' = {}
                              /\ At(p, "remember", "commit")' => req'[p].ins \subseteq vectors'
        BY <1>1, <1>2, <2>1 DEF NotesInv, At
    <2> QED BY <1>1, <2>3, <2>4, <2>5 DEF NotesInv
<1>5. CASE DropVector(q)
    <2>1. r.op = "forget" /\ r.row \in asked /\ vectors' = vectors \ {r.row}
        BY <1>1, <1>5 DEF DropVector, At, Course
    <2>2. MemoryInStep'
        BY <1>1, <2>1 DEF NotesInv, MemoryInStep
    <2>3. \A p \in Requests : At(p, "forget", "commit")' => req'[p].row \notin vectors'
        BY <1>2, <2>1 DEF NotesInv, At
    <2>4. \A p \in Requests : /\ req'[p].ins \cap asked' = {}
                              /\ At(p, "remember", "commit")' => req'[p].ins \subseteq vectors'
        BY <1>1, <1>2, <2>1 DEF NotesInv, At
    <2> QED BY <1>1, <2>2, <2>3, <2>4 DEF NotesInv
<1> QED BY <1>4, <1>5

\* Every step keeps the two stores in step.
LEMMA NotesStep ==
    ASSUME IdentityAssumption, RowsInv, NotesInv, [Next]_vars PROVE NotesInv'
PROOF
<1> USE DEF memoryVars, rowVars
<1>1. Typed /\ Idle.op = "idle" /\ Idle.ins = {}
    BY DEF RowsInv, Idle
<1>2. CASE UNCHANGED vars
    BY <1>2 DEF vars, NotesInv, MemoryInStep, At
<1>3. CASE (LockExpires \/ CountExpires \/ TokenExpires) /\ UNCHANGED memoryVars
    <2>1. UNCHANGED <<db, born, req, vectors, asked, forgotten>>
        BY <1>3 DEF LockExpires, CountExpires, TokenExpires
    <2> QED BY <2>1 DEF NotesInv, MemoryInStep, At
<1>4. CASE \E q \in Requests :
             \/ OpenChat(q) \/ Say(q) \/ CloseChat(q) \/ Remember(q) \/ Forget(q)
             \/ GoesOn(q)
             \/ (IdentityBegins(q) \/ Rollback(q)) /\ UNCHANGED memoryVars
    <2>1. PICK q \in Requests :
             \/ OpenChat(q) \/ Say(q) \/ CloseChat(q) \/ Remember(q) \/ Forget(q)
             \/ GoesOn(q)
             \/ (IdentityBegins(q) \/ Rollback(q)) /\ UNCHANGED memoryVars
        BY <1>4
    <2> DEFINE r == req[q]
    <2>2. r \in Working \cup {Idle} /\ Course(q) /\ r.ins \cap asked = {} /\ asked \subseteq born
        BY <1>1 DEF RowsInv, Typed, NotesInv
    <2>3. CASE \/ OpenChat(q) \/ Say(q) \/ CloseChat(q) \/ Remember(q)
               \/ IdentityBegins(q) /\ UNCHANGED memoryVars
        <3>1. PICK at \in {"check", "read", "revoke", "setpw", "insert", "remove"} :
                \E op, row, found : Begin(q, op, row, at, found) /\ UNCHANGED <<db, born, memoryVars>>
            BY <2>3 DEF IdentityBegins, Login, Refresh, Logout, ChangePassword, CreateUser, DeleteUser,
                        OpenChat, Say, CloseChat, Remember, Elsewhere
        <3>2. PICK op, row, found : Begin(q, op, row, at, found) /\ UNCHANGED <<db, born, memoryVars>>
            BY <3>1
        <3>3. /\ req'[q].at = at /\ req'[q].ins = {}
              /\ \A p \in Requests \ {q} : req'[p] = req[p]
            BY <1>1, <3>2, Began
        <3> QED BY <3>1, <3>2, <3>3, NotesKept
    <2>4. CASE Forget(q)
        <3>1. PICK n \in db \cap Notes : /\ Begin(q, "forget", n, "remove", {}) /\ asked' = asked \cup {n}
                                         /\ UNCHANGED <<db, born, vectors, forgotten>>
            BY <2>4 DEF Forget, Elsewhere
        <3>2. /\ req'[q].op = "forget" /\ req'[q].at = "remove" /\ req'[q].ins = {}
              /\ \A p \in Requests \ {q} : req'[p] = req[p]
            BY <1>1, <3>1, Began
        <3>3. n \in born /\ \A p \in Requests : n \notin req[p].ins
            BY <1>1 DEF RowsInv, Typed, Course
        <3> QED BY <3>1, <3>2, <3>3 DEF NotesInv, MemoryInStep, At
    <2>5. ASSUME Refused(q), UNCHANGED <<db, born, memoryVars>> PROVE NotesInv'
        <3>1. req'[q] = Idle /\ \A p \in Requests \ {q} : req'[p] = req[p]
            BY <1>1, <2>5 DEF Refused, Typed
        <3> QED BY <1>1, <2>5, <3>1, NotesKept
    <2>6. CASE (Rollback(q) \/ DeadlockVictim(q) \/ LockOut(q) \/ Burn(q)) /\ UNCHANGED memoryVars
        BY <2>5, <2>6 DEF Rollback, DeadlockVictim, LockOut, Burn
    <2>7. ASSUME NEW Kind, NEW p, NEW f, NEW next \in {"commit", "upsert"}, Insert(q, Kind, p, f, next),
                 UNCHANGED memoryVars, r.op = "remember" => next = "upsert", r.op # "forget"
          PROVE  NotesInv'
        <3>1. r.at = "insert" /\ db' = db /\ Fresh(Kind) # {}
            BY <2>7 DEF Insert
        <3>2. CASE Refused(q) /\ born' = born
            BY <2>5, <2>7, <3>1, <3>2
        <3>3. CASE \E n \in Fresh(Kind) :
                      /\ req' = [req EXCEPT ![q].at = next, ![q].new = n, ![q].ins = @ \cup {n},
                                            ![q].held = @ \cup Needs(q)]
                      /\ born' = born \cup {n}
            <4>1. PICK n \in Fresh(Kind) :
                      /\ req' = [req EXCEPT ![q].at = next, ![q].new = n, ![q].ins = @ \cup {n},
                                            ![q].held = @ \cup Needs(q)]
                      /\ born' = born \cup {n}
                BY <3>3
            <4>2. r \in Working /\ n \notin born
                BY <2>2, <3>1 DEF Idle, Fresh
            <4>3. /\ \A y \in Requests \ {q} : req'[y] = req[y]
                  /\ req'[q] = [r EXCEPT !.at = next, !.new = n, !.ins = @ \cup {n},
                                         !.held = @ \cup Needs(q)]
                BY <1>1, <4>1 DEF Typed
            <4>4. req'[q].at = next /\ req'[q].op = r.op
                BY <4>2, <4>3 DEF Working
            <4>5. req'[q].ins = r.ins \cup {n}
                BY <4>2, <4>3 DEF Working
            <4>6. req'[q].ins \cap asked = {} /\ born \subseteq born'
                BY <2>2, <4>1, <4>2, <4>5
            <4> QED BY <2>7, <3>1, <4>3, <4>4, <4>6, NotesKept
        <3>4. AnyFresh(Kind) \in Fresh(Kind)
            BY <3>1, Chosen DEF AnyFresh
        <3> QED BY <2>7, <3>2, <3>3, <3>4 DEF Insert
    <2>8. CASE \/ InsertChat(q) \/ InsertMessage(q) \/ InsertNote(q)
               \/ (IssueFirst(q) \/ Rotate(q) \/ InsertUser(q)) /\ UNCHANGED memoryVars
        BY <2>7, <2>8 DEF IssueFirst, Rotate, InsertUser, InsertChat, InsertMessage, InsertNote
    <2>9. CASE \/ RemoveChat(q) \/ RemoveNote(q)
               \/ /\ UNCHANGED memoryVars
                  /\ \/ CheckLock(q) \/ WrongPassword(q) \/ RightPassword(q) \/ ReadToken(q) \/ MarkUsed(q)
                     \/ SetPassword(q) \/ Revoke(q) \/ (r.op = "delete" /\ Remove(q, "commit"))
        <3>1. r \in Working /\ UNCHANGED <<db, born, memoryVars>>
            BY <2>2, <2>9, SMTT(60)
               DEF CheckLock, WrongPassword, RightPassword, ReadToken, MarkUsed, SetPassword,
                   Revoke, RemoveChat, RemoveNote, Remove, At, Idle
        <3>2. CASE Refused(q)
            BY <2>5, <3>1, <3>2
        <3>3. CASE ~Refused(q)
            <4>1. /\ \A p \in Requests \ {q} : req'[p] = req[p]
                  /\ req'[q].op = r.op /\ req'[q].ins = r.ins
                BY <1>1, <2>9, <3>1, <3>3 DEF CheckLock, WrongPassword, RightPassword, ReadToken, MarkUsed,
                   SetPassword, Revoke, RemoveChat, RemoveNote, Remove, Go, Typed, Working
            <4>2. r.op \in {"remember", "forget"} => RemoveNote(q)
                BY <2>2, <2>9 DEF CheckLock, WrongPassword, RightPassword, ReadToken, MarkUsed,
                   SetPassword, Revoke, RemoveChat, At, Course
            <4>3. RemoveNote(q) => req'[q].at = "drop"
                BY <1>1, <3>1 DEF RemoveNote, Typed, Working
            <4> QED BY <2>2, <3>1, <4>1, <4>2, <4>3, NotesKept
        <3> QED BY <3>2, <3>3
    <2>10. CASE IdentityGoesOn(q) /\ ~Commit(q) /\ forgotten' = forgotten \cup ((db \ db') \cap Notes)
                /\ UNCHANGED <<vectors, asked>>
        <3>1. db' = db
            BY <2>10 DEF IdentityGoesOn, CheckLock, WrongPassword, LockOut, RightPassword, IssueFirst,
                   ReadToken, Burn, MarkUsed, Rotate, SetPassword, Revoke, InsertUser, Remove,
                   DeadlockVictim, Insert
        <3>2. UNCHANGED memoryVars
            BY <2>10, <3>1
        <3> QED BY <2>6, <2>8, <2>9, <2>10, <3>2 DEF IdentityGoesOn
    <2> QED BY <2>1, <2>3, <2>4, <2>6, <2>8, <2>9, <2>10, PointsNotes, CommitNotes DEF GoesOn
<1> QED BY <1>2, <1>3, <1>4 DEF Next

-----------------------------------------------------------------------------
(* The theorems.                                                           *)

AccountsInv == RowsInv /\ TokensInv /\ FamiliesInv /\ GuardInv /\ NotesInv

\* What requests know of rows, families, attempts and memories holds in every
\* state (Accounts.Spec), whatever they overlap with and wherever they fail.
THEOREM AccountsInvariant == ASSUME IdentityAssumption PROVE Spec => []AccountsInv
PROOF
<1>1. Init => AccountsInv
    <2>1. Init => NotesInv
        BY DEF Init, IdentityInit, NotesInv, MemoryInStep, Idle, At
    <2> QED BY <2>1, InitRows, InitTokens, InitFamilies, InitGuard DEF AccountsInv
<1>2. AccountsInv /\ [Next]_vars => AccountsInv'
    BY RowsStep, TokensStep, FamiliesStep, GuardStep, NotesStep DEF AccountsInv
<1> QED BY <1>1, <1>2, PTL DEF Spec

\* The variables are of their types, and a committed row hangs on a committed
\* row, though rows are deleted with all below them while others are inserted
\* under them (the foreign keys of the schema, with ON DELETE CASCADE).
THEOREM RowsHang == ASSUME IdentityAssumption PROVE Spec => []TypeOK
PROOF
<1>1. AccountsInv => TypeOK
    <2>1. AccountsInv => /\ burnt \subseteq Tokens /\ slips \in [Tokens -> Nat]
                         /\ \A r \in db : parent[r] \in db \cup {None}
        BY DEF AccountsInv, TokensInv, FamiliesInv, RowsInv, Hanging
    <2> QED BY <2>1 DEF AccountsInv, RowsInv, Typed, TypeOK
<1> QED BY <1>1, AccountsInvariant, PTL

\* However logouts, new passwords, replays and refreshes of a family overlap, at
\* most one token of it works, none once a reuse was reported in it, and one
\* more for each refresh that overlapped another (auth_service.refresh).
THEOREM RotationLinear == ASSUME IdentityAssumption PROVE Spec => []RotationIsLinear
PROOF
<1>1. AccountsInv => RotationIsLinear
    <2>1. SUFFICES ASSUME AccountsInv, NEW f \in Tokens
                   PROVE  Cardinality(LiveIn(f)) <= slips[f] + IF f \in burnt THEN 0 ELSE 1
        BY DEF RotationIsLinear
    <2>2. Lasting(f) /\ slips[f] \in Nat
        BY <2>1 DEF AccountsInv, FamiliesInv
    <2> DEFINE S == Spare(f)
               R == Rotating(f)
               X == {req[q].row : q \in R}
    <2>3. IsFiniteSet(S) /\ IsFiniteSet(R) /\ Cardinality(S) \in Nat /\ Cardinality(R) \in Nat
        BY <2>2, WeightTyped
    <2>4. LiveIn(f) \subseteq S \cup X
        BY DEF Spare
    <2>5. Weight(f) <= slips[f] + (IF f \in burnt THEN 0 ELSE 1) /\ Weight(f) = Cardinality(S) + Cardinality(R)
        BY <2>2 DEF Lasting, Weight
    <2> HIDE DEF S, R
    <2>6. IsFiniteSet(X) /\ Cardinality(X) <= Cardinality(R) /\ Cardinality(X) \in Nat
        <3> DEFINE rows == [q \in R |-> req[q].row]
        <3>1. rows \in Surjection(R, X)
            BY DEF Surjection
        <3>2. IsFiniteSet(X) /\ Cardinality(X) <= Cardinality(R)
            <4> HIDE DEF rows, X
            <4> QED BY <2>3, <3>1, FS_Surjection
        <3> QED BY <3>2, FS_CardinalityType
    <2> HIDE DEF X
    <2>7. /\ IsFiniteSet(S \cup X) /\ Cardinality(S \cup X) \in Nat
          /\ Cardinality(S \cup X) <= Cardinality(S) + Cardinality(X)
        <3>1. /\ IsFiniteSet(S \cup X) /\ IsFiniteSet(S \cap X)
              /\ Cardinality(S \cup X) = Cardinality(S) + Cardinality(X) - Cardinality(S \cap X)
            BY <2>3, <2>6, FS_Union, FS_Intersection
        <3>2. Cardinality(S \cap X) \in Nat /\ Cardinality(S \cup X) \in Nat
            BY <3>1, FS_CardinalityType
        <3> QED BY <2>3, <2>6, <3>1, <3>2
    <2>8. Cardinality(LiveIn(f)) <= Cardinality(S \cup X) /\ Cardinality(LiveIn(f)) \in Nat
        BY <2>4, <2>7, NoMore
    <2> QED BY <2>2, <2>3, <2>5, <2>6, <2>7, <2>8
<1> QED BY <1>1, AccountsInvariant, PTL

\* However attempts on a name overlap, they are bounded
\* (auth_service.login, RedisLockoutStore.register_failure).
THEOREM AttemptsAreBounded == ASSUME IdentityAssumption PROVE Spec => []AttemptsBounded
PROOF
<1>1. AccountsInv => AttemptsBounded
    <2>1. SUFFICES ASSUME AccountsInv PROVE AttemptsBounded
        OBVIOUS
    <2>2. /\ Cardinality(Verifying) \in Nat /\ Cardinality(Requests) \in Nat
          /\ tries \in Nat /\ faults \in Nat /\ Threshold \in Nat
        BY <2>1, AttemptsCounted DEF AccountsInv, RowsInv, Typed, IdentityAssumption
    <2> QED BY <2>1, <2>2 DEF AccountsInv, GuardInv, AttemptsBounded
<1> QED BY <1>1, AccountsInvariant, PTL

\* A memory is in both stores or was asked to be forgotten, and is in neither
\* once its deletion is committed (MemoryService.write and delete).
THEOREM MemoriesInStep == ASSUME IdentityAssumption PROVE Spec => []MemoryInStep
PROOF
<1>1. AccountsInv => MemoryInStep
    BY DEF AccountsInv, NotesInv
<1> QED BY <1>1, AccountsInvariant, PTL
=============================================================================
