------------------------------ MODULE Identity ------------------------------
(***************************************************************************)
(* Requests as units of work on PostgreSQL (api/deps.py), and the accounts *)
(* and sessions they keep (src/backend/src/spidey/identity): log in,       *)
(* rotate a refresh token, log out, change the password, create and delete *)
(* a user.  A request is a transaction at READ COMMITTED: it reads what is *)
(* committed when its statement begins, takes row locks as it writes, and  *)
(* shows its writes when it commits.  One account name is followed; the    *)
(* administrator who creates and deletes it is not one of Users.           *)
(***************************************************************************)
EXTENDS Naturals, FiniteSets

CONSTANTS
    Requests,     \* requests that may be served at once
    Users,        \* successive accounts under the name
    Tokens, Chats, Messages, Notes,
    Name,         \* the unique index on users.email
    None,
    Threshold,    \* LOCKOUT_THRESHOLD
    MaxRequests,  \* bound: requests served
    MaxFaults     \* bound: requests that end in an exception

Rows == Users \cup Tokens \cup Chats \cup Messages \cup Notes

\* A row is of one table.
ASSUME IdentityAssumption ==
    /\ IsFiniteSet(Requests)
    /\ Users \cap Tokens = {} /\ (Users \cup Tokens) \cap Chats = {}
    /\ (Users \cup Tokens \cup Chats) \cap Messages = {}
    /\ (Users \cup Tokens \cup Chats \cup Messages) \cap Notes = {}
    /\ Threshold \in Nat \ {0} /\ MaxRequests \in Nat /\ MaxFaults \in Nat
    /\ Name \notin Rows /\ None \notin Rows \cup {Name}

VARIABLES
    db,      \* the committed rows
    marks,   \* what ended each refresh token: "used", "revoked", "expired"
    born,    \* identifiers given to a row, committed or not
    parent,  \* the foreign key of each row
    family,  \* family_id of each token, named by its first token
    req,     \* what each request is doing
    guard,   \* Redis: the failure counter of the name, and its lock
    tries,   \* history: passwords refused since the lock, or the count, was lifted
    burnt,   \* history: families in which a reuse was reported
    slips,   \* history: of each family, refreshes that overlapped another of it
    served, faults

tokenVars == <<marks, family, burnt, slips>>
rowVars   == <<db, born, parent>>
guardVars == <<guard, tries>>
boundVars == <<served, faults>>

Idle == [op |-> "idle", at |-> "idle", row |-> None, new |-> None,
         found |-> {}, ins |-> {}, kill |-> {}, gone |-> {}, held |-> {}]

Ops == {"login", "refresh", "logout", "password", "create", "delete",
        "open", "say", "close", "remember", "forget"}
Points == {"check", "verify", "lock", "read", "burn", "mark", "insert", "setpw",
           "revoke", "remove", "upsert", "drop", "commit"}
Locks  == {"share", "update", "remove"} \X (Rows \cup {Name})
Working == [op : Ops, at : Points, row : Rows \cup {None}, new : Rows \cup {None},
            found : SUBSET Tokens, ins : SUBSET Rows, kill : SUBSET Tokens,
            gone : SUBSET Rows, held : SUBSET Locks]

IdentityInit ==
    /\ db = {} /\ born = {} /\ burnt = {}
    /\ marks = [t \in Tokens |-> {}]
    /\ parent = [r \in Rows |-> None]
    /\ family = [t \in Tokens |-> None]
    /\ slips = [t \in Tokens |-> 0]
    /\ req = [q \in Requests |-> Idle]
    /\ guard = [fails |-> 0, locked |-> FALSE]
    /\ tries = 0 /\ served = 0 /\ faults = 0

---------------------------------------------------------------------------
(* Transactions.                                                           *)

At(q, op, at) == req[q].op = op /\ req[q].at = at

Fresh(Kind) == Kind \ born
AnyFresh(Kind) == CHOOSE n \in Fresh(Kind) : TRUE

\* Bound: a request that is to insert a row begins while one is left for it.
Room(Kind, ops) ==
    Cardinality(Fresh(Kind)) > Cardinality({p \in Requests : req[p].op \in ops})

LiveTokens    == {t \in db \cap Tokens : marks[t] = {}}
LiveIn(f)     == {t \in LiveTokens : family[t] = f}
Unrevoked     == {t \in db \cap Tokens : "revoked" \notin marks[t]}
UnrevokedIn(f) == {t \in Unrevoked : family[t] = f}
UnrevokedOf(u) == {t \in Unrevoked : parent[t] = u}

\* A row and what ON DELETE CASCADE takes with it.
Below(r) == {y \in db : \/ y = r
                        \/ parent[y] = r
                        \/ parent[y] # None /\ parent[parent[y]] = r}

\* The locks the statement a request has come to must take.
Needs(q) ==
    LET r == req[q]
        parentOf == IF r.op = "refresh" THEN parent[r.row] ELSE r.row
    IN CASE r.at = "mark"   -> {<<"update", r.row>>}
         [] r.at = "setpw"  -> {<<"update", r.row>>}
         [] r.at \in {"revoke", "burn"} -> {"update"} \X r.found
         [] r.at = "remove" -> {"remove"} \X (Below(r.row) \cup
                                 (IF r.row \in Users THEN {Name} ELSE {}))
         [] r.at = "insert" -> CASE r.op = "create"   -> {<<"remove", Name>>}
                                 [] r.op = "remember" -> {}
                                 [] OTHER -> {<<"share", parentOf>>}
         [] OTHER -> {}

Clash(a, b) == a[2] = b[2] /\ {a[1], b[1]} \notin {{"share"}, {"share", "update"}}
\* A statement on a session of its own also waits for its own request.
WaitsFor(q, p) ==
    /\ p # q \/ req[q].at = "burn"
    /\ \E a \in Needs(q), b \in req[p].held : Clash(a, b)
Granted(q) == \A p \in Requests : ~WaitsFor(q, p)

Marked(ts, m) == [t \in Tokens |-> IF t \in ts THEN marks[t] \cup {m} ELSE marks[t]]

\* A new request, and its steps.
Begin(q, op, row, at, found) ==
    /\ req[q] = Idle /\ served < MaxRequests
    /\ served' = served + 1
    /\ req' = [req EXCEPT ![q] = [Idle EXCEPT !.op = op, !.row = row, !.at = at,
                                              !.found = found]]

Go(q, at) == req' = [req EXCEPT ![q].at = at, ![q].held = @ \cup Needs(q)]
Refused(q) == req' = [req EXCEPT ![q] = Idle]

Commit(q) ==
    /\ req[q].at = "commit"
    /\ db' = (db \cup req[q].ins) \ req[q].gone
    /\ marks' = Marked(req[q].kill, IF req[q].op = "refresh" THEN "used" ELSE "revoked")
    /\ Refused(q)
    /\ UNCHANGED <<born, parent, family, burnt, slips, guardVars, boundVars>>

\* An exception, or a lost process: the session is rolled back.
Rollback(q) ==
    /\ req[q] # Idle /\ faults < MaxFaults
    /\ faults' = faults + 1
    /\ Refused(q)
    /\ UNCHANGED <<rowVars, tokenVars, guardVars, served>>

\* PostgreSQL fails one of two requests that wait for each other.
DeadlockVictim(q) ==
    /\ \E p \in Requests \ {q} : WaitsFor(q, p) /\ WaitsFor(p, q)
    /\ Refused(q)
    /\ UNCHANGED <<rowVars, tokenVars, guardVars, boundVars>>

\* A flushed row.  Its parent may be gone by the time the lock is granted: the
\* foreign key, or the unique name, then refuses it.  A token that is not given
\* a family begins one.
Insert(q, Kind, p, f, next) ==
    /\ req[q].at = "insert" /\ Granted(q) /\ Fresh(Kind) # {}
    /\ LET n == AnyFresh(Kind) IN
       IF \/ p # None /\ p \notin db
          \/ n \in Users /\ db \cap Users # {}
       THEN Refused(q) /\ UNCHANGED <<born, parent, family>>
       ELSE /\ req' = [req EXCEPT ![q].at = next, ![q].new = n,
                                  ![q].ins = @ \cup {n},
                                  ![q].held = @ \cup Needs(q)]
            /\ born' = born \cup {n}
            /\ parent' = [parent EXCEPT ![n] = p]
            /\ family' = IF n \in Tokens THEN [family EXCEPT ![n] = IF f = None THEN n ELSE f]
                         ELSE family
    /\ UNCHANGED <<db, marks, burnt, slips, guardVars, boundVars>>

---------------------------------------------------------------------------
(* AuthService.  An attempt the rate limiter refuses changes nothing here. *)

Login(q) ==
    /\ Room(Tokens, {"login", "refresh"})
    /\ Begin(q, "login", None, "check", {})
    /\ UNCHANGED <<rowVars, tokenVars, guardVars, faults>>

CheckLock(q) ==
    /\ At(q, "login", "check")
    /\ IF guard.locked THEN Refused(q) ELSE Go(q, "verify")
    /\ UNCHANGED <<rowVars, tokenVars, guardVars, boundVars>>

\* Mutant: locks one failure later.
TrippedAfter(n) == n > Threshold
Tripped(n) == n >= Threshold

\* register_failure counts, and then, at the threshold, locks.
WrongPassword(q) ==
    /\ At(q, "login", "verify")
    /\ tries' = tries + 1
    /\ guard' = [guard EXCEPT !.fails = @ + 1]
    /\ IF Tripped(guard.fails + 1) THEN Go(q, "lock") ELSE Refused(q)
    /\ UNCHANGED <<rowVars, tokenVars, boundVars>>

LockOut(q) ==
    /\ At(q, "login", "lock")
    /\ guard' = [fails |-> 0, locked |-> TRUE]
    /\ Refused(q)
    /\ UNCHANGED <<rowVars, tokenVars, tries, boundVars>>

RightPassword(q) ==
    /\ At(q, "login", "verify")
    /\ \E u \in db \cap Users :
         req' = [req EXCEPT ![q].at = "insert", ![q].row = u]
    /\ guard' = [fails |-> 0, locked |-> FALSE] /\ tries' = 0
    /\ UNCHANGED <<rowVars, tokenVars, boundVars>>

\* The first token of a new family.
IssueFirst(q) == req[q].op = "login" /\ Insert(q, Tokens, req[q].row, None, "commit")

\* The keys of Redis expire: the lock, and the count of failures.
LockExpires ==
    /\ guard.locked
    /\ guard' = [guard EXCEPT !.locked = FALSE] /\ tries' = 0
    /\ UNCHANGED <<rowVars, tokenVars, req, boundVars>>

CountExpires ==
    /\ guard.fails > 0
    /\ guard' = [guard EXCEPT !.fails = 0] /\ tries' = 0
    /\ UNCHANGED <<rowVars, tokenVars, req, boundVars>>

\* Whoever holds a token sends it, at any time and again: a stale tab, a lost
\* answer, two tabs at once.
Refresh(q) ==
    \E t \in {x \in Tokens : family[x] # None} :
      /\ Room(Tokens, {"login", "refresh"})
      /\ Begin(q, "refresh", t, "read", {})
      /\ UNCHANGED <<rowVars, tokenVars, guardVars, faults>>

\* Refreshes of a family that have found their token to work, or used.
Past(f, points) ==
    {p \in Requests : req[p].op = "refresh" /\ req[p].at \in points /\ family[req[p].row] = f}
Rotating(f) == Past(f, {"mark", "insert", "commit"})
Burning(f)  == Past(f, {"burn"})
Slip(f, overlaps) ==
    slips' = IF overlaps THEN [slips EXCEPT ![f] = @ + 1] ELSE slips

\* Mutant: the token is marked before it is looked at.
MarkFirst(q) ==
    /\ At(q, "refresh", "read")
    /\ LET t == req[q].row
           marked == [req[q] EXCEPT !.kill = {t}, !.held = {<<"update", t>>}]
       IN \/ /\ t \notin db
             /\ Refused(q)
          \/ /\ t \in LiveTokens /\ parent[t] \in db
             /\ req' = [req EXCEPT ![q] = [marked EXCEPT !.at = "insert"]]
          \/ /\ t \in db \ LiveTokens
             /\ req' = [req EXCEPT ![q] = [marked EXCEPT !.at = "burn",
                                            !.found = UnrevokedIn(family[t])]]
    /\ UNCHANGED <<rowVars, tokenVars, guardVars, boundVars>>
\* An unknown token is refused; a used one burns its family; a user who is gone
\* is refused, with the revocation of that branch rolled back.
ReadToken(q) ==
    /\ At(q, "refresh", "read")
    /\ LET t == req[q].row
           f == family[t]
       IN \/ /\ t \notin db \/ (t \in LiveTokens /\ parent[t] \notin db)
             /\ Refused(q)
             /\ UNCHANGED slips
          \/ /\ t \in LiveTokens /\ parent[t] \in db
             /\ Go(q, "mark")
             /\ Slip(f, Rotating(f) \cup Burning(f) # {})
          \/ /\ t \in db \ LiveTokens
             /\ req' = [req EXCEPT ![q].at = "burn", ![q].found = UnrevokedIn(f)]
             /\ Slip(f, Rotating(f) # {})
    /\ UNCHANGED <<rowVars, marks, family, burnt, guardVars, boundVars>>

\* Mutant: the revocation is part of the request, which is rolled back.
BurnInRequest(q) ==
    /\ req[q].at = "burn" /\ Granted(q)
    /\ burnt' = burnt \cup {family[req[q].row]}
    /\ Refused(q)
    /\ UNCHANGED <<rowVars, marks, family, slips, guardVars, boundVars>>
\* IndependentSecurityEventSink: committed on its own, before the refusal.
Burn(q) ==
    /\ req[q].at = "burn" /\ Granted(q)
    /\ marks' = Marked(req[q].found, "revoked")
    /\ burnt' = burnt \cup {family[req[q].row]}
    /\ Refused(q)
    /\ UNCHANGED <<rowVars, family, slips, guardVars, boundVars>>

MarkUsed(q) ==
    /\ At(q, "refresh", "mark") /\ Granted(q)
    /\ req' = [req EXCEPT ![q].at = "insert", ![q].kill = @ \cup {req[q].row},
                          ![q].held = @ \cup Needs(q)]
    /\ UNCHANGED <<rowVars, tokenVars, guardVars, boundVars>>

Rotate(q) ==
    LET t == req[q].row
    IN /\ req[q].op = "refresh"
       /\ Insert(q, Tokens, parent[t], family[t], "commit")

\* get_current_user, then the first statement of the handler.
Logout(q) ==
    \E t \in db \cap Tokens :
      /\ parent[t] \in db
      /\ Begin(q, "logout", t, "revoke", UnrevokedIn(family[t]))
      /\ UNCHANGED <<rowVars, tokenVars, guardVars, faults>>

ChangePassword(q) ==
    \E u \in db \cap Users :
      /\ Begin(q, "password", u, "setpw", {})
      /\ UNCHANGED <<rowVars, tokenVars, guardVars, faults>>

SetPassword(q) ==
    /\ req[q].at = "setpw" /\ Granted(q)
    /\ req' = [req EXCEPT ![q].at = "revoke", ![q].held = @ \cup Needs(q),
                          ![q].found = UnrevokedOf(req[q].row)]
    /\ UNCHANGED <<rowVars, tokenVars, guardVars, boundVars>>

\* The rows are those the UPDATE found before it waited for their locks.
Revoke(q) ==
    /\ req[q].at = "revoke" /\ Granted(q)
    /\ req' = [req EXCEPT ![q].at = IF req[q].op = "delete" THEN "remove" ELSE "commit",
                          ![q].kill = @ \cup req[q].found,
                          ![q].held = @ \cup Needs(q)]
    /\ UNCHANGED <<rowVars, tokenVars, guardVars, boundVars>>

---------------------------------------------------------------------------
(* UserService: bootstrap_admin and create_user insert alike.              *)

CreateUser(q) ==
    /\ Room(Users, {"create"})
    /\ Begin(q, "create", None, "insert", {})
    /\ UNCHANGED <<rowVars, tokenVars, guardVars, faults>>

InsertUser(q) ==
    req[q].op = "create" /\ Insert(q, Users, None, None, "commit")

DeleteUser(q) ==
    \E u \in db \cap Users :
      /\ Begin(q, "delete", u, "revoke", UnrevokedOf(u))
      /\ UNCHANGED <<rowVars, tokenVars, guardVars, faults>>

\* DELETE, with its cascade; a row that is gone by now is "does not exist".
Remove(q, next) ==
    /\ req[q].at = "remove" /\ Granted(q)
    /\ IF req[q].row \in db
       THEN req' = [req EXCEPT ![q].at = next, ![q].gone = Below(req[q].row),
                               ![q].held = @ \cup Needs(q)]
       ELSE Refused(q)
    /\ UNCHANGED <<rowVars, tokenVars, guardVars, boundVars>>

TokenExpires ==
    \E t \in LiveTokens :
      /\ marks' = Marked({t}, "expired")
      /\ UNCHANGED <<rowVars, family, burnt, slips, req, guardVars, boundVars>>

IdentityBegins(q) ==
    \/ Login(q) \/ Refresh(q) \/ Logout(q) \/ ChangePassword(q)
    \/ CreateUser(q) \/ DeleteUser(q)

IdentityGoesOn(q) ==
    \/ CheckLock(q) \/ WrongPassword(q) \/ LockOut(q) \/ RightPassword(q) \/ IssueFirst(q)
    \/ ReadToken(q) \/ Burn(q) \/ MarkUsed(q) \/ Rotate(q)
    \/ SetPassword(q) \/ Revoke(q) \/ InsertUser(q)
    \/ req[q].op = "delete" /\ Remove(q, "commit")
    \/ Commit(q) \/ DeadlockVictim(q)
=============================================================================
