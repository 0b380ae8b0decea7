------------------------------ MODULE Accounts ------------------------------
(***************************************************************************)
(* What a user keeps besides an account: conversations and their messages  *)
(* (memory/application/conversations.py), and long-term memories           *)
(* (memory/application/memory_service.py), whose rows are transactional    *)
(* and whose vectors, in Qdrant, are not.  The requests are those of       *)
(* Identity; the task that distils a finished run writes memories by the   *)
(* same path, in the session of its worker, and counts as one of them.     *)
(***************************************************************************)
EXTENDS Identity

VARIABLES
    vectors,   \* the memories Qdrant holds a point for
    asked,     \* history: memories somebody asked to forget
    forgotten  \* history: memories whose deletion was committed

memoryVars == <<vectors, asked, forgotten>>
vars == <<rowVars, tokenVars, req, guardVars, boundVars, memoryVars>>

Init ==
    /\ IdentityInit
    /\ vectors = {} /\ asked = {} /\ forgotten = {}

Elsewhere == UNCHANGED <<rowVars, tokenVars, guardVars, faults>>

---------------------------------------------------------------------------
(* ConversationService.                                                    *)

OpenChat(q) ==
    /\ Room(Chats, {"open"})
    /\ \E u \in db \cap Users : Begin(q, "open", u, "insert", {}) /\ Elsewhere
    /\ UNCHANGED memoryVars

InsertChat(q) ==
    /\ req[q].op = "open" /\ Insert(q, Chats, req[q].row, None, "commit")
    /\ UNCHANGED memoryVars

\* The owner's session is read before the message is inserted.
Say(q) ==
    /\ Room(Messages, {"say"})
    /\ \E c \in db \cap Chats : Begin(q, "say", c, "insert", {}) /\ Elsewhere
    /\ UNCHANGED memoryVars

InsertMessage(q) ==
    /\ req[q].op = "say" /\ Insert(q, Messages, req[q].row, None, "commit")
    /\ UNCHANGED memoryVars

CloseChat(q) ==
    /\ \E c \in db \cap Chats : Begin(q, "close", c, "remove", {}) /\ Elsewhere
    /\ UNCHANGED memoryVars

RemoveChat(q) ==
    /\ req[q].op = "close" /\ Remove(q, "commit")
    /\ UNCHANGED memoryVars

---------------------------------------------------------------------------
(* MemoryService.  A candidate the write gate refuses changes nothing.     *)

Remember(q) ==
    /\ db \cap Users # {} /\ Room(Notes, {"remember"})
    /\ Begin(q, "remember", None, "insert", {}) /\ Elsewhere
    /\ UNCHANGED memoryVars

InsertNote(q) ==
    /\ req[q].op = "remember" /\ Insert(q, Notes, None, None, "upsert")
    /\ UNCHANGED memoryVars

\* Mutant: the point is written by a later request, if at all.
UpsertLater(q) ==
    /\ At(q, "remember", "upsert")
    /\ Go(q, "commit")
    /\ UNCHANGED <<memoryVars, rowVars, tokenVars, guardVars, boundVars>>
UpsertVector(q) ==
    /\ At(q, "remember", "upsert")
    /\ vectors' = vectors \cup {req[q].new}
    /\ Go(q, "commit")
    /\ UNCHANGED <<asked, forgotten, rowVars, tokenVars, guardVars, boundVars>>

Forget(q) ==
    \E n \in db \cap Notes :
      /\ Begin(q, "forget", n, "remove", {}) /\ Elsewhere
      /\ asked' = asked \cup {n}
      /\ UNCHANGED <<vectors, forgotten>>

\* The ORM deletes the row it has read: finding it gone is no error.
RemoveNote(q) ==
    /\ At(q, "forget", "remove") /\ Granted(q)
    /\ req' = [req EXCEPT ![q].at = "drop", ![q].gone = Below(req[q].row),
                          ![q].held = @ \cup Needs(q)]
    /\ UNCHANGED <<memoryVars, rowVars, tokenVars, guardVars, boundVars>>

DropVector(q) ==
    /\ At(q, "forget", "drop")
    /\ vectors' = vectors \ {req[q].row}
    /\ Go(q, "commit")
    /\ UNCHANGED <<asked, forgotten, rowVars, tokenVars, guardVars, boundVars>>

---------------------------------------------------------------------------
GoesOn(q) ==
    \/ InsertChat(q) \/ InsertMessage(q) \/ RemoveChat(q)
    \/ InsertNote(q) \/ UpsertVector(q) \/ RemoveNote(q) \/ DropVector(q)
    \/ /\ IdentityGoesOn(q)
       /\ forgotten' = forgotten \cup ((db \ db') \cap Notes)
       /\ UNCHANGED <<vectors, asked>>

Next ==
    \/ \E q \in Requests :
         \/ OpenChat(q) \/ Say(q) \/ CloseChat(q) \/ Remember(q) \/ Forget(q)
         \/ GoesOn(q)
         \/ (IdentityBegins(q) \/ Rollback(q)) /\ UNCHANGED memoryVars
    \/ (LockExpires \/ CountExpires \/ TokenExpires) /\ UNCHANGED memoryVars

\* The server keeps serving what it has begun; PostgreSQL looks for deadlocks.
Spec == Init /\ [][Next]_vars /\ \A q \in Requests : WF_vars(GoesOn(q))

---------------------------------------------------------------------------
(* Types: committed rows hang on committed rows, and a request works on    *)
(* rows of its own.                                                        *)
TypeOK ==
    /\ db \subseteq born /\ born \subseteq Rows /\ burnt \subseteq Tokens
    /\ marks \in [Tokens -> SUBSET {"used", "revoked", "expired"}]
    /\ parent \in [Rows -> Rows \cup {None}]
    /\ family \in [Tokens -> Tokens \cup {None}] /\ slips \in [Tokens -> Nat]
    /\ \A q \in Requests : req[q] \in Working \cup {Idle}
    /\ guard \in [fails : Nat, locked : BOOLEAN]
    /\ tries \in Nat /\ served \in 0 .. MaxRequests /\ faults \in 0 .. MaxFaults
    /\ vectors \subseteq Notes /\ asked \subseteq Notes /\ forgotten \subseteq Notes
    /\ \A r \in db : parent[r] \in db \cup {None}

\* A family has at most one token that still works, whatever a logout, a new
\* password or a deletion overlaps with, and none once a reuse was reported in
\* it (auth_service.refresh, whose own transaction is then rolled back); but one
\* more for each refresh that overlapped another of the family, for a token is
\* looked at and marked in two statements, and marked whatever it says by then.
RotationIsLinear ==
    \A f \in Tokens :
      Cardinality(LiveIn(f)) <= slips[f] + IF f \in burnt THEN 0 ELSE 1

\* However its attempts overlap, no more passwords are tried against a name
\* than the threshold, one for each attempt that had passed the lock's check
\* before it was set, and one for each request lost between the count and the
\* lock (auth_service.login, RedisLockoutStore.register_failure).
AttemptsBounded == tries <= Threshold - 1 + Cardinality(Requests) + faults

\* A committed memory can be recalled, unless somebody asked to forget it, and
\* a memory whose deletion was committed is in neither store, wherever a
\* request fails (MemoryService.write and delete).
MemoryInStep ==
    /\ db \cap Notes \subseteq vectors \cup asked
    /\ forgotten \cap (db \cup vectors) = {}

\* Every request ends, though requests wait for each other's rows, in either
\* order, and a replayed token is revoked on a second connection while the
\* first one is open (deps.get_session, IndependentSecurityEventSink).
RequestsEnd == \A q \in Requests : req[q] # Idle ~> req[q] = Idle
=============================================================================
