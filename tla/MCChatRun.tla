----------------------------- MODULE MCChatRun -----------------------------
(***************************************************************************)
(* An instance of ChatRun: two turns of one session, a node of the run     *)
(* graph, a chain of a priced model and a free fallback.                   *)
(***************************************************************************)
EXTENDS ChatRun

MCScopeOf == [c \in Callers |-> IF c \in Turns THEN CHOOSE s \in Scopes : TRUE ELSE NoScope]
MCChain == <<"primary", "fallback">>
MCPrice == <<1, 0>>
MCUsages == {[prompt |-> 1, completion |-> 2]}
=============================================================================
