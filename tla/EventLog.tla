------------------------------ MODULE EventLog ------------------------------
(***************************************************************************)
(* What the event plane promises to those who read the durable log: an     *)
(* event is recorded only after the state change it describes has          *)
(* committed, and what is recorded stays (platform/events/orm.py).         *)
(***************************************************************************)
CONSTANT Events
VARIABLES happened,    \* events whose transaction has committed
          recorded     \* rows of run_events

Init == happened = {} /\ recorded = {}

Happen == /\ \E new \in SUBSET (Events \ happened) : happened' = happened \cup new
          /\ UNCHANGED recorded

Record == /\ \E new \in SUBSET happened : recorded' = recorded \cup new
          /\ UNCHANGED happened

Next == Happen \/ Record
Spec == Init /\ [][Next]_<<happened, recorded>>
=============================================================================
