----------------------------- MODULE DeliveredDag -----------------------------
(***************************************************************************)
(* What the DAG of one participant promises: the visible events are the    *)
(* largest set of delivered events that contains all its parents, and when *)
(* an event becomes visible and its author is a member, the author has     *)
(* seen all it descends from.  Neither the order of delivery, nor what was *)
(* buffered in between, leaves a trace; only the order of joins does.      *)
(***************************************************************************)
EXTENDS EventGraph

CONSTANT InitialMembers

VARIABLES delivered, visible, seen, members

deliveredVars == <<delivered, visible, seen, members>>

Init ==
  /\ delivered = {}
  /\ visible = {}
  /\ seen = [e \in Events |-> {}]
  /\ members = InitialMembers

Deliver(e) ==
  /\ delivered' = delivered \cup {e}
  /\ visible' = Connected(delivered')
  /\ seen' = SeenAlso(seen, visible' \ visible, members)
  /\ UNCHANGED members

Join(key) ==
  /\ members' = members \cup {key}
  /\ UNCHANGED <<delivered, visible, seen>>

Next == (\E e \in Events : Deliver(e)) \/ (\E key \in PublicKeys : Join(key))

Spec == Init /\ [][Next]_deliveredVars
=============================================================================
