---------------------------- MODULE DeviceChannel ----------------------------
(***************************************************************************)
(* What src/hal/transport promises to the rest of the application: the     *)
(* channel has one owner at a time, only its owner may change which board  *)
(* is chosen, never while it serves an application session, and a session  *)
(* serves the board chosen when it was opened until it is released.        *)
(***************************************************************************)
CONSTANTS Workers, Targets, Nobody, NoTarget

VARIABLES
  owner,    \* the worker that owns the channel, or Nobody
  chosen,   \* the board the user is managing, or NoTarget
  serves    \* serves[w]: the board w's application session is open on

vars == <<owner, chosen, serves>>

Init ==
  /\ owner = Nobody
  /\ chosen = NoTarget
  /\ serves = [w \in Workers |-> NoTarget]

Acquire(w) ==
  /\ owner = Nobody
  /\ owner' = w
  /\ UNCHANGED <<chosen, serves>>

Rechoose(w) ==
  /\ owner = w
  /\ serves[w] = NoTarget
  /\ chosen' \in Targets \cup {NoTarget}
  /\ UNCHANGED <<owner, serves>>

Serve(w) ==
  /\ owner = w
  /\ chosen # NoTarget
  /\ serves' = [serves EXCEPT ![w] = chosen]
  /\ UNCHANGED <<owner, chosen>>

Release(w) ==
  /\ owner = w
  /\ owner' = Nobody
  /\ serves' = [serves EXCEPT ![w] = NoTarget]
  /\ UNCHANGED chosen

Next == \E w \in Workers : Acquire(w) \/ Rechoose(w) \/ Serve(w) \/ Release(w)

Spec == Init /\ [][Next]_vars
=============================================================================
