------------------------ MODULE AtLeastOnceDelivery -------------------------
(***************************************************************************)
(* What the transactional outbox promises: an event that was committed     *)
(* with its transfer reaches the broker, and it is marked as published     *)
(* only once the broker has it.                                            *)
(***************************************************************************)
CONSTANT Events

VARIABLES committed, stored, marked

promise == <<committed, stored, marked>>

Init == committed = {} /\ stored = {} /\ marked = {}

Commit(e) ==
  /\ committed' = committed \union {e}
  /\ UNCHANGED <<stored, marked>>

(* The broker keeps messages of committed events, any number of times. *)
Store(S) ==
  /\ S \subseteq committed
  /\ stored' = stored \union S
  /\ UNCHANGED <<committed, marked>>

Mark(S) ==
  /\ S \subseteq stored
  /\ marked' = marked \union S
  /\ UNCHANGED <<committed, stored>>

Next ==
  \/ \E e \in Events : Commit(e)
  \/ \E S \in SUBSET Events : Store(S) \/ Mark(S)

(* Nothing that was committed stays away from the broker, or unmarked. *)
Delivered == \A e \in Events : (e \in committed) ~> (e \in marked)

SafeSpec == Init /\ [][Next]_promise

Spec == SafeSpec /\ Delivered
=============================================================================
