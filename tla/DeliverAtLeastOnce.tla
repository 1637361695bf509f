------------------------- MODULE DeliverAtLeastOnce -------------------------
(***************************************************************************)
(* What the observation of a task promises about its events: the            *)
(* application's callback sees every event of its own turn at least once,   *)
(* none before the ones that precede it, and the stored cursor moves only   *)
(* forward and never past an event the callback has not seen, except for    *)
(* the events a retention reset of the owner declares gone.                 *)
(***************************************************************************)
EXTENDS Naturals

CONSTANTS OwnEvents        \* cursors of the events of the observed turn

VARIABLES
    head,                  \* the owner's history holds the cursors 1..head
    acknowledged,          \* the stored cursor
    delivered,             \* own events the callback has seen
    skipped                \* cursors passed over by a retention reset

vars == <<head, acknowledged, delivered, skipped>>

Init == head = 0 /\ acknowledged = 0 /\ delivered = {} /\ skipped = {}

Covered(n) == \A e \in OwnEvents : e <= n => e \in delivered \cup skipped

Emit == head' = head + 1 /\ UNCHANGED <<acknowledged, delivered, skipped>>

(* Redelivery of an event already delivered is a stuttering step. *)
Deliver ==
    /\ \E e \in OwnEvents :
         e <= head /\ Covered(e - 1) /\ delivered' = delivered \cup {e}
    /\ UNCHANGED <<head, acknowledged, skipped>>

Acknowledge ==
    /\ acknowledged' \in acknowledged..head
    /\ Covered(acknowledged')
    /\ UNCHANGED <<head, delivered, skipped>>

(* A reset passes over history the owner no longer keeps; the stored cursor *)
(* follows, or its save fails.                                              *)
Reset ==
    /\ \E n \in acknowledged..head, m \in acknowledged..head :
         /\ skipped' = skipped \cup (m + 1)..n
         /\ Covered(m)
         /\ acknowledged' \in {acknowledged, n}
    /\ UNCHANGED <<head, delivered>>

Next == Emit \/ Deliver \/ Acknowledge \/ Reset

Spec == Init /\ [][Next]_vars
=============================================================================
