----------------------- MODULE TaskObservation_proofs -----------------------
(***************************************************************************)
(* Theorems about TaskObservation, for every history, number of observers,  *)
(* page size and budget, proved with TLAPS.                                 *)
(***************************************************************************)
EXTENDS TaskObservation, TLAPS

(* An answer that passes the checks of _backfill is a page whose watermark  *)
(* stays within the history, and that leaves out nothing before it.         *)
LEMMA AnswerFacts ==
    ASSUME NEW c \in Nat, head \in Nat, floor \in Nat, floor <= head, c <= head,
           NEW p \in Answers(c), ValidAnswer(p, c)
    PROVE  /\ p \in Page
           /\ p.next \in c..head
           /\ \A e \in p.events : e <= p.next
           /\ p.reset => p.events = {}
           /\ ~p.reset => \A e \in Nat : c < e /\ e <= p.next => e \in p.events
<1>1. CASE c < floor
  <2>1. PICK n \in {head, c - 1} :
           p = [events |-> {}, next |-> n, more |-> FALSE, reset |-> TRUE]
    BY <1>1 DEF Answers
  <2>2. p.next = n /\ p.reset /\ p.events = {} /\ n >= c
    BY <2>1 DEF ValidAnswer
  <2>3. p \in Page
    BY <2>1 DEF Page
  <2> QED BY <2>2, <2>3
<1>2. CASE ~(c < floor)
  <2>1. CASE p \in {[events |-> {}, next |-> c + 1, more |-> FALSE, reset |-> FALSE],
                    [events |-> {}, next |-> c, more |-> TRUE, reset |-> FALSE]}
    BY <2>1 DEF ValidAnswer
  <2>2. CASE p \notin {[events |-> {}, next |-> c + 1, more |-> FALSE, reset |-> FALSE],
                       [events |-> {}, next |-> c, more |-> TRUE, reset |-> FALSE]}
    <3>1. PICK low \in {floor + 1, c + 1}, n \in IF c >= head THEN {c} ELSE (c + 1)..head :
             p = [events |-> low..n, next |-> n, more |-> n < head, reset |-> FALSE]
      BY <1>2, <2>2 DEF Answers
    <3>2. n \in c..head /\ low \in Nat /\ low <= c + 1
      BY <1>2, <3>1
    <3> QED BY <3>1, <3>2 DEF Page
  <2> QED BY <2>1, <2>2
<1> QED BY <1>1, <1>2

(* The one activation that moves on is where it went, the others stay. *)
LEMMA GoFacts ==
    ASSUME wait \in [Observers -> Activation], NEW o \in Observers,
           NEW a \in Activation, Go(o, a)
    PROVE  /\ wait' \in [Observers -> Activation]
           /\ wait'[o] = a
           /\ \A q \in Observers \ {o} : wait'[q] = wait[q]
  BY DEF Go

(* The changes the steps make to an activation keep its type. *)
LEMMA MoveTo ==
    ASSUME NEW a \in Activation, NEW l \in Locations
    PROVE  [a EXCEPT !.at = l] \in Activation /\ [a EXCEPT !.at = l].at = l
  BY DEF Activation

LEMMA MoveToList ==
    ASSUME NEW a \in Activation
    PROVE  /\ [a EXCEPT !.at = "list", !.left = MaxPages] \in Activation
           /\ [a EXCEPT !.at = "list", !.left = MaxPages].at = "list"
<1>1. MaxPages \in 0..MaxPages
  BY ObservationAssumption
<1> QED BY <1>1 DEF Activation, Locations

LEMMA MoveToListing ==
    ASSUME NEW a \in Activation, NEW n \in Nat
    PROVE  /\ [a EXCEPT !.at = "listing", !.after = n] \in Activation
           /\ [a EXCEPT !.at = "listing", !.after = n].at = "listing"
           /\ [a EXCEPT !.at = "listing", !.after = n].after = n
  BY ObservationAssumption DEF Activation, Locations

LEMMA MoveToDeliver ==
    ASSUME NEW a \in Activation, NEW q \in Page
    PROVE  /\ [a EXCEPT !.at = "deliver", !.page = q] \in Activation
           /\ [a EXCEPT !.at = "deliver", !.page = q].at = "deliver"
           /\ [a EXCEPT !.at = "deliver", !.page = q].after = a.after
           /\ [a EXCEPT !.at = "deliver", !.page = q].page = q
  BY ObservationAssumption DEF Activation, Locations

LEMMA WithPage ==
    ASSUME NEW a \in Activation, NEW q \in Page
    PROVE  /\ [a EXCEPT !.page = q] \in Activation
           /\ [a EXCEPT !.page = q].at = a.at
           /\ [a EXCEPT !.page = q].after = a.after
           /\ [a EXCEPT !.page = q].page = q
  BY ObservationAssumption DEF Activation, Locations

LEMMA MoveToDecide ==
    ASSUME NEW a \in Activation, NEW s \in TurnStates \cup {"unfinished"}
    PROVE  /\ [a EXCEPT !.at = "decide", !.status = s] \in Activation
           /\ [a EXCEPT !.at = "decide", !.status = s].at = "decide"
  BY ObservationAssumption DEF Activation, Locations

LEMMA MoveToSleep ==
    ASSUME NEW a \in Activation, NEW r \in 0..MaxReconnects
    PROVE  /\ [a EXCEPT !.at = "sleep", !.reconnects = r] \in Activation
           /\ [a EXCEPT !.at = "sleep", !.reconnects = r].at = "sleep"
  BY ObservationAssumption DEF Activation, Locations

LEMMA WithExpired ==
    ASSUME NEW a \in Activation
    PROVE  /\ [a EXCEPT !.expired = TRUE] \in Activation
           /\ [a EXCEPT !.expired = TRUE].at = a.at
           /\ [a EXCEPT !.expired = TRUE].after = a.after
           /\ [a EXCEPT !.expired = TRUE].page = a.page
  BY ObservationAssumption DEF Activation, Locations

(* An activation at rest is well typed. *)
LEMMA IdleTyped == Idle \in Activation
  BY ObservationAssumption DEF Idle, Activation, Locations, NoPage, Page, TurnStates

(* Removing a delivered event changes nothing else of a page. *)
LEMMA PageUpdate ==
    ASSUME NEW q \in Page, NEW e
    PROVE  /\ Without(q, e) \in Page
           /\ Without(q, e).next = q.next /\ Without(q, e).reset = q.reset
           /\ Without(q, e).events = q.events \ {e}
  BY DEF Page, Without

LEMMA ObservationInit == Init => ObservationInv
<1> SUFFICES ASSUME Init PROVE ObservationInv
  OBVIOUS
<1>1. TypeOK
  BY IdleTyped DEF Init, TypeOK, TurnStates, Outcomes
<1>2. Covered(disk) /\ Covered(cursor)
  BY ObservationAssumption DEF Init, Covered
<1>3. PageInv
  <2>1. \A o \in Observers : wait[o].at = "idle"
    BY DEF Init, Idle
  <2> QED BY <2>1 DEF PageInv
<1>4. CursorInv
  BY DEF Init, Idle, CursorInv
<1> QED BY <1>1, <1>2, <1>3, <1>4 DEF Init, ObservationInv

(* A step that only moves activations outside the page work, and changes    *)
(* nothing else, keeps the invariant: what a step of the loop, a return, an *)
(* exception or the clock has to show.                                      *)
LEMMA LocalStep ==
    ASSUME ObservationInv,
           UNCHANGED <<owner, disk, cursor, ghosts>>,
           observing' \in BOOLEAN, result' \in Outcomes,
           wait' \in [Observers -> Activation],
           \A o \in Observers :
             \/ wait'[o].at \notin {"listing", "deliver"}
             \/ /\ wait'[o].at = wait[o].at
                /\ wait'[o].after = wait[o].after /\ wait'[o].page = wait[o].page
             \/ /\ wait'[o].at = "listing" /\ wait'[o].after = cursor
    PROVE  ObservationInv'
<1> USE DEF ObservationInv, owner, ghosts
<1>1. TypeOK'
  BY DEF TypeOK
<1>2. \A n : Covered(n)' = Covered(n)
  BY DEF Covered
<1>3. PageInv'
  BY <1>2 DEF PageInv
<1>4. SoleObserver' => CursorInv'
  BY DEF CursorInv, SoleObserver
<1> QED BY <1>1, <1>2, <1>3, <1>4

(* The end of an activation is such a step. *)
LEMMA ReturnStep ==
    ASSUME ObservationInv, NEW o \in Observers, NEW r \in Outcomes, Return(o, r),
           UNCHANGED <<owner, disk, cursor, ghosts>>
    PROVE  ObservationInv'
<1>1. Go(o, Idle) /\ wait \in [Observers -> Activation]
  BY DEF Return, ObservationInv, TypeOK
<1>2. wait' \in [Observers -> Activation] /\ wait'[o] = Idle
      /\ \A q \in Observers \ {o} : wait'[q] = wait[q]
  BY <1>1, IdleTyped, GoFacts
<1>3. \A p \in Observers : wait'[p] = wait[p] \/ wait'[p].at = "idle"
  BY <1>2 DEF Idle
<1>4. observing' \in BOOLEAN /\ result' \in Outcomes
  BY DEF Return
<1> QED BY <1>2, <1>3, <1>4, LocalStep

(* The invariant is inductive: one step per action. *)
LEMMA ObservationStep == ObservationInv /\ [Next]_vars => ObservationInv'
<1> SUFFICES ASSUME ObservationInv, [Next]_vars PROVE ObservationInv'
  OBVIOUS
<1> USE DEF ObservationInv
<1>1. CASE Emit
  <2>1. \A n : Covered(n)' = Covered(n)
    BY <1>1 DEF Emit, Covered
  <2>2. head' = head + 1 /\ UNCHANGED <<floor, disk, cursor, wait, delivered, skipped>>
    BY <1>1 DEF Emit
  <2>3. TypeOK'
    BY <1>1 DEF Emit, TypeOK, TurnSuccessors, TurnStates
  <2>4. PageInv'
    BY <2>1, <2>2 DEF PageInv, TypeOK, Activation, Page
  <2>5. SoleObserver' => CursorInv'
    BY <2>2 DEF CursorInv, SoleObserver
  <2> QED BY <2>1, <2>2, <2>3, <2>4, <2>5 DEF TypeOK
<1>2. CASE Trim
  <2>1. \A n : Covered(n)' = Covered(n)
    BY <1>2 DEF Trim, Covered
  <2>2. floor' \in (floor + 1)..head /\ UNCHANGED <<head, disk, cursor, wait, delivered, skipped>>
    BY <1>2 DEF Trim
  <2>3. TypeOK'
    BY <1>2 DEF Trim, TypeOK
  <2>4. PageInv'
    BY <2>1, <2>2 DEF PageInv
  <2>5. SoleObserver' => CursorInv'
    BY <2>2 DEF CursorInv, SoleObserver
  <2> QED BY <2>1, <2>2, <2>3, <2>4, <2>5 DEF TypeOK
<1>3. CASE Restart
  <2>1. \A n : Covered(n)' = Covered(n)
    BY <1>3 DEF Restart, Covered, ghosts
  <2>2. TypeOK'
    BY <1>3, IdleTyped DEF Restart, TypeOK, owner, ghosts, Outcomes
  <2>3. PageInv'
    <3>1. \A o \in Observers : wait'[o].at = "idle"
      BY <1>3 DEF Restart, Idle
    <3> QED BY <3>1 DEF PageInv
  <2>4. CursorInv'
    <3>1. \A o \in Observers : wait'[o].at = "idle"
      BY <1>3 DEF Restart, Idle
    <3> QED BY <1>3, <3>1 DEF Restart, CursorInv, TypeOK
  <2> QED BY <1>3, <2>1, <2>2, <2>3, <2>4 DEF Restart, owner
<1>4. ASSUME NEW o \in Observers, Enter(o) \/ Tick(o) PROVE ObservationInv'
  <2>1. UNCHANGED <<owner, disk, cursor, ghosts>> /\ observing' \in BOOLEAN /\ result' \in Outcomes
    BY <1>4 DEF Enter, Tick, TypeOK, Outcomes
  <2>2. wait \in [Observers -> Activation] /\ wait[o] \in Activation
    BY DEF TypeOK
  <2>3. CASE Enter(o)
    <3> DEFINE a == [wait[o] EXCEPT !.at = "claim"]
    <3>1. a \in Activation /\ a.at = "claim" /\ Go(o, a)
      BY <2>2, <2>3, MoveTo DEF Enter, Locations
    <3>2. /\ wait' \in [Observers -> Activation] /\ wait'[o].at = "claim"
          /\ \A q \in Observers \ {o} : wait'[q] = wait[q]
      BY <2>2, <3>1, GoFacts
    <3> QED BY <2>1, <3>2, LocalStep
  <2>4. CASE Tick(o)
    <3> DEFINE a == [wait[o] EXCEPT !.expired = TRUE]
    <3>1. /\ a \in Activation /\ Go(o, a)
          /\ a.at = wait[o].at /\ a.after = wait[o].after /\ a.page = wait[o].page
      BY <2>2, <2>4, WithExpired DEF Tick
    <3> HIDE DEF a
    <3>2. /\ wait' \in [Observers -> Activation] /\ wait'[o] = a
          /\ \A q \in Observers \ {o} : wait'[q] = wait[q]
      BY <2>2, <3>1, GoFacts
    <3> QED BY <2>1, <3>1, <3>2, LocalStep
  <2> QED BY <1>4, <2>3, <2>4
<1>5. ASSUME NEW o \in Observers,
             Claim(o) \/ Start(o) \/ List(o) \/ ReadTurn(o) \/ PollAgain(o)
               \/ WakeUp(o) \/ Reconnect(o)
      PROVE  ObservationInv'
  <2>1. UNCHANGED <<owner, disk, cursor, ghosts>> /\ observing' \in BOOLEAN /\ result' \in Outcomes
    BY <1>5 DEF Claim, Start, List, ReadTurn, PollAgain, WakeUp, Reconnect, TypeOK
  <2>2. wait \in [Observers -> Activation] /\ wait[o] \in Activation
    BY DEF TypeOK
  <2>3. \E a \in Activation :
          /\ Go(o, a)
          /\ \/ a.at \in {"start", "list", "decide", "sleep"}
             \/ a.at = "listing" /\ a.after = cursor
    <3>1. CASE Claim(o)
      <4> DEFINE a == [wait[o] EXCEPT !.at = "start"]
      <4>1. Go(o, a)
        BY <3>1 DEF Claim
      <4>2. a \in Activation /\ a.at = "start"
        BY <2>2, MoveTo DEF Locations
      <4> HIDE DEF a
      <4> QED BY <4>1, <4>2
    <3>2. CASE Start(o)
      <4> DEFINE a == [wait[o] EXCEPT !.at = "list", !.left = MaxPages]
      <4>1. Go(o, a)
        BY <3>2 DEF Start
      <4>2. a \in Activation /\ a.at = "list"
        BY <2>2, MoveToList
      <4> HIDE DEF a
      <4> QED BY <4>1, <4>2
    <3>3. CASE List(o)
      <4> DEFINE a == [wait[o] EXCEPT !.at = "listing", !.after = cursor]
      <4>1. cursor \in Nat /\ Go(o, a)
        BY <3>3 DEF List, TypeOK
      <4>2. a \in Activation /\ a.at = "listing" /\ a.after = cursor
        BY <2>2, <4>1, MoveToListing
      <4> HIDE DEF a
      <4> QED BY <4>1, <4>2
    <3>4. CASE ReadTurn(o)
      BY <2>2, <3>4, MoveToDecide DEF ReadTurn, TypeOK
    <3>5. CASE PollAgain(o)
      <4>1. 0 \in 0..MaxReconnects
        BY ObservationAssumption
      <4> QED
        BY <2>2, <3>5, <4>1, MoveToSleep DEF PollAgain
    <3>6. CASE WakeUp(o)
      <4> DEFINE a == [wait[o] EXCEPT !.at = "start"]
      <4>1. Go(o, a)
        BY <3>6 DEF WakeUp
      <4>2. a \in Activation /\ a.at = "start"
        BY <2>2, MoveTo DEF Locations
      <4> HIDE DEF a
      <4> QED BY <4>1, <4>2
    <3>7. CASE Reconnect(o)
      <4>1. wait[o].reconnects + 1 \in 0..MaxReconnects
        BY <2>2, <3>7, ObservationAssumption DEF Reconnect, Activation
      <4> QED
        BY <2>2, <3>7, <4>1, MoveToSleep DEF Reconnect
    <3> QED BY <1>5, <3>1, <3>2, <3>3, <3>4, <3>5, <3>6, <3>7
  <2>4. PICK a \in Activation :
          /\ Go(o, a)
          /\ \/ a.at \in {"start", "list", "decide", "sleep"}
             \/ a.at = "listing" /\ a.after = cursor
    BY <2>3
  <2>5. /\ wait' \in [Observers -> Activation] /\ wait'[o] = a
        /\ \A q \in Observers \ {o} : wait'[q] = wait[q]
    BY <2>2, <2>4, GoFacts
  <2> QED BY <2>1, <2>4, <2>5, LocalStep
<1>6. ASSUME NEW o \in Observers,
             \/ Cancelled(o) \/ DeadlineReached(o) \/ ReceiveInvalid(o)
             \/ DeliverRaises(o) \/ ReturnOutcome(o) \/ GiveUp(o) \/ ReadRaises(o)
      PROVE  ObservationInv'
  <2>1. UNCHANGED <<owner, disk, cursor, ghosts>>
    BY <1>6 DEF Cancelled, DeadlineReached, ReceiveInvalid, DeliverRaises, ReturnOutcome,
                GiveUp, ReadRaises
  <2>2. \E r \in Outcomes : Return(o, r)
    BY <1>6 DEF Cancelled, DeadlineReached, ReceiveInvalid, DeliverRaises, ReturnOutcome,
                GiveUp, ReadRaises, Outcomes, Settled
  <2> QED BY <2>1, <2>2, ReturnStep
<1>7. ASSUME NEW o \in Observers, ReceivePage(o) PROVE ObservationInv'
  <2>1. PICK p \in Answers(wait[o].after) :
          /\ ValidAnswer(p, wait[o].after)
          /\ Go(o, [wait[o] EXCEPT !.at = "deliver", !.page = p])
    BY <1>7 DEF ReceivePage
  <2>2. wait[o].after \in Nat /\ wait[o].after <= head /\ Covered(wait[o].after)
    BY <1>7 DEF ReceivePage, At, PageInv, TypeOK, Activation
  <2>3. /\ p \in Page /\ p.next \in wait[o].after..head
        /\ \A e \in p.events : e <= p.next
        /\ p.reset => p.events = {}
        /\ ~p.reset => \A e \in Nat : wait[o].after < e /\ e <= p.next => e \in p.events
    BY <2>1, <2>2, AnswerFacts DEF TypeOK
  <2>4. UNCHANGED <<owner, disk, cursor, observing, result, ghosts>>
    BY <1>7 DEF ReceivePage
  <2> DEFINE a == [wait[o] EXCEPT !.at = "deliver", !.page = p]
  <2>5. /\ a \in Activation /\ a.at = "deliver" /\ a.after = wait[o].after /\ a.page = p
        /\ wait \in [Observers -> Activation] /\ Go(o, a)
    BY <2>1, <2>3, MoveToDeliver DEF TypeOK
  <2> HIDE DEF a
  <2>6. \A n : Covered(n)' = Covered(n)
    BY <2>4 DEF Covered, ghosts
  <2>7. /\ wait' \in [Observers -> Activation] /\ wait'[o] = a
        /\ \A q \in Observers \ {o} : wait'[q] = wait[q]
    BY <2>5, GoFacts
  <2>8. PageInv'
    BY <2>2, <2>3, <2>4, <2>5, <2>6, <2>7, ObservationAssumption DEF PageInv, owner, ghosts
  <2>9. TypeOK'
    BY <2>4, <2>7 DEF TypeOK, owner, ghosts
  <2>10. SoleObserver' => CursorInv'
    BY <1>7, <2>4, <2>5, <2>7 DEF CursorInv, SoleObserver, ReceivePage, At
  <2> QED BY <2>4, <2>6, <2>8, <2>9, <2>10 DEF owner
<1>8. ASSUME NEW o \in Observers, Deliver(o) PROVE ObservationInv'
  <2>1. PICK e \in Pending(o) :
          /\ delivered' = delivered \cup {e}
          /\ Go(o, [wait[o] EXCEPT !.page = Without(@, e)])
    BY <1>8 DEF Deliver
  <2>2. UNCHANGED <<owner, disk, cursor, observing, result, skipped>>
    BY <1>8 DEF Deliver
  <2>3. \A n : Covered(n) => Covered(n)'
    BY <2>1, <2>2 DEF Covered
  <2> DEFINE p == Without(wait[o].page, e)
             a == [wait[o] EXCEPT !.page = p]
  <2>10. wait \in [Observers -> Activation] /\ wait[o] \in Activation /\ wait[o].page \in Page
    BY DEF TypeOK, Activation
  <2>11. p \in Page
    BY <2>10, PageUpdate
  <2>12. p.next = wait[o].page.next /\ p.reset = wait[o].page.reset
         /\ p.events = wait[o].page.events \ {e}
    BY <2>10, PageUpdate
  <2>13. Go(o, a)
    BY <2>1
  <2> HIDE DEF p
  <2>14. a \in Activation /\ a.at = wait[o].at /\ a.after = wait[o].after /\ a.page = p
    BY <2>10, <2>11, WithPage
  <2> HIDE DEF a
  <2>15. /\ wait' \in [Observers -> Activation] /\ wait'[o] = a
         /\ \A q \in Observers \ {o} : wait'[q] = wait[q]
    BY <2>10, <2>13, <2>14, GoFacts
  <2>4. /\ wait'[o].at = wait[o].at /\ wait'[o].after = wait[o].after
        /\ wait'[o].page.next = wait[o].page.next
        /\ wait'[o].page.reset = wait[o].page.reset
        /\ wait'[o].page.events = wait[o].page.events \ {e}
        /\ \A q \in Observers \ {o} : wait'[q] = wait[q]
    BY <2>12, <2>14, <2>15
  <2>5. TypeOK'
    BY <2>1, <2>2, <2>15 DEF TypeOK, owner, Pending
  <2>6. PageInv'
    <3> SUFFICES ASSUME NEW q \in Observers
                 PROVE  /\ wait'[q].at \in {"listing", "deliver"} =>
                             wait'[q].after <= head' /\ Covered(wait[q].after)'
                        /\ wait'[q].at = "deliver" =>
                             /\ wait'[q].page.next \in wait'[q].after..head'
                             /\ \A f \in wait'[q].page.events : f <= wait'[q].page.next
                             /\ wait'[q].page.reset => wait'[q].page.events = {}
                             /\ ~wait'[q].page.reset => \A f \in OwnEvents :
                                  wait'[q].after < f /\ f <= wait'[q].page.next =>
                                    f \in wait'[q].page.events \cup delivered' \cup skipped'
      BY DEF PageInv
    <3>1. CASE q = o
      BY <2>1, <2>2, <2>3, <2>4, <3>1 DEF PageInv, owner
    <3>2. CASE q # o
      BY <2>1, <2>2, <2>3, <2>4, <3>2 DEF PageInv, owner
    <3> QED BY <3>1, <3>2
  <2>7. SoleObserver' => CursorInv'
    BY <2>2, <2>4 DEF CursorInv, SoleObserver
  <2> QED BY <2>2, <2>3, <2>5, <2>6, <2>7 DEF owner
<1>9. ASSUME NEW o \in Observers, SavePage(o) \/ SaveRaises(o) PROVE ObservationInv'
  <2>1. Consume(o) /\ disk' \in {disk, cursor'} /\ Pending(o) = {}
    BY <1>9 DEF SavePage, SaveRaises, Consume
  <2>2. PICK after, n, events, reset :
          after = wait[o].after /\ n = wait[o].page.next
          /\ events = wait[o].page.events /\ reset = wait[o].page.reset
    OBVIOUS
  <2>3. /\ after \in Nat /\ n \in after..head /\ Covered(after)
        /\ reset \/ \A e \in OwnEvents : after < e /\ e <= n =>
                      e \in events \cup delivered \cup skipped
    BY <2>1, <2>2 DEF Consume, At, PageInv, TypeOK, Activation
  <2>4. /\ cursor' = n /\ UNCHANGED <<owner, delivered>>
        /\ skipped' = IF reset THEN skipped \cup (after + 1)..n ELSE skipped
    BY <2>1, <2>2 DEF Consume
  <2>5. skipped \subseteq skipped' /\ skipped' \subseteq Nat
        /\ (reset => (after + 1)..n \subseteq skipped')
    BY <2>3, <2>4 DEF TypeOK
  <2>6. \A m : Covered(m) => Covered(m)'
    BY <2>4, <2>5 DEF Covered
  <2>11. Covered(n)'
    <3> SUFFICES ASSUME NEW e \in OwnEvents, e <= n
                 PROVE  e \in delivered \cup skipped'
      BY <2>4 DEF Covered
    <3>1. e \in Nat
      BY ObservationAssumption
    <3>2. CASE e <= after
      BY <2>3, <2>5, <3>2 DEF Covered
    <3>3. CASE after < e /\ reset
      BY <2>3, <2>5, <3>1, <3>3
    <3>4. CASE after < e /\ ~reset
      BY <2>1, <2>2, <2>3, <2>5, <3>4 DEF Pending
    <3> QED BY <2>3, <3>1, <3>2, <3>3, <3>4
  <2>7. Covered(disk)' /\ Covered(cursor)' /\ disk' <= head' /\ cursor' <= head' /\ floor' <= head'
        /\ cursor' \in Nat /\ disk' \in Nat
    <3>1. (\A m : m = cursor' => Covered(m)') /\ cursor' <= head /\ cursor' \in Nat
      BY <2>3, <2>4, <2>11 DEF TypeOK
    <3>2. Covered(cursor)'
      BY <3>1 DEF Covered
    <3>3. CASE disk' = disk
      BY <2>4, <2>6, <3>1, <3>2, <3>3 DEF owner, Covered, TypeOK
    <3>4. CASE disk' = cursor'
      BY <2>4, <3>1, <3>2, <3>4 DEF owner, Covered
    <3> QED BY <2>1, <3>3, <3>4
  <2>8. /\ wait' \in [Observers -> Activation]
        /\ wait'[o].at \in {"idle", "list", "read"}
        /\ \A q \in Observers \ {o} : wait'[q] = wait[q]
        /\ observing' \in BOOLEAN /\ result' \in Outcomes
    <3>0. wait \in [Observers -> Activation] /\ wait[o] \in Activation
      BY DEF TypeOK
    <3>1. CASE SavePage(o)
      <4> DEFINE more == wait[o].page.more
                 again == more /\ wait[o].left > 1
                 l == IF again THEN "list" ELSE "read"
                 k == IF again THEN wait[o].left - 1 ELSE 0
                 b == ~more
                 a == [wait[o] EXCEPT !.at = l, !.left = k, !.page = NoPage, !.caughtUp = b]
      <4>1. Go(o, a) /\ UNCHANGED <<observing, result>>
        BY <3>1 DEF SavePage
      <4>2. wait[o].left \in 0..MaxPages /\ MaxPages \in Nat
        BY <3>0, ObservationAssumption DEF Activation
      <4>3. k \in 0..MaxPages /\ l \in Locations /\ l \in {"list", "read"}
        BY <4>2 DEF Locations
      <4>5. NoPage \in Page
        BY DEF Page, NoPage
      <4>6. b \in BOOLEAN
        OBVIOUS
      <4> HIDE DEF k, l, b
      <4>4. a \in Activation /\ a.at = l
        BY <3>0, <4>3, <4>5, <4>6 DEF Activation
      <4>7. a.at \in {"list", "read"}
        BY <4>3, <4>4
      <4> HIDE DEF a
      <4> QED BY <3>0, <4>1, <4>4, <4>7, GoFacts DEF TypeOK
    <3>2. CASE SaveRaises(o)
      <4>1. Go(o, Idle) /\ result' = "raised" /\ observing' = FALSE /\ Idle.at = "idle"
        BY <3>2 DEF SaveRaises, Return, Idle
      <4> QED BY <3>0, <4>1, IdleTyped, GoFacts DEF Outcomes
    <3> QED BY <1>9, <3>1, <3>2
  <2>9. TypeOK'
    BY <2>4, <2>5, <2>7, <2>8 DEF TypeOK, owner
  <2>10. PageInv'
    BY <2>4, <2>5, <2>6, <2>8 DEF PageInv, owner
  <2>12. SoleObserver' => CursorInv'
    <3> SUFFICES ASSUME SoleObserver PROVE CursorInv'
      BY DEF SoleObserver
    <3>1. after = cursor
      BY <2>1, <2>2 DEF CursorInv, Consume, At
    <3>2. \A q \in Observers : wait'[q].at \notin {"listing", "deliver"}
      BY <2>8 DEF SoleObserver
    <3>3. disk' <= cursor'
      BY <2>1, <2>3, <2>4, <2>7, <3>1 DEF CursorInv, TypeOK
    <3> QED BY <3>2, <3>3 DEF CursorInv
  <2> QED BY <2>7, <2>9, <2>10, <2>12
<1>10. CASE UNCHANGED vars
  <2>1. \A n : Covered(n)' = Covered(n)
    BY <1>10 DEF vars, Covered
  <2> QED BY <1>10, <2>1 DEF vars, TypeOK, PageInv, CursorInv, SoleObserver
<1> QED
  BY <1>1, <1>2, <1>3, <1>4, <1>5, <1>6, <1>7, <1>8, <1>9, <1>10 DEF Next, Step

(* However many observers there are, whatever fails and whenever the        *)
(* process restarts, every state satisfies the invariant.                   *)
THEOREM ObservationInvariant == Spec => []ObservationInv
  BY ObservationInit, ObservationStep, PTL DEF Spec

(* No own event is lost behind the stored cursor. *)
THEOREM EventsKept == Spec => []NoEventLost
<1>1. ObservationInv => NoEventLost
  BY DEF ObservationInv, NoEventLost
<1> QED BY <1>1, ObservationInvariant, PTL

(* The end of a page, seen from its start: what moves, and over what.       *)
LEMMA PageEnd ==
    ASSUME ObservationInv, SoleObserver, NEW o \in Observers,
           SavePage(o) \/ SaveRaises(o)
    PROVE  /\ UNCHANGED <<owner, delivered>>
           /\ disk' \in {disk, cursor'}
           /\ disk <= cursor /\ cursor <= cursor' /\ cursor' <= head /\ cursor' \in Nat
           /\ Covered(cursor)
           /\ skipped' \in {skipped, skipped \cup (cursor + 1)..cursor'}
<1>1. Consume(o) /\ disk' \in {disk, cursor'}
  BY DEF SavePage, SaveRaises
<1>2. wait[o].after = cursor /\ disk <= cursor
  BY <1>1 DEF Consume, At, ObservationInv, CursorInv
<1>3. wait[o].page.next \in cursor..head
  BY <1>1, <1>2 DEF Consume, At, ObservationInv, PageInv
<1> QED
  BY <1>1, <1>2, <1>3 DEF Consume, ObservationInv, TypeOK

(* With one observer at a time the stored cursor never goes back: neither a *)
(* reset, nor a late save, nor a resume from an older checkpoint undoes it. *)
THEOREM CursorNeverRegresses ==
    ASSUME SoleObserver
    PROVE  Spec => CursorMonotone
<1>1. ObservationInv /\ [Next]_vars => [disk' >= disk]_disk
  <2> SUFFICES ASSUME ObservationInv, [Next]_vars, disk' # disk PROVE disk' >= disk
    OBVIOUS
  <2>1. PICK o \in Observers : SavePage(o) \/ SaveRaises(o)
    BY DEF Next, Step, vars, Emit, Trim, Restart, Enter, Tick, Claim, Cancelled,
           DeadlineReached, Start, List, ReceivePage, ReceiveInvalid, Deliver,
           DeliverRaises, ReadTurn, ReturnOutcome, PollAgain, WakeUp, Reconnect, GiveUp,
           ReadRaises
  <2> QED
    BY <2>1, PageEnd DEF ObservationInv, TypeOK
<1> QED BY <1>1, ObservationInvariant, PTL DEF Spec, CursorMonotone

(* wait(), restarts, retention resets, failing callbacks and failing saves  *)
(* together deliver every own event at least once and in order, and store   *)
(* no cursor beyond what was delivered.                                     *)
THEOREM ObservationRefinement ==
    ASSUME SoleObserver
    PROVE  Spec => Implements
<1>1. Init => Promise!Init
  BY DEF Init, Promise!Init
<1>2. ObservationInv /\ ObservationInv' /\ [Next]_vars => [Promise!Next]_(Promise!vars)
  <2> SUFFICES ASSUME ObservationInv, ObservationInv', [Next]_vars
               PROVE  [Promise!Next]_(Promise!vars)
    OBVIOUS
  <2>0. \A n : Covered(n) <=> Promise!Covered(n)
    BY DEF Covered, Promise!Covered
  <2>1. CASE Emit
    BY <2>1 DEF Emit, Promise!Next, Promise!Emit
  <2>2. ASSUME NEW o \in Observers, Deliver(o) PROVE Promise!Deliver
    <3>1. PICK e \in Pending(o) : NextEvent(o, e) /\ delivered' = delivered \cup {e}
      BY <2>2 DEF Deliver
    <3>2. UNCHANGED <<head, disk, skipped>>
      BY <2>2 DEF Deliver, owner
    <3>3. /\ e \in OwnEvents /\ e \in Nat /\ e > wait[o].after
          /\ e \in wait[o].page.events /\ wait[o].after \in Nat
      BY <3>1, ObservationAssumption DEF Pending, ObservationInv, TypeOK, Activation
    <3>4. /\ Covered(wait[o].after) /\ e <= wait[o].page.next
          /\ wait[o].page.next \in Nat /\ wait[o].page.next <= head /\ head \in Nat
      BY <2>2, <3>3 DEF Deliver, At, ObservationInv, PageInv, TypeOK
    <3>5. Covered(e - 1)
      <4> SUFFICES ASSUME NEW f \in OwnEvents, f <= e - 1
                   PROVE  f \in delivered \cup skipped
        BY DEF Covered
      <4>1. f \in Nat /\ f < e
        BY <3>3, ObservationAssumption
      <4>2. CASE f <= wait[o].after
        BY <3>4, <4>2 DEF Covered
      <4>3. CASE f > wait[o].after
        <5>1. f \notin wait[o].page.events
          BY <3>1, <3>3, <4>1, <4>3 DEF NextEvent, Pending
        <5>2. CASE wait[o].page.reset
          BY <2>2, <3>3, <5>2 DEF Deliver, At, ObservationInv, PageInv
        <5>3. CASE ~wait[o].page.reset
          BY <2>2, <3>3, <3>4, <4>1, <4>3, <5>1, <5>3
          DEF Deliver, At, ObservationInv, PageInv
        <5> QED BY <5>2, <5>3
      <4> QED BY <3>3, <4>1, <4>2, <4>3
    <3> QED
      BY <2>0, <3>1, <3>2, <3>3, <3>4, <3>5 DEF Promise!Deliver
  <2>3. ASSUME NEW o \in Observers, SavePage(o) \/ SaveRaises(o)
        PROVE  Promise!Acknowledge \/ Promise!Reset
    <3>1. /\ UNCHANGED <<owner, delivered>> /\ disk' \in {disk, cursor'}
          /\ disk <= cursor /\ cursor <= cursor' /\ cursor' <= head /\ cursor' \in Nat
          /\ Covered(cursor)
          /\ skipped' \in {skipped, skipped \cup (cursor + 1)..cursor'}
      BY <2>3, PageEnd
    <3>2. disk \in Nat /\ cursor \in Nat /\ head \in Nat
      BY DEF ObservationInv, TypeOK
    <3>3. CASE skipped' = skipped
      <4>1. Covered(disk')
        BY <3>1, <3>3 DEF ObservationInv, Covered
      <4> QED
        BY <2>0, <3>1, <3>2, <3>3, <4>1 DEF Promise!Acknowledge, owner
    <3>4. CASE skipped' = skipped \cup (cursor + 1)..cursor'
      BY <2>0, <3>1, <3>2, <3>4 DEF Promise!Reset, owner
    <3> QED BY <3>1, <3>3, <3>4
  <2>4. ASSUME ~Emit, \A o \in Observers : ~Deliver(o) /\ ~SavePage(o) /\ ~SaveRaises(o)
        PROVE  UNCHANGED Promise!vars
    BY <2>4
    DEF Promise!vars, Next, Step, vars, owner, ghosts, Trim, Restart, Enter, Tick, Claim,
        Cancelled, DeadlineReached, Start, List, ReceivePage, ReceiveInvalid, DeliverRaises,
        ReadTurn, ReturnOutcome, PollAgain, WakeUp, Reconnect, GiveUp, ReadRaises
  <2> QED BY <2>1, <2>2, <2>3, <2>4 DEF Promise!Next
<1> QED
  BY <1>1, <1>2, ObservationInvariant, PTL DEF Spec, Implements, Promise!Spec

=============================================================================
