-------------------------- MODULE TaskObservation --------------------------
(***************************************************************************)
(* Task.wait and Task._backfill (src/deixic/tasks.py): the bounded polling  *)
(* that backfills the owner's event history page by page, hands each event  *)
(* of the task's own turn to the application's callback, moves and saves    *)
(* the cursor, and reads the turn's state until it needs nobody's patience  *)
(* any more.  The process may stop between any two steps and resume from    *)
(* the stored cursor; the owner's history grows and is trimmed meanwhile.   *)
(*                                                                          *)
(* The task is accepted.  Reading the turn is one step here; how its pages, *)
(* message and receipts are put together is not this module's subject.      *)
(***************************************************************************)
EXTENDS Integers

CONSTANTS
    Observers,         \* activations of wait() on one handle
    OwnEvents,         \* cursors at which the history holds an event of this turn
    MaxHead,           \* bound on the owner's history
    PageSize,          \* most events in a page
    MaxPages,          \* wait's max_pages
    MaxReconnects      \* wait's max_reconnect_attempts

ASSUME ObservationAssumption ==
    /\ OwnEvents \subseteq Nat \ {0}
    /\ MaxHead \in Nat /\ MaxReconnects \in Nat
    /\ PageSize \in Nat \ {0} /\ MaxPages \in Nat \ {0}

VARIABLES
    head,              \* owner: the history's last cursor
    floor,             \* owner: cursors up to here are no longer retained
    turnState,         \* owner: the state of the accepted turn
    disk,              \* the cursor in the stored checkpoint
    cursor,            \* Task._state["cursor"] of the live handle
    observing,         \* Task._observing
    wait,              \* the local state of each activation of wait()
    result,            \* what the last wait() returned, "raised", or "none"
    delivered,         \* history: own events on_event returned from
    skipped            \* history: cursors a retention reset passed over

owner == <<head, floor, turnState>>
ghosts == <<delivered, skipped>>
vars == <<head, floor, turnState, disk, cursor, observing, wait, result,
          delivered, skipped>>

----------------------------------------------------------------------------
(* The owner of the history and the turn (external). *)

(* "completed" stands for every terminal state. *)
TurnStates == {"running", "responded", "waiting", "completed"}

TurnSuccessors(s) == IF s = "completed" THEN {s} ELSE TurnStates

(* A page of a history: the cursors of its events, the watermark the caller *)
(* continues from, whether more events follow, and the retention reset,     *)
(* whose watermark is the cursor of the snapshot.                           *)
Page == [events : SUBSET Nat, next : Int, more : BOOLEAN, reset : BOOLEAN]

NoPage == [events |-> {}, next |-> 0, more |-> FALSE, reset |-> FALSE]

(* What events.list can answer to a request after cursor c.  A page may     *)
(* repeat older events; the damaged answers are those the code looks for: a *)
(* watermark beyond the page, more events without progress, and a reset to  *)
(* a cursor before the one that was asked for.                              *)
Answers(c) ==
    IF c < floor
      THEN {[events |-> {}, next |-> n, more |-> FALSE, reset |-> TRUE] :
              n \in {head, c - 1}}
      ELSE {[events |-> low..n, next |-> n, more |-> n < head, reset |-> FALSE] :
              low \in {floor + 1, c + 1},
              n \in IF c >= head THEN {c} ELSE (c + 1)..head}
           \cup {[events |-> {}, next |-> c + 1, more |-> FALSE, reset |-> FALSE],
                 [events |-> {}, next |-> c, more |-> TRUE, reset |-> FALSE]}

Fits(p, c) == p.next <= c + PageSize \/ p.reset

Emit ==
    /\ head < MaxHead
    /\ head' = head + 1
    /\ turnState' \in TurnSuccessors(turnState)
    /\ UNCHANGED <<floor, disk, cursor, observing, wait, result, delivered, skipped>>

Trim ==
    /\ floor' \in (floor + 1)..head
    /\ UNCHANGED <<head, turnState, disk, cursor, observing, wait, result, delivered, skipped>>

----------------------------------------------------------------------------
Idle ==
    [at |-> "idle", after |-> 0, page |-> NoPage, left |-> 0, reconnects |-> 0,
     caughtUp |-> FALSE, status |-> "unfinished", expired |-> FALSE]

At(o, location) == wait[o].at = location

(* The activation moves on to local state a. *)
Go(o, a) == wait' = [wait EXCEPT ![o] = a]

Init ==
    /\ head = 0 /\ floor = 0 /\ turnState = "running"
    /\ disk = 0 /\ cursor = 0
    /\ observing = FALSE
    /\ wait = [o \in Observers |-> Idle]
    /\ result = "none"
    /\ delivered = {} /\ skipped = {}

(* The process ends anywhere, and another resumes from the checkpoint. *)
Restart ==
    /\ cursor' = disk
    /\ observing' = FALSE
    /\ wait' = [o \in Observers |-> Idle]
    /\ result' = "none"
    /\ UNCHANGED <<owner, disk, ghosts>>

(* wait() refuses a second observer... *)
Enter(o) ==
    /\ At(o, "idle")
    /\ ~observing
    /\ Go(o, [wait[o] EXCEPT !.at = "claim"])
    /\ result' = "none"
    /\ UNCHANGED <<owner, disk, cursor, observing, ghosts>>

(* ...and claims the handle after reading the clock. *)
Claim(o) ==
    /\ At(o, "claim")
    /\ observing' = TRUE
    /\ Go(o, [wait[o] EXCEPT !.at = "start"])
    /\ UNCHANGED <<owner, disk, cursor, result, ghosts>>

(* The deadline passes, as _remaining and the loop see it. *)
Tick(o) ==
    /\ ~At(o, "idle") /\ ~At(o, "claim") /\ ~wait[o].expired
    /\ Go(o, [wait[o] EXCEPT !.expired = TRUE])
    /\ UNCHANGED <<owner, disk, cursor, observing, result, ghosts>>

(* Mutant of Expired: the deadline is never looked at. *)
NeverExpired(o) == FALSE

Expired(o) == wait[o].expired

(* Mutant of Return: the finally clause does not give the handle back. *)
ReturnKeepsHandle(o, r) ==
    /\ Go(o, Idle)
    /\ result' = r
    /\ UNCHANGED observing

(* wait() ends, by a return or an exception, and gives the handle back. *)
Return(o, r) ==
    /\ Go(o, Idle)
    /\ result' = r
    /\ observing' = FALSE

(* cancelled() is polled at the head of the loop, after the backfill, after *)
(* the read of the turn and while sleeping; it says so, or raises.          *)
Cancelled(o) ==
    /\ wait[o].at \in {"start", "read", "decide", "sleep"}
    /\ Return(o, "cancelled") \/ Return(o, "raised")
    /\ UNCHANGED <<owner, disk, cursor, ghosts>>

(* _remaining is asked at the head of the loop, before each request, and    *)
(* after the turn was read.                                                 *)
DeadlineReached(o) ==
    /\ wait[o].at \in {"start", "list", "read", "decide"}
    /\ Expired(o)
    /\ Return(o, "deadline")
    /\ UNCHANGED <<owner, disk, cursor, ghosts>>

Start(o) ==
    /\ At(o, "start") /\ ~Expired(o)
    /\ Go(o, [wait[o] EXCEPT !.at = "list", !.left = MaxPages])
    /\ UNCHANGED <<owner, disk, cursor, observing, result, ghosts>>

----------------------------------------------------------------------------
(* _backfill: one page at a time. *)

List(o) ==
    /\ At(o, "list") /\ ~Expired(o)
    /\ Go(o, [wait[o] EXCEPT !.at = "listing", !.after = cursor])
    /\ UNCHANGED <<owner, disk, cursor, observing, result, ghosts>>

(* Mutants of ValidAnswer: the watermark is not compared with the events,   *)
(* the reset not with the cursor.                                           *)
ValidWithoutWatermark(p, c) ==
    IF p.reset THEN p.next >= c ELSE p.more => p.next > c
ValidWithoutReset(p, c) ==
    p.reset \/ ( /\ p.next >= c /\ p.next \in {c} \cup p.events
                 /\ \A e \in p.events : e <= p.next
                 /\ p.more => p.next > c )

(* _validate_page and the check of a reset: the watermark is the largest    *)
(* cursor of the page or the one asked for, more events need progress, and  *)
(* a reset never goes back.                                                 *)
ValidAnswer(p, c) ==
    IF p.reset
      THEN p.next >= c
      ELSE /\ p.next >= c /\ p.next \in {c} \cup p.events
           /\ \A e \in p.events : e <= p.next
           /\ p.more => p.next > c

ReceivePage(o) ==
    /\ At(o, "listing")
    /\ \E p \in Answers(wait[o].after) :
         /\ Fits(p, wait[o].after) /\ ValidAnswer(p, wait[o].after)
         /\ Go(o, [wait[o] EXCEPT !.at = "deliver", !.page = p])
    /\ UNCHANGED <<owner, disk, cursor, observing, result, ghosts>>

ReceiveInvalid(o) ==
    /\ At(o, "listing")
    /\ \E p \in Answers(wait[o].after) : ~ValidAnswer(p, wait[o].after)
    /\ Return(o, "raised")
    /\ UNCHANGED <<owner, disk, cursor, ghosts>>

(* Of a page, the new events of this task's turn that are still to be       *)
(* handed to the callback.                                                  *)
Pending(o) ==
    {e \in wait[o].page.events : e \in OwnEvents /\ e > wait[o].after}

(* Mutant of NextEvent: the page's events are not sorted first. *)
AnyEvent(o, e) == e \in Pending(o)

(* Events are handed over in the order of their cursors. *)
NextEvent(o, e) == e \in Pending(o) /\ \A f \in Pending(o) : e <= f

Without(p, e) == [p EXCEPT !.events = @ \ {e}]

Deliver(o) ==
    /\ At(o, "deliver")
    /\ \E e \in Pending(o) :
         /\ NextEvent(o, e)
         /\ delivered' = delivered \cup {e}
         /\ Go(o, [wait[o] EXCEPT !.page = Without(@, e)])
    /\ UNCHANGED <<owner, disk, cursor, observing, result, skipped>>

(* Mutant of DeliverRaises: a callback that fails has consumed the page. *)
DeliverRaisesConsumed(o) ==
    /\ At(o, "deliver") /\ Pending(o) # {}
    /\ cursor' = wait[o].page.next /\ disk' = cursor'
    /\ Return(o, "raised")
    /\ UNCHANGED <<owner, ghosts>>

(* on_event raises: the page stays unconsumed. *)
DeliverRaises(o) ==
    /\ At(o, "deliver") /\ Pending(o) # {}
    /\ Return(o, "raised")
    /\ UNCHANGED <<owner, disk, cursor, ghosts>>

(* The end of a page: the cursor moves to the page's watermark or to the    *)
(* reset's snapshot.                                                        *)
Consume(o) ==
    /\ At(o, "deliver") /\ Pending(o) = {}
    /\ cursor' = wait[o].page.next
    /\ skipped' = IF wait[o].page.reset
                    THEN skipped \cup (wait[o].after + 1)..wait[o].page.next
                    ELSE skipped
    /\ UNCHANGED <<owner, delivered>>

(* on_checkpoint stores it; the backfill ends with the history or with its  *)
(* budget of pages.                                                         *)
SavePage(o) ==
    /\ Consume(o)
    /\ disk' = cursor'
    /\ LET more == wait[o].page.more
           again == more /\ wait[o].left > 1
       IN Go(o, [wait[o] EXCEPT !.at = IF again THEN "list" ELSE "read",
                                !.left = IF again THEN @ - 1 ELSE 0,
                                !.page = NoPage, !.caughtUp = ~more])
    /\ UNCHANGED <<observing, result>>

(* on_checkpoint raises, before or after its write: the handle has moved on. *)
SaveRaises(o) ==
    /\ Consume(o)
    /\ disk' \in {disk, cursor'}
    /\ Return(o, "raised")

----------------------------------------------------------------------------
(* The rest of wait()'s loop. *)

(* _result: the turn as the owner shows it, or not to be seen yet. *)
ReadTurn(o) ==
    /\ At(o, "read") /\ ~Expired(o)
    /\ \E s \in {turnState, "unfinished"} :
         Go(o, [wait[o] EXCEPT !.at = "decide", !.status = s])
    /\ UNCHANGED <<owner, disk, cursor, observing, result, ghosts>>

Settled(s) == s \in {"waiting", "completed"}

ReturnOutcome(o) ==
    /\ At(o, "decide") /\ ~Expired(o)
    /\ \/ Settled(wait[o].status) /\ Return(o, wait[o].status)
       \/ ~Settled(wait[o].status) /\ ~wait[o].caughtUp /\ Return(o, "backfill_limit")
    /\ UNCHANGED <<owner, disk, cursor, ghosts>>

PollAgain(o) ==
    /\ At(o, "decide") /\ ~Expired(o)
    /\ ~Settled(wait[o].status) /\ wait[o].caughtUp
    /\ Go(o, [wait[o] EXCEPT !.at = "sleep", !.reconnects = 0])
    /\ UNCHANGED <<owner, disk, cursor, observing, result, ghosts>>

WakeUp(o) ==
    /\ At(o, "sleep")
    /\ Go(o, [wait[o] EXCEPT !.at = "start"])
    /\ UNCHANGED <<owner, disk, cursor, observing, result, ghosts>>

(* A transport or availability error of a read is retried, so often. *)
Reconnect(o) ==
    /\ wait[o].at \in {"listing", "read"}
    /\ ~Expired(o) /\ wait[o].reconnects < MaxReconnects
    /\ Go(o, [wait[o] EXCEPT !.at = "sleep", !.reconnects = @ + 1])
    /\ UNCHANGED <<owner, disk, cursor, observing, result, ghosts>>

GiveUp(o) ==
    /\ wait[o].at \in {"listing", "read"}
    /\ \/ Expired(o) /\ Return(o, "deadline")
       \/ ~Expired(o) /\ wait[o].reconnects = MaxReconnects
            /\ Return(o, "observation_error")
    /\ UNCHANGED <<owner, disk, cursor, ghosts>>

(* Any other error of a read propagates. *)
ReadRaises(o) ==
    /\ wait[o].at \in {"listing", "read"}
    /\ Return(o, "raised")
    /\ UNCHANGED <<owner, disk, cursor, ghosts>>

----------------------------------------------------------------------------
Step(o) ==
    \/ Claim(o) \/ Cancelled(o) \/ DeadlineReached(o) \/ Start(o)
    \/ List(o) \/ ReceivePage(o) \/ ReceiveInvalid(o)
    \/ Deliver(o) \/ DeliverRaises(o) \/ SavePage(o) \/ SaveRaises(o)
    \/ ReadTurn(o) \/ ReturnOutcome(o) \/ PollAgain(o) \/ WakeUp(o)
    \/ Reconnect(o) \/ GiveUp(o) \/ ReadRaises(o)

Next ==
    \/ Emit \/ Trim \/ Restart
    \/ \E o \in Observers : Enter(o) \/ Tick(o) \/ Step(o)

Spec == Init /\ [][Next]_vars

(* Reads end (the transport has timeouts), callbacks return, time passes. *)
Progress == \A o \in Observers : WF_vars(Step(o)) /\ WF_vars(Tick(o))

(* The application keeps waiting, and neither its callbacks nor the reads   *)
(* fail for ever; Restart, Trim, errors and cancellation carry no fairness. *)
Patience ==
    \A o \in Observers :
      /\ SF_vars(Enter(o)) /\ SF_vars(Claim(o)) /\ SF_vars(Start(o)) /\ SF_vars(List(o))
      /\ SF_vars(ReceivePage(o)) /\ SF_vars(Deliver(o)) /\ SF_vars(SavePage(o))

FairSpec == Spec /\ Progress /\ Patience

----------------------------------------------------------------------------
(* Properties. *)

Locations == {"idle", "claim", "start", "list", "listing", "deliver", "read",
              "decide", "sleep"}

Activation ==
    [at : Locations, after : Nat, page : Page, left : 0..MaxPages,
     reconnects : 0..MaxReconnects, caughtUp : BOOLEAN,
     status : TurnStates \cup {"unfinished"}, expired : BOOLEAN]

Outcomes == {"none", "raised", "cancelled", "deadline", "waiting", "completed",
             "backfill_limit", "observation_error"}

(* The type invariant. *)
TypeOK ==
    /\ head \in Nat /\ floor \in Nat /\ turnState \in TurnStates
    /\ disk \in Nat /\ cursor \in Nat
    /\ observing \in BOOLEAN
    /\ wait \in [Observers -> Activation]
    /\ result \in Outcomes
    /\ delivered \subseteq OwnEvents /\ skipped \subseteq Nat

Covered(n) == \A e \in OwnEvents : e <= n => e \in delivered \cup skipped

(* What an activation of wait() knows of the page it is working on: where   *)
(* it starts everything is covered, and the rest up to its watermark is in  *)
(* the page or covered as well.                                             *)
PageInv ==
    \A o \in Observers :
      LET after == wait[o].after  page == wait[o].page IN
      /\ wait[o].at \in {"listing", "deliver"} => after <= head /\ Covered(after)
      /\ wait[o].at = "deliver" =>
           /\ page.next \in after..head
           /\ \A e \in page.events : e <= page.next
           /\ page.reset => page.events = {}
           /\ ~page.reset => \A e \in OwnEvents : after < e /\ e <= page.next =>
                                e \in page.events \cup delivered \cup skipped

(* A sole observer finds the cursor where it left it, and storage never     *)
(* ahead of the handle.                                                     *)
SoleObserver == \A o, p \in Observers : o = p

CursorInv ==
    /\ disk <= cursor
    /\ \A o \in Observers :
         wait[o].at \in {"listing", "deliver"} => wait[o].after = cursor

(* The inductive invariant, for any number of observers. *)
ObservationInv ==
    /\ TypeOK
    /\ floor <= head /\ disk <= head /\ cursor <= head
    /\ Covered(disk) /\ Covered(cursor)
    /\ PageInv
    /\ SoleObserver => CursorInv

(* Every own event up to the stored cursor has been through the callback,   *)
(* or a reset declared it gone: no crash, failed save, failed callback,     *)
(* cancellation or damaged page loses one.                                  *)
NoEventLost == Covered(disk)

(* The stored cursor never goes back (one observer at a time). *)
CursorMonotone == [][disk' >= disk]_disk

(* The observation implements its abstract specification. *)
Promise == INSTANCE DeliverAtLeastOnce WITH acknowledged <- disk

Implements == Promise!Spec

(* wait() ends whatever the owner, the network and the callbacks do. *)
WaitReturns == \A o \in Observers : wait[o].at # "idle" ~> wait[o].at = "idle"

(* An application that keeps waiting sees every event of its turn. *)
EventuallyDelivered ==
    \A e \in OwnEvents : head >= e ~> e \in delivered \cup skipped
=============================================================================
