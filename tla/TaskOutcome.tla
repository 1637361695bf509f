---------------------------- MODULE TaskOutcome ----------------------------
(***************************************************************************)
(* Reading what became of an accepted turn (Task._result and               *)
(* _waiting_request in src/deixic/tasks.py) and deciding on the request it  *)
(* waits for (approve and deny in examples/account_brief.py).  A read takes *)
(* several pages, of the thread and then of its events, and the turn moves  *)
(* on between them.                                                         *)
(*                                                                          *)
(* Platform is external: it keeps the thread's history of events, whose     *)
(* cursors are 1, 2, ..., and forgets the oldest.                           *)
(***************************************************************************)
EXTENDS Integers, Sequences

CONSTANTS
    Kinds,             \* kinds of requests a turn may wait for
    Approval,          \* the kind approve and deny decide on
    Failures,          \* "failed", "interrupted": the ends that are no completion
    Tokens, FirstPage, \* page tokens of the thread, and the empty one
    MaxPages,          \* max_pages
    MaxCursor          \* bound of the history (for TLC)

ASSUME OutcomeAssumption ==
    /\ Approval \in Kinds /\ Kinds \cap {"own", "other", "none"} = {}
    /\ Failures \cap {"running", "responded", "waiting", "completed",
                    "unfinished", "none"} = {}
    /\ FirstPage \notin Tokens
    /\ MaxPages \in Nat \ {0} /\ MaxCursor \in Nat

VARIABLES
    history,           \* an event is the request it raises, or "own" or "other"
    floor,             \* events up to here are forgotten
    turn,              \* the turn: its state, the request it waits for, first_cursor
    call,              \* the local state of _result, and of approve or deny
    outcome,           \* what _result has just returned
    during             \* history variable: every turn there was since the call began

platform == <<history, floor, turn>>
vars == <<platform, call, outcome, during>>

----------------------------------------------------------------------------
(* Platform. *)

Over == {"completed"} \cup Failures
TurnStates == {"running", "responded", "waiting"} \cup Over

NoOutcome == [status |-> "none", reason |-> "none", request |-> 0]

IsRequest(c) == history[c] \in Kinds

(* A turn that does not wait may end or go on; no end is left again. *)
TurnSuccessors(state) ==
    CASE state = "running" -> {"responded"} \cup Over
      [] state = "responded" -> Over
      [] state = "waiting" -> {"running"} \cup Failures
      [] OTHER -> {}

(* The history variables: a call under way lives to see the turn change, and *)
(* an outcome is looked at when it is returned.                             *)
Watch ==
    /\ during' = IF call.at = "idle" THEN {} ELSE during \cup {turn'}
    /\ outcome' = NoOutcome

FirstOwn == IF turn.first = 0 THEN Len(history) + 1 ELSE turn.first

Emit(event) ==
    /\ Len(history) < MaxCursor
    /\ event = "own" => turn.state \notin Over
    /\ history' = Append(history, event)
    /\ turn' = IF event = "own" THEN [turn EXCEPT !.first = FirstOwn] ELSE turn
    /\ Watch
    /\ UNCHANGED <<floor, call>>

Raise(kind) ==
    /\ Len(history) < MaxCursor
    /\ turn.state \in {"running", "responded"}
    /\ history' = Append(history, kind)
    /\ turn' = [state |-> "waiting", request |-> Len(history) + 1, first |-> FirstOwn]
    /\ Watch
    /\ UNCHANGED <<floor, call>>

(* The turn moves on; its request, if any, was answered or is void. *)
Move(state) ==
    /\ state \in TurnSuccessors(turn.state)
    /\ turn' = [turn EXCEPT !.state = state, !.request = 0]
    /\ Watch
    /\ UNCHANGED <<history, floor, call>>

Trim ==
    /\ floor < Len(history)
    /\ floor' = floor + 1
    /\ UNCHANGED <<history, turn, call>>
    /\ Watch

----------------------------------------------------------------------------
(* The call. *)

NoTurn == [state |-> "none", reason |-> "none", first |-> 0]

(* TaskTurn as the thread's page shows it now. *)
TurnNow == [state |-> turn.state, first |-> turn.first,
            reason |-> IF turn.state = "waiting" THEN history[turn.request] ELSE "none"]

Idle == [at |-> "idle", wanted |-> 0, turn |-> NoTurn, final |-> FALSE,
         pages |-> <<FirstPage>>, left |-> MaxPages, cursor |-> 0, request |-> 0]

Go(c) == call' = c /\ UNCHANGED <<platform, outcome, during>>

Init ==
    /\ history = <<>> /\ floor = 0
    /\ turn = [state |-> "running", request |-> 0, first |-> 0]
    /\ call = Idle /\ outcome = NoOutcome /\ during = {}

(* result() wants nothing in particular; approve and deny name a request    *)
(* somebody has seen.                                                       *)
Ask(wanted) ==
    /\ call.at = "idle"
    /\ call' = [Idle EXCEPT !.at = "thread", !.wanted = wanted]
    /\ outcome' = NoOutcome
    /\ during' = {turn}
    /\ UNCHANGED <<platform>>

(* A read fails, misses its deadline, or answers for something else. *)
Fail ==
    /\ call.at # "idle"
    /\ Go(Idle)

(* Mutant of MayDecide: whatever the turn waits for is decided. *)
MayDecideAnything(status, request) ==
    /\ call.wanted # 0
    /\ status = "waiting" /\ request # 0 /\ history[request] = Approval

(* approve and deny: the request named is still the current one. *)
MayDecide(status, request) ==
    /\ status = "waiting" /\ request # 0
    /\ history[request] = Approval /\ request = call.wanted

(* _result returns, to the application or to approve and deny. *)
Return(status, request) ==
    /\ outcome' = [status |-> status, reason |-> call.turn.reason, request |-> request]
    /\ call' = IF MayDecide(status, request)
                 THEN [Idle EXCEPT !.at = "respond", !.wanted = call.wanted,
                                   !.request = request]
                 ELSE Idle
    /\ UNCHANGED <<platform, during>>

(* The decision is sent; what Platform makes of it is a Move, or nothing. *)
Respond ==
    /\ call.at = "respond"
    /\ Go(Idle)

----------------------------------------------------------------------------
(* Pages of the thread. *)

(* What the call knows after a page: the turn as first seen, if the page has *)
(* it or one before had, and whether the linked final message was seen.     *)
PageShows(seen, final) ==
    /\ call.at = "thread"
    /\ seen \in IF call.turn = NoTurn THEN {NoTurn, TurnNow} ELSE {call.turn}
    /\ final \in {call.final} \cup IF turn.state = "completed" THEN {TRUE} ELSE {}

(* No further page is needed. *)
Enough(seen, final) == seen # NoTurn /\ (seen.state = "completed" => final)

(* Mutant of StartCursor: the turn's first event is passed over. *)
StartAfterFirst(seen) == seen.first

StartCursor(seen) == IF seen.first = 0 THEN 0 ELSE seen.first - 1

Status(seen) == IF seen.state = "running" THEN "unfinished" ELSE seen.state

FindTurn ==
    \E seen \in {TurnNow, call.turn}, final \in BOOLEAN :
      /\ PageShows(seen, final) /\ Enough(seen, final)
      /\ CASE seen.state = "waiting" ->
                Go([Idle EXCEPT !.at = "events", !.wanted = call.wanted,
                                !.turn = seen, !.cursor = StartCursor(seen)])
           [] seen.state = "completed" ->
                Go([Idle EXCEPT !.at = "receipts", !.wanted = call.wanted, !.turn = seen])
           [] OTHER -> Return(Status(seen), 0)

(* Mutant of Repeated: the tokens seen are not kept. *)
RepeatedNever(token) == FALSE

Repeated(token) == \E i \in 1..Len(call.pages) : call.pages[i] = token

(* Mutant of LastPage: one page too many. *)
LastPageLate == call.left = 0

LastPage == call.left = 1

(* The page was not enough: there is a next one, or not. *)
NextThreadPage ==
    \E seen \in {NoTurn, TurnNow, call.turn}, token \in Tokens :
      /\ PageShows(seen, FALSE) /\ ~Enough(seen, FALSE)
      /\ ~Repeated(token) /\ ~LastPage
      /\ Go([call EXCEPT !.turn = seen, !.left = @ - 1, !.pages = Append(@, token)])

TokenRepeated ==
    \E seen \in {NoTurn, TurnNow, call.turn}, token \in Tokens :
      /\ PageShows(seen, FALSE) /\ ~Enough(seen, FALSE)
      /\ Repeated(token)
      /\ Go(Idle)

ThreadPageLimit ==
    \E seen \in {NoTurn, TurnNow, call.turn}, token \in Tokens :
      /\ PageShows(seen, FALSE) /\ ~Enough(seen, FALSE)
      /\ ~Repeated(token) /\ LastPage
      /\ Return("unfinished", 0)

(* Without the turn it is not visible; without its final message the answer *)
(* is refused.                                                              *)
ThreadEnds ==
    \E seen \in {NoTurn, TurnNow, call.turn} :
      /\ PageShows(seen, FALSE) /\ ~Enough(seen, FALSE)
      /\ IF seen = NoTurn THEN Return("unfinished", 0) ELSE Go(Idle)

ReadReceipts ==
    /\ call.at = "receipts"
    /\ Return("completed", 0)

----------------------------------------------------------------------------
(* Pages of events: _waiting_request. *)

RequestsOf(last) == {c \in call.cursor + 1..last : IsRequest(c)}

(* Mutant of IsNewest: the first request of a page is taken. *)
IsOldest(request, last) ==
    IF RequestsOf(last) = {} THEN request = call.request
    ELSE request \in RequestsOf(last) /\ \A c \in RequestsOf(last) : request <= c

(* The newest request of the turn up to the end of the page. *)
IsNewest(request, last) ==
    IF RequestsOf(last) = {} THEN request = call.request
    ELSE request \in RequestsOf(last) /\ \A c \in RequestsOf(last) : c <= request

EventsReset ==
    /\ call.at = "events" /\ call.cursor < floor
    /\ Return("waiting", 0)

(* A page ends anywhere; has_more says whether the history goes on. *)
PageEnds(last) ==
    /\ call.at = "events" /\ call.cursor >= floor
    /\ last \in call.cursor..Len(history)
    /\ last = call.cursor => last = Len(history)

NextEventsPage ==
    \E last \in 1..Len(history), request \in 0..Len(history) :
      /\ PageEnds(last) /\ last < Len(history) /\ ~LastPage
      /\ IsNewest(request, last)
      /\ Go([call EXCEPT !.cursor = last, !.left = @ - 1, !.request = request])

EventsPageLimit ==
    \E last \in 1..Len(history) :
      /\ PageEnds(last) /\ last < Len(history) /\ LastPage
      /\ Return("waiting", 0)

(* Mutant of Expected: any request is what the turn waits for. *)
ExpectedAny(request) == request # 0

(* The request is of the kind of the turn's waiting reason. *)
Expected(request) == request # 0 /\ history[request] = call.turn.reason

EventsEnd ==
    \E request \in 0..Len(history) :
      /\ PageEnds(Len(history))
      /\ IsNewest(request, Len(history))
      /\ Return("waiting", IF Expected(request) THEN request ELSE 0)

----------------------------------------------------------------------------
Platform ==
    \/ \E event \in {"own", "other"} : Emit(event)
    \/ \E kind \in Kinds : Raise(kind)
    \/ \E state \in TurnStates : Move(state)
    \/ Trim

Read ==
    \/ FindTurn \/ NextThreadPage \/ TokenRepeated \/ ThreadPageLimit \/ ThreadEnds
    \/ ReadReceipts
    \/ EventsReset \/ NextEventsPage \/ EventsPageLimit \/ EventsEnd

Next ==
    \/ Platform
    \/ \E wanted \in {0} \cup {c \in 1..Len(history) : IsRequest(c)} : Ask(wanted)
    \/ Read \/ Fail \/ Respond

Spec == Init /\ [][Next]_vars

----------------------------------------------------------------------------
(* Properties. *)

Turns == [state : TurnStates, request : Nat, first : Nat]

Calls ==
    [at : {"idle", "thread", "events", "receipts", "respond"},
     wanted : Nat,
     turn : [state : TurnStates \cup {"none"}, reason : Kinds \cup {"none"}, first : Nat],
     final : BOOLEAN, pages : Seq(Tokens \cup {FirstPage}), left : 1..MaxPages,
     cursor : Nat, request : Nat]

(* The type invariant. *)
TypeOK ==
    /\ history \in Seq(Kinds \cup {"own", "other"})
    /\ floor \in 0..Len(history)
    /\ turn \in Turns /\ call \in Calls
    /\ outcome \in [status : TurnStates \cup {"unfinished", "none"},
                    reason : Kinds \cup {"none"}, request : Nat]
    /\ during \subseteq Turns

(* Some turn of this call's time waited for the request. *)
Waited(request) == \E t \in during : t.state = "waiting" /\ t.request = request

(* "A waiting outcome includes its turn's waiting reason and a freshly       *)
(* retrieved request event": a status that is returned was the turn's at    *)
(* some time during the call, and a request that is returned is one the     *)
(* turn waited for during the call, of the kind returned with it.  None of  *)
(* it need be so when the call begins or when it returns.                   *)
OutcomeWasTrue ==
    /\ outcome.status \in TurnStates => \E t \in during : t.state = outcome.status
    /\ outcome.request # 0 =>
         Waited(outcome.request) /\ history[outcome.request] = outcome.reason

(* "[...] when retained": as long as the turn does not change, its request  *)
(* is found, unless it is forgotten or beyond the last page that is read.   *)
RequestFound ==
    outcome.status = "waiting" /\ outcome.request = 0 /\ (\A s, t \in during : s = t)
      => \E t \in during : t.first <= floor \/ Len(history) - t.first + 1 > MaxPages

(* "no approval is invented or sent automatically": a decision is sent for  *)
(* the request that was named, an approval the turn waited for after the    *)
(* command had begun.                                                       *)
DecisionInformed ==
    call.at = "respond" =>
      /\ call.request = call.wanted /\ history[call.request] = Approval
      /\ Waited(call.request)

(* No page of the thread is read twice in a call, whatever tokens come. *)
PagesReadOnce ==
    \A i, j \in 1..Len(call.pages) : call.pages[i] = call.pages[j] => i = j
(* The turn waits for its newest request, none of them before its first     *)
(* event.                                                                   *)
TurnInv ==
    /\ turn.first <= Len(history)
    /\ \A c \in 1..Len(history) : IsRequest(c) => turn.first \in 1..c
    /\ turn.state = "waiting" =>
         /\ turn.request \in 1..Len(history) /\ IsRequest(turn.request)
         /\ \A c \in turn.request + 1..Len(history) : ~IsRequest(c)

(* While a call is under way its turns are recorded, each with a request of *)
(* its own history.                                                         *)
DuringInv ==
    call.at # "idle" =>
      /\ turn \in during
      /\ \A t \in during :
           t.state = "waiting" =>
             t.request \in 1..Len(history) /\ IsRequest(t.request) /\ t.first = turn.first

(* The turn the call has seen was the turn, and what it has waited for since *)
(* is recorded.                                                             *)
SeenInv ==
    call.turn # NoTurn =>
      \E t \in during :
        /\ t.state = call.turn.state
        /\ t.state = "waiting" =>
             /\ t.first = call.turn.first /\ history[t.request] = call.turn.reason
             /\ \A c \in t.request + 1..Len(history) : IsRequest(c) => Waited(c)

(* What the pages read so far have shown: of the thread, no end of the turn *)
(* without its final message; of the events, the newest request, at one     *)
(* event a page at least.                                                   *)
PageInv ==
    /\ call.at = "idle" => call.turn = NoTurn
    /\ call.at = "thread" => call.turn.state \in {"none", "completed"}
    /\ call.at = "receipts" => call.turn.state = "completed"
    /\ call.at = "events" =>
         /\ call.turn.state = "waiting" /\ call.turn.first # 0
         /\ call.turn.first <= call.cursor + 1 /\ call.cursor <= Len(history)
         /\ call.turn.first + MaxPages <= call.cursor + 1 + call.left
         /\ call.request <= call.cursor
         /\ call.request # 0 => IsRequest(call.request)
         /\ \A c \in call.request + 1..call.cursor : ~IsRequest(c)

(* The inductive invariant. *)
OutcomeInv ==
    /\ TypeOK /\ TurnInv /\ DuringInv /\ SeenInv /\ PageInv
    /\ OutcomeWasTrue /\ RequestFound /\ DecisionInformed /\ PagesReadOnce
=============================================================================
