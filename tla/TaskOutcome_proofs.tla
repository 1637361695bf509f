------------------------- MODULE TaskOutcome_proofs -------------------------
(***************************************************************************)
(* Theorems about TaskOutcome, for any kinds, tokens and bounds.  All rest  *)
(* on the inductive invariant OutcomeInv.                                   *)
(***************************************************************************)
EXTENDS TaskOutcome, TLAPS

USE OutcomeAssumption DEF OutcomeAssumption

Event == Kinds \cup {"own", "other"}

(* Init establishes the invariant. *)
LEMMA InitOutcome == Init => OutcomeInv
<1> SUFFICES ASSUME Init PROVE OutcomeInv
  OBVIOUS
<1>1. call \in Calls
  <2>1. <<FirstPage>> \in Seq(Tokens \cup {FirstPage})
    OBVIOUS
  <2> QED
    BY <2>1 DEF Init, Calls, Idle, NoTurn
<1>2. TypeOK
  BY <1>1 DEF Init, TypeOK, Turns, TurnStates, Over, NoOutcome
<1>3. TurnInv
  BY DEF Init, TurnInv, IsRequest
<1>4. DuringInv /\ SeenInv /\ PageInv
  BY DEF Init, Idle, DuringInv, SeenInv, PageInv
<1>5. OutcomeWasTrue /\ RequestFound /\ DecisionInformed
  BY DEF Init, Idle, NoOutcome, OutcomeWasTrue, RequestFound, DecisionInformed, TurnStates, Over
<1>6. PagesReadOnce
  BY DEF Init, Idle, PagesReadOnce
<1> QED
  BY <1>2, <1>3, <1>4, <1>5, <1>6 DEF OutcomeInv

----------------------------------------------------------------------------
(* Platform's steps. *)

(* What Platform's steps have in common: the history grows, at most by a    *)
(* request the turn then waits for, and the turn's first event stays.       *)
Grows ==
    /\ history' \in Seq(Event) /\ Len(history) <= Len(history')
    /\ \A c \in 1..Len(history) : history'[c] = history[c]
    /\ \A c \in Len(history) + 1..Len(history') :
         history'[c] \in Kinds => turn'.state = "waiting" /\ turn'.request = c
    /\ turn.first # 0 => turn'.first = turn.first
    /\ turn' \in Turns /\ floor' \in 0..Len(history')
    /\ call' = call /\ Watch

(* The calls do not notice. *)
LEMMA GrowthKeeps ==
    ASSUME OutcomeInv, Grows, TurnInv'
    PROVE  OutcomeInv'
<1> USE DEF OutcomeInv
<1>1. during \cup {turn'} = during' \/ (call.at = "idle" /\ during' = {})
  BY DEF Grows, Watch
<1>2. TypeOK'
  BY <1>1 DEF TypeOK, Grows, Watch, NoOutcome, Event
<1>3. DuringInv'
  <2> SUFFICES ASSUME call.at # "idle"
               PROVE  /\ turn' \in during'
                      /\ \A t \in during' : t.state = "waiting" =>
                           /\ t.request \in 1..Len(history')
                           /\ history'[t.request] \in Kinds /\ t.first = turn'.first
    BY DEF DuringInv, Grows, IsRequest
  <2>1. ASSUME NEW t \in during, t.state = "waiting"
        PROVE  /\ t.request \in 1..Len(history')
               /\ history'[t.request] \in Kinds /\ t.first = turn'.first
    <3>1. t.request \in 1..Len(history) /\ history[t.request] \in Kinds /\ t.first = turn.first
      BY <2>1 DEF DuringInv, IsRequest
    <3>2. turn.first # 0
      BY <3>1 DEF TurnInv, IsRequest
    <3> QED
      BY <3>1, <3>2 DEF Grows, TypeOK
  <2>2. turn'.state = "waiting" =>
          turn'.request \in 1..Len(history') /\ history'[turn'.request] \in Kinds
    BY DEF TurnInv, IsRequest
  <2> QED
    BY <1>1, <2>1, <2>2
<1>4. SeenInv'
  <2> SUFFICES ASSUME call.turn # NoTurn
               PROVE  \E t \in during' :
                        /\ t.state = call.turn.state
                        /\ t.state = "waiting" =>
                             /\ t.first = call.turn.first
                             /\ history'[t.request] = call.turn.reason
                             /\ \A c \in t.request + 1..Len(history') :
                                  history'[c] \in Kinds =>
                                    \E u \in during' : u.state = "waiting" /\ u.request = c
    BY DEF SeenInv, Grows, IsRequest, Waited
  <2>1. call.at # "idle" /\ during' = during \cup {turn'}
    BY <1>1 DEF PageInv
  <2>2. PICK t \in during :
          /\ t.state = call.turn.state
          /\ t.state = "waiting" =>
               /\ t.first = call.turn.first /\ history[t.request] = call.turn.reason
               /\ \A c \in t.request + 1..Len(history) : IsRequest(c) => Waited(c)
    BY DEF SeenInv
  <2>3. t.state = "waiting" => t.request \in 1..Len(history)
    BY <2>1 DEF DuringInv
  <2>4. ASSUME t.state = "waiting", NEW c \in t.request + 1..Len(history'),
               history'[c] \in Kinds
        PROVE  \E u \in during' : u.state = "waiting" /\ u.request = c
    <3>1. CASE c \in 1..Len(history)
      BY <2>1, <2>2, <2>3, <2>4, <3>1 DEF Grows, IsRequest, Waited
    <3>2. CASE c \notin 1..Len(history)
      <4>1. c \in Len(history) + 1..Len(history')
        BY <2>3, <2>4, <3>2 DEF Grows, TypeOK
      <4> QED
        BY <2>1, <2>4, <4>1 DEF Grows
    <3> QED
      BY <3>1, <3>2
  <2> QED
    BY <2>1, <2>2, <2>3, <2>4 DEF Grows
<1>5. PageInv'
  <2>1. ASSUME call.at = "events"
        PROVE  /\ call.cursor <= Len(history')
               /\ call.request # 0 => history'[call.request] \in Kinds
               /\ \A c \in call.request + 1..call.cursor : history'[c] \notin Kinds
    <3>1. /\ call.cursor \in Nat /\ call.request \in Nat
          /\ Len(history) \in Nat /\ Len(history') \in Nat
      BY DEF TypeOK, Calls, Grows
    <3>2. /\ call.cursor <= Len(history) /\ call.request <= call.cursor
          /\ call.request # 0 => history[call.request] \in Kinds
          /\ \A c \in call.request + 1..call.cursor : history[c] \notin Kinds
      BY <2>1 DEF PageInv, IsRequest
    <3>3. /\ Len(history) <= Len(history')
          /\ \A c \in 1..Len(history) : history'[c] = history[c]
      BY DEF Grows
    <3>4. call.request # 0 => call.request \in 1..Len(history)
      BY <3>1, <3>2
    <3>5. \A c \in call.request + 1..call.cursor : c \in 1..Len(history)
      BY <3>1, <3>2
    <3> HIDE DEF OutcomeInv
    <3> QED
      BY <3>1, <3>2, <3>3, <3>4, <3>5
  <2> QED
    BY <2>1 DEF PageInv, Grows, IsRequest
<1>6. OutcomeWasTrue' /\ RequestFound'
  BY DEF OutcomeWasTrue, RequestFound, Grows, Watch, NoOutcome, TurnStates, Over
<1>7. DecisionInformed'
  <2> SUFFICES ASSUME call.at = "respond"
               PROVE  /\ call.request = call.wanted
                      /\ history'[call.request] = Approval
                      /\ \E t \in during' : t.state = "waiting" /\ t.request = call.request
    BY DEF DecisionInformed, Grows, Waited
  <2>1. during \subseteq during'
    BY <1>1
  <2>2. PICK t \in during : t.state = "waiting" /\ t.request = call.request
    BY DEF DecisionInformed, Waited
  <2>3. call.request \in 1..Len(history)
    BY <2>2 DEF DuringInv
  <2> QED
    BY <2>1, <2>2, <2>3 DEF DecisionInformed, Grows
<1>8. PagesReadOnce'
  BY DEF PagesReadOnce, Grows
<1> QED
  BY <1>2, <1>3, <1>4, <1>5, <1>6, <1>7, <1>8

(* Platform's steps keep the invariant. *)
LEMMA PlatformOutcome == OutcomeInv /\ Platform => OutcomeInv'
<1> SUFFICES ASSUME OutcomeInv, Platform PROVE Grows /\ TurnInv'
  BY GrowthKeeps
<1> USE DEF OutcomeInv
<1>0. history \in Seq(Event) /\ Len(history) \in Nat /\ turn \in Turns /\ floor \in 0..Len(history)
  BY DEF TypeOK, Event
<1>1. ASSUME NEW e \in Event, history' = Append(history, e)
      PROVE  /\ history' \in Seq(Event) /\ Len(history') = Len(history) + 1
             /\ \A c \in 1..Len(history) : history'[c] = history[c]
             /\ history'[Len(history) + 1] = e
  BY <1>0, <1>1
<1>2. ASSUME NEW event \in {"own", "other"}, Emit(event) PROVE Grows /\ TurnInv'
  <2>1. /\ history' \in Seq(Event) /\ Len(history') = Len(history) + 1
        /\ \A c \in 1..Len(history) : history'[c] = history[c]
        /\ history'[Len(history) + 1] \notin Kinds
    BY <1>1, <1>2 DEF Emit, Event
  <2>2. /\ turn'.state = turn.state /\ turn'.request = turn.request
        /\ turn' \in Turns /\ (turn.first # 0 => turn'.first = turn.first)
        /\ turn'.first <= Len(history')
    BY <1>0, <1>2, <2>1 DEF Emit, Turns, FirstOwn, TurnInv
  <2>3. Grows
    BY <1>0, <1>2, <2>1, <2>2 DEF Grows, Emit
  <2>4. TurnInv'
    <3>1. TurnInv
      OBVIOUS
    <3>2. \A c \in 1..Len(history') : IsRequest(c)' => c \in 1..Len(history) /\ IsRequest(c)
      BY <1>0, <2>1 DEF IsRequest
    <3>3. \A c \in 1..Len(history) : IsRequest(c) => IsRequest(c)'
      BY <2>1 DEF IsRequest
    <3> HIDE DEF OutcomeInv
    <3> QED
      BY <1>0, <2>1, <2>2, <3>1, <3>2, <3>3 DEF TurnInv, Turns
  <2> QED
    BY <2>3, <2>4
<1>3. ASSUME NEW kind \in Kinds, Raise(kind) PROVE Grows /\ TurnInv'
  <2>1. /\ history' \in Seq(Event) /\ Len(history') = Len(history) + 1
        /\ \A c \in 1..Len(history) : history'[c] = history[c]
        /\ history'[Len(history) + 1] = kind
    BY <1>1, <1>3 DEF Raise, Event
  <2>2. /\ turn'.state = "waiting" /\ turn'.request = Len(history) + 1
        /\ turn' \in Turns /\ (turn.first # 0 => turn'.first = turn.first)
        /\ turn'.first \in 1..Len(history')
    BY <1>0, <1>3, <2>1 DEF Raise, Turns, TurnStates, Over, FirstOwn, TurnInv
  <2>3. Grows
    BY <1>0, <1>3, <2>1, <2>2 DEF Grows, Raise
  <2>4. TurnInv'
    BY <1>0, <2>1, <2>2 DEF TurnInv, IsRequest, Turns
  <2> QED
    BY <2>3, <2>4
<1>4. ASSUME NEW state \in TurnStates, Move(state) PROVE Grows /\ TurnInv'
  <2>1. turn' = [turn EXCEPT !.state = state, !.request = 0] /\ state # "waiting"
    <3>1. "waiting" \notin TurnSuccessors(turn.state)
      <4>1. turn.state \in TurnStates
        BY <1>0 DEF Turns
      <4>2. \A s \in TurnStates : "waiting" \notin TurnSuccessors(s)
        BY DEF TurnSuccessors, Over, TurnStates
      <4> QED
        BY <4>1, <4>2
    <3> QED
      BY <1>4, <3>1 DEF Move
  <2>2. Grows
    <3>1. turn' \in Turns /\ turn'.first = turn.first
      BY <1>0, <2>1 DEF Turns
    <3>2. history' = history /\ floor' = floor /\ call' = call /\ Watch
      BY <1>4 DEF Move
    <3> QED
      BY <1>0, <3>1, <3>2 DEF Grows
  <2>3. TurnInv'
    BY <1>0, <1>4, <2>1 DEF TurnInv, IsRequest, Turns, Move
  <2> QED
    BY <2>2, <2>3
<1>5. ASSUME Trim PROVE Grows /\ TurnInv'
  BY <1>0, <1>5 DEF Trim, Grows, TurnInv, IsRequest
<1> QED
  BY <1>2, <1>3, <1>4, <1>5 DEF Platform

----------------------------------------------------------------------------
(* The steps of a call. *)

LEMMA IdleType == Idle \in Calls
<1>1. <<FirstPage>> \in Seq(Tokens \cup {FirstPage})
  OBVIOUS
<1> QED
  BY <1>1 DEF Idle, Calls, NoTurn

(* A step within a call keeps what does not depend on where the call is. *)
LEMMA GoKeeps ==
    ASSUME OutcomeInv, NEW c \in Calls, Go(c), call.at # "idle",
           SeenInv', PageInv', DecisionInformed', PagesReadOnce'
    PROVE  OutcomeInv'
<1> USE DEF OutcomeInv, Go, platform
<1>1. TypeOK' /\ TurnInv'
  BY DEF TypeOK, TurnInv, IsRequest
<1>2. DuringInv'
  BY DEF DuringInv, IsRequest
<1>3. OutcomeWasTrue' /\ RequestFound'
  BY DEF OutcomeWasTrue, RequestFound, Waited
<1> QED
  BY <1>1, <1>2, <1>3

(* A call that ends knows nothing any more. *)
LEMMA IdleKeeps ==
    ASSUME OutcomeInv, Go(Idle), call.at # "idle"
    PROVE  OutcomeInv'
<1>1. SeenInv' /\ PageInv' /\ DecisionInformed'
  BY DEF Go, Idle, SeenInv, PageInv, DecisionInformed
<1>2. PagesReadOnce'
  BY DEF Go, Idle, PagesReadOnce
<1> QED
  BY <1>1, <1>2, IdleType, GoKeeps

(* What a call may return: OutcomeWasTrue and RequestFound of it. *)
LEMMA ReturnKeeps ==
    ASSUME OutcomeInv, call.at # "idle",
           NEW status \in TurnStates \cup {"unfinished"}, NEW request \in Nat,
           Return(status, request), OutcomeWasTrue', RequestFound'
    PROVE  OutcomeInv'
<1> USE DEF OutcomeInv, Return, platform
<1>1. PICK c \in Calls :
        /\ call' = c /\ c.turn = NoTurn /\ c.pages = <<FirstPage>>
        /\ c.at = "idle" \/
             (MayDecide(status, request) /\ c.at = "respond"
                /\ c.request = request /\ c.wanted = call.wanted)
  <2>1. [Idle EXCEPT !.at = "respond", !.wanted = call.wanted, !.request = request] \in Calls
    BY IdleType DEF Calls, TypeOK
  <2> QED
    BY <2>1, IdleType DEF Idle
<1>2. TypeOK' /\ TurnInv'
  <2>1. call.turn.reason \in Kinds \cup {"none"}
    BY DEF TypeOK, Calls
  <2> QED
    BY <1>1, <2>1 DEF TypeOK, TurnInv, IsRequest
<1>3. DuringInv' /\ SeenInv' /\ PageInv'
  BY <1>1 DEF DuringInv, SeenInv, PageInv, IsRequest
<1>4. DecisionInformed'
  <2> SUFFICES ASSUME call'.at = "respond"
               PROVE  /\ call'.request = call'.wanted
                      /\ history'[call'.request] = Approval 
                      /\ \E t \in during' : t.state = "waiting" /\ t.request = call'.request
    BY DEF DecisionInformed, Waited
  <2>1. /\ call'.request = request /\ call'.wanted = call.wanted
        /\ request # 0 /\ history[request] = Approval /\ request = call.wanted
    BY <1>1 DEF MayDecide
  <2>2. \E t \in during' : t.state = "waiting" /\ t.request = request
    BY <2>1 DEF OutcomeWasTrue, Waited
  <2> QED
    BY <2>1, <2>2
<1>5. PagesReadOnce'
  <2>1. call'.pages = <<FirstPage>>
    BY <1>1
  <2> HIDE DEF OutcomeInv, Return
  <2> QED
    BY <2>1 DEF PagesReadOnce
<1> QED
  BY <1>2, <1>3, <1>4, <1>5

(* A call begins. *)
LEMMA AskOutcome ==
    ASSUME OutcomeInv, NEW wanted \in Nat, Ask(wanted)
    PROVE  OutcomeInv'
<1> USE DEF OutcomeInv, Ask, platform
<1>1. call' \in Calls /\ call'.at = "thread" /\ call'.turn = NoTurn
        /\ call'.pages = <<FirstPage>>
  BY IdleType DEF Idle, Calls
<1>2. TypeOK' /\ TurnInv'
  BY <1>1 DEF TypeOK, TurnInv, IsRequest, NoOutcome
<1>3. DuringInv'
  <2>1. turn.state = "waiting" => turn.request \in 1..Len(history) /\ history[turn.request] \in Kinds
    BY DEF TurnInv, IsRequest
  <2> QED
    BY <2>1 DEF DuringInv, IsRequest
<1>4. SeenInv' /\ PageInv' /\ DecisionInformed'
  BY <1>1 DEF SeenInv, PageInv, DecisionInformed, NoTurn
<1>5. OutcomeWasTrue' /\ RequestFound'
  BY DEF OutcomeWasTrue, RequestFound, NoOutcome, TurnStates, Over
<1>6. PagesReadOnce'
  BY <1>1 DEF PagesReadOnce
<1> QED
  BY <1>2, <1>3, <1>4, <1>5, <1>6

(* What SeenInv says of a turn that was seen. *)
SeenTrue(seen) ==
    \E t \in during :
      /\ t.state = seen.state
      /\ t.state = "waiting" =>
           /\ t.first = seen.first /\ history[t.request] = seen.reason
           /\ \A c \in t.request + 1..Len(history) : IsRequest(c) => Waited(c)

(* A page of the thread shows the truth. *)
LEMMA PageShowsTruth ==
    ASSUME OutcomeInv, NEW seen, NEW final, PageShows(seen, final)
    PROVE  /\ call.at = "thread" /\ final \in BOOLEAN
           /\ seen \in [state : TurnStates \cup {"none"}, reason : Kinds \cup {"none"}, first : Nat]
           /\ seen # NoTurn => SeenTrue(seen) /\ seen.state \in TurnStates
           /\ seen.state = "waiting" => seen.first # 0 /\ seen.first <= Len(history)
<1> USE DEF OutcomeInv
<1>1. call.at = "thread" /\ final \in BOOLEAN /\ seen \in {NoTurn, TurnNow, call.turn}
  BY DEF PageShows, TypeOK, Calls
<1>2. CASE seen = NoTurn
  BY <1>1, <1>2 DEF NoTurn
<1>3. CASE seen = TurnNow
  <2>1. turn \in during
    BY <1>1 DEF DuringInv
  <2>2. turn.state = "waiting" =>
          /\ turn.request \in 1..Len(history) /\ history[turn.request] \in Kinds
          /\ \A c \in turn.request + 1..Len(history) : ~IsRequest(c)
          /\ turn.first # 0 /\ turn.first <= Len(history)
    BY DEF TurnInv, IsRequest
  <2>3. turn.state \in TurnStates /\ turn.first \in Nat
    BY DEF TypeOK, Turns
  <2> QED
    BY <1>1, <1>3, <2>1, <2>2, <2>3 DEF TurnNow, SeenTrue
<1>4. CASE seen = call.turn /\ seen # NoTurn
  <2>1. call.turn.state \in {"none", "completed"} /\ SeenTrue(call.turn)
    BY <1>1, <1>4 DEF PageInv, SeenInv, SeenTrue
  <2>2. call.turn.state = "completed"
    BY <2>1 DEF SeenTrue, TypeOK, Turns, TurnStates, Over
  <2> QED
    BY <1>1, <1>4, <2>1, <2>2 DEF TypeOK, Calls, TurnStates, Over
<1> QED
  BY <1>1, <1>2, <1>3, <1>4

(* The page of the thread on which the turn is found. *)
LEMMA FindTurnOutcome == OutcomeInv /\ FindTurn => OutcomeInv'
<1> SUFFICES ASSUME OutcomeInv, FindTurn PROVE OutcomeInv'
  OBVIOUS
<1> USE DEF OutcomeInv
<1>1. PICK seen \in {TurnNow, call.turn}, final \in BOOLEAN :
        /\ PageShows(seen, final) /\ Enough(seen, final)
        /\ CASE seen.state = "waiting" ->
                  Go([Idle EXCEPT !.at = "events", !.wanted = call.wanted,
                                  !.turn = seen, !.cursor = StartCursor(seen)])
             [] seen.state = "completed" ->
                  Go([Idle EXCEPT !.at = "receipts", !.wanted = call.wanted, !.turn = seen])
             [] OTHER -> Return(Status(seen), 0)
  BY DEF FindTurn
<1>2. /\ call.at = "thread" /\ seen # NoTurn
      /\ seen \in [state : TurnStates, reason : Kinds \cup {"none"}, first : Nat]
      /\ SeenTrue(seen)
      /\ seen.state = "waiting" => seen.first # 0 /\ seen.first <= Len(history)
  BY <1>1, PageShowsTruth DEF Enough
<1>3. call.wanted \in Nat /\ Len(history) \in Nat
  BY DEF TypeOK, Calls
<1>4. CASE seen.state = "waiting"
  <2> DEFINE c == [Idle EXCEPT !.at = "events", !.wanted = call.wanted,
                               !.turn = seen, !.cursor = seen.first - 1]
  <2>1. Go(c)
    BY <1>1, <1>2, <1>4 DEF StartCursor
  <2>2. c \in Calls
    <3>1. /\ seen.first - 1 \in Nat
          /\ seen \in [state : TurnStates \cup {"none"}, reason : Kinds \cup {"none"}, first : Nat]
      BY <1>2, <1>4
    <3> HIDE DEF OutcomeInv
    <3> QED
      BY <1>3, <3>1, IdleType DEF Calls
  <2>3. /\ c.at = "events" /\ c.turn = seen /\ c.cursor = seen.first - 1
        /\ c.request = 0 /\ c.left = MaxPages /\ c.pages = <<FirstPage>>
    BY DEF Idle
  <2> HIDE DEF c
  <2>4. SeenInv'
    BY <1>2, <2>1, <2>3 DEF Go, platform, SeenInv, SeenTrue, IsRequest, Waited
  <2>5. turn.first = seen.first
    BY <1>2, <1>4 DEF SeenTrue, DuringInv
  <2>6. \A d \in 1..seen.first - 1 : history[d] \notin Kinds
    BY <1>2, <1>4, <2>5 DEF TurnInv, IsRequest
  <2>7. PageInv'
    BY <1>2, <1>3, <1>4, <2>1, <2>3, <2>6 DEF Go, platform, PageInv, IsRequest
  <2>8. DecisionInformed' /\ PagesReadOnce'
    BY <2>1, <2>3 DEF Go, DecisionInformed, PagesReadOnce
  <2> QED
    BY <1>2, <2>1, <2>2, <2>4, <2>7, <2>8, GoKeeps
<1>5. CASE seen.state = "completed"
  <2> DEFINE c == [Idle EXCEPT !.at = "receipts", !.wanted = call.wanted, !.turn = seen]
  <2>1. Go(c)
    BY <1>1, <1>5
  <2>2. c \in Calls
    BY <1>2, <1>3, IdleType DEF Calls
  <2>3. c.at = "receipts" /\ c.turn = seen /\ c.pages = <<FirstPage>>
    BY DEF Idle
  <2> HIDE DEF c
  <2>4. SeenInv' /\ PageInv'
    BY <1>2, <1>5, <2>1, <2>3 DEF Go, platform, SeenInv, SeenTrue, PageInv, IsRequest, Waited
  <2>5. DecisionInformed' /\ PagesReadOnce'
    BY <2>1, <2>3 DEF Go, DecisionInformed, PagesReadOnce
  <2> QED
    BY <1>2, <2>1, <2>2, <2>4, <2>5, GoKeeps
<1>6. CASE seen.state \notin {"waiting", "completed"}
  <2>1. PICK status \in TurnStates \cup {"unfinished"} :
          /\ status = Status(seen) /\ status # "waiting"
          /\ status \in TurnStates => seen.state = status
    BY <1>2, <1>6 DEF Status, TurnStates, Over
  <2>2. Return(status, 0)
    BY <1>1, <1>6, <2>1
  <2>3. OutcomeWasTrue' /\ RequestFound'
    BY <1>2, <2>1, <2>2 DEF Return, OutcomeWasTrue, RequestFound, SeenTrue
  <2> QED
    BY <1>2, <2>2, <2>3, ReturnKeeps
<1> QED
  BY <1>4, <1>5, <1>6

(* The other pages of the thread. *)
LEMMA ThreadOutcome ==
    OutcomeInv /\ (NextThreadPage \/ TokenRepeated \/ ThreadPageLimit \/ ThreadEnds)
      => OutcomeInv'
<1> SUFFICES ASSUME OutcomeInv,
                    NextThreadPage \/ TokenRepeated \/ ThreadPageLimit \/ ThreadEnds
             PROVE  OutcomeInv'
  OBVIOUS
<1> USE DEF OutcomeInv
<1>1. ASSUME call.at # "idle", Return("unfinished", 0) PROVE OutcomeInv'
  <2>1. OutcomeWasTrue' /\ RequestFound'
    BY <1>1 DEF Return, OutcomeWasTrue, RequestFound, TurnStates, Over
  <2> QED
    BY <1>1, <2>1, ReturnKeeps
<1>2. CASE NextThreadPage
  <2>1. PICK seen \in {NoTurn, TurnNow, call.turn}, token \in Tokens :
          /\ PageShows(seen, FALSE) /\ ~Enough(seen, FALSE)
          /\ ~Repeated(token) /\ ~LastPage
          /\ Go([call EXCEPT !.turn = seen, !.left = @ - 1, !.pages = Append(@, token)])
    BY <1>2 DEF NextThreadPage
  <2> DEFINE c == [call EXCEPT !.turn = seen, !.left = call.left - 1,
                               !.pages = Append(call.pages, token)]
  <2>2. /\ call.at = "thread"
        /\ seen \in [state : TurnStates \cup {"none"}, reason : Kinds \cup {"none"}, first : Nat]
        /\ seen # NoTurn => SeenTrue(seen)
        /\ seen.state \in {"none", "completed"}
    <3>1. PageShows(seen, FALSE) /\ ~Enough(seen, FALSE)
      BY <2>1
    <3>2. seen.state \in {"none", "completed"}
      BY <3>1 DEF Enough, NoTurn
    <3> HIDE DEF OutcomeInv
    <3> QED
      BY <3>1, <3>2, PageShowsTruth
  <2>3. /\ call \in Calls /\ call.left - 1 \in 1..MaxPages
        /\ call.pages \in Seq(Tokens \cup {FirstPage})
    BY <2>1 DEF TypeOK, Calls, LastPage
  <2>4. Append(call.pages, token) \in Seq(Tokens \cup {FirstPage})
    BY <2>3
  <2>5. Go(c)
    BY <2>1
  <2>6. c \in Calls /\ c.at = "thread" /\ c.turn = seen /\ c.pages = Append(call.pages, token)
    BY <2>2, <2>3, <2>4 DEF Calls
  <2> HIDE DEF c
  <2>7. SeenInv' /\ PageInv'
    BY <2>2, <2>5, <2>6 DEF Go, platform, SeenInv, SeenTrue, PageInv, IsRequest, Waited
  <2>8. PagesReadOnce'
    <3>1. \A i, j \in 1..Len(call.pages) : call.pages[i] = call.pages[j] => i = j
      BY DEF PagesReadOnce
    <3>2. \A i \in 1..Len(call.pages) : call.pages[i] # token
      BY <2>1 DEF Repeated
    <3>3. call'.pages = Append(call.pages, token)
      BY <2>5, <2>6 DEF Go
    <3> HIDE DEF OutcomeInv
    <3> QED
      BY <2>3, <3>1, <3>2, <3>3 DEF PagesReadOnce
  <2>9. DecisionInformed'
    BY <2>5, <2>6 DEF Go, DecisionInformed
  <2> QED
    BY <2>2, <2>5, <2>6, <2>7, <2>8, <2>9, GoKeeps
<1>3. CASE TokenRepeated
  <2>1. call.at # "idle" /\ Go(Idle)
    BY <1>3 DEF TokenRepeated, PageShows
  <2> QED
    BY <2>1, IdleKeeps
<1>4. CASE ThreadPageLimit
  BY <1>1, <1>4 DEF ThreadPageLimit, PageShows
<1>5. CASE ThreadEnds
  <2>1. call.at # "idle" /\ (Return("unfinished", 0) \/ Go(Idle))
    BY <1>5 DEF ThreadEnds, PageShows
  <2> QED
    BY <1>1, <2>1, IdleKeeps
<1> QED
  BY <1>2, <1>3, <1>4, <1>5

(* The turn has ended, and its final message was seen. *)
LEMMA ReceiptsOutcome == OutcomeInv /\ ReadReceipts => OutcomeInv'
<1> SUFFICES ASSUME OutcomeInv, ReadReceipts PROVE OutcomeInv'
  OBVIOUS
<1> USE DEF OutcomeInv
<1>1. call.at = "receipts" /\ Return("completed", 0)
  BY DEF ReadReceipts
<1>2. \E t \in during : t.state = "completed"
  BY <1>1 DEF PageInv, SeenInv, NoTurn
<1>3. OutcomeWasTrue' /\ RequestFound'
  BY <1>1, <1>2 DEF Return, OutcomeWasTrue, RequestFound
<1>4. "completed" \in TurnStates
  BY DEF TurnStates, Over
<1> QED
  BY <1>1, <1>3, <1>4, ReturnKeeps

(* The newest request up to the end of a page. *)
LEMMA NewestRequest ==
    ASSUME OutcomeInv, NEW last, NEW request, PageEnds(last), IsNewest(request, last)
    PROVE  /\ last \in Nat /\ request \in Nat /\ request <= last
           /\ call.cursor <= last /\ last <= Len(history)
           /\ request # 0 => IsRequest(request)
           /\ \A c \in request + 1..last : ~IsRequest(c)
<1>1. /\ call.cursor \in Nat /\ call.request \in Nat /\ Len(history) \in Nat
      /\ last \in call.cursor..Len(history)
  BY DEF OutcomeInv, TypeOK, Calls, PageEnds
<1>2. /\ call.request <= call.cursor /\ (call.request # 0 => IsRequest(call.request))
      /\ \A c \in call.request + 1..call.cursor : ~IsRequest(c)
  BY DEF OutcomeInv, PageInv, PageEnds
<1>3. CASE RequestsOf(last) = {}
  <2>1. request = call.request /\ \A c \in call.cursor + 1..last : ~IsRequest(c)
    BY <1>3 DEF IsNewest, RequestsOf
  <2> QED
    BY <1>1, <1>2, <2>1
<1>4. CASE RequestsOf(last) # {}
  <2>1. /\ request \in call.cursor + 1..last /\ IsRequest(request)
        /\ \A c \in call.cursor + 1..last : IsRequest(c) => c <= request
    BY <1>4 DEF IsNewest, RequestsOf
  <2> QED
    BY <1>1, <2>1
<1> QED
  BY <1>3, <1>4

(* The turn that waited: what the pages of events are read for. *)
LEMMA WaitingTurn ==
    ASSUME OutcomeInv, call.at = "events"
    PROVE  \E t \in during :
             /\ t.state = "waiting" /\ t.first = call.turn.first
             /\ t.request \in 1..Len(history) /\ IsRequest(t.request)
             /\ history[t.request] = call.turn.reason
             /\ \A c \in t.request + 1..Len(history) : IsRequest(c) => Waited(c)
  BY DEF OutcomeInv, SeenInv, PageInv, DuringInv, NoTurn

(* A page of events is paid for with an event. *)
LEMMA PageAdvances ==
    ASSUME NEW first \in Int, NEW max \in Int, NEW cursor \in Int, NEW left \in Int,
           NEW last \in Int, cursor < last,
           first <= cursor + 1, first + max <= cursor + 1 + left
    PROVE  first <= last + 1 /\ first + max <= last + 1 + (left - 1)
  OBVIOUS

(* A page of events is read. *)
LEMMA EventsOutcome ==
    OutcomeInv /\ (EventsReset \/ NextEventsPage \/ EventsPageLimit \/ EventsEnd)
      => OutcomeInv'
<1> SUFFICES ASSUME OutcomeInv,
                    EventsReset \/ NextEventsPage \/ EventsPageLimit \/ EventsEnd
             PROVE  OutcomeInv'
  OBVIOUS
<1>1. call.at = "events"
  BY DEF EventsReset, NextEventsPage, EventsPageLimit, EventsEnd, PageEnds
<1>2. PICK t \in during :
        /\ t.state = "waiting" /\ t.first = call.turn.first
        /\ t.request \in 1..Len(history) /\ IsRequest(t.request)
        /\ history[t.request] = call.turn.reason
        /\ \A c \in t.request + 1..Len(history) : IsRequest(c) => Waited(c)
  BY <1>1, WaitingTurn
<1>3. /\ call \in Calls /\ call.turn.first \in Nat /\ floor \in Nat /\ Len(history) \in Nat
      /\ call.cursor \in Nat /\ call.left \in 1..MaxPages
  BY DEF OutcomeInv, TypeOK, Calls
<1>4. /\ call.turn.first <= call.cursor + 1
      /\ call.turn.first + MaxPages <= call.cursor + 1 + call.left
  BY <1>1 DEF OutcomeInv, PageInv
<1>5. ASSUME Return("waiting", 0),
             t.first <= floor \/ Len(history) - t.first + 1 > MaxPages
      PROVE  OutcomeInv'
  <2>1. OutcomeWasTrue'
    BY <1>2, <1>5 DEF Return, OutcomeWasTrue
  <2>2. RequestFound'
    BY <1>2, <1>5 DEF Return, platform, RequestFound
  <2> QED
    BY <1>1, <1>5, <2>1, <2>2, ReturnKeeps DEF TurnStates, Over
<1>6. CASE EventsReset
  <2>1. Return("waiting", 0) /\ call.cursor < floor
    BY <1>6 DEF EventsReset
  <2>2. t.first <= floor
    BY <1>2, <1>3, <1>4, <2>1
  <2> QED
    BY <1>5, <2>1, <2>2
<1>7. CASE EventsPageLimit
  <2>1. PICK last \in 1..Len(history) :
          PageEnds(last) /\ last < Len(history) /\ LastPage /\ Return("waiting", 0)
    BY <1>7 DEF EventsPageLimit
  <2>2. call.left = 1 /\ call.cursor < last
    BY <1>3, <2>1 DEF PageEnds, LastPage
  <2>3. Len(history) - t.first + 1 > MaxPages
    BY <1>2, <1>3, <1>4, <2>1, <2>2
  <2> QED
    BY <1>5, <2>1, <2>3
<1>8. CASE NextEventsPage
  <2>1. PICK last \in 1..Len(history), request \in 0..Len(history) :
          /\ PageEnds(last) /\ last < Len(history) /\ ~LastPage
          /\ IsNewest(request, last)
          /\ Go([call EXCEPT !.cursor = last, !.left = @ - 1, !.request = request])
    BY <1>8 DEF NextEventsPage
  <2> DEFINE c == [call EXCEPT !.cursor = last, !.left = call.left - 1, !.request = request]
  <2>2. /\ call.left - 1 \in 1..MaxPages /\ call.cursor < last
        /\ last \in Nat /\ request \in Nat
    BY <1>3, <2>1 DEF PageEnds, LastPage
  <2>3. Go(c) /\ c \in Calls
    BY <1>3, <2>1, <2>2 DEF Calls
  <2>4. /\ c.at = "events" /\ c.turn = call.turn /\ c.cursor = last
        /\ c.left = call.left - 1 /\ c.request = request /\ c.pages = call.pages
    BY <1>1, <1>3 DEF Calls
  <2> HIDE DEF c
  <2>5. SeenInv'
    BY <2>3, <2>4 DEF OutcomeInv, Go, platform, SeenInv, IsRequest, Waited
  <2>6. /\ request <= last /\ last <= Len(history)
        /\ request # 0 => IsRequest(request)
        /\ \A d \in request + 1..last : ~IsRequest(d)
    BY <2>1, NewestRequest
  <2>7. PageInv'
    <3>1. call.turn.state = "waiting" /\ call.turn.first # 0
      BY <1>1 DEF OutcomeInv, PageInv
    <3>2. /\ call.turn.first <= last + 1
          /\ call.turn.first + MaxPages <= last + 1 + (call.left - 1)
      <4>1. MaxPages \in Int /\ call.left \in Int /\ call.cursor \in Int
            /\ call.turn.first \in Int /\ last \in Int /\ call.cursor < last
        BY <1>3, <2>2
      <4> QED
        BY <1>4, <4>1, PageAdvances
    <3> QED
      <4>1. /\ call'.at = "events" /\ call'.turn = call.turn /\ call'.cursor = last
            /\ call'.left = call.left - 1 /\ call'.request = request /\ history' = history
        BY <2>3, <2>4 DEF Go, platform
      <4> QED
        BY <2>6, <3>1, <3>2, <4>1 DEF PageInv, IsRequest
  <2>8. DecisionInformed' /\ PagesReadOnce'
    BY <2>3, <2>4 DEF OutcomeInv, Go, DecisionInformed, PagesReadOnce
  <2> QED
    BY <1>1, <2>3, <2>5, <2>7, <2>8, GoKeeps
<1>9. CASE EventsEnd
  <2>1. PICK request \in 0..Len(history) :
          /\ PageEnds(Len(history)) /\ IsNewest(request, Len(history))
          /\ Return("waiting", IF Expected(request) THEN request ELSE 0)
    BY <1>9 DEF EventsEnd
  <2>2. /\ request \in Nat
        /\ request # 0 => IsRequest(request)
        /\ \A d \in request + 1..Len(history) : ~IsRequest(d)
    BY <2>1, NewestRequest
  <2>3. t.request <= request
    BY <1>2, <1>3, <2>2
  <2>4. request = t.request \/ Waited(request)
    BY <1>2, <1>3, <2>1, <2>2, <2>3
  <2>5. Waited(request)
    BY <1>2, <2>4 DEF Waited
  <2>6. CASE Expected(request)
    <3>1. Return("waiting", request) /\ history[request] = call.turn.reason /\ request # 0
      BY <2>1, <2>6 DEF Expected
    <3>2. OutcomeWasTrue' /\ RequestFound'
      BY <1>2, <2>5, <3>1 DEF Return, platform, OutcomeWasTrue, RequestFound, Waited
    <3> QED
      BY <1>1, <2>2, <3>1, <3>2, ReturnKeeps DEF TurnStates, Over
  <2>7. CASE ~Expected(request)
    <3>1. Return("waiting", 0)
      BY <2>1, <2>7
    <3>2. request # t.request
      BY <1>2, <2>7 DEF Expected
    <3>3. \E u \in during : u # t
      BY <2>5, <3>2 DEF Waited
    <3>4. OutcomeWasTrue' /\ RequestFound'
      BY <1>2, <3>1, <3>3 DEF Return, platform, OutcomeWasTrue, RequestFound
    <3> QED
      BY <1>1, <3>1, <3>4, ReturnKeeps DEF TurnStates, Over
  <2> QED
    BY <2>6, <2>7
<1> QED
  BY <1>6, <1>7, <1>8, <1>9

(* Every step keeps the invariant. *)
LEMMA NextOutcome == OutcomeInv /\ [Next]_vars => OutcomeInv'
<1> SUFFICES ASSUME OutcomeInv, [Next]_vars PROVE OutcomeInv'
  OBVIOUS
<1>1. CASE Platform
  BY <1>1, PlatformOutcome
<1>2. ASSUME NEW wanted \in {0} \cup {c \in 1..Len(history) : IsRequest(c)}, Ask(wanted)
      PROVE  OutcomeInv'
  <2>1. wanted \in Nat
    BY DEF OutcomeInv, TypeOK
  <2> QED
    BY <1>2, <2>1, AskOutcome
<1>3. CASE Read
  BY <1>3, FindTurnOutcome, ThreadOutcome, ReceiptsOutcome, EventsOutcome DEF Read
<1>4. CASE Fail
  BY <1>4, IdleKeeps DEF Fail
<1>5. CASE Respond
  <2>1. call.at # "idle" /\ Go(Idle)
    BY <1>5 DEF Respond
  <2> QED
    BY <2>1, IdleKeeps
<1>6. CASE UNCHANGED vars
  BY <1>6 DEF vars, platform, OutcomeInv, TypeOK, TurnInv, DuringInv, SeenInv, PageInv,
              OutcomeWasTrue, RequestFound, DecisionInformed, PagesReadOnce, IsRequest, Waited
<1> QED
  BY <1>1, <1>2, <1>3, <1>4, <1>5, <1>6 DEF Next

----------------------------------------------------------------------------
(* The theorems. *)

(* Whatever Platform does between the pages, what a call has seen so far is *)
(* a turn there was, and every request since is on record.                  *)
THEOREM OutcomeInvariant == Spec => []OutcomeInv
<1>1. Init => OutcomeInv
  BY InitOutcome
<1>2. OutcomeInv /\ [Next]_vars => OutcomeInv'
  BY NextOutcome
<1> QED
  BY <1>1, <1>2, PTL DEF Spec

(* The types of the call and of what it returns. *)
THEOREM OutcomeTypes == Spec => []TypeOK
<1>1. OutcomeInv => TypeOK
  BY DEF OutcomeInv
<1> QED
  BY <1>1, OutcomeInvariant, PTL

(* _result returns a status and a request that were the turn's during the   *)
(* call.                                                                    *)
THEOREM TrueOutcome == Spec => []OutcomeWasTrue
<1>1. OutcomeInv => OutcomeWasTrue
  BY DEF OutcomeInv
<1> QED
  BY <1>1, OutcomeInvariant, PTL

(* _waiting_request finds the request of a turn that stays as it is, unless *)
(* its history is forgotten or has more events than pages may be read.      *)
THEOREM FoundRequest == Spec => []RequestFound
<1>1. OutcomeInv => RequestFound
  BY DEF OutcomeInv
<1> QED
  BY <1>1, OutcomeInvariant, PTL

(* approve and deny decide on a current approval, the one that was named.   *)
THEOREM InformedDecision == Spec => []DecisionInformed
<1>1. OutcomeInv => DecisionInformed
  BY DEF OutcomeInv
<1> QED
  BY <1>1, OutcomeInvariant, PTL

(* No page of the thread is read twice in a call.                           *)
THEOREM DistinctPages == Spec => []PagesReadOnce
<1>1. OutcomeInv => PagesReadOnce
  BY DEF OutcomeInv
<1> QED
  BY <1>1, OutcomeInvariant, PTL
=============================================================================
