----------------------- MODULE ExampleRecovery_proofs -----------------------
(***************************************************************************)
(* Theorems about ExampleRecovery, for every number of processes and keys   *)
(* and every length of the log, proved with TLAPS.                          *)
(***************************************************************************)
EXTENDS ExampleRecovery, TLAPS

(* The names that the steps of a process disturb. *)
USE FileAssumption, ProgramsAssumption, KeysAssumption, ContentsAssumption

LEMMA IdleState == Idle \in ProcessState
  BY DEF Idle, ProcessState, Places, Recovering

(* The initial states. *)
LEMMA InitInv ==
    ASSUME Init PROVE RecoveryInv
<1> USE DEF Init, FileInit
<1>1. TypeOK
  <2>1. lost \in BOOLEAN
    BY Zenon
  <2> QED BY <2>1, IdleState DEF TypeOK, NotOpened
<1>2. SavesAreWhole
  BY DEF SavesAreWhole
<1>3. ProcessesAgree /\ PlacesFit /\ SendersAreCovered
  BY DEF ProcessesAgree, PlacesFit, SendersAreCovered, Idle, Attached, Nears, Recovering,
         Replacing
<1>4. SentIsCovered
  BY DEF SentIsCovered
<1>5. OneMaker
  BY DEF OneMaker, Idle, Attached, Replacing
<1>6. NothingIsAhead
  BY DEF NothingIsAhead, IsBehind, Idle
<1>7. WatchesAreBehind
  BY DEF WatchesAreBehind, Nears, Idle
<1> QED BY <1>1, <1>2, <1>3, <1>4, <1>5, <1>6, <1>7 DEF RecoveryInv

(* A process that has the file saves a checkpoint that is fit to replace it: *)
(* the case of every save but the one that creates.                          *)
LEMMA SaveInv ==
    ASSUME RecoveryInv, NEW p \in Process, step[p] = "none", proc[p].at # "idle",
           NEW state \in Checkpoint, state.key = proc[p].state.key,
           state.submission # "prepared",
           IsBehind(state),
           NEW then \in Places \ {"unfinished"}, NEW next \in {"idle", "list", "watch"},
           then # "mark",
           then \in Recovering => state.submission = "accepted",
           state.submission # "accepted" =>
              program # "task_result" /\ proc[p].at = "mark" /\ then = "send",
           then = "watch" => ~Ended(state.key, state.cursor),
           SaveState(p, state, FALSE, then, next)
    PROVE  RecoveryInv'
<1> USE DEF SaveState, CallSave, Platform, RecoveryInv
<1>a. Attached(p) /\ proc[p].state \in Checkpoint
  BY DEF Attached, Creating, ProcessesAgree, TypeOK, ProcessState
<1>b. /\ proc'[p] = [at |-> "idle", then |-> then, next |-> next,
                     create |-> FALSE, state |-> state]
      /\ step'[p] = "write"
      /\ \A q \in Process \ {p} : proc'[q] = proc[q] /\ step'[q] = step[q]
  BY DEF TypeOK
<1>1. TypeOK'
  <2>1. proc' \in [Process -> ProcessState]
    BY DEF TypeOK, ProcessState, Places
  <2> QED BY <2>1 DEF TypeOK, Checkpoint, NotOpened
<1>2. SavesAreWhole'
  BY <1>b DEF SavesAreWhole, TypeOK
<1>3. ProcessesAgree'
  BY <1>a, <1>b DEF ProcessesAgree, Attached, Creating, HasFile
<1>4. PlacesFit'
  BY <1>a, <1>b DEF PlacesFit, Nears, Recovering
<1>5. SendersAreCovered'
  BY <1>a, <1>b DEF SendersAreCovered, Replacing, Entries, Admits, ActsUnsynced
<1>6. SentIsCovered'
  BY DEF SentIsCovered, Entries, Admits, ActsUnsynced
<1>7. OneMaker'
  BY <1>a, <1>b DEF OneMaker, Replacing, Attached, Creating, Nears, PlacesFit
<1>8. NothingIsAhead'
  BY <1>b DEF NothingIsAhead, IsBehind, Ended
<1>9. WatchesAreBehind'
  BY <1>b DEF WatchesAreBehind, Nears, Ended
<1> QED BY <1>1, <1>2, <1>3, <1>4, <1>5, <1>6, <1>7, <1>8, <1>9

(* The save that creates the file, of a key no request has. *)
LEMMA StartInv ==
    ASSUME RecoveryInv, NEW p \in Process, Start(p)
    PROVE  RecoveryInv'
<1> DEFINE direct == program = "task_result"
<1>a. PICK k \in NewKeys :
        SaveState(p, [key |-> k, cursor |-> 0, turn |-> "unspecified",
                      submission |-> IF direct THEN "unacknowledged" ELSE "prepared"],
                  TRUE, IF direct THEN "send" ELSE "mark", "idle")
  BY DEF Start
<1>b. k \in Keys
  BY DEF NewKeys
<1> DEFINE state == [key |-> k, cursor |-> 0, turn |-> "unspecified",
                     submission |-> IF direct THEN "unacknowledged" ELSE "prepared"]
           then == IF direct THEN "send" ELSE "mark"
<1>c. state \in Checkpoint
  BY <1>b DEF Checkpoint, Submissions, TurnStates
<1>d. /\ proc'[p] = [at |-> "idle", then |-> then, next |-> "idle",
                     create |-> TRUE, state |-> state]
      /\ step'[p] = "write"
      /\ \A q \in Process \ {p} : proc'[q] = proc[q] /\ step'[q] = step[q]
  BY <1>a DEF RecoveryInv, TypeOK, SaveState, CallSave
<1>e. state.turn = "unspecified" /\ state.cursor = 0 /\ state # NoFile
  BY <1>c
<1>f. /\ state.submission # "accepted"
      /\ state.submission = IF direct THEN "unacknowledged" ELSE "prepared"
  OBVIOUS
<1>g. /\ proc' \in [Process -> ProcessState]
      /\ step' \in [Process -> {"none", "write", "publish", "sync"}]
      /\ synced' \in [Process -> BOOLEAN]
      /\ \A q \in Process \ {p} : synced'[q] = synced[q]
      /\ UNCHANGED <<file, survives, lost, program, sent, opened, log>>
  <2>1. [at |-> "idle", then |-> then, next |-> "idle",
         create |-> TRUE, state |-> state] \in ProcessState
    BY <1>c DEF ProcessState, Places, Recovering
  <2> QED BY <1>a, <2>1 DEF RecoveryInv, TypeOK, SaveState, CallSave, Platform
<1> HIDE DEF state, then
<1>1. TypeOK'
  BY <1>g DEF RecoveryInv, TypeOK, Checkpoint, NotOpened
<1>2. SavesAreWhole'
  BY <1>d, <1>g DEF SavesAreWhole, RecoveryInv
<1>3. ProcessesAgree'
  BY <1>d, <1>e, <1>g DEF ProcessesAgree, Attached, Creating, HasFile, RecoveryInv
<1>4. PlacesFit'
  <2>1. then \in {"send", "mark"} /\ (then = "send" <=> direct)
    BY DEF then
  <2> QED BY <1>d, <1>f, <1>g, <2>1 DEF PlacesFit, Nears, Recovering, RecoveryInv
<1>5. SendersAreCovered'
  BY <1>d, <1>g DEF SendersAreCovered, Replacing, Entries, Admits, ActsUnsynced, RecoveryInv
<1>6. SentIsCovered'
  BY <1>g DEF SentIsCovered, Entries, Admits, ActsUnsynced, RecoveryInv
<1>7. OneMaker'
  BY <1>d, <1>f, <1>g DEF OneMaker, Replacing, Attached, Creating, Nears, RecoveryInv
<1>8. NothingIsAhead'
  BY <1>d, <1>e, <1>g DEF NothingIsAhead, IsBehind, Ended, RecoveryInv, TypeOK
<1>9. WatchesAreBehind'
  BY <1>d, <1>e, <1>g DEF WatchesAreBehind, Nears, Ended, RecoveryInv, then
<1> QED BY <1>1, <1>2, <1>3, <1>4, <1>5, <1>6, <1>7, <1>8, <1>9 DEF RecoveryInv

(* The saves of a process that has the file. *)
LEMMA MarkInv ==
    ASSUME RecoveryInv, NEW p \in Process, Mark(p)
    PROVE  RecoveryInv'
<1> DEFINE state == [proc[p].state EXCEPT !.submission = "unacknowledged"]
<1>1. step[p] = "none" /\ proc[p].at = "mark" /\ proc[p].state \in Checkpoint
  BY DEF Mark, At, RecoveryInv, ProcessesAgree, TypeOK, ProcessState
<1>2. program # "task_result" /\ proc[p].state.submission # "accepted"
  BY <1>1 DEF RecoveryInv, PlacesFit, Nears
<1>3. state \in Checkpoint /\ state.key = proc[p].state.key
      /\ state.submission = "unacknowledged"
  BY <1>1 DEF Checkpoint, Submissions
<1>4. IsBehind(state)
  BY <1>1 DEF RecoveryInv, NothingIsAhead, IsBehind, Checkpoint
<1>5. SaveState(p, state, FALSE, "send", "idle")
  BY DEF Mark
<1>6. "send" \in Places \ {"unfinished"} /\ "send" \notin Recovering
  BY DEF Places, Recovering
<1> HIDE DEF state
<1> QED BY <1>1, <1>2, <1>3, <1>4, <1>5, <1>6, SaveInv

LEMMA ReplyInv ==
    ASSUME RecoveryInv, NEW p \in Process, Reply(p)
    PROVE  RecoveryInv'
<1> DEFINE k == proc[p].state.key
           then == IF program = "task_result" THEN "result" ELSE "idle"
           state == [proc[p].state EXCEPT
                       !.submission = "accepted", !.cursor = opened[k],
                       !.turn = IF program = "account_brief" THEN @ ELSE Turn(k)]
<1>1. step[p] = "none" /\ proc[p].at = "reply" /\ proc[p].state \in Checkpoint
  BY DEF Reply, At, RecoveryInv, ProcessesAgree, TypeOK, ProcessState
<1>2. k \in Keys /\ opened[k] # NotOpened /\ opened[k] <= Len(log) /\ opened[k] \in 0..MaxLog
  <2>1. k \in Keys /\ opened[k] # NotOpened
    BY <1>1 DEF Reply, Checkpoint
  <2> QED BY <2>1 DEF RecoveryInv, NothingIsAhead, TypeOK, NotOpened
<1>3. Turn(k) \in TurnStates /\ (Turn(k) = "ended" => Ended(k, Len(log)))
  BY DEF Turn, TurnAt, TurnStates
<1>4. state \in Checkpoint /\ state.key = k /\ state.submission = "accepted"
      /\ state.cursor = opened[k]
      /\ state.turn \in {proc[p].state.turn, Turn(k)}
  BY <1>1, <1>2, <1>3 DEF Checkpoint, Submissions
<1>5. IsBehind(state)
  <2>1. IsBehind(proc[p].state)
    BY DEF RecoveryInv, NothingIsAhead
  <2> HIDE DEF state
  <2> QED BY <1>1, <1>2, <1>3, <1>4, <2>1 DEF IsBehind
<1>6. SaveState(p, state, FALSE, then, "list")
  BY DEF Reply
<1>7. then \in Places \ {"unfinished"} /\ then \notin {"mark", "watch"}
  BY DEF Places, Recovering
<1> HIDE DEF state, then
<1> QED BY <1>1, <1>4, <1>5, <1>6, <1>7, SaveInv

(* Where the turn is recovered the checkpoint has been accepted. *)
LEMMA RecoveringFacts ==
    ASSUME RecoveryInv, NEW p \in Process, proc[p].at \in Recovering
    PROVE  /\ proc[p].state \in Checkpoint
           /\ proc[p].state.submission = "accepted"
           /\ proc[p].state.cursor \in 0..Len(log)
           /\ IsBehind(proc[p].state)
<1>1. proc[p].state \in Checkpoint
  BY DEF RecoveryInv, ProcessesAgree, TypeOK, ProcessState, Recovering
<1>2. IsBehind(proc[p].state)
  BY DEF RecoveryInv, NothingIsAhead
<1>3. proc[p].state.cursor \in 0..MaxLog /\ Len(log) \in Nat
  BY <1>1 DEF Checkpoint, RecoveryInv, TypeOK
<1>4. proc[p].state.submission = "accepted"
  BY DEF RecoveryInv, PlacesFit, Nears
<1> QED BY <1>1, <1>2, <1>3, <1>4 DEF IsBehind

LEMMA ResultInv ==
    ASSUME RecoveryInv, NEW p \in Process, Result(p)
    PROVE  RecoveryInv'
<1> DEFINE turn == Turn(proc[p].state.key)
           then == IF turn = "ended" THEN "idle" ELSE proc[p].next
           state == [proc[p].state EXCEPT !.turn = turn]
<1>1. step[p] = "none" /\ proc[p].at = "result" /\ proc[p].at \in Recovering
  BY DEF Result, At, Recovering
<1>2. proc[p].state \in Checkpoint /\ proc[p].state.cursor \in 0..Len(log)
      /\ proc[p].state.submission = "accepted"
  BY <1>1, RecoveringFacts
<1>3. turn \in TurnStates /\ (turn = "ended" <=> Ended(proc[p].state.key, Len(log)))
  BY DEF Turn, TurnAt, TurnStates
<1>4. state \in Checkpoint /\ state.key = proc[p].state.key
      /\ state.submission = "accepted" /\ state.turn = turn
      /\ state.cursor = proc[p].state.cursor
  BY <1>2, <1>3 DEF Checkpoint
<1>5. IsBehind(state)
  <2> HIDE DEF state, turn
  <2> QED BY <1>2, <1>3, <1>4 DEF IsBehind
<1>6. SaveState(p, state, FALSE, then, "idle")
  BY DEF Result
<1>7. proc[p].next \in {"idle", "list", "watch"}
  BY DEF RecoveryInv, TypeOK, ProcessState
<1>8. then \in Places \ {"unfinished"} /\ then # "mark"
  BY <1>7 DEF Places, Recovering
<1>9. then = "watch" => ~Ended(state.key, state.cursor)
  <2>1. ~Ended(state.key, Len(log)) => ~Ended(state.key, state.cursor)
    BY <1>2, <1>4 DEF Ended, RecoveryInv, TypeOK
  <2> HIDE DEF state, turn
  <2> QED BY <1>3, <1>4, <2>1
<1> HIDE DEF state, then
<1> QED BY <1>1, <1>4, <1>5, <1>6, <1>8, <1>9, SaveInv

(* A page projects no more than Platform has done. *)
LEMMA ReadPageInv ==
    ASSUME RecoveryInv, NEW p \in Process, step[p] = "none", proc[p].at \in Recovering,
           NEW upto \in proc[p].state.cursor..Len(log),
           NEW next \in {"idle", "list", "watch"},
           ReadPage(p, upto, next)
    PROVE  RecoveryInv'
<1> DEFINE old == proc[p].state
<1>1. PICK page \in Pages(old, upto) :
        SaveState(p, Project(old, page[1], page[2], upto), FALSE, "result", next)
  BY DEF ReadPage
<1> DEFINE snapshot == page[1]
           from == page[2]
           state == Project(old, snapshot, from, upto)
<1>2. old \in Checkpoint /\ old.cursor \in 0..Len(log) /\ old.submission = "accepted"
      /\ IsBehind(old)
  BY RecoveringFacts
<1>3. Len(log) \in 0..MaxLog /\ upto \in 0..MaxLog /\ upto <= Len(log)
  BY <1>2 DEF RecoveryInv, TypeOK
<1>4. /\ snapshot \in TurnStates \cup {"no"}
      /\ snapshot = "ended" => Ended(old.key, Len(log))
      /\ from \in Nat
  BY <1>2, <1>3 DEF Pages, TurnAt, TurnStates, Ended
<1> HIDE DEF snapshot, from
<1>5. state \in Checkpoint /\ state.key = old.key /\ state.submission = "accepted"
      /\ state.cursor = upto
  BY <1>2, <1>3, <1>4 DEF Project, Checkpoint, TurnStates
<1>6. state.turn = "ended" => Ended(old.key, Len(log))
  <2>1. CASE \E i \in (from + 1)..upto : log[i] = old.key
    BY <1>3, <1>4, <2>1 DEF Ended
  <2>2. CASE ~\E i \in (from + 1)..upto : log[i] = old.key
    <3>1. state.turn \in {old.turn, snapshot}
      BY <1>2, <2>2 DEF Project, Checkpoint
    <3> QED BY <1>2, <1>4, <3>1 DEF IsBehind
  <2> QED BY <2>1, <2>2
<1>7. IsBehind(state)
  <2> HIDE DEF state
  <2> QED BY <1>3, <1>5, <1>6 DEF IsBehind
<1>8. "result" \in Places \ {"unfinished"} /\ proc[p].at # "idle"
  BY DEF Places, Recovering
<1> HIDE DEF state
<1> QED BY <1>1, <1>5, <1>7, <1>8, SaveInv DEF state, snapshot, from

LEMMA ObserveInv ==
    ASSUME RecoveryInv, NEW p \in Process, Observe(p)
    PROVE  RecoveryInv'
<1>1. PICK upto \in proc[p].state.cursor..Len(log) :
        SaveState(p, [proc[p].state EXCEPT !.cursor = upto], FALSE, "observe", "idle")
  BY DEF Observe
<1> DEFINE state == [proc[p].state EXCEPT !.cursor = upto]
<1>2. step[p] = "none" /\ proc[p].at = "observe" /\ proc[p].at \in Recovering
  BY DEF Observe, At, Recovering
<1>3. proc[p].state \in Checkpoint /\ proc[p].state.submission = "accepted"
      /\ proc[p].state.cursor \in 0..Len(log) /\ IsBehind(proc[p].state)
  BY <1>2, RecoveringFacts
<1>4. upto \in 0..MaxLog /\ upto <= Len(log)
  BY <1>3 DEF RecoveryInv, TypeOK
<1>5. state \in Checkpoint /\ state.key = proc[p].state.key
      /\ state.submission = "accepted" /\ IsBehind(state)
  BY <1>3, <1>4 DEF IsBehind, Checkpoint
<1>6. "observe" \in Places \ {"unfinished"}
  BY DEF Places, Recovering
<1> HIDE DEF state
<1> QED BY <1>1, <1>2, <1>5, <1>6, SaveInv DEF state

(* A process that starts from the file, at a place that fits it. *)
LEMMA LoadInv ==
    ASSUME RecoveryInv, NEW p \in Process, HasFile, step[p] = "none",
           NEW place \in {"send", "mark", "result", "observe"},
           NEW next \in {"idle", "list"},
           file.submission # "prepared",
           place = "send" => program = "task_result",
           place = "mark" => program = "account_brief" /\ file.submission # "accepted",
           place \in Recovering => file.submission = "accepted",
           program = "probe" => file.submission = "accepted",
           Load(p, place, next),
           UNCHANGED <<fileVars, program, Platform>>
    PROVE  RecoveryInv'
<1> USE DEF fileVars, Platform, RecoveryInv
<1>a. file \in Checkpoint
  BY DEF HasFile, TypeOK
<1>b. /\ proc'[p].at = place /\ proc'[p].state = file /\ ~proc'[p].create
      /\ proc'[p].next = next
      /\ \A q \in Process \ {p} : proc'[q] = proc[q]
      /\ proc' \in [Process -> ProcessState]
  <2>1. [Idle EXCEPT !.at = place, !.next = next, !.state = file] \in ProcessState
    BY <1>a DEF Idle, ProcessState, Places, Recovering
  <2> QED BY <2>1 DEF TypeOK, Idle, Load
<1>1. TypeOK'
  BY <1>b DEF TypeOK, Checkpoint, NotOpened
<1>2. SavesAreWhole'
  BY DEF SavesAreWhole
<1>3. ProcessesAgree'
  BY <1>a, <1>b DEF ProcessesAgree, Attached, Creating, HasFile
<1>4. PlacesFit'
  BY <1>b DEF PlacesFit, Nears, Recovering
<1>5. SendersAreCovered'
  BY <1>a, <1>b DEF SendersAreCovered, Replacing, Entries, Admits, ActsUnsynced
<1>6. SentIsCovered'
  BY DEF SentIsCovered, Entries, Admits, ActsUnsynced
<1>7. OneMaker'
  BY <1>b DEF OneMaker, Replacing, Attached, Creating, Nears
<1>8. NothingIsAhead'
  BY <1>b DEF NothingIsAhead, IsBehind, Ended, SavesAreWhole
<1>9. WatchesAreBehind'
  BY <1>b DEF WatchesAreBehind, Nears, Ended
<1> QED BY <1>1, <1>2, <1>3, <1>4, <1>5, <1>6, <1>7, <1>8, <1>9

(* replay and resume. *)
LEMMA ReplayInv ==
    ASSUME RecoveryInv, NEW p \in Process, Replay(p)
    PROVE  RecoveryInv'
<1>1. program \in {"task_result", "account_brief"}
  BY DEF Replay, RecoveryInv, TypeOK
<1>2. CASE program = "task_result"
  <2>1. Load(p, "send", "idle")
    BY <1>2 DEF Replay
  <2>2. "send" \notin Recovering
    BY <1>2 DEF Recovering
  <2> QED BY <1>2, <2>1, <2>2, LoadInv DEF Replay, Resting
<1>3. CASE program = "account_brief"
  <2>1. Load(p, "mark", "idle")
    BY <1>3 DEF Replay
  <2>2. "mark" \notin Recovering
    BY DEF Recovering
  <2> QED BY <1>3, <2>1, <2>2, LoadInv DEF Replay, Resting
<1> QED BY <1>1, <1>2, <1>3

LEMMA ResumeInv ==
    ASSUME RecoveryInv, NEW p \in Process, Resume(p)
    PROVE  RecoveryInv'
  BY LoadInv DEF Resume, Resting

(* A process that moves on without a save. *)
LEMMA GotoFacts ==
    ASSUME proc \in [Process -> ProcessState], NEW p \in Process,
           NEW place \in Places \ {"idle"}, Goto(p, place)
    PROVE  /\ proc' \in [Process -> ProcessState]
           /\ proc'[p].at = place /\ proc'[p].state = proc[p].state
           /\ proc'[p].create = proc[p].create /\ proc'[p].then = proc[p].then
           /\ \A q \in Process \ {p} : proc'[q] = proc[q]
<1>1. proc' = [proc EXCEPT ![p] = [proc[p] EXCEPT !.at = place]]
  BY DEF Goto
<1>2. [proc[p] EXCEPT !.at = place] \in ProcessState
  BY DEF ProcessState
<1>3. proc'[p] = [proc[p] EXCEPT !.at = place]
  BY <1>1
<1>4. /\ proc'[p].at = place /\ proc'[p].state = proc[p].state
      /\ proc'[p].create = proc[p].create /\ proc'[p].then = proc[p].then
  BY <1>3 DEF ProcessState
<1> QED BY <1>1, <1>2, <1>4

(* The request leaves: from here on its key is one that was sent. *)
LEMMA SendInv ==
    ASSUME RecoveryInv, NEW p \in Process, Send(p)
    PROVE  RecoveryInv'
<1> USE DEF fileVars, RecoveryInv
<1>a. proc[p].at = "send" /\ step[p] = "none" /\ proc[p].state \in Checkpoint
  BY DEF Send, At, ProcessesAgree, TypeOK, ProcessState
<1>b. /\ sent' = sent \cup {proc[p].state.key}
      /\ UNCHANGED <<file, survives, step, synced, lost, program, opened, log>>
  BY DEF Send
<1>c. /\ proc' \in [Process -> ProcessState]
      /\ proc'[p].at = "reply" /\ proc'[p].state = proc[p].state
      /\ proc'[p].create = proc[p].create /\ proc'[p].then = proc[p].then
      /\ \A q \in Process \ {p} : proc'[q] = proc[q]
  BY GotoFacts DEF Send, TypeOK, Places
<1>1. TypeOK'
  BY <1>a, <1>b, <1>c DEF TypeOK, Checkpoint, NotOpened
<1>2. SavesAreWhole'
  BY <1>b DEF SavesAreWhole
<1>3. ProcessesAgree'
  BY <1>a, <1>b, <1>c DEF ProcessesAgree, Attached, Creating, HasFile
<1>4. PlacesFit'
  BY <1>a, <1>b, <1>c DEF PlacesFit, Nears, Recovering
<1>5. SendersAreCovered'
  BY <1>a, <1>b, <1>c DEF SendersAreCovered, Replacing, Entries, Admits, ActsUnsynced
<1>6. SentIsCovered'
  BY <1>a, <1>b DEF SentIsCovered, Entries, Admits, ActsUnsynced, SendersAreCovered
<1>7. OneMaker'
  BY <1>a, <1>b, <1>c DEF OneMaker, Replacing, Attached, Creating, Nears
<1>8. NothingIsAhead'
  BY <1>b, <1>c DEF NothingIsAhead, IsBehind, Ended
<1>9. WatchesAreBehind'
  BY <1>a, <1>b, <1>c DEF WatchesAreBehind, Nears, Ended
<1> QED BY <1>1, <1>2, <1>3, <1>4, <1>5, <1>6, <1>7, <1>8, <1>9

LEMMA WatchEndsInv ==
    ASSUME RecoveryInv, NEW p \in Process, WatchEnds(p)
    PROVE  RecoveryInv'
<1> USE DEF fileVars, Platform, RecoveryInv
<1>a. proc[p].at = "watch" /\ step[p] = "none" /\ proc[p].state # NoFile
  BY DEF WatchEnds, At, ProcessesAgree
<1>b. UNCHANGED <<file, survives, step, synced, lost, program, sent, opened, log>>
  BY DEF WatchEnds
<1>c. /\ proc' \in [Process -> ProcessState]
      /\ proc'[p].at = "unfinished" /\ proc'[p].state = proc[p].state
      /\ proc'[p].create = proc[p].create /\ proc'[p].then = proc[p].then
      /\ \A q \in Process \ {p} : proc'[q] = proc[q]
  BY GotoFacts DEF WatchEnds, TypeOK, Places, Recovering
<1>1. TypeOK'
  BY <1>b, <1>c DEF TypeOK, Checkpoint, NotOpened
<1>2. SavesAreWhole'
  BY <1>b DEF SavesAreWhole
<1>3. ProcessesAgree'
  BY <1>a, <1>b, <1>c DEF ProcessesAgree, Attached, Creating, HasFile
<1>4. PlacesFit'
  BY <1>a, <1>b, <1>c DEF PlacesFit, Nears, Recovering
<1>5. SendersAreCovered'
  BY <1>a, <1>b, <1>c DEF SendersAreCovered, Replacing, Entries, Admits, ActsUnsynced
<1>6. SentIsCovered'
  BY <1>b DEF SentIsCovered, Entries, Admits, ActsUnsynced
<1>7. OneMaker'
  BY <1>a, <1>b, <1>c DEF OneMaker, Replacing, Attached, Creating, Nears
<1>8. NothingIsAhead'
  BY <1>b, <1>c DEF NothingIsAhead, IsBehind, Ended
<1>9. WatchesAreBehind'
  BY <1>a, <1>b, <1>c DEF WatchesAreBehind, Nears, Ended
<1> QED BY <1>1, <1>2, <1>3, <1>4, <1>5, <1>6, <1>7, <1>8, <1>9

(* save, step by step. *)
LEMMA WriteInv ==
    ASSUME RecoveryInv, NEW p \in Process, Write(p)
    PROVE  RecoveryInv'
<1> USE DEF Write, WriteTemporary, Platform, RecoveryInv
<1>1. TypeOK'
  BY DEF TypeOK, Checkpoint, NotOpened, ProcessState
<1>2. SavesAreWhole'
  BY DEF SavesAreWhole, TypeOK
<1>3. ProcessesAgree'
  BY DEF ProcessesAgree, Attached, Creating, HasFile, TypeOK
<1>4. PlacesFit'
  BY DEF PlacesFit, Nears, TypeOK
<1>5. SendersAreCovered'
  BY DEF SendersAreCovered, Replacing, Entries, Admits, ActsUnsynced, TypeOK
<1>6. SentIsCovered'
  BY DEF SentIsCovered, Entries, Admits, ActsUnsynced
<1>7. OneMaker'
  BY DEF OneMaker, Replacing, Attached, Creating, Nears, TypeOK
<1>8. NothingIsAhead'
  BY DEF NothingIsAhead, IsBehind, Ended
<1>9. WatchesAreBehind'
  BY DEF WatchesAreBehind, Nears, Ended, TypeOK
<1> QED BY <1>1, <1>2, <1>3, <1>4, <1>5, <1>6, <1>7, <1>8, <1>9

(* The new file is whole, has the key of the old one, and is not prepared   *)
(* unless there was none.                                                   *)
LEMMA PublishInv ==
    ASSUME RecoveryInv, NEW p \in Process, PublishState(p)
    PROVE  RecoveryInv'
<1> USE DEF Platform, RecoveryInv
<1>a. /\ step[p] = "publish" /\ synced[p]
      /\ proc[p].state \in Checkpoint
      /\ proc[p].create => file = NoFile
      /\ file' = proc[p].state
      /\ survives' = survives \cup {file'}
      /\ step' = [step EXCEPT ![p] = "sync"]
      /\ UNCHANGED <<synced, lost, program, proc, sent, opened, log>>
  BY DEF PublishState, Publish, SavesAreWhole, ProcessesAgree, TypeOK, ProcessState
<1>b. step'[p] = "sync" /\ \A q \in Process \ {p} : step'[q] = step[q]
  BY <1>a DEF TypeOK
<1>c. ~proc[p].create => Attached(p) /\ Replacing(p) /\ HasFile
                         /\ file.key = proc[p].state.key
                         /\ proc[p].state.submission # "prepared"
  BY <1>a DEF Attached, Creating, Replacing, ProcessesAgree, SendersAreCovered
<1>d. proc[p].create => /\ \A q \in Process : ~Attached(q)
                        /\ ~lost => sent = {}
  <2>1. SUFFICES ASSUME proc[p].create
                 PROVE  (\A q \in Process : ~Attached(q)) /\ (~lost => sent = {})
    OBVIOUS
  <2>2. file = NoFile
    BY <1>a, <2>1
  <2>3. \A q \in Process : ~Attached(q)
    BY <2>2 DEF ProcessesAgree, HasFile
  <2>4. ~lost => sent = {}
    BY <2>2 DEF SentIsCovered, Entries, Admits, ActsUnsynced
  <2> QED BY <2>3, <2>4
<1>1. TypeOK'
  BY <1>a DEF TypeOK, Checkpoint, NotOpened
<1>2. SavesAreWhole'
  BY <1>a, <1>b DEF SavesAreWhole
<1>3. ProcessesAgree'
  BY <1>a, <1>b, <1>c, <1>d DEF ProcessesAgree, Attached, Creating, HasFile
<1>4. PlacesFit'
  BY <1>a, <1>b DEF PlacesFit, Nears
<1>5. SendersAreCovered'
  <2> SUFFICES ASSUME NEW q \in Process
               PROVE (/\ Replacing(q) => proc[q].state.submission # "prepared"
                      /\ step[q] = "sync" /\ proc[q].then = "send" =>
                           file.submission # "prepared"
                      /\ proc[q].at = "send" =>
                           \A c \in Entries : Admits(c, proc[q].state.key))'
    BY DEF SendersAreCovered
  <2>1. Replacing(q)' => proc'[q].state.submission # "prepared"
    BY <1>a, <1>b DEF SendersAreCovered, Replacing
  <2>2. step'[q] = "sync" /\ proc'[q].then = "send" => file'.submission # "prepared"
    <3>1. CASE proc[p].create
      <4>1. q # p => step'[q] # "sync"
        BY <1>b, <1>d, <3>1 DEF Attached, Creating, ProcessesAgree
      <4>2. q = p => (proc[p].then = "send" => proc[p].state.submission # "prepared")
        BY <1>a DEF PlacesFit, Nears
      <4> QED BY <1>a, <4>1, <4>2
    <3> QED BY <1>a, <1>c, <3>1
  <2>3. ASSUME proc'[q].at = "send"
        PROVE  (\A c \in Entries : Admits(c, proc[q].state.key))'
    <3>1. Attached(q)
      BY <1>a, <2>3 DEF Attached, Creating, ProcessesAgree
    <3>2. ~proc[p].create /\ proc[q].state.key = proc[p].state.key
      BY <1>c, <1>d, <3>1, <1>a DEF ProcessesAgree
    <3>3. \A c \in Entries : Admits(c, proc[q].state.key)
      BY <1>a, <2>3 DEF SendersAreCovered
    <3>4. Admits(file', proc[q].state.key)
      BY <1>a, <1>c, <3>2 DEF Admits
    <3> QED BY <1>a, <3>3, <3>4 DEF Entries, Admits, ActsUnsynced
  <2> QED BY <2>1, <2>2, <2>3
<1>6. SentIsCovered'
  BY <1>a, <1>c, <1>d DEF SentIsCovered, Entries, Admits, ActsUnsynced
<1>7. OneMaker'
  <2>1. program = "task_result" =>
          \A q \in Process : Replacing(q)' => proc'[q].state.submission = "accepted"
    BY <1>a, <1>b DEF OneMaker, Replacing
  <2>2. ASSUME program = "probe", NEW q \in Process,
               Attached(q)', proc'[q].state.submission # "accepted"
        PROVE  /\ \A r \in Process \ {q} :
                    Attached(r)' => proc'[r].state.submission = "accepted"
               /\ Replacing(q)' \/ Nears(q, {"mark"})' =>
                    /\ file'.submission = "prepared"
                    /\ \A r \in Process \ {q} : ~Attached(r)'
    <3>1. CASE proc[p].create
      <4>1. q = p /\ \A r \in Process \ {q} : ~Attached(r)'
        BY <1>a, <1>b, <1>d, <2>2, <3>1 DEF Attached, Creating
      <4>2. Replacing(q)' \/ Nears(q, {"mark"})' => proc[p].then = "mark" \/ proc[p].at = "mark"
        BY <1>a, <1>b, <4>1 DEF Nears, Replacing
      <4>3. proc[p].at = "idle"
        BY <1>a DEF ProcessesAgree
      <4>4. proc[p].then = "mark" => proc[p].state.submission = "prepared"
        BY <1>a, <2>2 DEF PlacesFit, Nears
      <4>5. Replacing(q)' \/ Nears(q, {"mark"})' => file'.submission = "prepared"
        BY <1>a, <4>2, <4>3, <4>4
      <4> QED BY <4>1, <4>5
    <3>2. CASE ~proc[p].create
      <4>1. \A r \in Process : Attached(r)' <=> Attached(r)
        BY <1>a, <1>b, <3>2 DEF Attached, Creating
      <4>2. q # p => ~(Replacing(q) \/ Nears(q, {"mark"}))
        BY <1>a, <1>c, <2>2, <3>2, <4>1 DEF OneMaker
      <4>3. q = p => ~Replacing(q)' /\ ~Nears(q, {"mark"})'
        <5>1. proc[p].then # "mark" /\ proc[p].at = "idle"
          BY <1>a, <1>c, <2>2, <3>2 DEF PlacesFit, Nears, ProcessesAgree
        <5> QED BY <1>a, <1>b, <5>1 DEF Replacing, Nears
      <4> QED BY <1>a, <1>b, <2>2, <4>1, <4>2, <4>3 DEF OneMaker, Replacing, Nears
    <3> QED BY <3>1, <3>2
  <2> QED BY <1>a, <2>1, <2>2 DEF OneMaker
<1>8. NothingIsAhead'
  BY <1>a DEF NothingIsAhead, IsBehind, Ended
<1>9. WatchesAreBehind'
  BY <1>a, <1>b DEF WatchesAreBehind, Nears, Ended
<1> QED BY <1>1, <1>2, <1>3, <1>4, <1>5, <1>6, <1>7, <1>8, <1>9

LEMMA SaveReturnsInv ==
    ASSUME RecoveryInv, NEW p \in Process, SaveReturns(p)
    PROVE  RecoveryInv'
<1> USE DEF Platform, RecoveryInv
<1> DEFINE place == proc[p].then
<1>a. /\ step[p] = "sync" /\ proc[p].at = "idle" /\ proc[p].state \in Checkpoint
      /\ survives' = {file}
      /\ step' = [step EXCEPT ![p] = "none"]
      /\ UNCHANGED <<file, synced, lost, program, sent, opened, log>>
  BY DEF SaveReturns, SyncDirectory, ProcessesAgree, TypeOK, ProcessState
<1>b. step'[p] = "none" /\ \A q \in Process \ {p} : step'[q] = step[q]
  BY <1>a DEF TypeOK
<1>c. /\ proc' \in [Process -> ProcessState]
      /\ \A q \in Process \ {p} : proc'[q] = proc[q]
      /\ \/ proc'[p] = Idle
         \/ /\ proc'[p].at = place /\ place # "idle"
            /\ proc'[p].state = proc[p].state
            /\ proc'[p].create = proc[p].create /\ proc'[p].then = proc[p].then
  <2>1. CASE place = "idle"
    BY <2>1, IdleState DEF SaveReturns, Goto, TypeOK
  <2>2. CASE place # "idle"
    <3>1. place \in Places \ {"idle"}
      BY <2>2 DEF TypeOK, ProcessState
    <3> QED BY <2>2, <3>1, GotoFacts DEF SaveReturns, TypeOK
  <2> QED BY <2>1, <2>2
<1>d. Idle.at = "idle" /\ Idle.state = NoFile
  BY DEF Idle
<1>e. Attached(p) /\ HasFile /\ file.key = proc[p].state.key
  BY <1>a DEF Attached, Creating, ProcessesAgree
<1>f. place \in Places \ {"unfinished"} /\ Nears(p, {place})
  BY <1>a DEF TypeOK, ProcessState, Nears
<1> HIDE DEF place
<1>1. TypeOK'
  BY <1>a, <1>c DEF TypeOK, Checkpoint, NotOpened
<1>2. SavesAreWhole'
  BY <1>a, <1>b DEF SavesAreWhole
<1>3. ProcessesAgree'
  BY <1>a, <1>b, <1>c, <1>d, <1>e DEF ProcessesAgree, Attached, Creating, HasFile
<1>4. PlacesFit'
  BY <1>a, <1>b, <1>c, <1>d, <1>f DEF PlacesFit, Nears, Recovering, place
<1>5. SendersAreCovered'
  <2>1. place = "send" => Admits(file, proc[p].state.key)
    BY <1>a, <1>e DEF SendersAreCovered, Admits, HasFile, TypeOK, place
  <2> QED BY <1>a, <1>b, <1>c, <1>d, <2>1
      DEF SendersAreCovered, Replacing, Entries, Admits, ActsUnsynced
<1>6. SentIsCovered'
  BY <1>a DEF SentIsCovered, Entries, Admits, ActsUnsynced
<1>7. OneMaker'
  BY <1>a, <1>b, <1>c, <1>d DEF OneMaker, Replacing, Attached, Creating, Nears, place
<1>8. NothingIsAhead'
  BY <1>a, <1>c, <1>d DEF NothingIsAhead, IsBehind, Ended, SavesAreWhole
<1>9. WatchesAreBehind'
  BY <1>a, <1>b, <1>c, <1>d, <1>f DEF WatchesAreBehind, Nears, Ended, place
<1> QED BY <1>1, <1>2, <1>3, <1>4, <1>5, <1>6, <1>7, <1>8, <1>9

(* Processes that end: some of them, and with a power failure all. *)
LEMMA EndInv ==
    ASSUME RecoveryInv, NEW gone \in SUBSET Process,
           proc' = [p \in Process |-> IF p \in gone THEN Idle ELSE proc[p]],
           step' = [p \in Process |-> IF p \in gone THEN "none" ELSE step[p]],
           synced' = [p \in Process |-> IF p \in gone THEN FALSE ELSE synced[p]],
           \/ UNCHANGED <<file, survives, lost>>
           \/ /\ gone = Process
              /\ file' \in survives /\ survives' = {file'}
              /\ lost' = (lost \/ (ActsUnsynced /\ file' # file)),
           UNCHANGED <<program, Platform>>
    PROVE  RecoveryInv'
<1> USE DEF Platform, RecoveryInv
<1>a. Idle.at = "idle" /\ Idle.state = NoFile
  BY DEF Idle
<1>b. \A p \in Process \ gone : proc'[p] = proc[p] /\ step'[p] = step[p]
                                /\ synced'[p] = synced[p]
  OBVIOUS
<1>c. \A p \in gone : proc'[p] = Idle /\ step'[p] = "none" /\ ~synced'[p]
  OBVIOUS
<1>d. /\ file' \in survives /\ survives' \subseteq survives
      /\ ~lost' => ~lost /\ Entries' \subseteq Entries
  BY DEF Entries, SavesAreWhole, ActsUnsynced, TypeOK
<1>e. (\E p \in Process : p \notin gone) => UNCHANGED <<file, survives, lost>>
  OBVIOUS
<1>1. TypeOK'
  BY <1>d, IdleState DEF TypeOK, Checkpoint, NotOpened, SavesAreWhole
<1>2. SavesAreWhole'
  BY <1>b, <1>c DEF SavesAreWhole
<1>3. ProcessesAgree'
  BY <1>a, <1>b, <1>c, <1>e DEF ProcessesAgree, Attached, Creating, HasFile
<1>4. PlacesFit'
  BY <1>a, <1>b, <1>c DEF PlacesFit, Nears, Recovering
<1>5. SendersAreCovered'
  BY <1>a, <1>b, <1>c, <1>d, <1>e
  DEF SendersAreCovered, Replacing, Entries, Admits, ActsUnsynced
<1>6. SentIsCovered'
  BY <1>d DEF SentIsCovered, Admits
<1>7. OneMaker'
  BY <1>a, <1>b, <1>c, <1>e DEF OneMaker, Replacing, Attached, Creating, Nears
<1>8. NothingIsAhead'
  BY <1>a, <1>b, <1>c, <1>d DEF NothingIsAhead, IsBehind, Ended
<1>9. WatchesAreBehind'
  BY <1>a, <1>b, <1>c DEF WatchesAreBehind, Nears, Ended
<1> QED BY <1>1, <1>2, <1>3, <1>4, <1>5, <1>6, <1>7, <1>8, <1>9

LEMMA StopInv ==
    ASSUME RecoveryInv, NEW p \in Process, Stop(p)
    PROVE  RecoveryInv'
<1>1. /\ proc' = [q \in Process |-> IF q \in {p} THEN Idle ELSE proc[q]]
      /\ step' = [q \in Process |-> IF q \in {p} THEN "none" ELSE step[q]]
      /\ synced' = [q \in Process |-> IF q \in {p} THEN FALSE ELSE synced[q]]
  BY DEF Stop, LeaveSave, RecoveryInv, TypeOK
<1>2. {p} \in SUBSET Process /\ UNCHANGED <<file, survives, lost>>
      /\ UNCHANGED <<program, Platform>>
  BY DEF Stop, LeaveSave
<1> DEFINE gone == {p}
<1> HIDE DEF gone
<1>3. /\ gone \in SUBSET Process
      /\ proc' = [q \in Process |-> IF q \in gone THEN Idle ELSE proc[q]]
      /\ step' = [q \in Process |-> IF q \in gone THEN "none" ELSE step[q]]
      /\ synced' = [q \in Process |-> IF q \in gone THEN FALSE ELSE synced[q]]
  BY <1>1, <1>2 DEF gone
<1> QED BY <1>2, <1>3, EndInv

LEMMA PowerFailureInv ==
    ASSUME RecoveryInv, PowerFailure
    PROVE  RecoveryInv'
<1>1. /\ proc' = [q \in Process |-> IF q \in Process THEN Idle ELSE proc[q]]
      /\ step' = [q \in Process |-> IF q \in Process THEN "none" ELSE step[q]]
      /\ synced' = [q \in Process |-> IF q \in Process THEN FALSE ELSE synced[q]]
  BY DEF PowerFailure, PowerCut
<1> QED BY <1>1, EndInv DEF PowerFailure, PowerCut

(* Platform moves on: what was true of the log stays true. *)
LEMMA PlatformInv ==
    ASSUME RecoveryInv, opened' \in [Keys -> 0..NotOpened],
           \A k \in Keys : opened'[k] # NotOpened => opened'[k] <= Len(log'),
           log' \in Seq(Keys \cup {"other"}), Len(log') \in Len(log)..MaxLog,
           \A i \in 1..Len(log) : log'[i] = log[i],
           UNCHANGED <<fileVars, program, proc, sent>>
    PROVE  RecoveryInv'
<1> USE DEF fileVars, RecoveryInv
<1>a. Len(log) \in Nat /\ Len(log') \in Nat /\ Len(log) <= Len(log')
  BY DEF TypeOK
<1>b. \A k \in Keys, n \in 0..Len(log) : Ended(k, n)' <=> Ended(k, n)
  BY <1>a DEF Ended
<1>c. \A k \in Keys : Ended(k, Len(log)) => Ended(k, Len(log))'
  BY <1>a DEF Ended
<1>d. \A c \in Checkpoint : c.key \in Keys /\ c.cursor \in 0..MaxLog
  BY DEF Checkpoint
<1>1. TypeOK'
  BY <1>a DEF TypeOK, Checkpoint, NotOpened
<1>2. SavesAreWhole'
  BY DEF SavesAreWhole
<1>3. ProcessesAgree' /\ PlacesFit'
  BY DEF ProcessesAgree, PlacesFit, Attached, Creating, HasFile, Nears
<1>4. SendersAreCovered' /\ SentIsCovered'
  BY DEF SendersAreCovered, SentIsCovered, Replacing, Entries, Admits, ActsUnsynced
<1>5. OneMaker'
  BY DEF OneMaker, Replacing, Attached, Creating, Nears
<1>6. \A c : IsBehind(c) => IsBehind(c)'
  BY <1>a, <1>c, <1>d DEF IsBehind, Checkpoint
<1>7. NothingIsAhead'
  BY <1>6 DEF NothingIsAhead, NotOpened
<1>8. ASSUME NEW p \in Process, Nears(p, {"watch", "unfinished"})
      PROVE  ~Ended(proc[p].state.key, proc[p].state.cursor)'
  <2>1. proc[p].state \in Checkpoint
    BY <1>8 DEF Nears, ProcessesAgree, TypeOK, ProcessState
  <2>2. proc[p].state.cursor \in 0..Len(log) /\ proc[p].state.key \in Keys
    BY <1>a, <1>d, <2>1 DEF NothingIsAhead, IsBehind
  <2>3. ~Ended(proc[p].state.key, proc[p].state.cursor)
    BY <1>8 DEF WatchesAreBehind
  <2> QED BY <1>b, <2>2, <2>3
<1>9. WatchesAreBehind'
  BY <1>8 DEF WatchesAreBehind, Nears
<1> QED BY <1>1, <1>2, <1>3, <1>4, <1>5, <1>7, <1>9

LEMMA OpenTurnInv ==
    ASSUME RecoveryInv, NEW k \in Keys, OpenTurn(k)
    PROVE  RecoveryInv'
<1>1. Len(log) \in 0..MaxLog /\ opened \in [Keys -> 0..NotOpened]
      /\ log \in Seq(Keys \cup {"other"})
  BY DEF RecoveryInv, TypeOK
<1>2. opened' \in [Keys -> 0..NotOpened]
  BY <1>1 DEF OpenTurn, NotOpened
<1>3. \A j \in Keys : opened'[j] # NotOpened => opened'[j] <= Len(log)
  BY <1>1 DEF OpenTurn, RecoveryInv, NothingIsAhead, NotOpened
<1> QED BY <1>1, <1>2, <1>3, PlatformInv DEF OpenTurn

LEMMA TurnEndsInv ==
    ASSUME RecoveryInv, NEW t \in Keys \cup {"other"}, TurnEnds(t)
    PROVE  RecoveryInv'
<1>1. /\ Len(log) \in Nat /\ opened \in [Keys -> 0..NotOpened]
      /\ log \in Seq(Keys \cup {"other"}) /\ Len(log) < MaxLog
      /\ log' = Append(log, t)
  BY DEF RecoveryInv, TypeOK, TurnEnds
<1>2. /\ log' \in Seq(Keys \cup {"other"}) /\ Len(log') = Len(log) + 1
      /\ \A i \in 1..Len(log) : log'[i] = log[i]
  BY <1>1
<1>3. \A k \in Keys : opened'[k] # NotOpened => opened'[k] <= Len(log')
  BY <1>1, <1>2 DEF TurnEnds, RecoveryInv, NothingIsAhead, NotOpened
<1> QED BY <1>1, <1>2, <1>3, PlatformInv DEF TurnEnds

LEMMA StepInv ==
    ASSUME RecoveryInv, [Next]_vars
    PROVE  RecoveryInv'
<1>1. ASSUME NEW p \in Process, List(p) PROVE RecoveryInv'
  <2>1. step[p] = "none" /\ proc[p].at \in Recovering
    BY <1>1 DEF List, At, Recovering
  <2>2. PICK upto \in proc[p].state.cursor..Len(log), next \in {"watch", "list", "idle"} :
          ReadPage(p, upto, next)
    BY <1>1 DEF List
  <2> QED BY <2>1, <2>2, ReadPageInv
<1>2. ASSUME NEW p \in Process, Watch(p) PROVE RecoveryInv'
  <2>1. step[p] = "none" /\ proc[p].at \in Recovering
    BY <1>2 DEF Watch, At, Recovering
  <2>2. PICK upto \in proc[p].state.cursor..Len(log) : ReadPage(p, upto, "watch")
    BY <1>2 DEF Watch
  <2> QED BY <2>1, <2>2, ReadPageInv
<1>3. ASSUME UNCHANGED vars PROVE RecoveryInv'
  <2>1. UNCHANGED opened /\ UNCHANGED log /\ UNCHANGED <<fileVars, program, proc, sent>>
    BY <1>3 DEF vars
  <2>2. /\ Len(log) \in Nat /\ Len(log) <= MaxLog /\ log \in Seq(Keys \cup {"other"})
        /\ opened \in [Keys -> 0..NotOpened]
        /\ \A k \in Keys : opened[k] # NotOpened => opened[k] <= Len(log)
    BY DEF RecoveryInv, TypeOK, NothingIsAhead
  <2> QED BY <2>1, <2>2, PlatformInv
<1> QED BY <1>1, <1>2, <1>3, StartInv, MarkInv, ReplayInv, SendInv, ReplyInv, ResumeInv,
           ResultInv, WatchEndsInv, ObserveInv, WriteInv, PublishInv, SaveReturnsInv,
           StopInv, PowerFailureInv, OpenTurnInv, TurnEndsInv DEF Next

(* The inductive invariant: whatever ends processes or machines, files,     *)
(* processes and Platform agree.                                            *)
THEOREM RecoveryInvariant == Spec => []RecoveryInv
  BY InitInv, StepInv, PTL DEF Spec

(* No process ever finds part of a checkpoint at the path. *)
THEOREM FilesAreWhole == Spec => []FileIsWhole
<1>1. RecoveryInv => FileIsWhole
  BY DEF RecoveryInv, SavesAreWhole, FileIsWhole
<1> QED BY <1>1, RecoveryInvariant, PTL

(* Every request that may have left can be repeated from the file. *)
THEOREM RequestsAreAdmitted == Spec => []FileAdmitsRequests
<1>1. RecoveryInv => FileAdmitsRequests
  BY DEF RecoveryInv, SentIsCovered, Entries, Admits, ActsUnsynced,
         FileAdmitsRequests, HasFile
<1> QED BY <1>1, RecoveryInvariant, PTL

(* The file never says that a turn ended which has not. *)
THEOREM ProjectionsAreTrue == Spec => []ProjectionIsTrue
<1>1. RecoveryInv => ProjectionIsTrue
  BY DEF RecoveryInv, SavesAreWhole, NothingIsAhead, IsBehind, TypeOK, HasFile,
         ProjectionIsTrue, Turn, TurnAt
<1> QED BY <1>1, RecoveryInvariant, PTL

(* Who gives up has the end of the turn still before its cursor. *)
THEOREM EndsAreNotMissed == Spec => []NoEndMissed
<1>1. RecoveryInv => NoEndMissed
  BY DEF RecoveryInv, WatchesAreBehind, Nears, At, NoEndMissed
<1> QED BY <1>1, RecoveryInvariant, PTL

(* The turn of an accepted checkpoint is not lost to an older save. *)
THEOREM AcceptancesAreKept == Spec => AcceptanceKept
<1> DEFINE Accepted == \A c \in survives \cup {file} : c # NoFile /\ c.submission = "accepted"
<1>1. ASSUME RecoveryInv, [Next]_vars, program # "account_brief", Accepted
      PROVE  HasFile' /\ file'.submission = "accepted"
  <2>1. file' \in survives \cup {file} \/ \E p \in Process : PublishState(p)
    BY <1>1 DEF Next, vars, fileVars, Start, Mark, Replay, Send, Reply, Resume, Result,
         List, Watch, WatchEnds, Observe, ReadPage, SaveState, CallSave, Write,
         WriteTemporary, SaveReturns, SyncDirectory, Stop, LeaveSave, PowerFailure,
         PowerCut, OpenTurn, TurnEnds
  <2>2. file # NoFile /\ file.submission = "accepted" /\ Torn \notin survives \cup {file}
    BY <1>1 DEF RecoveryInv, SavesAreWhole
  <2>3. CASE file' \in survives \cup {file}
    BY <1>1, <2>2, <2>3 DEF HasFile
  <2>4. ASSUME NEW p \in Process, PublishState(p)
        PROVE  HasFile' /\ file'.submission = "accepted"
    <3>1. /\ step[p] = "publish" /\ ~proc[p].create /\ file' = proc[p].state
          /\ proc[p].state \in Checkpoint
      BY <2>2, <2>4, <1>1 DEF PublishState, Publish, RecoveryInv, ProcessesAgree, TypeOK,
           ProcessState
    <3>2. Replacing(p) /\ Attached(p)
      BY <3>1 DEF Replacing, Attached, Creating
    <3>3. program \in {"task_result", "probe"}
      BY <1>1 DEF RecoveryInv, TypeOK
    <3>4. proc[p].state.submission = "accepted"
      BY <1>1, <2>2, <3>2, <3>3 DEF RecoveryInv, OneMaker
    <3> QED BY <3>1, <3>4 DEF HasFile
  <2> QED BY <2>1, <2>3, <2>4
<1>2. RecoveryInv /\ [Next]_vars =>
        [ /\ program # "account_brief"
          /\ \A c \in survives \cup {file} : c # NoFile /\ c.submission = "accepted"
          => HasFile' /\ file'.submission = "accepted" ]_vars
  BY <1>1
<1> QED BY <1>2, RecoveryInvariant, PTL DEF Spec, AcceptanceKept
=============================================================================
