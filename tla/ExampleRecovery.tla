-------------------------- MODULE ExampleRecovery --------------------------
(***************************************************************************)
(* The example programs as processes that share one checkpoint file:        *)
(* task_result (start, replay, resume), account_brief (start, replay,       *)
(* resume) and the probe of a test tenant (submit, resume), from            *)
(* src/deixic/examples.  Commands run one after the other or two at a time, *)
(* each may end at any step, and the machine may lose power.                *)
(*                                                                          *)
(* A checkpoint is "prepared" while no request may be sent from it,         *)
(* "unacknowledged" once one may, "accepted" when it has the turn.          *)
(* account_brief stores these words.  task_result's file is unacknowledged  *)
(* from its first save, the probe's from its second, which adds the text it *)
(* expects and the id of its key.                                           *)
(*                                                                          *)
(* Platform opens one turn per key and keeps a log of the turns that ended, *)
(* of the request's turn and of others in the channel.  A turn's end stands *)
(* for completed, failed and interrupted.                                   *)
(***************************************************************************)
EXTENDS CheckpointFile, Sequences

CONSTANTS
    Keys,          \* idempotency keys
    Trigger,       \* the one an account brief is started with
    Programs,      \* the programs that are examined
    MaxLog         \* bound: turns that end in the channel

ASSUME ProgramsAssumption ==
    /\ Programs \subseteq {"task_result", "account_brief", "probe"}
    /\ MaxLog \in Nat
ASSUME KeysAssumption == Trigger \in Keys /\ "other" \notin Keys

VARIABLES
    program,       \* the program in use, the same throughout
    proc,          \* each process: where it is, its copy of the checkpoint, ...
    sent,          \* keys of requests that have left
    opened,        \* the turns Platform opened: their position in the log
    log            \* the turns that ended, as keys or "other"

vars == <<fileVars, program, proc, sent, opened, log>>

NotOpened == MaxLog + 1

Submissions == {"prepared", "unacknowledged", "accepted"}
TurnStates == {"unspecified", "open", "ended"}

Checkpoint ==
    [key : Keys, submission : Submissions, cursor : 0..MaxLog, turn : TurnStates]

Ended(k, n) == \E i \in 1..n : log[i] = k

(* Platform's state of the turn of key k, at position n of the log and now. *)
TurnAt(k, n) == IF Ended(k, n) THEN "ended" ELSE "open"
Turn(k) == TurnAt(k, Len(log))

ASSUME ContentsAssumption == NoFile \notin Checkpoint /\ Torn \notin Checkpoint

HasFile == file \notin {NoFile, Torn}

(* A process: "at" names what it does next outside of save, "then" where it *)
(* goes when save returns, "next" where it goes after an unfinished result. *)
Recovering == {"result", "list", "watch", "observe", "unfinished"}
Places == Recovering \cup {"idle", "mark", "send", "reply"}

ProcessState ==
    [at : Places, then : Places \ {"unfinished"}, next : {"idle", "list", "watch"},
     create : BOOLEAN, state : Checkpoint \cup {NoFile}]

Idle == [at |-> "idle", then |-> "idle", next |-> "idle",
         create |-> FALSE, state |-> NoFile]

Resting(p) == step[p] = "none" /\ proc[p].at \in {"idle", "unfinished"}

At(p, place) == step[p] = "none" /\ proc[p].at = place

Platform == <<sent, opened, log>>

Init ==
    /\ FileInit
    /\ program \in Programs
    /\ proc = [p \in Process |-> Idle]
    /\ sent = {}
    /\ opened = [k \in Keys |-> NotOpened]
    /\ log = << >>

Goto(p, place) ==
    proc' = [proc EXCEPT ![p] = IF place = "idle" THEN Idle ELSE [@ EXCEPT !.at = place]]

(* A command starts from the file. *)
Load(p, place, next) ==
    proc' = [proc EXCEPT ![p] =
               [Idle EXCEPT !.at = place, !.next = next, !.state = file]]

(* Process p saves state, goes on at then, and after a result at next. *)
SaveState(p, state, create, then, next) ==
    /\ proc' = [proc EXCEPT ![p] = [at |-> "idle", then |-> then, next |-> next,
                                    create |-> create, state |-> state]]
    /\ CallSave(p)
    /\ UNCHANGED <<program, Platform>>

(* The replay of task_result sends what it loaded, synced or not; the other *)
(* programs save before they send.                                          *)
ActsUnsynced == program = "task_result"

----------------------------------------------------------------------------
(* Submission. *)

(* The caller's trigger for a brief; for the others uuid4 returns a key that *)
(* no checkpoint and no request has.                                        *)
NewKeys ==
    IF program = "account_brief" THEN {Trigger}
    ELSE {k \in Keys \ sent :
            \A c \in survives \cup {file} \cup {proc[q].state : q \in Process} :
                c \notin {NoFile, Torn} => c.key # k}

(* start, or the probe's submit: prepare, and the save that creates. *)
Start(p) ==
    /\ Resting(p)
    /\ \E k \in NewKeys :
         LET direct == program = "task_result" IN
         SaveState(p, [key |-> k, cursor |-> 0, turn |-> "unspecified",
                       submission |-> IF direct THEN "unacknowledged" ELSE "prepared"],
                   TRUE, IF direct THEN "send" ELSE "mark", "idle")

(* The save before the request: Task._submit, or the probe's second save. *)
Mark(p) ==
    /\ At(p, "mark")
    /\ SaveState(p, [proc[p].state EXCEPT !.submission = "unacknowledged"],
                 FALSE, "send", "idle")

(* replay: task_result sends at once what it loaded, Task saves it first.   *)
(* An accepted checkpoint is refused by both, a prepared one by Task.       *)
Replay(p) ==
    /\ Resting(p)
    /\ program # "probe"
    /\ HasFile
    /\ file.submission = "unacknowledged"
    /\ Load(p, IF program = "task_result" THEN "send" ELSE "mark", "idle")
    /\ UNCHANGED <<fileVars, program, Platform>>

Send(p) ==
    /\ At(p, "send")
    /\ sent' = sent \cup {proc[p].state.key}
    /\ Goto(p, "reply")
    /\ UNCHANGED <<fileVars, program, opened, log>>

(* The reply, which names the turn of the first request of this key.  Only  *)
(* task_result goes on to the result of the turn in the same process.       *)
Reply(p) ==
    /\ At(p, "reply")
    /\ LET k == proc[p].state.key
           direct == program = "task_result"
       IN  /\ opened[k] # NotOpened
           /\ SaveState(p, [proc[p].state EXCEPT
                              !.submission = "accepted", !.cursor = opened[k],
                              !.turn = IF program = "account_brief" THEN @ ELSE Turn(k)],
                        FALSE, IF direct THEN "result" ELSE "idle", "list")

----------------------------------------------------------------------------
(* Recovery of the result. *)

(* Mutant of Resume: the test of the saved turn id lost. *)
ResumeAnything(p) ==
    /\ Resting(p)
    /\ HasFile
    /\ Load(p, IF program = "account_brief" THEN "observe" ELSE "result", "list")
    /\ UNCHANGED <<fileVars, program, Platform>>

(* resume of an accepted checkpoint; of another it returns, nothing done. *)
Resume(p) ==
    /\ Resting(p)
    /\ HasFile
    /\ file.submission = "accepted"
    /\ Load(p, IF program = "account_brief" THEN "observe" ELSE "result", "list")
    /\ UNCHANGED <<fileVars, program, Platform>>

(* result and the save after it: the thread has the turn as it is now. *)
Result(p) ==
    /\ At(p, "result")
    /\ LET turn == Turn(proc[p].state.key) IN
       SaveState(p, [proc[p].state EXCEPT !.turn = turn], FALSE,
                 IF turn = "ended" THEN "idle" ELSE proc[p].next, "idle")

(* Mutant of Project: the events of the other turns are applied too. *)
ProjectAny(state, snapshot, from, upto) ==
    [state EXCEPT
       !.cursor = upto,
       !.turn = IF from < upto THEN "ended"
                ELSE IF snapshot = "no" THEN @ ELSE snapshot]

(* apply_page, of a page with the events after from up to upto: on a reset  *)
(* the turn's state in the snapshot; then the events of the saved turn; the *)
(* cursor is the page's in either case.                                     *)
Project(state, snapshot, from, upto) ==
    [state EXCEPT
       !.cursor = upto,
       !.turn = IF \E i \in (from + 1)..upto : log[i] = state.key THEN "ended"
                ELSE IF snapshot = "no" THEN @ ELSE snapshot]

(* Platform's pages: no reset and every event after the cursor; or a reset, *)
(* with the events that are retained and a snapshot, taken at the page's    *)
(* cursor or after it, which has the turn or lacks it.                      *)
Pages(state, upto) ==
    {<<"no", state.cursor>>} \cup
    ({"unspecified"} \cup {TurnAt(state.key, n) : n \in upto..Len(log)})
      \X (state.cursor..upto)

(* Mutant of ReadPage: no result is fetched after the page. *)
ReadPageOnly(p, upto, next) ==
    \E page \in Pages(proc[p].state, upto) :
        SaveState(p, Project(proc[p].state, page[1], page[2], upto), FALSE, next, "idle")

(* A page after the cursor, its save, and the result to come. *)
ReadPage(p, upto, next) ==
    \E page \in Pages(proc[p].state, upto) :
        SaveState(p, Project(proc[p].state, page[1], page[2], upto), FALSE, "result", next)

(* events.list, and what follows an unfinished result: the watch if the     *)
(* page was the last; the process ends if the cursor did not advance; else  *)
(* another page.  The cursor also advances over events that end no turn,    *)
(* which the log does not show.                                             *)
List(p) ==
    /\ At(p, "list")
    /\ \E upto \in proc[p].state.cursor..Len(log), next \in {"watch", "list", "idle"} :
         /\ next = "watch" => upto = Len(log)
         /\ next = "idle" => upto = proc[p].state.cursor
         /\ ReadPage(p, upto, next)

(* events.watch: a page. *)
Watch(p) ==
    /\ At(p, "watch")
    /\ \E upto \in proc[p].state.cursor..Len(log) : ReadPage(p, upto, "watch")

(* events.watch: the end of the stream. *)
WatchEnds(p) ==
    /\ At(p, "watch")
    /\ Goto(p, "unfinished")
    /\ UNCHANGED <<fileVars, program, Platform>>

(* account_brief resumes through Task.wait: a page moves the cursor only    *)
(* (TaskObservation has the details).                                       *)
Observe(p) ==
    /\ At(p, "observe")
    /\ \E upto \in proc[p].state.cursor..Len(log) :
         SaveState(p, [proc[p].state EXCEPT !.cursor = upto], FALSE, "observe", "idle")

----------------------------------------------------------------------------
(* save, step by step, and the ends of processes. *)

Write(p) == WriteTemporary(p) /\ UNCHANGED <<program, proc, Platform>>

PublishState(p) ==
    /\ Publish(p, proc[p].state, proc[p].create)
    /\ UNCHANGED <<program, proc, Platform>>

SaveReturns(p) ==
    /\ SyncDirectory(p)
    /\ Goto(p, proc[p].then)
    /\ UNCHANGED <<program, Platform>>

(* A process ends early: an error of Platform, of the file system, of the   *)
(* checks, or a kill.                                                       *)
Stop(p) ==
    /\ ~Resting(p)
    /\ LeaveSave(p)
    /\ proc' = [proc EXCEPT ![p] = Idle]
    /\ UNCHANGED <<program, Platform>>

PowerFailure ==
    /\ PowerCut(ActsUnsynced)
    /\ proc' = [p \in Process |-> Idle]
    /\ UNCHANGED <<program, Platform>>

----------------------------------------------------------------------------
(* Platform. *)

OpenTurn(k) ==
    /\ k \in sent
    /\ opened[k] = NotOpened
    /\ opened' = [opened EXCEPT ![k] = Len(log)]
    /\ UNCHANGED <<fileVars, program, proc, sent, log>>

TurnEnds(t) ==
    /\ Len(log) < MaxLog
    /\ t \in Keys => opened[t] # NotOpened /\ ~Ended(t, Len(log))
    /\ log' = Append(log, t)
    /\ UNCHANGED <<fileVars, program, proc, sent, opened>>

----------------------------------------------------------------------------
Next ==
    \/ \E p \in Process :
         \/ Start(p) \/ Mark(p) \/ Replay(p) \/ Send(p) \/ Reply(p)
         \/ Resume(p) \/ Result(p) \/ List(p) \/ Watch(p) \/ WatchEnds(p) \/ Observe(p)
         \/ Write(p) \/ PublishState(p) \/ SaveReturns(p) \/ Stop(p)
    \/ PowerFailure
    \/ \E k \in Keys : OpenTurn(k)
    \/ \E t \in Keys \cup {"other"} : TurnEnds(t)

Spec == Init /\ [][Next]_vars
----------------------------------------------------------------------------
(* Properties. *)

TypeOK ==
    /\ program \in Programs
    /\ file \in Checkpoint \cup {NoFile, Torn}
    /\ survives \subseteq Checkpoint \cup {NoFile, Torn}
    /\ step \in [Process -> {"none", "write", "publish", "sync"}]
    /\ synced \in [Process -> BOOLEAN]
    /\ lost \in BOOLEAN
    /\ proc \in [Process -> ProcessState]
    /\ sent \subseteq Keys
    /\ opened \in [Keys -> 0..NotOpened]
    /\ log \in Seq(Keys \cup {"other"})
    /\ Len(log) <= MaxLog

(* What the processes see at the path is a whole checkpoint, or no file,    *)
(* after any crash and any power failure (task_result.py:22-30).            *)
FileIsWhole == file # Torn

(* A process has yet to publish the file it creates. *)
Creating(p) == proc[p].create /\ step[p] \in {"write", "publish"}

(* A process has loaded the file at the path, or has published it. *)
Attached(p) == proc[p].state # NoFile /\ ~Creating(p)

(* What a save is about to put at the path in place of a file. *)
Replacing(p) == step[p] \in {"write", "publish"} /\ ~proc[p].create

(* c is a checkpoint from which the request of key k may have been sent. *)
Admits(c, k) == c \in Checkpoint /\ c.key = k /\ c.submission # "prepared"

(* The entries from which a process may go on to send. *)
Entries == {file} \cup (IF ActsUnsynced THEN {} ELSE survives)

(* Saves publish whole files, and one of the entries is the newest. *)
SavesAreWhole ==
    /\ Torn \notin survives
    /\ file \in survives
    /\ \A p \in Process : step[p] \in {"publish", "sync"} => synced[p]

(* Where a process may be, and that it has the file's key once it has read  *)
(* or made the file.                                                        *)
ProcessesAgree ==
    \A p \in Process :
        /\ step[p] # "none" => proc[p].at = "idle" /\ proc[p].state # NoFile
        /\ proc[p].at # "idle" => proc[p].state # NoFile
        /\ Attached(p) => HasFile /\ file.key = proc[p].state.key

(* Process p is at one of the places, or goes there when its save returns. *)
Nears(p, places) ==
    proc[p].at \in places \/ (step[p] # "none" /\ proc[p].then \in places)

(* Only task_result sends from its first save, and only an accepted turn is *)
(* recovered.                                                               *)
PlacesFit ==
    \A p \in Process :
        /\ Nears(p, {"mark"}) =>
             /\ program # "task_result"
             /\ proc[p].state.submission # "accepted"
             /\ program = "probe" => proc[p].state.submission = "prepared"
        /\ Nears(p, {"send", "reply"}) => proc[p].state.submission # "prepared"
        /\ Nears(p, Recovering) => proc[p].state.submission = "accepted"

(* A process that may send, or is about to, has published and synced a file *)
(* that says so; nothing can then make it a prepared one.                   *)
SendersAreCovered ==
    \A p \in Process :
        /\ Replacing(p) => proc[p].state.submission # "prepared"
        /\ step[p] = "sync" /\ proc[p].then = "send" => file.submission # "prepared"
        /\ proc[p].at = "send" => \A c \in Entries : Admits(c, proc[p].state.key)

SentIsCovered == ~lost => \A k \in sent : \A c \in Entries : Admits(c, k)

(* Of the processes of the probe, one at most has the file without a turn:  *)
(* its maker, which is alone with the file until its second save.           *)
OneMaker ==
    /\ program = "task_result" =>
         \A p \in Process : Replacing(p) => proc[p].state.submission = "accepted"
    /\ program = "probe" =>
         \A p \in Process :
             Attached(p) /\ proc[p].state.submission # "accepted" =>
                 /\ \A q \in Process \ {p} :
                      Attached(q) => proc[q].state.submission = "accepted"
                 /\ Replacing(p) \/ Nears(p, {"mark"}) =>
                      /\ file.submission = "prepared"
                      /\ \A q \in Process \ {p} : ~Attached(q)

(* No checkpoint, in the file or in a process, is ahead of Platform. *)
IsBehind(c) ==
    c \in Checkpoint =>
        /\ c.turn = "ended" => Ended(c.key, Len(log))
        /\ c.cursor <= Len(log)

NothingIsAhead ==
    /\ \A c \in survives : IsBehind(c)
    /\ \A p \in Process : IsBehind(proc[p].state)
    /\ \A k \in Keys : opened[k] # NotOpened => opened[k] <= Len(log)

(* Before a watch, and while it lasts, the turn's end is not behind it. *)
WatchesAreBehind ==
    \A p \in Process :
        Nears(p, {"watch", "unfinished"}) =>
            ~Ended(proc[p].state.key, proc[p].state.cursor)

(* The inductive invariant: what files, processes and Platform agree on. *)
RecoveryInv ==
    /\ TypeOK
    /\ SavesAreWhole
    /\ ProcessesAgree
    /\ PlacesFit
    /\ SendersAreCovered
    /\ SentIsCovered
    /\ OneMaker
    /\ NothingIsAhead
    /\ WatchesAreBehind

(* A request that may reach Platform can be recovered: the file has its key *)
(* and says that it may have been sent, so that replay repeats this request *)
(* and start refuses another (CHANGELOG.md:15, task_result.py:61).  After   *)
(* any crash and any power failure; task_result's replay may rest on an     *)
(* entry that is lost.                                                      *)
FileAdmitsRequests ==
    ~lost =>
        \A k \in sent : HasFile /\ file.key = k /\ file.submission # "prepared"

(* Once every entry that may be found says accepted, no save of a process   *)
(* that loaded an older file takes the turn away again.  (account_brief's   *)
(* replay may: its save before the request writes "unacknowledged".)        *)
AcceptanceKept ==
    [][ /\ program # "account_brief"
        /\ \A c \in survives \cup {file} : c # NoFile /\ c.submission = "accepted"
        => HasFile' /\ file'.submission = "accepted" ]_vars

(* The projection in the file says that the turn ended only if it did:      *)
(* events of other turns do not count (task_result.py:155).                 *)
ProjectionIsTrue == HasFile /\ file.turn = "ended" => Turn(file.key) = "ended"

(* A process that gives up as "unfinished" at a cursor has not read past    *)
(* the turn's end: the one who resumes at that cursor still gets the event  *)
(* (task_result.py:191-208).                                                *)
NoEndMissed ==
    \A p \in Process :
        At(p, "unfinished") => ~Ended(proc[p].state.key, proc[p].state.cursor)

=============================================================================
