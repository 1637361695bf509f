--------------------------- MODULE TaskSubmission ---------------------------
(***************************************************************************)
(* The recoverable submission of one task: TasksClient.prepare and resume,  *)
(* Task.submit and Task.replay (src/deixic/tasks.py), the checkpoint the    *)
(* application stores in on_checkpoint, the process that may crash between  *)
(* any two steps, the HTTP calls that may be lost or late, and Platform,    *)
(* which opens one turn per idempotency key.                                *)
(*                                                                          *)
(* One request (one idempotency key, one checkpoint) and the handles        *)
(* successive processes make for it.  The request's immutable fields        *)
(* (tenant, URL, channel, body, key) are not represented: no step writes    *)
(* them.                                                                    *)
(***************************************************************************)
EXTENDS Integers

CONSTANTS
    Callers,           \* activations of submit()/replay() on one handle: threads,
                       \* or callbacks that call back into the handle
    Connections,       \* HTTP calls of messages.send that can be open at once
    NoConnection,
    Turns,             \* turn ids Platform assigns
    NoTurn,            \* the empty turn id
    PaddedTurn,        \* a turn id with whitespace around it
    MaxSequence,       \* bound: turn sequences are 1..MaxSequence
    MaxCursor,         \* bound: replay cursors are 0..MaxCursor
    PreemptibleGuard   \* whether the interpreter may switch threads between the
                       \* test of _submitting and its assignment: no between
                       \* calls under the GIL of CPython >= 3.11, yes on builds
                       \* that switch at a taken jump or run without a GIL

ASSUME BoundsAssumption == MaxSequence \in Nat \ {0} /\ MaxCursor \in Nat
ASSUME TurnsAssumption ==
    /\ NoTurn \notin Turns /\ PaddedTurn \notin Turns /\ NoTurn # PaddedTurn
    /\ NoConnection \notin Connections
    /\ PreemptibleGuard \in BOOLEAN

VARIABLES
    disk,         \* the checkpoint in the application's storage
    task,         \* Task._state of the live handle
    submitting,   \* Task._submitting
    pc,           \* where each caller is in _submit
    call,         \* the connection a caller's messages.send waits on
    requests,     \* connections whose request Platform has not processed yet
    answered,     \* connections whose response has been sent back
    turn          \* Platform: the turn of this idempotency key

vars == <<disk, task, submitting, pc, call, requests, answered, turn>>

----------------------------------------------------------------------------
(* Checkpoints and coordinates. *)

Submissions == {"absent", "prepared", "unacknowledged", "accepted"}

(* The coordinates of a turn Platform accepted. *)
Acceptance == [turnId : Turns, sequence : 1..MaxSequence, cursor : 0..MaxCursor]

NoAcceptance == [turnId |-> NoTurn, sequence |-> 0, cursor |-> 0]

Coordinates(c) == [turnId |-> c.turnId, sequence |-> c.sequence, cursor |-> c.cursor]

Checkpoint(submission, t) ==
    [submission |-> submission, turnId |-> t.turnId,
     sequence |-> t.sequence, cursor |-> t.cursor]

(* A checkpoint without coordinates.  "absent" stands for no checkpoint in  *)
(* storage, and for no handle in memory.                                    *)
Blank(submission) == Checkpoint(submission, NoAcceptance)

(* _identity: neither empty nor padded. *)
ValidIdentity(id) == id \notin {NoTurn, PaddedTurn}

(* Mutants of ValidCoordinates: the test of the sequence, of the cursor lost. *)
CoordinatesWithoutSequence(t) == ValidIdentity(t.turnId) /\ t.cursor >= 0
CoordinatesWithoutCursor(t) == ValidIdentity(t.turnId) /\ t.sequence > 0

(* The check of a reply before the handle trusts its coordinates. *)
ValidCoordinates(t) ==
    /\ ValidIdentity(t.turnId)
    /\ t.sequence > 0
    /\ t.cursor >= 0

(* The check of a stored checkpoint's coordinates in resume: _decimal reads *)
(* no negative number.                                                      *)
Resumable(c) ==
    /\ c.sequence >= 0 /\ c.cursor >= 0
    /\ \/ /\ c.submission = "accepted"
          /\ ValidIdentity(c.turnId)
          /\ c.sequence # 0
       \/ /\ c.submission \in {"prepared", "unacknowledged"}
          /\ Coordinates(c) = NoAcceptance

(* What a reply can carry for turn t: the turn itself, or a reply damaged in *)
(* one of the ways the code looks for.                                       *)
Replies(t) ==
    {t, [t EXCEPT !.turnId = NoTurn], [t EXCEPT !.turnId = PaddedTurn],
     [t EXCEPT !.sequence = 0], [t EXCEPT !.cursor = -1]}

Init ==
    /\ disk = Blank("absent")
    /\ task = Blank("absent")
    /\ submitting = FALSE
    /\ pc = [c \in Callers |-> "idle"]
    /\ call = [c \in Callers |-> NoConnection]
    /\ requests = {}
    /\ answered = {}
    /\ turn = NoAcceptance

----------------------------------------------------------------------------
(* The process: preparing, crashing, resuming. *)

NoHandle == task.submission = "absent"

(* prepare: the handle is returned only if its first save returned; a save  *)
(* that raises may or may not have reached storage.  The application calls  *)
(* it for a request it has no checkpoint of.                                *)
Prepare ==
    /\ NoHandle
    /\ disk.submission = "absent"
    /\ \/ task' = Blank("prepared") /\ disk' = task'
       \/ task' = task /\ disk' \in {disk, Blank("prepared")}
    /\ UNCHANGED <<submitting, pc, call, requests, answered, turn>>

(* resume: a new handle over the stored checkpoint, with fresh flags. *)
Resume ==
    /\ NoHandle
    /\ Resumable(disk)
    /\ task' = disk
    /\ UNCHANGED <<disk, submitting, pc, call, requests, answered, turn>>

(* resume refuses a checkpoint whose coordinates contradict its submission. *)
ResumeRefused ==
    /\ NoHandle
    /\ disk.submission # "absent" /\ ~Resumable(disk)
    /\ UNCHANGED vars

(* The process ends anywhere.  Requests it sent may still arrive. *)
Crash ==
    /\ ~NoHandle
    /\ task' = Blank("absent")
    /\ submitting' = FALSE
    /\ pc' = [c \in Callers |-> "idle"]
    /\ call' = [c \in Callers |-> NoConnection]
    /\ answered' = {}
    /\ UNCHANGED <<disk, requests, turn>>

----------------------------------------------------------------------------
(* Task._submit, one caller at a time through its steps. *)

MarkUnacknowledged(c) ==
    /\ submitting' = TRUE
    /\ task' = [task EXCEPT !.submission = "unacknowledged"]
    /\ pc' = [pc EXCEPT ![c] = "save unacknowledged"]

(* Mutant of Finish: the flag is reset on the way out of a call that succeeds *)
(* only, instead of in a finally clause.                                      *)
FinishWithoutReset(c) ==
    /\ submitting' = (pc[c] # "save accepted")
    /\ pc' = [pc EXCEPT ![c] = "idle"]
    /\ call' = [call EXCEPT ![c] = NoConnection]

(* The finally clause: the call is over, with or without an exception. *)
Finish(c) ==
    /\ submitting' = FALSE
    /\ pc' = [pc EXCEPT ![c] = "idle"]
    /\ call' = [call EXCEPT ![c] = NoConnection]

(* Mutants of MayEnter: an accepted submission, or one under way, not refused. *)
MayEnterAccepted == ~submitting /\ task.submission # "absent"
MayEnterTwice == task.submission \in {"prepared", "unacknowledged"}

(* submit() requires "prepared", replay() "unacknowledged"; both refuse a   *)
(* handle whose submission is under way.                                    *)
MayEnter == ~submitting /\ task.submission \in {"prepared", "unacknowledged"}

Enter(c) ==
    /\ pc[c] = "idle"
    /\ MayEnter
    /\ IF PreemptibleGuard
         THEN pc' = [pc EXCEPT ![c] = "guarded"] /\ UNCHANGED <<task, submitting>>
         ELSE MarkUnacknowledged(c)
    /\ UNCHANGED <<disk, call, requests, answered, turn>>

(* The rest of the guard's statement, where it is not one step with it. *)
SetFlag(c) ==
    /\ pc[c] = "guarded"
    /\ MarkUnacknowledged(c)
    /\ UNCHANGED <<disk, call, requests, answered, turn>>

(* Mutant of SaveUnacknowledged: the request leaves before the save. *)
SendBeforeSave(c) ==
    /\ pc[c] = "save unacknowledged"
    /\ pc' = [pc EXCEPT ![c] = "send"]
    /\ UNCHANGED <<disk, task, submitting, call, requests, answered, turn>>

(* on_checkpoint stores the attempt before anything is sent. *)
SaveUnacknowledged(c) ==
    /\ pc[c] = "save unacknowledged"
    /\ disk' = task
    /\ pc' = [pc EXCEPT ![c] = "send"]
    /\ UNCHANGED <<task, submitting, call, requests, answered, turn>>

(* A storage failure, before or after the write, ends the call. *)
SaveRaises(c) ==
    /\ pc[c] \in {"save unacknowledged", "save accepted"}
    /\ disk' \in {disk, task}
    /\ Finish(c)
    /\ UNCHANGED <<task, requests, answered, turn>>

OpenConnections == requests \cup {call[c] : c \in Callers}

(* messages.send writes the request on a connection of its own.  After a    *)
(* 401, which opens no turn, the client sends the request once more: this   *)
(* is its last attempt.                                                     *)
Send(c) ==
    /\ pc[c] = "send"
    /\ \E k \in Connections \ OpenConnections :
         /\ requests' = requests \cup {k}
         /\ call' = [call EXCEPT ![c] = k]
    /\ pc' = [pc EXCEPT ![c] = "await"]
    /\ UNCHANGED <<disk, task, submitting, answered, turn>>

(* messages.send raises before a byte is sent (credential, validation). *)
SendRaises(c) ==
    /\ pc[c] = "send"
    /\ Finish(c)
    /\ UNCHANGED <<disk, task, requests, answered, turn>>

(* The reply is read and its coordinates pass the check. *)
ReceiveAccepted(c) ==
    /\ pc[c] = "await" /\ call[c] \in answered
    /\ \E t \in Replies(turn) :
         ValidCoordinates(t) /\ task' = Checkpoint("accepted", t)
    /\ pc' = [pc EXCEPT ![c] = "save accepted"]
    /\ answered' = answered \ {call[c]}
    /\ call' = [call EXCEPT ![c] = NoConnection]
    /\ UNCHANGED <<disk, submitting, requests, turn>>

(* A reply without valid coordinates is a protocol error. *)
ReceiveMalformed(c) ==
    /\ pc[c] = "await" /\ call[c] \in answered
    /\ \E t \in Replies(turn) : ~ValidCoordinates(t)
    /\ answered' = answered \ {call[c]}
    /\ Finish(c)
    /\ UNCHANGED <<disk, task, requests, turn>>

(* Any error of the call, with the request lost, still on its way, or done. *)
CallFails(c) ==
    /\ pc[c] = "await"
    /\ answered' = answered \ {call[c]}
    /\ Finish(c)
    /\ UNCHANGED <<disk, task, requests, turn>>

(* on_checkpoint stores the acceptance, and submit()/replay() returns. *)
SaveAccepted(c) ==
    /\ pc[c] = "save accepted"
    /\ disk' = task
    /\ Finish(c)
    /\ UNCHANGED <<task, requests, answered, turn>>

(* wait() saves the whole state after each page it consumes, so it also     *)
(* stores an acceptance whose own save had failed (the cursor it advances   *)
(* is TaskObservation's subject).                                           *)
SaveWhileObserving ==
    /\ ValidIdentity(task.turnId)
    /\ disk' = task
    /\ UNCHANGED <<task, submitting, pc, call, requests, answered, turn>>

----------------------------------------------------------------------------
(* Platform (external): one turn per idempotency key, at any time while the *)
(* request is on its way, even after the process that sent it is gone.      *)

Arrive(k) ==
    /\ k \in requests
    /\ requests' = requests \ {k}
    /\ turn' \in IF turn = NoAcceptance THEN Acceptance ELSE {turn}
    /\ answered' = IF \E c \in Callers : call[c] = k THEN answered \cup {k} ELSE answered
    /\ UNCHANGED <<disk, task, submitting, pc, call>>

(* The request never reaches Platform, or Platform refuses it. *)
Lose(k) ==
    /\ k \in requests
    /\ requests' = requests \ {k}
    /\ UNCHANGED <<disk, task, submitting, pc, call, answered, turn>>

----------------------------------------------------------------------------
(* What a caller does once it is in _submit, its failures included. *)
Step(c) ==
    \/ SetFlag(c)
    \/ SaveUnacknowledged(c) \/ SaveAccepted(c) \/ SaveRaises(c)
    \/ Send(c) \/ SendRaises(c)
    \/ ReceiveAccepted(c) \/ ReceiveMalformed(c) \/ CallFails(c)

Next ==
    \/ Prepare \/ Resume \/ ResumeRefused \/ Crash \/ SaveWhileObserving
    \/ \E c \in Callers : Enter(c) \/ Step(c)
    \/ \E k \in Connections : Arrive(k) \/ Lose(k)

Spec == Init /\ [][Next]_vars

(* The recovery the SDK's README asks of the application (resume, an        *)
(* explicit replay while unacknowledged, wait once accepted), with failures *)
(* that do not recur for ever: a step that keeps being possible is          *)
(* eventually tried with success, and some awaited request arrives before   *)
(* its caller gives up.  A request does not stay on its way for ever.       *)
(* Crash, SaveRaises, SendRaises, CallFails and Lose carry no fairness of   *)
(* their own.                                                               *)
Recovery ==
    /\ SF_vars(Resume) /\ SF_vars(SaveWhileObserving)
    /\ \A c \in Callers :
         /\ WF_vars(Step(c))
         /\ SF_vars(Enter(c)) /\ SF_vars(SaveUnacknowledged(c))
         /\ SF_vars(Send(c)) /\ SF_vars(ReceiveAccepted(c))
         /\ SF_vars(SaveAccepted(c))
         /\ SF_vars(\E k \in {call[c]} : Arrive(k))
    /\ \A k \in Connections : WF_vars(Arrive(k) \/ Lose(k))

FairSpec == Spec /\ Recovery

----------------------------------------------------------------------------
(* Properties. *)

Locations == {"idle", "guarded", "save unacknowledged", "send", "await", "save accepted"}

States ==
    [submission : Submissions, turnId : Turns \cup {NoTurn},
     sequence : 0..MaxSequence, cursor : 0..MaxCursor]

(* The type invariant. *)
TypeOK ==
    /\ disk \in States
    /\ task \in States
    /\ submitting \in BOOLEAN
    /\ pc \in [Callers -> Locations]
    /\ call \in [Callers -> Connections \cup {NoConnection}]
    /\ requests \subseteq Connections
    /\ answered \subseteq Connections
    /\ turn \in Acceptance \cup {NoAcceptance}

(* Whatever Platform has accepted or may still receive, the stored          *)
(* checkpoint admits it: no crash, failed save or late request leaves a     *)
(* turn behind that storage calls merely prepared (tasks.py, "A storage     *)
(* failure prevents the network mutation").                                 *)
SendIsDurable ==
    requests # {} \/ turn # NoAcceptance
        => disk.submission \in {"unacknowledged", "accepted"}

(* Coordinates the handle or the checkpoint calls accepted are those of the *)
(* turn Platform opened, damaged replies and replays notwithstanding.       *)
AcceptanceIsGenuine ==
    \A c \in {task, disk} :
        c.submission = "accepted" => turn # NoAcceptance /\ Coordinates(c) = turn

(* Whatever storage holds after any crash, resume takes it back. *)
SavedCheckpointIsResumable == disk.submission # "absent" => Resumable(disk)

(* A stored acceptance is never overwritten by a later save, of this        *)
(* process or of another caller.                                            *)
AcceptanceIsFinal == [][disk.submission = "accepted" => disk' = disk]_disk

(* "Explicitly replay only a request whose acceptance was not received":    *)
(* no request leaves while the live handle holds an acceptance.             *)
NoSendAfterAcceptance ==
    [][requests' \ requests # {} => ~ValidIdentity(task.turnId)]_requests

(* The inductive invariant of the handle whose guard is not preempted.      *)
(* One call is under way at most, and the flag is up while it is.           *)
OneCaller ==
    /\ \A c \in Callers : pc[c] # "idle" => submitting /\ pc[c] # "guarded"
    /\ \A c, d \in Callers : pc[c] # "idle" /\ pc[d] # "idle" => c = d

(* What the call relies on at each of its steps. *)
CallerKnows ==
    \A c \in Callers :
      /\ pc[c] \in {"save unacknowledged", "send", "await"}
            => task.submission = "unacknowledged"
      /\ pc[c] \in {"send", "await"} => disk.submission = "unacknowledged"
      /\ pc[c] = "save accepted" => task.submission = "accepted"

(* A checkpoint has exactly the coordinates its submission entitles it to. *)
CoordinatesMatch ==
    \A s \in {task, disk} :
      IF s.submission = "accepted"
        THEN turn # NoAcceptance /\ s = Checkpoint("accepted", turn)
        ELSE s = Blank(s.submission)

(* Storage is never ahead of the live handle, nor more than a save behind. *)
DiskFollowsTask ==
    /\ task.submission = "prepared" => disk.submission = "prepared"
    /\ task.submission = "unacknowledged"
         => disk.submission \in {"prepared", "unacknowledged"}
    /\ task.submission = "accepted"
         => disk.submission \in {"unacknowledged", "accepted"}

(* One call at a time, storage one save behind the handle at most, and only *)
(* true coordinates anywhere: the reason the properties above hold.         *)
SubmissionInv ==
    /\ TypeOK
    /\ OneCaller
    /\ CallerKnows
    /\ CoordinatesMatch
    /\ DiskFollowsTask
    /\ SendIsDurable
    /\ answered # {} => turn # NoAcceptance

(* The inductive invariant of any handle, its guard preempted or not: a     *)
(* request is storage's business first, and what is accepted is true.       *)
Admitted(c) == c.submission \in {"unacknowledged", "accepted"}

StorageInv ==
    /\ TypeOK
    /\ task.submission = "absent" => task = Blank("absent")
    /\ \A c \in Callers :
         /\ pc[c] # "idle" => task.submission # "absent"
         /\ pc[c] \notin {"idle", "guarded"} => Admitted(task)
         /\ pc[c] \in {"send", "await", "save accepted"} => Admitted(disk)
    /\ Admitted(disk) => task.submission # "prepared"
    /\ SendIsDurable
    /\ AcceptanceIsGenuine
    /\ answered # {} => turn # NoAcceptance

(* The submission implements its abstract specification. *)
Promise == INSTANCE SubmitOnce WITH
    phase <- disk.submission,
    known <- Coordinates(disk),
    turn <- turn

Implements == Promise!Spec

(* Recovery is always possible: under the fairness above every prepared     *)
(* request ends in a stored acceptance, whatever failed before.             *)
EventuallyAccepted ==
    disk.submission \in {"prepared", "unacknowledged"} ~> disk.submission = "accepted"
=============================================================================
