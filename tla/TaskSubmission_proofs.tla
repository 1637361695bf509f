----------------------- MODULE TaskSubmission_proofs -----------------------
(***************************************************************************)
(* Theorems about TaskSubmission for every set of callers, connections and  *)
(* turns, proved with TLAPS.                                                *)
(***************************************************************************)
EXTENDS TaskSubmission, TLAPS

(* What a handle or a checkpoint is made of has the right type, no accepted *)
(* turn is mistaken for none, and of all replies about a turn only the      *)
(* undamaged one passes the check of its coordinates.                       *)
LEMMA CheckpointFacts ==
    /\ NoAcceptance \notin Acceptance
    /\ \A t \in Acceptance : \A s \in Submissions : Checkpoint(s, t) \in States
    /\ \A s \in Submissions : Blank(s) \in States
    /\ \A t \in Acceptance : \A r \in Replies(t) : ValidCoordinates(r) => r = t
    /\ \A r \in Replies(NoAcceptance) : ~ValidCoordinates(r)
  BY BoundsAssumption, TurnsAssumption
  DEF NoAcceptance, Acceptance, ValidCoordinates, ValidIdentity, Checkpoint,
      Blank, States, Replies, Submissions

(* A change of the submission alone keeps a state a state. *)
LEMMA MarkTyped ==
    \A s \in States : [s EXCEPT !.submission = "unacknowledged"] \in States
  BY DEF States, Submissions

(* A blank checkpoint says what it is, and holds no coordinates. *)
LEMMA BlankFacts ==
    /\ Blank("absent").submission = "absent"
    /\ Blank("prepared").submission = "prepared"
    /\ Blank("unacknowledged").submission = "unacknowledged"
    /\ \A s \in Submissions : ~ValidIdentity(Blank(s).turnId)
  BY DEF Blank, Checkpoint, NoAcceptance, ValidIdentity, Submissions

(* Marking a handle that is not accepted makes it the blank unacknowledged one. *)
LEMMA MarkBlank ==
    \A s \in Submissions :
      [Blank(s) EXCEPT !.submission = "unacknowledged"] = Blank("unacknowledged")
  BY DEF Blank, Checkpoint, NoAcceptance, Submissions

(* Type correctness: every state of the program's memory, its storage and   *)
(* the network is of its type, with damaged replies refused at the door.    *)
THEOREM TypeCorrect == Spec => []TypeOK
<1>1. Init => TypeOK
  BY CheckpointFacts DEF Init, TypeOK, Locations, Submissions
<1>2. TypeOK /\ [Next]_vars => TypeOK'
  <2> SUFFICES ASSUME TypeOK, [Next]_vars PROVE TypeOK'
    OBVIOUS
  <2> USE DEF TypeOK, Locations
  <2>1. CASE Prepare
    BY <2>1, CheckpointFacts DEF Prepare, Submissions
  <2>2. CASE Resume
    BY <2>2 DEF Resume
  <2>3. CASE ResumeRefused
    BY <2>3 DEF ResumeRefused, vars
  <2>4. CASE Crash
    BY <2>4, CheckpointFacts DEF Crash, Submissions
  <2>5. CASE SaveWhileObserving
    BY <2>5 DEF SaveWhileObserving
  <2>6. ASSUME NEW c \in Callers, Enter(c) PROVE TypeOK'
    BY <2>6, MarkTyped DEF Enter, MarkUnacknowledged
  <2>7. ASSUME NEW c \in Callers, SetFlag(c) PROVE TypeOK'
    BY <2>7, MarkTyped DEF SetFlag, MarkUnacknowledged
  <2>8. ASSUME NEW c \in Callers, SaveUnacknowledged(c) PROVE TypeOK'
    BY <2>8 DEF SaveUnacknowledged
  <2>9. ASSUME NEW c \in Callers, SaveAccepted(c) PROVE TypeOK'
    BY <2>9 DEF SaveAccepted, Finish
  <2>10. ASSUME NEW c \in Callers, SaveRaises(c) PROVE TypeOK'
    BY <2>10 DEF SaveRaises, Finish
  <2>11. ASSUME NEW c \in Callers, Send(c) PROVE TypeOK'
    BY <2>11 DEF Send
  <2>12. ASSUME NEW c \in Callers, SendRaises(c) PROVE TypeOK'
    BY <2>12 DEF SendRaises, Finish
  <2>13. ASSUME NEW c \in Callers, ReceiveAccepted(c) PROVE TypeOK'
    <3>1. task' \in States
      <4>1. PICK t \in Replies(turn) : ValidCoordinates(t) /\ task' = Checkpoint("accepted", t)
        BY <2>13 DEF ReceiveAccepted
      <4>2. CASE turn \in Acceptance
        BY <4>1, <4>2, CheckpointFacts DEF Submissions
      <4>3. CASE turn = NoAcceptance
        BY <4>1, <4>3, CheckpointFacts
      <4> QED BY <4>2, <4>3
    <3> QED BY <2>13, <3>1 DEF ReceiveAccepted
  <2>14. ASSUME NEW c \in Callers, ReceiveMalformed(c) PROVE TypeOK'
    BY <2>14 DEF ReceiveMalformed, Finish
  <2>15. ASSUME NEW c \in Callers, CallFails(c) PROVE TypeOK'
    BY <2>15 DEF CallFails, Finish
  <2>16. ASSUME NEW k \in Connections, Arrive(k) PROVE TypeOK'
    BY <2>16 DEF Arrive
  <2>17. ASSUME NEW k \in Connections, Lose(k) PROVE TypeOK'
    BY <2>17 DEF Lose
  <2>18. CASE UNCHANGED vars
    BY <2>18 DEF vars
  <2> QED
    BY <2>1, <2>2, <2>3, <2>4, <2>5, <2>6, <2>7, <2>8, <2>9, <2>10, <2>11, <2>12,
       <2>13, <2>14, <2>15, <2>16, <2>17, <2>18 DEF Next, Step
<1> QED BY <1>1, <1>2, PTL DEF Spec

(* The invariant is inductive. *)
LEMMA SubmissionStep ==
    ASSUME PreemptibleGuard = FALSE, SubmissionInv, TypeOK', [Next]_vars
    PROVE  SubmissionInv'
<1> DEFINE Rest ==
      /\ OneCaller /\ CallerKnows /\ CoordinatesMatch /\ DiskFollowsTask
      /\ SendIsDurable /\ (answered # {} => turn # NoAcceptance)
<1> SUFFICES Rest'
  BY DEF SubmissionInv
<1> USE DEF SubmissionInv, TypeOK, OneCaller, CallerKnows, CoordinatesMatch,
            DiskFollowsTask, SendIsDurable, Locations
<1>1. CASE Prepare
  <2>1. disk.submission = "absent" /\ UNCHANGED <<submitting, pc, requests, answered, turn>>
    BY <1>1 DEF Prepare
  <2>2. task' \in {task, Blank("prepared")} /\ disk' \in {disk, Blank("prepared")}
    BY <1>1 DEF Prepare
  <2>3. task.submission = "absent" /\ (task' = Blank("prepared") => disk' = task')
    BY <1>1, BlankFacts DEF Prepare, NoHandle
  <2>4. \A c \in Callers : pc[c] \notin {"save unacknowledged", "send", "await", "save accepted"}
    BY <2>1, <2>3
  <2>5. requests = {} /\ turn = NoAcceptance /\ answered = {}
    BY <2>1
  <2>6. /\ task' = Blank("prepared") => task'.submission = "prepared"
        /\ disk' = Blank("prepared") => disk'.submission = "prepared"
    BY BlankFacts
  <2>7. OneCaller' /\ CallerKnows' /\ SendIsDurable' /\ (answered # {} => turn # NoAcceptance)'
    BY <2>1, <2>4, <2>5
  <2>8. CoordinatesMatch' /\ DiskFollowsTask'
    BY <2>1, <2>2, <2>3, <2>6
  <2> QED BY <2>7, <2>8
<1>2. CASE Resume
  BY <1>2 DEF Resume, NoHandle, Resumable
<1>3. CASE ResumeRefused
  BY <1>3 DEF ResumeRefused, vars
<1>4. CASE Crash
  <2>1. task' = Blank("absent") /\ \A c \in Callers : pc'[c] = "idle"
    BY <1>4 DEF Crash
  <2>2. UNCHANGED <<disk, requests, turn>> /\ answered' = {}
    BY <1>4 DEF Crash
  <2> QED BY <2>1, <2>2, BlankFacts
<1>5. CASE SaveWhileObserving
  <2>1. task.submission = "accepted"
    BY <1>5, BlankFacts DEF SaveWhileObserving, States
  <2> QED BY <1>5, <2>1 DEF SaveWhileObserving
<1>6. ASSUME NEW c \in Callers, Enter(c) PROVE Rest'
  <2>1. task = Blank(task.submission) /\ task' = Blank("unacknowledged")
    BY <1>6, MarkBlank DEF Enter, MayEnter, MarkUnacknowledged, Submissions
  <2>2. task.submission \in {"prepared", "unacknowledged"} /\ ~submitting /\ submitting'
    BY <1>6 DEF Enter, MayEnter, MarkUnacknowledged
  <2>3. task'.submission = "unacknowledged"
    BY <2>1, BlankFacts
  <2>4. pc' = [pc EXCEPT ![c] = "save unacknowledged"]
    BY <1>6 DEF Enter, MarkUnacknowledged
  <2>5. UNCHANGED <<disk, requests, answered, turn>>
    BY <1>6 DEF Enter
  <2> QED BY <2>1, <2>2, <2>3, <2>4, <2>5
<1>7. ASSUME NEW c \in Callers, SetFlag(c) PROVE Rest'
  BY <1>7 DEF SetFlag
<1>8. ASSUME NEW c \in Callers, SaveUnacknowledged(c) PROVE Rest'
  BY <1>8 DEF SaveUnacknowledged
<1>9. ASSUME NEW c \in Callers, SaveAccepted(c) PROVE Rest'
  BY <1>9 DEF SaveAccepted, Finish
<1>10. ASSUME NEW c \in Callers, SaveRaises(c) PROVE Rest'
  BY <1>10 DEF SaveRaises, Finish
<1>11. ASSUME NEW c \in Callers, Send(c) PROVE Rest'
  BY <1>11 DEF Send
<1>12. ASSUME NEW c \in Callers, SendRaises(c) PROVE Rest'
  BY <1>12 DEF SendRaises, Finish
<1>13. ASSUME NEW c \in Callers, ReceiveAccepted(c) PROVE Rest'
  <2>1. turn # NoAcceptance /\ turn \in Acceptance
    BY <1>13 DEF ReceiveAccepted
  <2>2. task' = Checkpoint("accepted", turn)
    BY <1>13, <2>1, CheckpointFacts DEF ReceiveAccepted
  <2>3. task'.submission = "accepted"
    BY <2>2 DEF Checkpoint
  <2> QED BY <1>13, <2>1, <2>2, <2>3 DEF ReceiveAccepted
<1>14. ASSUME NEW c \in Callers, ReceiveMalformed(c) PROVE Rest'
  BY <1>14 DEF ReceiveMalformed, Finish
<1>15. ASSUME NEW c \in Callers, CallFails(c) PROVE Rest'
  BY <1>15 DEF CallFails, Finish
<1>16. ASSUME NEW k \in Connections, Arrive(k) PROVE Rest'
  BY <1>16, CheckpointFacts DEF Arrive
<1>17. ASSUME NEW k \in Connections, Lose(k) PROVE Rest'
  BY <1>17 DEF Lose
<1>18. CASE UNCHANGED vars
  BY <1>18 DEF vars
<1> QED
  BY <1>1, <1>2, <1>3, <1>4, <1>5, <1>6, <1>7, <1>8, <1>9, <1>10, <1>11, <1>12,
     <1>13, <1>14, <1>15, <1>16, <1>17, <1>18 DEF Next, Step

LEMMA SubmissionInit == Init => SubmissionInv
<1> SUFFICES ASSUME Init PROVE SubmissionInv
  OBVIOUS
<1>1. TypeOK
  BY CheckpointFacts DEF Init, TypeOK, Locations, Submissions
<1>2. /\ disk = Blank("absent") /\ task = Blank("absent")
      /\ disk.submission = "absent" /\ task.submission = "absent"
      /\ requests = {} /\ answered = {} /\ turn = NoAcceptance
  BY BlankFacts DEF Init
<1>3. \A c \in Callers : pc[c] = "idle"
  BY DEF Init
<1> QED
  BY <1>1, <1>2, <1>3
  DEF SubmissionInv, OneCaller, CallerKnows, CoordinatesMatch, DiskFollowsTask, SendIsDurable

(* On a handle whose guard is not preempted there is one call at a time,    *)
(* storage is at most one save behind the handle, and nothing but           *)
(* Platform's own coordinates is ever kept.                                 *)
THEOREM SubmissionInvariant ==
    ASSUME PreemptibleGuard = FALSE
    PROVE  Spec => []SubmissionInv
<1>1. SubmissionInv /\ TypeOK' /\ [Next]_vars => SubmissionInv'
  BY SubmissionStep
<1> QED BY <1>1, SubmissionInit, TypeCorrect, PTL DEF Spec

(* The invariant of any handle is inductive. *)
LEMMA StorageStep ==
    ASSUME StorageInv, TypeOK', [Next]_vars
    PROVE  StorageInv'
<1> USE DEF StorageInv, TypeOK, Admitted, SendIsDurable, AcceptanceIsGenuine, Locations
<1>1. CASE Prepare
  <2>1. /\ task.submission = "absent" /\ disk.submission = "absent"
        /\ UNCHANGED <<submitting, pc, call, requests, answered, turn>>
    BY <1>1 DEF Prepare, NoHandle
  <2>2. /\ task' \in {task, Blank("prepared")} /\ disk' \in {disk, Blank("prepared")}
        /\ \A c \in Callers : pc[c] = "idle"
    BY <1>1, <2>1 DEF Prepare
  <2>3. task'.submission \in {"absent", "prepared"} /\ disk'.submission \in {"absent", "prepared"}
    BY <2>1, <2>2, BlankFacts
  <2>4. task = Blank("absent")
    BY <2>1
  <2>5. task'.submission = "absent" => task' = Blank("absent")
    <3>1. CASE task' = task
      BY <2>4, <3>1
    <3>2. CASE task' = Blank("prepared")
      <4>1. Blank("prepared").submission = "prepared"
        BY BlankFacts
      <4> QED BY <3>2, <4>1
    <3> QED BY <2>2, <3>1, <3>2
  <2> QED BY <2>1, <2>2, <2>3, <2>5
<1>2. CASE Resume
  <2>1. /\ task' = disk /\ task.submission = "absent"
        /\ UNCHANGED <<disk, submitting, pc, call, requests, answered, turn>>
        /\ disk.submission \in {"prepared", "unacknowledged", "accepted"}
    BY <1>2 DEF Resume, NoHandle, Resumable
  <2> QED BY <2>1
<1>3. CASE ResumeRefused
  BY <1>3 DEF ResumeRefused, vars
<1>4. CASE Crash
  <2>1. /\ task' = Blank("absent") /\ \A c \in Callers : pc'[c] = "idle"
        /\ UNCHANGED <<disk, requests, turn>> /\ answered' = {}
    BY <1>4 DEF Crash
  <2> QED BY <2>1, BlankFacts
<1>5. CASE SaveWhileObserving
  <2>1. task.submission # "absent"
    BY <1>5, BlankFacts DEF SaveWhileObserving, Submissions
  <2>2. task.submission \in Submissions
    BY DEF States
  <2> QED BY <1>5, <2>1, <2>2 DEF SaveWhileObserving, Submissions
<1>6. ASSUME NEW c \in Callers, NEW s \in {"save unacknowledged", "guarded"},
             task.submission # "absent", pc' = [pc EXCEPT ![c] = s],
             \/ MarkUnacknowledged(c)
             \/ s = "guarded" /\ UNCHANGED <<task, submitting>>,
             UNCHANGED <<disk, call, requests, answered, turn>>
      PROVE  StorageInv'
  <2>1. CASE MarkUnacknowledged(c)
    <3>1. task'.submission = "unacknowledged"
      BY <2>1 DEF MarkUnacknowledged, States
    <3> QED BY <1>6, <3>1
  <2>2. CASE s = "guarded" /\ UNCHANGED <<task, submitting>>
    BY <1>6, <2>2
  <2> QED BY <1>6, <2>1, <2>2
<1>7. ASSUME NEW c \in Callers, Enter(c) \/ SetFlag(c) PROVE StorageInv'
  <2>1. task.submission # "absent"
    BY <1>7 DEF Enter, MayEnter, SetFlag
  <2> QED BY <1>6, <1>7, <2>1 DEF Enter, SetFlag, MarkUnacknowledged
<1>8. ASSUME NEW c \in Callers, SaveUnacknowledged(c) PROVE StorageInv'
  BY <1>8 DEF SaveUnacknowledged
<1>9. ASSUME NEW c \in Callers, SaveAccepted(c) PROVE StorageInv'
  BY <1>9 DEF SaveAccepted, Finish
<1>10. ASSUME NEW c \in Callers, SaveRaises(c) PROVE StorageInv'
  BY <1>10 DEF SaveRaises, Finish
<1>11. ASSUME NEW c \in Callers, Send(c) PROVE StorageInv'
  BY <1>11 DEF Send
<1>12. ASSUME NEW c \in Callers, SendRaises(c) PROVE StorageInv'
  BY <1>12 DEF SendRaises, Finish
<1>13. ASSUME NEW c \in Callers, ReceiveAccepted(c) PROVE StorageInv'
  <2>1. turn \in Acceptance /\ turn # NoAcceptance
    BY <1>13 DEF ReceiveAccepted
  <2>2. task' = Checkpoint("accepted", turn)
    BY <1>13, <2>1, CheckpointFacts DEF ReceiveAccepted
  <2>3. task'.submission = "accepted" /\ Coordinates(task') = turn
    BY <2>1, <2>2 DEF Checkpoint, Coordinates, Acceptance
  <2> QED BY <1>13, <2>1, <2>3 DEF ReceiveAccepted
<1>14. ASSUME NEW c \in Callers, ReceiveMalformed(c) PROVE StorageInv'
  BY <1>14 DEF ReceiveMalformed, Finish
<1>15. ASSUME NEW c \in Callers, CallFails(c) PROVE StorageInv'
  BY <1>15 DEF CallFails, Finish
<1>16. ASSUME NEW k \in Connections, Arrive(k) PROVE StorageInv'
  <2>1. turn' # NoAcceptance /\ (turn # NoAcceptance => turn' = turn) /\ requests # {}
    BY <1>16, CheckpointFacts DEF Arrive
  <2> QED BY <1>16, <2>1 DEF Arrive
<1>17. ASSUME NEW k \in Connections, Lose(k) PROVE StorageInv'
  BY <1>17 DEF Lose
<1>18. CASE UNCHANGED vars
  BY <1>18 DEF vars
<1> QED
  BY <1>1, <1>2, <1>3, <1>4, <1>5, <1>7, <1>8, <1>9, <1>10, <1>11, <1>12,
     <1>13, <1>14, <1>15, <1>16, <1>17, <1>18 DEF Next, Step

LEMMA StorageInit == Init => StorageInv
<1> SUFFICES ASSUME Init PROVE StorageInv
  OBVIOUS
<1>1. TypeOK
  BY CheckpointFacts DEF Init, TypeOK, Locations, Submissions
<1>2. /\ disk = Blank("absent") /\ task = Blank("absent")
      /\ disk.submission = "absent" /\ task.submission = "absent"
      /\ requests = {} /\ answered = {} /\ turn = NoAcceptance
      /\ \A c \in Callers : pc[c] = "idle"
  BY BlankFacts DEF Init
<1> QED
  BY <1>1, <1>2 DEF StorageInv, Admitted, SendIsDurable, AcceptanceIsGenuine

(* What holds of any handle, even where threads switch inside the guard of  *)
(* submit and replay: saves precede requests, and acceptances are true.     *)
THEOREM StorageInvariant == Spec => []StorageInv
<1>1. StorageInv /\ TypeOK' /\ [Next]_vars => StorageInv'
  BY StorageStep
<1> QED BY <1>1, StorageInit, TypeCorrect, PTL DEF Spec

(* No request leaves, and no turn exists, behind a checkpoint that still    *)
(* says "prepared": after any crash the application knows to replay.        *)
THEOREM DurableSend == Spec => []SendIsDurable
<1>1. StorageInv => SendIsDurable
  BY DEF StorageInv
<1> QED BY <1>1, StorageInvariant, PTL

(* Accepted coordinates, in memory or stored, are Platform's. *)
THEOREM GenuineAcceptance == Spec => []AcceptanceIsGenuine
<1>1. StorageInv => AcceptanceIsGenuine
  BY DEF StorageInv
<1> QED BY <1>1, StorageInvariant, PTL

(* resume takes back whatever the code stored, after any crash. *)
THEOREM ResumableCheckpoint ==
    ASSUME PreemptibleGuard = FALSE
    PROVE  Spec => []SavedCheckpointIsResumable
<1>1. SubmissionInv => SavedCheckpointIsResumable
  <2> SUFFICES ASSUME SubmissionInv, disk.submission # "absent" PROVE Resumable(disk)
    BY DEF SavedCheckpointIsResumable
  <2>1. disk.submission \in Submissions
    BY DEF SubmissionInv, TypeOK, States
  <2>2. CASE disk.submission = "accepted"
    <3>1. turn \in Acceptance /\ disk = Checkpoint("accepted", turn)
      BY <2>2 DEF SubmissionInv, CoordinatesMatch, TypeOK
    <3> QED
      BY <3>1, TurnsAssumption, BoundsAssumption
      DEF Resumable, Checkpoint, Acceptance, ValidIdentity
  <2>3. CASE disk.submission # "accepted"
    <3>1. disk = Blank(disk.submission)
      BY <2>3 DEF SubmissionInv, CoordinatesMatch
    <3>2. /\ Coordinates(disk) = NoAcceptance
          /\ disk.sequence = 0 /\ disk.cursor = 0
      BY <3>1 DEF Blank, Checkpoint, Coordinates, NoAcceptance
    <3> QED BY <2>1, <2>3, <3>2 DEF Resumable, Submissions
  <2> QED BY <2>2, <2>3
<1> QED BY <1>1, SubmissionInvariant, PTL

(* A stored acceptance survives every later save, crash and replay. *)
THEOREM FinalAcceptance ==
    ASSUME PreemptibleGuard = FALSE
    PROVE  Spec => AcceptanceIsFinal
<1>1. SubmissionInv /\ SubmissionInv' /\ [Next]_vars
        => [disk.submission = "accepted" => disk' = disk]_disk
  <2> SUFFICES ASSUME SubmissionInv, [Next]_vars, disk.submission = "accepted"
               PROVE  disk' = disk
    OBVIOUS
  <2> USE DEF SubmissionInv, CallerKnows, CoordinatesMatch
  <2>1. task.submission = "accepted" => task = disk
    OBVIOUS
  <2>2. task.submission \in {"absent", "accepted"}
    BY DEF DiskFollowsTask, TypeOK, States, Submissions
  <2>3. CASE Prepare
    BY <2>3 DEF Prepare
  <2>4. CASE SaveWhileObserving
    <3>1. task.submission = "accepted"
      BY <2>2, <2>4, BlankFacts DEF SaveWhileObserving, Submissions
    <3> QED BY <2>1, <2>4, <3>1 DEF SaveWhileObserving
  <2>5. ASSUME NEW c \in Callers, Step(c) PROVE disk' = disk
    BY <2>1, <2>2, <2>5
    DEF Step, SetFlag, SaveUnacknowledged, SaveAccepted, SaveRaises, Send, SendRaises,
        ReceiveAccepted, ReceiveMalformed, CallFails, OneCaller
  <2>6. ASSUME NEW c \in Callers, Enter(c) PROVE disk' = disk
    BY <2>6 DEF Enter
  <2>7. ASSUME NEW k \in Connections, Arrive(k) \/ Lose(k) PROVE disk' = disk
    BY <2>7 DEF Arrive, Lose
  <2>8. CASE Resume \/ ResumeRefused \/ Crash \/ UNCHANGED vars
    BY <2>8 DEF Resume, ResumeRefused, Crash, vars
  <2> QED BY <2>3, <2>4, <2>5, <2>6, <2>7, <2>8 DEF Next
<1> QED BY <1>1, SubmissionInvariant, PTL DEF Spec, AcceptanceIsFinal

(* Nothing is sent once the handle knows of an acceptance. *)
THEOREM NoResubmission ==
    ASSUME PreemptibleGuard = FALSE
    PROVE  Spec => NoSendAfterAcceptance
<1>1. SubmissionInv /\ [Next]_vars
        => [requests' \ requests # {} => ~ValidIdentity(task.turnId)]_requests
  <2> SUFFICES ASSUME SubmissionInv, [Next]_vars, requests' \ requests # {}
               PROVE  ~ValidIdentity(task.turnId)
    OBVIOUS
  <2>1. \E c \in Callers : Send(c)
    BY DEF Next, Step, Prepare, Resume, ResumeRefused, Crash, SaveWhileObserving, Enter,
           SetFlag, SaveUnacknowledged, SaveAccepted, SaveRaises, SendRaises,
           ReceiveAccepted, ReceiveMalformed, CallFails, Arrive, Lose, vars
  <2>2. task = Blank("unacknowledged")
    BY <2>1 DEF SubmissionInv, CallerKnows, CoordinatesMatch, Send
  <2> QED BY <2>2, BlankFacts DEF Submissions
<1> QED BY <1>1, SubmissionInvariant, PTL DEF Spec, NoSendAfterAcceptance

(* The coordinates of blank and of accepted checkpoints, as the refinement  *)
(* mapping reads them.                                                      *)
LEMMA CoordinatesFacts ==
    /\ \A s \in Submissions : Coordinates(Blank(s)) = NoAcceptance
    /\ \A t \in Acceptance : /\ Coordinates(Checkpoint("accepted", t)) = t
                             /\ Checkpoint("accepted", t).submission = "accepted"
  BY DEF Coordinates, Blank, Checkpoint, NoAcceptance, Acceptance

(* submit(), replay(), resume(), crashes, failed saves and the network      *)
(* together do what SubmitOnce promises: the request is recorded before the *)
(* attempt, the attempt before the turn, and the acceptance is the turn's.  *)
THEOREM Refinement ==
    ASSUME PreemptibleGuard = FALSE
    PROVE  Spec => Implements
<1>1. Init => Promise!Init
  BY BlankFacts, CoordinatesFacts DEF Init, Promise!Init, Submissions
<1>2. SubmissionInv /\ SubmissionInv' /\ [Next]_vars => [Promise!Next]_(Promise!vars)
  <2> SUFFICES ASSUME SubmissionInv, SubmissionInv', [Next]_vars
               PROVE  [Promise!Next]_(Promise!vars)
    OBVIOUS
  <2>1. CASE UNCHANGED <<disk, turn>>
    BY <2>1 DEF Promise!vars, Coordinates
  <2>2. ASSUME UNCHANGED turn, disk' # disk, disk'.submission = "prepared",
               disk.submission = "absent"
        PROVE  Promise!Prepare
    <3>1. disk = Blank("absent") /\ disk' = Blank("prepared")
      BY <2>2 DEF SubmissionInv, CoordinatesMatch
    <3> QED
      BY <2>2, <3>1, CoordinatesFacts DEF Promise!Prepare, Submissions
  <2>3. ASSUME UNCHANGED turn, disk.submission = "prepared",
               disk'.submission = "unacknowledged"
        PROVE  Promise!Attempt
    <3>1. disk = Blank("prepared") /\ disk' = Blank("unacknowledged")
      BY <2>3 DEF SubmissionInv, CoordinatesMatch
    <3> QED
      BY <2>3, <3>1, CoordinatesFacts DEF Promise!Attempt, Submissions
  <2>4. ASSUME UNCHANGED turn, disk.submission = "unacknowledged",
               disk'.submission = "accepted"
        PROVE  Promise!Learn
    <3>1. turn \in Acceptance /\ turn # NoAcceptance /\ disk' = Checkpoint("accepted", turn)
      BY <2>4 DEF SubmissionInv, CoordinatesMatch, TypeOK
    <3> QED
      BY <2>4, <3>1, CoordinatesFacts DEF Promise!Learn
  <2>5. ASSUME NEW k \in Connections, Arrive(k), turn' # turn PROVE Promise!OpenTurn
    <3>1. turn = NoAcceptance /\ turn' \in Acceptance /\ UNCHANGED disk
      BY <2>5 DEF Arrive
    <3>2. disk.submission \in {"unacknowledged", "accepted"}
      BY <2>5 DEF Arrive, SubmissionInv, SendIsDurable
    <3>3. disk.submission = "unacknowledged"
      BY <3>1, <3>2 DEF SubmissionInv, CoordinatesMatch
    <3> QED
      BY <3>1, <3>3 DEF Promise!OpenTurn, Coordinates
  <2>6. UNCHANGED turn \/ \E k \in Connections : Arrive(k)
    BY DEF Next, Step, Prepare, Resume, ResumeRefused, Crash, SaveWhileObserving, Enter,
           SetFlag, SaveUnacknowledged, SaveAccepted, SaveRaises, Send, SendRaises,
           ReceiveAccepted, ReceiveMalformed, CallFails, Lose, vars
  <2>7. ASSUME UNCHANGED turn, disk' # disk
        PROVE  Promise!Prepare \/ Promise!Attempt \/ Promise!Learn
    <3>1. CASE Prepare
      <4>1. disk.submission = "absent" /\ disk' = Blank("prepared")
        BY <2>7, <3>1 DEF Prepare
      <4> QED BY <2>2, <2>7, <4>1, BlankFacts
    <3>2. CASE ~Prepare
      <4>1. \/ SaveWhileObserving
            \/ \E c \in Callers : /\ pc[c] \in {"save unacknowledged", "save accepted"}
                                  /\ disk' \in {disk, task}
        BY <2>7, <3>2
        DEF Next, Step, Resume, ResumeRefused, Crash, Enter, SetFlag, SaveUnacknowledged,
            SaveAccepted, SaveRaises, Send, SendRaises, ReceiveAccepted, ReceiveMalformed,
            CallFails, Arrive, Lose, vars
      <4>2. disk' = task
        BY <2>7, <4>1 DEF SaveWhileObserving
      <4>3. CASE SaveWhileObserving
        <5>1. task.submission = "accepted"
          BY <4>3, BlankFacts
          DEF SaveWhileObserving, SubmissionInv, CoordinatesMatch, TypeOK, States
        <5>2. disk.submission = "accepted" => disk = task
          BY <5>1 DEF SubmissionInv, CoordinatesMatch
        <5>3. disk.submission = "unacknowledged"
          BY <2>7, <4>2, <5>1, <5>2 DEF SubmissionInv, DiskFollowsTask
        <5> QED BY <2>4, <2>7, <4>2, <5>1, <5>3
      <4>4. ASSUME NEW c \in Callers, pc[c] \in {"save unacknowledged", "save accepted"}
            PROVE  Promise!Attempt \/ Promise!Learn
        <5>1. disk.submission = task.submission => disk = task
          BY DEF SubmissionInv, CoordinatesMatch
        <5>2. task.submission \in {"unacknowledged", "accepted"}
          BY <4>4 DEF SubmissionInv, CallerKnows
        <5> QED
          BY <2>3, <2>4, <2>7, <4>2, <5>1, <5>2 DEF SubmissionInv, DiskFollowsTask
      <4> QED BY <4>1, <4>3, <4>4
    <3> QED BY <3>1, <3>2
  <2> QED
    BY <2>1, <2>5, <2>6, <2>7 DEF Promise!Next, Arrive
<1> QED
  BY <1>1, <1>2, SubmissionInvariant, PTL DEF Spec, Implements, Promise!Spec

=============================================================================
