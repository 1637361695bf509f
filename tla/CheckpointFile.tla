--------------------------- MODULE CheckpointFile ---------------------------
(***************************************************************************)
(* The private file in which the example programs keep a checkpoint         *)
(* (save, src/deixic/examples/task_result.py): the processes that save to   *)
(* one path, each in three steps any of which may raise, and what is found  *)
(* at the path after a power failure.                                       *)
(*                                                                          *)
(* Processes see the newest directory entry.  Until the directory is synced *)
(* a power failure may bring back an older one, and an entry whose data was *)
(* not synced may be found torn.  The contents, and when a process saves,   *)
(* are the business of the module that extends this one.                    *)
(***************************************************************************)
EXTENDS Naturals

CONSTANTS
    Process,      \* processes that run at the same time on the same path
    NoFile,       \* there is no file at the path
    Torn          \* what is left of a file whose data never reached the disk

ASSUME FileAssumption == NoFile # Torn

VARIABLES
    file,         \* what a process finds at the path
    survives,     \* what a power failure may leave at the path
    step,         \* where each process is in save, "none" outside
    synced,       \* whether the data of the process's temporary file is on disk
    lost          \* history: an entry that processes act on was lost

fileVars == <<file, survives, step, synced, lost>>

FileInit ==
    /\ file = NoFile
    /\ survives = {NoFile}
    /\ step = [p \in Process |-> "none"]
    /\ synced = [p \in Process |-> FALSE]
    /\ lost = FALSE

(* save is called: mkstemp makes an empty temporary file. *)
CallSave(p) ==
    /\ step' = [step EXCEPT ![p] = "write"]
    /\ synced' = [synced EXCEPT ![p] = FALSE]
    /\ UNCHANGED <<file, survives, lost>>

(* Mutant of WriteTemporary: no fsync of the data. *)
WriteWithoutSync(p) ==
    /\ step[p] = "write"
    /\ step' = [step EXCEPT ![p] = "publish"]
    /\ UNCHANGED <<file, survives, synced, lost>>

(* The temporary file gets its contents: dump, flush and fsync. *)
WriteTemporary(p) ==
    /\ step[p] = "write"
    /\ step' = [step EXCEPT ![p] = "publish"]
    /\ synced' = [synced EXCEPT ![p] = TRUE]
    /\ UNCHANGED <<file, survives, lost>>

(* Mutant of Publish: the first save replaces what is there as well. *)
PublishOver(p, contents, create) ==
    /\ step[p] = "publish"
    /\ file' = contents
    /\ survives' = survives \cup {contents} \cup (IF synced[p] THEN {} ELSE {Torn})
    /\ step' = [step EXCEPT ![p] = "sync"]
    /\ UNCHANGED <<synced, lost>>

(* The temporary file takes the path: link if the save creates the file,    *)
(* which fails if there is one (the process then ends), or else replace.    *)
Publish(p, contents, create) ==
    /\ step[p] = "publish"
    /\ create => file = NoFile
    /\ file' = contents
    /\ survives' = survives \cup {contents} \cup (IF synced[p] THEN {} ELSE {Torn})
    /\ step' = [step EXCEPT ![p] = "sync"]
    /\ UNCHANGED <<synced, lost>>

(* The directory is synced, whoever's entry it now has; save returns. *)
SyncDirectory(p) ==
    /\ step[p] = "sync"
    /\ survives' = {file}
    /\ step' = [step EXCEPT ![p] = "none"]
    /\ UNCHANGED <<file, synced, lost>>

(* A process ends inside or outside of save: a call of save raised, or the  *)
(* process was killed.                                                      *)
LeaveSave(p) ==
    /\ step' = [step EXCEPT ![p] = "none"]
    /\ synced' = [synced EXCEPT ![p] = FALSE]
    /\ UNCHANGED <<file, survives, lost>>

(* Every process ends, and the directory holds one of the entries; relied   *)
(* says that processes act on entries which are not synced.                 *)
PowerCut(relied) ==
    /\ file' \in survives
    /\ survives' = {file'}
    /\ step' = [p \in Process |-> "none"]
    /\ synced' = [p \in Process |-> FALSE]
    /\ lost' = (lost \/ (relied /\ file' # file))
=============================================================================
