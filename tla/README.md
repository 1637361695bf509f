# The Deixic SDK in TLA+

TLA+ models of the Deixic Python SDK (`src/src/deixic`), the TLC configurations
that check them on small instances, and TLAPS proofs of their main theorems for
every value of the constants. Paths below are relative to the repository
(`src/` is its root): `tasks.py` is `src/src/deixic/tasks.py`, "SDK README" is
`src/README.md`. `PROJECT.json` maps every definition to the lines it models and
lists the hazards of the code, each with the properties that guard it.

## 1. Inventory

The SDK is a synchronous client library. Its own logic is recovery: a request to
Platform must survive crashes, lost replies and failing storage without being
submitted behind the application's back, without losing track of what was
accepted, and without dropping events.

| Component | State | Operations | Interacts with |
| --- | --- | --- | --- |
| Task submission and checkpoint (`tasks.py` 83-315) | the checkpoint (`_state`, stored through `on_checkpoint`), `_submitting` | `prepare`, `resume`, `submit`, `replay` | the application's storage (callback), `messages.send` |
| Task observation (`tasks.py` 450-605) | the cursor in the checkpoint, `_observing`, the locals of `wait` | `wait`, `_backfill` | the same checkpoint and callback, `on_event`, `cancelled`, `events.list`, `_result` |
| Turn result, waiting request, respond, interrupt (`tasks.py` 190-248, 320-448) | none that lasts, beyond the last event seen (`_event`) | `result`, `respond`, `interrupt`, `check_setup` | `threads.get`, `events.list`, `receipts.get`, `controls` |
| Workload federation (`federation.py`) | `_credential` with its times, `_used_assertions`, `_lock` | `get_credential`, `refresh_credential`, the three assertion sources | Identity (HTTP), the source, the clock, every thread of the process |
| Client calls (`client.py` 99-193) and credential identity (`auth.py`) | the subject, scopes and tenant declared so far | `_unary`, `_stream`, `CredentialIdentity.check`, `check_refresh` | the credential provider, the transport |
| Event stream (`client.py` 428-500) | the buffer of a decoder | `_decode_stream` | the transport |
| Examples (`examples/`): task result, account brief, test-tenant probe | a checkpoint file, a copy of it per process | `save`, `start`, `replay`, `resume`, `approve`, `deny`; the probe's `submit` | the file system, the client |
| Validation and errors (`tasks.py` 608-697, `client.py`, `errors.py`) | none | pure functions | - |
| Transport, generated messages | none of their own | pass-through, data | - |

What is hard in each, and what makes it correct:

- **Submission.** The process may end between any two steps; `on_checkpoint` may
  raise before or after its write; the request of a dead process may arrive
  during its successor's replay; a reply may be lost or damaged; callbacks and
  threads may call the handle again. Correct means: storage admits a request
  before Platform can have it, coordinates called accepted are Platform's, every
  stored checkpoint can be resumed, a stored acceptance is final, and recovery is
  always possible.
- **Observation.** Pages may repeat events or be damaged, the owner trims its
  history, callbacks and saves fail in the middle of a page, the deadline and the
  budgets of pages and reconnects may run out anywhere. Correct means: every
  event of the turn reaches the callback at least once and in order, the stored
  cursor never overtakes them nor goes back, and `wait` ends.
- **Federation.** Threads share one token under one lock that is held over
  blocking calls; an assertion is single-use, whatever became of the exchange
  it was sent in; an early refresh that fails must not hurt. Correct means: no
  assertion leaves twice, no thread is handed a rejected or superseded token,
  transient failures stay hidden while the token lives, the lock is released.
- **Client and identity.** A mutation is repeated after a 401 only for the same
  subject; a refused credential leaves no trace in what is declared.
- **Result.** Pages of the thread may repeat or omit, and the turn moves on
  between them. Correct means: the outcome was the turn's at some time during the
  call, a pending request is found while it is retained, and a decision is for the
  named request, pending after the command began.
- **Stream.** A frame may be split or cut anywhere, and a stream on a quiet channel
  gives no second chance to look at the buffer. Correct means: what is decoded does
  not depend on the chunks, no message waits in the buffer, and the consumer sees an
  end only where the server said so.
- **Examples.** Two processes, killed anywhere, share one file through `link`,
  `replace` and two kinds of `fsync`, and the machine may lose power. Correct means:
  the file is whole or absent, it admits every request that was sent, an acceptance
  is not undone by an older copy, and the projection neither invents nor misses the
  end of the turn.
- **Checkpoint fields.** Decimals at the limits of int64 and selections of voices must
  be read back as they were written.

## 2. Modules

| Module | What it is |
| --- | --- |
| `SubmitOnce` | abstract: what a recoverable submission promises, in terms of storage and Platform only |
| `TaskSubmission` | `prepare`, `resume`, `submit`, `replay`, the saves, crashes, the network, Platform's idempotency |
| `TaskSubmission_proofs` | theorems about it |
| `CheckpointFields` | the fields of a checkpoint as `prepare` and `wait` write them and `resume` reads them back: decimals, voices |
| `StoredCheckpoint` | the two together: the checkpoint that is stored and its fields |
| `CheckpointFields_proofs` | theorems about the fields |
| `DeliverAtLeastOnce` | abstract: what the observation promises of events and the stored cursor |
| `TaskObservation` | `wait` and `_backfill` with the history's owner |
| `TaskObservation_proofs` | theorems about it |
| `NewestToken` | abstract: what the provider promises the threads that share it |
| `WorkloadFederation` | `get_credential`, `refresh_credential`, `_exchange` over threads, Identity, the source and the clock |
| `WorkloadFederation_proofs` | theorems about it |
| `TaskOutcome` | `_result`, `_waiting_request`, and the account brief's `approve` and `deny`, against a turn that moves on |
| `TaskOutcome_proofs` | theorems about it |
| `ClientIdentity` | `_unary`/`_stream` with the replay after a 401, `CredentialIdentity` claim by claim, over threads |
| `ClientIdentity_proofs` | theorems about it |
| `EventStream` | the decoder of `events.watch` over a body in any chunks |
| `EventStream_proofs` | theorems about it |
| `CheckpointFile` | `save` of the examples on a file system: processes, kills, power failures |
| `ExampleRecovery` | the three example programs over that file (extends `CheckpointFile`) |
| `ExampleRecovery_proofs` | theorems about it |
| `MC...` | the instances TLC checks; a `.cfg` per run |

A definition named as a mutant in its comment is a variant of its neighbour with
a plausible bug. No specification uses it: it documents which property notices
the bug (`PROJECT.json`, "mutants").

### TaskSubmission

`task` is `Task._state` of the live handle, `disk` the checkpoint the application
stored, `submitting` the flag of the same name; "absent" stands for no handle and
no stored checkpoint. The immutable fields (tenant, URL, channel, body, key) are
not represented, nobody writes them. `pc` and `call` are the locals of each
activation of `_submit` (a thread, or a callback that calls back into the handle);
`requests`, `answered` and `turn` are the network and Platform, which opens one
turn per idempotency key. One action per step of `_submit` between two points
where something else can happen: `Enter` (the guards of `submit`/`replay`, 281-288),
`SaveUnacknowledged` (289), `Send` (290), `ReceiveAccepted`, `ReceiveMalformed`,
`CallFails`, `SaveAccepted` (312), with `SaveRaises` and `SendRaises` for their
failures and the `finally` clause in `Finish`. `wait` writes the whole state too:
`SaveWhileObserving` is that write without the cursor.

`PreemptibleGuard` says whether threads may switch between the test of
`_submitting` (282) and its assignment (286). There is no call in between, so
CPython 3.11 and later do not switch there under the GIL; older and free-threaded
builds may. Without preemption every property below holds. With it,
`SendIsDurable` and `AcceptanceIsGenuine` survive (they are conjuncts of `StorageInv`, run
`submission_threads` and theorem `StorageInvariant`) while
`AcceptanceIsFinal`, `NoSendAfterAcceptance` and `SavedCheckpointIsResumable` do
not: a second caller stores "unacknowledged" over an acceptance and sends again.

A remark the model makes precise: if the save of the acceptance (312) fails, the
handle in memory is accepted while storage says unacknowledged. `submit` and
`replay` then refuse, and storage catches up only with the next page `wait` saves,
or by a restart and `replay`.

`Resumable`, what `resume` accepts, has the sequence and the cursor as integers, neither
of them negative (177), and takes the strings of a checkpoint for granted.
`CheckpointFields` defines them: `IsPosition` is `_decimal`, with a base and a width as
parameters, `IsSelection` and `Normalized` are `normalize_voice_selection`, and
`IsReadable` and `ReadBack` what `resume` does to a stored selection.

### TaskObservation

`head`, `floor` and `turnState` are the owner's history (cursors 1..head, those up
to `floor` trimmed) and the turn; `disk` and `cursor` are the stored and the
live cursor; `observing` is `_observing`; `wait[o]` holds the locals of an
activation of `wait`; `delivered` and `skipped` are history variables for the
properties. The loop of `wait` is `Start`, `List`, `ReceivePage` (or
`ReceiveInvalid`, whose answers are the damages `_validate_page` looks for),
`Deliver` per event, `SavePage`, `ReadTurn`, `PollAgain`, `WakeUp`; its exits are
`ReturnOutcome`, `DeadlineReached`, `Cancelled`, `GiveUp`, `ReadRaises`,
`DeliverRaises` and `SaveRaises`; `Reconnect` is the retry of a failed read. `Enter`
and `Claim` are apart because `time.monotonic()` is called between the test of
`_observing` and its assignment. How `_result` assembles the turn is one step here.
"completed" stands for every terminal state, and an event is its cursor.

A remark from this model: since `Enter` and `Claim` are apart (520 and 526), two threads
may both become the observer, although the code means to refuse the second ("This
task already has an active observer"). Their saves may then move the stored cursor
back and events are delivered twice; none is lost (theorem `EventsKept` has any number
of observers).

### WorkloadFederation

`cache` is `_credential` with `_refresh_at` and `_expires_at`, `used` is
`_used_assertions`, `lock` is `_lock` and `call[t]` holds the locals of a thread's
call: the rejected token (`current`, 0 in `get_credential`), the clock reading
(`now`, line 103), the assertion, the attempt and its last failure. Tokens are
numbered in the order Identity issues them. `ReturnCached` and `BeginExchange` are
the test under the lock; `SourceFails`, `SourceNotRotated` and `SendAssertion` are
`_next_assertion`; `ReceiveToken`, `ReceiveInvalid`, `ReceiveRefusal` and
`TransportFails` are `_exchange_once`; `Retry` is `_exchange`'s loop and `Fail` the
handler in `get_credential`, both run to completion within those actions. Sleeps
between attempts and the reply's latency show as `Tick`s in between. Identity may
consume an assertion and lose the reply, refuse for any reason, and other
processes may consume assertions. `SourceRepeats` distinguishes a source that only
rotates forward from one that may return to an older assertion.

A remark from this model: `federation.py` remembers the last 16 assertions (37, 93), while
the SDK README 257-259 says that the provider refuses to send an assertion it has
already exchanged. A source that returns to one that was forgotten has it sent again.
What holds is `AssertionSentOnce`: with forward rotation no assertion leaves twice, and with
any other source none does before more have left than are remembered. The run has a
source that rotates forward, with which two assertions in memory are one more than needed;
the theorem `SentOnce` is about every source and every size of the memory.

### TaskOutcome

`history`, `floor` and `turn` are the owner's events (numbered by cursor, forgotten
up to `floor`) and the turn with the request it waits for. `call` holds the locals of
`_result`: the turn as first seen, the page tokens, then the cursor and the request
found by `_waiting_request`, each loop with its budget `left`. One action per page
read and way to go on: `FindTurn`, `NextThreadPage`, `TokenRepeated`,
`ThreadPageLimit`, `ThreadEnds`, `ReadReceipts`, `EventsReset`, `NextEventsPage`,
`EventsPageLimit`, `EventsEnd`; `Fail` is any exception (transport, deadline, an
answer for another channel, turn or receipt). A page of the thread may show the
turn or not and the final message or not; a page of events may end anywhere.
`wanted` is the request `approve` or `deny` names, `Respond` the decision. `during`
is a history variable: the turns there were since the call began. A request event
and the turn's waiting state appear together, and each request has one event: this
is assumed of Platform. The handle is an accepted one, and the last event that
outcomes other than "waiting" carry is left out.

### ClientIdentity

`declared` is the state of `CredentialIdentity` (the tenant's two declared flags with
the client's own values, the subject, the scopes), `call[t]` the locals of a
thread's `_unary`. `check` is one step per claim, first `Test` or `Refuse`
(`auth.py` 74-111), then `Commit` (112-123), since nothing locks it; `Refresh` is
`refresh_credential` with `check_refresh`. `Answer` is Platform (external), which
carries a request out or not; a 401 means that it did not. The provider (external)
hands out any credential of `Credentials`. `_stream` goes the same way up to the
reply; what follows it is `EventStream`.

### EventStream

`at` is where the generator `_decode_stream` is: not started, reading, decoding, handing
out a message, or at one of its ends. `buffer` and `ended` are its locals, `open` is the
response, `delivered` what the consumer got; `wire` and `cuts` are history variables,
the bytes received and where the envelopes in them began. One action per way through
the loop: `Receive` (a chunk, or its refusal after the end envelope), `NeedMore`,
`Oversize`, `Message`, `End`, `ServerError`, `Refuse`; `EndOfBody` and `Break` end the body,
`Start`, `Resume` and `Close` are the consumer's. An envelope has one byte of flags, as in
the code, and one of length instead of four. Whether a payload is a message, and what
an end envelope says, is decided by its bytes, so that all cases occur: parsing itself is
the protobuf and JSON libraries'. A generator that is closed before its first `next` has
not entered its `try`: its response stays open, which `OpenFits` states as it is.

### CheckpointFile and ExampleRecovery

`file` is what a process finds at the path, `survives` the directory entries a power
failure may leave there, `step[p]` where process p is in `save` (write the temporary file
and sync it, `link` or `replace`, sync the directory), `synced[p]` whether its data is on
disk, `lost` a history variable. How a file system treats unsynced entries is external:
any of them may come back, and one whose data was not synced may be torn.

`proc[p]` holds a command's place, its copy of the checkpoint and, during a save, what
comes after it. `Start`, `Mark`, `Replay`, `Send`, `Reply` are the submission: task_result
saves once, before the request; account_brief goes through `Task.submit`, which saves
"unacknowledged" between; the probe does so with a save of its own. `Resume`, `Result`,
`List`, `Watch`, `WatchEnds` are task_result's `resume`, with a save after every step and
`Project` for `apply_page`. A page holds every event after the cursor up to its own, or, on
a reset, those retained and a snapshot (`Pages`); it may advance over events that end no
turn, so that `List` goes on although the log's position stays. `Observe` is account_brief's `Task.wait`, whose details are
`TaskObservation`'s. `Stop` ends a process anywhere, for whatever reason. Platform
(external) opens one turn per key and logs the turns that end in the channel. The
thread always has the accepted turn, and reading it is one step: `TaskOutcome` has the
pages of such a read, with the SDK's own code.

Two remarks from this model. The `replay` of task_result sends what it loaded without a
save (`task_result.py` 246-248, 81). If `start` was killed after `link` and before the
directory was synced, and the power fails after the replay has sent, the file may be
gone while Platform has the request: `CHANGELOG.md:15` ("Atomically publish and sync private
checkpoint files before submission") does not hold in that window. `FileAdmitsRequests`
therefore stops at such a loss (`lost`); it is unconditional for the other two programs,
which save before they send. And `apply_page` takes the page's cursor on a reset too
(164), where the SDK README 340-343 and `Task` take the snapshot's replay cursor;
`NoEndMissed` holds because the result is read after every page.

## 3. Runs

| Run | Instance | What it shows |
| --- | --- | --- |
| `submission` | 2 callers, 2 connections, 2 turn ids, sequences to 2, cursors to 1 | `SendIsDurable`; `AcceptanceIsGenuine`; `SavedCheckpointIsResumable`; `SubmissionInv`; `AcceptanceIsFinal`; `NoSendAfterAcceptance`; `Implements` (refines `SubmitOnce`); `EventuallyAccepted`; and `RestartKeepsFields` over every string of up to 4 characters to base 3 and every selection one beyond each limit |
| `submission_threads` | the same with a preemptible guard, 1 turn id | `StorageInv`: storage still admits every request, acceptances are still true |
| `observation` | 1 observer, 4 cursors of which one belongs to another turn, pages of 2, 2 pages, 1 reconnect | `NoEventLost`; `ObservationInv`; `Implements` (refines `DeliverAtLeastOnce`, in which the stored cursor never goes back) |
| `observation_liveness` | 1 observer, 2 cursors, pages of 1, 1 page, 1 reconnect | `WaitReturns`; `EventuallyDelivered` |
| `federation` | 2 threads, 3 assertions, memory of 2, 2 attempts, lifetime 2, margin 1, clock to 3 | `AssertionSentOnce`; `FederationInv`; `TokensNeverGoBack`; `Implements` (refines `NewestToken`, in which a rejected token is replaced by a newer one); `TransientFailuresAreHidden`; `LockIsReleased` |
| `federation_source` | 1 thread | `SourceFailuresAreHidden` is violated (finding 1) |
| `federation_clock` | 1 thread, clock to 6 | `KeptTokenIsUnexpired` is violated (finding 2) |
| `identity` | 1 thread, every credential over 2 tenants, 2 subjects and 2 sets of scopes, any of them left out but the workspace | `IdentityInv`; `ExecutedOnce`; `ReplayKeepsSubject`; `ReplayKeepsClaims`; `OriginalStillPasses`; `CallEnds` |
| `identity_threads` | 2 threads, 1 subject, 2 sets of scopes | `ReplayKeepsClaims` is violated (finding 3) |
| `outcome` | 4 events, 2 kinds of request, 1 failed end, 3 tokens besides the first page (symmetric), 3 pages, 2 changes of the turn during a call | `OutcomeInv`; `OutcomeWasTrue`; `RequestFound`; `DecisionInformed` |
| `recovery` | 2 processes (symmetric), 2 keys, 3 programs, 2 turns that end, 1 request | `RecoveryInv`; `FileAdmitsRequests`; `ProjectionIsTrue`; `NoEndMissed`; `AcceptanceKept` |
| `stream` | bytes 0 to 3, frames of up to 2, chunks of up to 4, bodies of up to 9 | `StreamInv`; `EndIsWhole`; `DecodesAsWhole`; `NoMessageWaits` |

The type invariant `TypeOK` of a module is a conjunct of its inductive invariant
(`SubmissionInv`, `StorageInv`, `ObservationInv`, `FederationInv`, `IdentityInv`, `OutcomeInv`,
`RecoveryInv`, `StreamInv`) and is checked with it.

Why the bounds are enough. Two callers, observers or threads are enough for every
race of the code, whose guards are pairwise; the theorems drop the bound. Two
connections let a late request of a dead process overlap a replay; a third adds
another late copy of the same request, which Platform answers alike. Four cursors
and pages of two give a full page, a short page, a page budget that ends mid-history
and a foreign event inside a page. A page is a set of events: that one listed twice in a
page is delivered once is not modelled. Three assertions and a memory of two make the
memory drop one. Two attempts are the first and the last of a call. Two sequences
and two turn ids tell a right coordinate from a wrong one. Four events hold two
requests with other events between and after them, over three pages that end
anywhere, so that a page limit, an answered request on an earlier page and a
forgotten first event all occur; three tokens over three thread pages let one come
back, and let the limit be met by one that is new. Tokens are only compared with one
another and the run checks no liveness, so their symmetry is sound. "failed" and
"interrupted" are treated alike by the code, so one of them is enough. Two changes
of the turn during a call (the constraint `TwoChanges`) let an answered request be
followed by another while it is read; the theorems drop that bound too. Two
values of a claim are what it takes to change it. Two processes and two keys let a
second `start` meet the first one's file and an old copy be saved over a newer one; two
ends let another turn's event precede the request's own, and a page stop between them.
A second request can only be sent after the loss of the first one's file; the run stops
there (the constraint `OneRequest`), the theorems do not. Processes are only compared with
one another, so their symmetry is sound. Bytes 0 to 3 give every kind of flags, of
payload and of end envelope; nine bytes hold three envelopes with a byte to spare, in
every way to cut them, and a length of 3 is beyond the limit of 2. Base 3 with a greatest
number of three digits has longer, greater, padded and non-decimal strings on either
side of the limit, as base 10 with 19 digits has.

Deadlock is checked in every run but `stream`, whose generator ends for good. Elsewhere
only the application decides to stop; the model always lets it crash, resume or call
again.

Fairness. `Recovery` (TaskSubmission) is what the SDK README asks of the
application: resume, replay what is unacknowledged, wait once accepted, and do so
again after a failure; strong fairness on the successful steps says that storage,
the credential and the network do not fail for ever. Crashes and failures carry no
fairness. `Progress` (TaskObservation) is weak: reads end because the transport has
timeouts, callbacks return, time passes; `WaitReturns` needs no more.
`EventuallyDelivered` also needs `Patience`, an application that keeps waiting
against failures that do not recur for ever. The federation's `FairSpec` is weak
fairness of the lock holder's steps only: a source returns, the transport has a
timeout, a sleep ends. Who gets the lock next is left open, as `threading.Lock`
leaves it. `ClientIdentity`'s `FairSpec` is weak fairness of each call's own steps: the
provider returns and the transport has a timeout. It asks nothing of Platform.

## 4. Findings

1. A source that fails during an early refresh raises although the cached token is
   unexpired: `_EARLY_REFRESH_TOLERATED` (`federation.py` 41) lacks
   `workload_assertion_unavailable`, while the SDK README 259-261 says the provider keeps
   using the cached token.
2. `get_credential` compares the expiry with the clock as read before the exchange
   (`federation.py` 103, 113), so the token it keeps may have expired during the attempts;
   the comment at 109 speaks of the unexpired token.
3. `CredentialIdentity.check` tests the scopes at `auth.py` 104-108 and commits them at
   115-122 without a lock. The first requests of two threads with different scopes
   both pass, one's scopes are kept, and the other's request, answered with 401, is
   repeated with the kept ones. The SDK README 218-220 allows a replay only with the
   same subject, tenant and declared scopes. The subject is safe: `check_refresh`
   compares it with the call's own credential (theorem `SubjectKept`, any threads).

The remarks in section 2 (two observers, forgotten assertions, the unsynced link) are
consequences of the models that no run of its own shows.

## 5. Proofs

Each proof module proves that an inductive invariant holds initially and under
every action, and derives the rest from it. The only assumptions are the named
ASSUMEs of the constants; TLC evaluates them in the runs.

**TaskSubmission_proofs.** Two invariants. `StorageInv` holds of any handle, its guard
preempted or not: a caller past the first save knows that the handle is no longer
"prepared", one that sends or has sent knows it of storage, and storage, once it admits
a request, is not followed by a "prepared" handle. The last conjunct is what makes it
inductive: a crash and a `resume` copy storage to the handle, a second caller's save
copies the handle to storage. From it, without an assumption: `DurableSend` and
`GenuineAcceptance`. The others take `PreemptibleGuard = FALSE`. `SubmissionInv` strengthens the safety
properties with: one caller is past the guard and the flag is up (`OneCaller`); what
the handle and storage say at each of the caller's steps (`CallerKnows`);
coordinates are Platform's or absent (`CoordinatesMatch`); storage is at most one
save behind (`DiskFollowsTask`). The last is needed because a failed save leaves the
two apart, and the properties speak of storage while the guards read the handle.
From it: `ResumableCheckpoint`, `FinalAcceptance`, `NoResubmission`, and `Refinement`: every step is a step of
`SubmitOnce` or a stutter.

**TaskObservation_proofs.** `ObservationInv` says that storage and handle are covered
(every own event up to the cursor was delivered or is gone by a reset) and, in
`PageInv`, that a page under delivery closes the gap between the cursor it was
asked for and its watermark. It holds for any number of observers, hence
`EventsKept`. With one observer, `CursorInv` adds that the page in hand starts at the
live cursor and storage is not ahead of it: `CursorNeverRegresses` and
`ObservationRefinement`, the refinement of `DeliverAtLeastOnce`.

**WorkloadFederation_proofs.** `FederationInv` is: the exchanging thread holds the
lock, with a clock reading not in the future (`LockInv`); the cached token is at
least as new as any token a thread has or was rejected with, and a token on its way
is newer (`TokenInv`); with a source that rotates forward, an assertion that was
sent is never offered again unless it is the newest remembered one (`ForwardInv`),
which is why a memory of one already suffices. With any source, the memory holds different
assertions that left, and all of those until more have left than it can hold
(`MemoryInv`; that it cannot drop one earlier is a matter of counting, `DistinctFits`). From it: `FederationTypes`,
`SentOnce`, `NewerTokens` and `FailuresHidden`, for any number of threads, attempts and
assertions, and `ProviderRefinement`: a call that ends is an answer or a refusal of
`NewestToken`, every other step a stutter. In `NewestToken` an answer is at least as
new as any before it and newer than the token that was rejected; `TokenInv` is what
makes a cached token, a received one and a fallback each such an answer.

**TaskOutcome_proofs.** A read is not atomic, so the invariant must say what the
call's old knowledge still means. `SeenInv`: the turn the call has seen is one of the
turns on record since it began, and every request raised after that turn's own is on
record too. `TurnInv`: the turn waits for its newest request, none before its first
event. `PageInv`: the request found is the newest up to the cursor, and each page has
paid for itself with an event. At the end of the history the newest request is
therefore the seen turn's or a later one on record: `TrueOutcome`, `FoundRequest`
and, with the guard of `approve`, `InformedDecision`. `OutcomeTypes` and
`DistinctPages` complete it. All of it for any bounds, kinds and tokens.

**ClientIdentity_proofs.** `IdentityInv` has two parts. `AttemptOK` holds for any
number of threads, as it speaks of a call's own locals: a request that was carried
out has its last reply, and a repeated one is for the first one's subject. Hence
`IdentityTypes`, `AtMostOneExecution`, `SubjectKept`. `CheckOK` relates the locals to
`declared` (what has passed would still pass, the identity is the last accepted
credential's) and needs a sole thread, `SoleThread`, which is the assumption of
`ClaimsKept`, `OriginalKept` and `DeclaredKept`; finding 3 shows why.

**ExampleRecovery_proofs.** `RecoveryInv` relates three copies of a checkpoint: the entries
of the directory, the processes' own, and Platform. Saves are whole (`SavesAreWhole`) and
a process that has read or made the file has its key (`ProcessesAgree`), since only
`link` puts another key there and fails if there is a file. A process about to send has
a file that says so in every entry it relies on (`SendersAreCovered`, `SentIsCovered`), and
none can replace it by a "prepared" one: of the probe's processes only the maker of the
file holds such a copy, and it is alone until its second save (`OneMaker`). No copy is
ahead of Platform (`NothingIsAhead`), and no watch begins behind the turn's end
(`WatchesAreBehind`). From it: `FilesAreWhole`, `RequestsAreAdmitted`, `ProjectionsAreTrue`,
`EndsAreNotMissed`, `AcceptancesAreKept`, for any number of processes, keys and ends.

**EventStream_proofs.** `StreamInv` describes the buffer by the bytes received: the
envelopes taken lie end to end (`EnvelopesFit`), the buffer is what follows the last of
them (`BufferFits`), an end that was seen is the last envelope and nothing follows it
(`EndFits`), no whole envelope is left when the generator asks for more bytes
(`NoEnvelopeWaits`), the response is open as long as the generator runs (`OpenFits`).
From it alone `EndsAreWhole`, for every body, chunking and limit.

`DecodesAsWhole` and `NoMessageWaits` compare this with `Reading`, the recursive function
that says what a body means. Three facts lead there. `ReadingUnfolds`: `Reading`
satisfies its equation, which for a recursive function has to be proved.
`ReadingFollows`: a body that begins with the envelopes of messages d is read as d
followed by what comes after them, so that in every state the body is read as what was
delivered followed by what the buffer says (`WholeFollows`). `EndsAsWhole`, inductive
under `StreamInv`: a generator that ended as "returned", "server_error" or "protocol"
ended as the body says. Hence `DecodingIsWhole` and `MessagesDoNotWait`.

**CheckpointFields_proofs.** `PositionsAreKept`: every number up to the limit is written as
a string that `_decimal` accepts and reads as that number, and it accepts no other string,
however long and with whatever characters. It rests on `StringFacts` (a number is its
digits) and `StringGrows` (a greater number has no fewer digits, so that the width fits
all). `SelectionsAreKept`: sorting the tones is idempotent and does not lengthen the
list, so that a stored selection passes every later check unchanged. Together
`FieldsAreKept`, assuming `LimitsFit`: a base of 2 at least, and a width that the greatest
position fits into. It is the assumption `FieldsAssumption` of `StoredCheckpoint`, which TLC
evaluates for its instance; 10, the greatest int64 and 19 satisfy it, as the code's limits.

Both modules argue by induction over data. The library's induction theorems take an
operator as a parameter, which the provers cannot instantiate; the same argument is made by
the least counterexample instead. `LeastNatural`, from `WFMin` and
`NatLessThanWellFounded`, gives every nonempty set of naturals a least member; the set is
that of the lengths, or numbers, for which a fact fails, and its least member leads to a
contradiction. That a recursive definition denotes a function is shown in the same way,
from the functions that agree with it below a bound.

Only model-checked: liveness (`EventuallyAccepted`, `WaitReturns`, `EventuallyDelivered`,
`LockIsReleased`, `CallEnds`), as the prover handles neither fairness nor ENABLED, and the
violations. Every invariant and every safety property of a step that a run checks is a
theorem.

## 6. Not modelled, and what could follow

1. `TaskLifecycle`: submission and observation over one checkpoint, since both save
   the whole state. `TaskSubmission` has the observer's save (`SaveWhileObserving`) and
   `TaskObservation` starts from an accepted handle; what is missing is one state space
   in which an acceptance and a cursor never undo one another.
2. `ClientIdentity` composed with its provider, which for this purpose is
   `NewestToken`: a rejected token is not sent again by any thread that saw the refusal.
3. `TaskOutcome` as an implementation of a read of one turn at one time.

Left out for good: the transport (a pass-through to `requests`; its losses and
delays are actions), the generated protocol messages, `check_setup` and the account brief's
`setup` (a classification of one read), the brief's JSON schema, the probe's validation of
its key and comparison with the expected text, page bounds, identities and the kinds of
errors (each a pure function of one input that refuses or classifies), and the wording
of errors and logs.
