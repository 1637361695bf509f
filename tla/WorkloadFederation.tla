------------------------- MODULE WorkloadFederation -------------------------
(***************************************************************************)
(* WorkloadFederationCredentialProvider (src/deixic/federation.py): threads *)
(* of one process share a cached access token under a lock.  A thread that  *)
(* finds no fresh token exchanges a workload assertion with Identity while  *)
(* it holds the lock, with bounded retries, a memory of the assertions it   *)
(* has sent, and the still valid token to fall back on.                     *)
(*                                                                          *)
(* Identity, the assertion source and the clock are external.  Tokens are   *)
(* numbered in the order Identity issues them; their tenant, subject and    *)
(* scopes are CredentialIdentity's subject.                                 *)
(***************************************************************************)
EXTENDS Integers, Sequences, FiniteSets

CONSTANTS
    Threads,           \* callers of get_credential and refresh_credential
    NoThread,
    MaxAssertion,      \* bound: the source's assertions are 1..MaxAssertion
    SourceRepeats,     \* whether the source may come back to an older assertion
    Remembered,        \* _REMEMBERED_ASSERTIONS
    MaxAttempts,       \* max_attempts
    RefreshMargin,     \* refresh_margin
    Lifetime,          \* how long the tokens of Identity live
    MaxTime            \* bound on the clock

ASSUME FederationAssumption ==
    /\ NoThread \notin Threads
    /\ MaxAssertion \in Nat \ {0} /\ SourceRepeats \in BOOLEAN
    /\ Remembered \in Nat \ {0} /\ MaxAttempts \in 1..10
    /\ RefreshMargin \in Nat /\ Lifetime \in Nat /\ MaxTime \in Nat

VARIABLES
    clock,             \* the clock the provider reads
    offered,           \* what the assertion source returns
    consumed,          \* Identity: the assertions it has accepted
    issued,            \* Identity: how many tokens it has issued
    used,              \* _used_assertions
    cache,             \* _credential, _refresh_at and _expires_at
    lock,              \* the thread that holds _lock
    call,              \* the local state of each thread's call
    held,              \* the token a thread was last given, 0 for none
    failure,           \* the code a thread's last call raised, or "none"
    sent               \* history: how often an assertion left, up to twice

external == <<clock, offered>>
identity == <<consumed, issued>>
vars == <<clock, offered, consumed, issued, used, cache, lock, call, held,
          failure, sent>>

----------------------------------------------------------------------------
Assertions == 1..MaxAssertion

Retried == {"unavailable", "transport"}
EarlyRefreshTolerated == {"reused", "unavailable", "transport"}
(* 400, 403 and any other status but 409 and 503 are "refused". *)
Refusals == {"refused", "replayed", "unavailable"}
Codes == Refusals \cup {"reused", "transport", "assertion_unavailable", "invalid"}

(* What Identity answered: a token with its expiry, or a refusal. *)
NoReply == [token |-> 0, expiresAt |-> 0, code |-> "none"]

Idle == [at |-> "idle", current |-> 0, now |-> 0, assertion |-> 0,
         failed |-> "none", attempt |-> 0, reply |-> NoReply]

Go(t, c) == call' = [call EXCEPT ![t] = c]

At(t, location) == call[t].at = location

(* Of a call of get_credential, current is 0: no token was rejected. *)
Refreshing(t) == call[t].current # 0

Init ==
    /\ clock = 0 /\ offered = 1
    /\ consumed = {} /\ issued = 0
    /\ used = <<>>
    /\ cache = [token |-> 0, refreshAt |-> 0, expiresAt |-> 0]
    /\ lock = NoThread
    /\ call = [t \in Threads |-> Idle]
    /\ held = [t \in Threads |-> 0]
    /\ failure = [t \in Threads |-> "none"]
    /\ sent = [a \in Assertions |-> 0]

----------------------------------------------------------------------------
(* The surroundings (external). *)

Tick ==
    /\ clock < MaxTime
    /\ clock' = clock + 1
    /\ UNCHANGED <<offered, identity, used, cache, lock, call, held, failure, sent>>

(* The platform agent writes a new assertion, or the application's own      *)
(* source falls back to an old one.                                         *)
Rotate ==
    /\ offered' \in IF SourceRepeats THEN Assertions \ {offered}
                                     ELSE {offered + 1} \cap Assertions
    /\ UNCHANGED <<clock, identity, used, cache, lock, call, held, failure, sent>>

(* Another process of the workload exchanges the assertion on offer. *)
ConsumedElsewhere ==
    /\ offered \notin consumed
    /\ consumed' = consumed \cup {offered}
    /\ UNCHANGED <<external, issued, used, cache, lock, call, held, failure, sent>>

(* Identity takes an assertion once, and a token of it lives so long. *)
IdentityIssues(t) ==
    /\ At(t, "await") /\ call[t].reply = NoReply
    /\ call[t].assertion \notin consumed
    /\ consumed' = consumed \cup {call[t].assertion}
    /\ issued' = issued + 1
    /\ Go(t, [call[t] EXCEPT !.reply =
                [token |-> issued', expiresAt |-> clock + Lifetime, code |-> "none"]])
    /\ UNCHANGED <<external, used, cache, lock, held, failure, sent>>

IdentityRefuses(t) ==
    /\ At(t, "await") /\ call[t].reply = NoReply
    /\ \E code \in Refusals :
         /\ code = "replayed" => call[t].assertion \in consumed
         /\ Go(t, [call[t] EXCEPT !.reply.code = code])
    /\ UNCHANGED <<external, identity, used, cache, lock, held, failure, sent>>

----------------------------------------------------------------------------
(* Entering get_credential and refresh_credential. *)

(* A request needs a credential. *)
Request(t) ==
    /\ At(t, "idle")
    /\ Go(t, [Idle EXCEPT !.at = "waiting"])
    /\ failure' = [failure EXCEPT ![t] = "none"]
    /\ UNCHANGED <<external, identity, used, cache, lock, held, sent>>

(* Deixic answered the request with 401. *)
Rejected(t) ==
    /\ At(t, "idle") /\ held[t] # 0
    /\ Go(t, [Idle EXCEPT !.at = "waiting", !.current = held[t]])
    /\ failure' = [failure EXCEPT ![t] = "none"]
    /\ UNCHANGED <<external, identity, used, cache, lock, held, sent>>

(* Mutant of MayAcquire: there is no lock. *)
AlwaysAcquire(t) == At(t, "waiting")

MayAcquire(t) == At(t, "waiting") /\ lock = NoThread

(* Mutant of Usable: the rejected token itself is handed out again. *)
UsableThoughRejected(t) == cache.token # 0 /\ clock < cache.refreshAt

(* The cached token serves until its refresh is due, and as a replacement   *)
(* only if it is not the rejected one.                                      *)
Usable(t) ==
    /\ cache.token # 0
    /\ clock < cache.refreshAt
    /\ cache.token # call[t].current

(* Mutant of Release: the lock stays with the thread. *)
KeepLock == UNCHANGED lock

Release == lock' = NoThread

Return(t, token) ==
    /\ Release
    /\ Go(t, Idle)
    /\ held' = [held EXCEPT ![t] = token]
    /\ UNCHANGED failure

ReturnCached(t) ==
    /\ MayAcquire(t)
    /\ Usable(t)
    /\ Return(t, cache.token)
    /\ UNCHANGED <<external, identity, used, cache, sent>>

BeginExchange(t) ==
    /\ MayAcquire(t)
    /\ ~Usable(t)
    /\ lock' = t
    /\ Go(t, [call[t] EXCEPT !.at = "source", !.now = clock])
    /\ UNCHANGED <<external, identity, used, cache, held, failure, sent>>

----------------------------------------------------------------------------
(* Leaving with an error.  get_credential hides the failures of an early    *)
(* refresh behind the token that was unexpired when the call read the       *)
(* clock; refresh_credential hides none.                                    *)

Raise(t, code) ==
    /\ Release
    /\ Go(t, Idle)
    /\ held' = [held EXCEPT ![t] = 0]
    /\ failure' = [failure EXCEPT ![t] = code]

(* Mutant of MayKeep: only an assertion that was not rotated is tolerated. *)
MayKeepUnrotated(t, code) ==
    /\ ~Refreshing(t) /\ code = "reused"
    /\ cache.token # 0 /\ call[t].now < cache.expiresAt

MayKeep(t, code) ==
    /\ ~Refreshing(t) /\ code \in EarlyRefreshTolerated
    /\ cache.token # 0 /\ call[t].now < cache.expiresAt

Fail(t, code) ==
    \/ MayKeep(t, code) /\ Return(t, cache.token)
    \/ ~MayKeep(t, code) /\ Raise(t, code)

(* An unavailable Identity or a failed transport is tried again, with       *)
(* another assertion.                                                       *)
Retry(t, code) ==
    IF call[t].attempt + 1 < MaxAttempts
      THEN /\ Go(t, [call[t] EXCEPT !.at = "source", !.attempt = @ + 1,
                       !.failed = code, !.assertion = 0, !.reply = NoReply])
           /\ UNCHANGED <<lock, held, failure>>
      ELSE Fail(t, code)

----------------------------------------------------------------------------
(* _exchange, under the lock. *)

(* Mutant of Remember: the memory has no limit. *)
RememberAll(a) == Append(used, a)

Remember(a) ==
    LET all == Append(used, a) IN
    IF Len(all) > Remembered THEN Tail(all) ELSE all

Known(a) == \E i \in 1..Len(used) : used[i] = a

(* The source cannot produce an assertion. *)
SourceFails(t) ==
    /\ At(t, "source")
    /\ Fail(t, "assertion_unavailable")
    /\ UNCHANGED <<external, identity, used, cache, sent>>

(* The source still offers an assertion that was sent before: an earlier    *)
(* attempt's failure is what this call reports.                             *)
SourceNotRotated(t) ==
    /\ At(t, "source") /\ Known(offered)
    /\ Fail(t, IF call[t].failed = "none" THEN "reused" ELSE call[t].failed)
    /\ UNCHANGED <<external, identity, used, cache, sent>>

(* Mutant of SendAssertion: the assertion is remembered for the first       *)
(* attempt of a call only.                                                  *)
SendForgotten(t) ==
    /\ At(t, "source") /\ ~Known(offered)
    /\ used' = IF call[t].attempt = 0 THEN Remember(offered) ELSE used
    /\ sent' = [sent EXCEPT ![offered] = IF @ < 2 THEN @ + 1 ELSE @]
    /\ Go(t, [call[t] EXCEPT !.at = "await", !.assertion = offered])
    /\ UNCHANGED <<external, identity, cache, lock, held, failure>>

(* A new assertion is remembered, then sent. *)
SendAssertion(t) ==
    /\ At(t, "source") /\ ~Known(offered)
    /\ used' = Remember(offered)
    /\ sent' = [sent EXCEPT ![offered] = IF @ < 2 THEN @ + 1 ELSE @]
    /\ Go(t, [call[t] EXCEPT !.at = "await", !.assertion = offered])
    /\ UNCHANGED <<external, identity, cache, lock, held, failure>>

(* Half of a lifetime, as the integer clock compares with it. *)
Half(n) == (n + 1) \div 2

Larger(m, n) == IF m > n THEN m ELSE n

(* The token is cached with its times on the provider's clock. *)
ReceiveToken(t) ==
    /\ At(t, "await") /\ call[t].reply.token # 0
    /\ LET lifetime == Larger(0, call[t].reply.expiresAt - clock) IN
       cache' = [token |-> call[t].reply.token,
                 refreshAt |-> clock + Larger(lifetime - RefreshMargin, Half(lifetime)),
                 expiresAt |-> clock + lifetime]
    /\ Return(t, call[t].reply.token)
    /\ UNCHANGED <<external, identity, used, sent>>

(* The response lacks a field or is no JSON: nothing is cached. *)
ReceiveInvalid(t) ==
    /\ At(t, "await") /\ call[t].reply.token # 0
    /\ Fail(t, "invalid")
    /\ UNCHANGED <<external, identity, used, cache, sent>>

ReceiveRefusal(t) ==
    /\ At(t, "await") /\ call[t].reply.code # "none"
    /\ IF call[t].reply.code \in Retried
         THEN Retry(t, call[t].reply.code)
         ELSE Fail(t, call[t].reply.code)
    /\ UNCHANGED <<external, identity, used, cache, sent>>

(* The transport fails, whatever Identity did with the assertion. *)
TransportFails(t) ==
    /\ At(t, "await")
    /\ Retry(t, "transport")
    /\ UNCHANGED <<external, identity, used, cache, sent>>

----------------------------------------------------------------------------
(* What the thread that holds the lock does, failures included. *)
Step(t) ==
    \/ SourceFails(t) \/ SourceNotRotated(t) \/ SendAssertion(t)
    \/ ReceiveToken(t) \/ ReceiveInvalid(t) \/ ReceiveRefusal(t)
    \/ TransportFails(t)

Next ==
    \/ Tick \/ Rotate \/ ConsumedElsewhere
    \/ \E t \in Threads :
         \/ IdentityIssues(t) \/ IdentityRefuses(t)
         \/ Request(t) \/ Rejected(t) \/ ReturnCached(t) \/ BeginExchange(t)
         \/ Step(t)

Spec == Init /\ [][Next]_vars

(* A source returns, the transport has a timeout, a sleep ends.  Nothing is *)
(* assumed of Identity, of the source's rotation or of who gets the lock.   *)
FairSpec == Spec /\ \A t \in Threads : WF_vars(Step(t))

----------------------------------------------------------------------------
(* Properties. *)

Calls ==
    [at : {"idle", "waiting", "source", "await"},
     current : Nat, now : Nat, assertion : Assertions \cup {0},
     failed : Retried \cup {"none"}, attempt : 0..(MaxAttempts - 1),
     reply : [token : Nat, expiresAt : Nat, code : Refusals \cup {"none"}]]

(* The type invariant. *)
TypeOK ==
    /\ clock \in Nat /\ offered \in Assertions
    /\ consumed \subseteq Assertions /\ issued \in Nat
    /\ used \in Seq(Assertions) /\ Len(used) <= Remembered
    /\ cache \in [token : Nat, refreshAt : Nat, expiresAt : Nat]
    /\ lock \in Threads \cup {NoThread}
    /\ call \in [Threads -> Calls]
    /\ held \in [Threads -> Nat]
    /\ failure \in [Threads -> Codes \cup {"none"}]
    /\ sent \in [Assertions -> 0..2]

Sent == {a \in Assertions : sent[a] > 0}

(* "The provider refuses to send an assertion it has already exchanged":    *)
(* no assertion leaves twice, whatever became of its first exchange.  Only  *)
(* a source that comes back to an older one gets it sent again, and not     *)
(* before more have left than the provider remembers.                       *)
AssertionSentOnce ==
    \A a \in Assertions :
        sent[a] > 1 => SourceRepeats /\ Cardinality(Sent) > Remembered

(* The thread that exchanges holds the lock, since a time that is past, and *)
(* awaits the answer to an assertion it sent.                               *)
LockInv ==
    \A t \in Threads :
      /\ call[t].at \in {"source", "await"} => lock = t /\ call[t].now <= clock
      /\ call[t].at = "await" => call[t].assertion \in Assertions

(* The cached token is the newest any thread was given or was rejected      *)
(* with, and one that Identity has issued since is newer.                   *)
TokenInv ==
    /\ cache.token <= issued
    /\ \A t \in Threads :
         /\ held[t] <= cache.token /\ call[t].current <= cache.token
         /\ call[t].reply.token # 0 =>
              /\ call[t].at = "await" /\ call[t].reply.code = "none"
              /\ cache.token < call[t].reply.token /\ call[t].reply.token <= issued

(* The memory is of different assertions that left, and until it is full it *)
(* is of all of them.                                                       *)
MemoryInv ==
    /\ \A i, j \in 1..Len(used) : used[i] = used[j] => i = j
    /\ \A i \in 1..Len(used) : used[i] \in Sent
    /\ Cardinality(Sent) <= Remembered =>
         \A a \in Sent : Known(a) /\ sent[a] = 1

(* A source that rotates forward offers what never left, or what is         *)
(* remembered.                                                              *)
ForwardInv ==
    /\ \A a \in Assertions : sent[a] <= 1
    /\ \A a \in Assertions : a > offered => sent[a] = 0
    /\ sent[offered] # 0 => Known(offered)

(* The inductive invariant behind the properties below. *)
FederationInv ==
    /\ TypeOK
    /\ LockInv
    /\ TokenInv
    /\ MemoryInv
    /\ ~SourceRepeats => ForwardInv

Given(t) == held'[t] # 0 /\ call[t].at # "idle" /\ call'[t].at = "idle"

(* A token handed to one thread is never older than one another thread was  *)
(* handed before: no slow exchange brings a superseded token back.          *)
TokensNeverGoBack ==
    [][\A t, u \in Threads : Given(t) => held'[t] >= held[u]]_vars

(* get_credential raises one of the codes although the cached token is      *)
(* still unexpired.                                                         *)
Exposes(codes) ==
    \E t \in Threads :
      /\ failure'[t] # failure[t] /\ failure'[t] \in codes
      /\ ~Refreshing(t)
      /\ cache.token # 0 /\ clock < cache.expiresAt

(* While the cached token is unexpired, no transient failure of Identity,   *)
(* of the transport or of the source's rotation reaches get_credential's    *)
(* caller.                                                                  *)
TransientFailuresAreHidden == [][~Exposes(EarlyRefreshTolerated)]_vars

(* "When an early refresh cannot obtain a new assertion and the cached      *)
(* token has not expired, the provider keeps using the cached token": a     *)
(* source that fails is no reason to raise.                                 *)
SourceFailuresAreHidden == [][~Exposes({"assertion_unavailable"})]_vars

(* "An early refresh that fails transiently keeps the unexpired token": the *)
(* cached token a call falls back on is unexpired when it is handed out.    *)
KeptTokenIsUnexpired ==
    [][\A t \in Threads : Given(t) /\ UNCHANGED cache => clock < cache.expiresAt]_vars

(* The threads' calls, with the cache between them, are the ones of one     *)
(* newest token: a thread is answered with the newest token so far or one   *)
(* issued since, and refresh_credential never with the token it was told is *)
(* rejected, however many threads were rejected with it.                    *)
Promise == INSTANCE NewestToken WITH
    newest <- cache.token,
    asking <- {t \in Threads : call[t].at # "idle"},
    rejected <- [t \in Threads |-> call[t].current]

Implements == Promise!Spec

(* No failure leaves the lock behind, and no exchange keeps it for ever. *)
LockIsReleased == \A t \in Threads : lock = t ~> lock # t
=============================================================================
