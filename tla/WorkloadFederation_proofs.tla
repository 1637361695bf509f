---------------------- MODULE WorkloadFederation_proofs ---------------------
(***************************************************************************)
(* Theorems about WorkloadFederation, for any number of threads, any memory *)
(* and any lifetimes, proved with TLAPS.                                    *)
(***************************************************************************)
EXTENDS WorkloadFederation, FiniteSetTheorems, TLAPS

(* What _used_assertions holds after an append: a bounded sequence that     *)
(* ends with the new assertion.                                             *)
LEMMA RememberFacts ==
    ASSUME used \in Seq(Assertions), Len(used) <= Remembered, NEW a \in Assertions
    PROVE  /\ Remember(a) \in Seq(Assertions)
           /\ Len(Remember(a)) \in 1..Remembered
           /\ Remember(a)[Len(Remember(a))] = a
<1> DEFINE all == Append(used, a)
<1>1. /\ all \in Seq(Assertions) /\ Len(all) = Len(used) + 1
      /\ Len(all) \in Nat \ {0} /\ all[Len(all)] = a
  OBVIOUS
<1>2. CASE Len(all) > Remembered
  <2>1. Remembered \in Nat \ {0}
    BY FederationAssumption
  <2>2. Len(all) = Remembered + 1 /\ Len(all) > 1
    BY <1>1, <1>2, <2>1
  <2>3. /\ Tail(all) \in Seq(Assertions) /\ Len(Tail(all)) = Len(all) - 1
        /\ \A i \in 1..Len(Tail(all)) : Tail(all)[i] = all[i + 1]
    BY <1>1, <2>2
  <2>4. Tail(all)[Len(Tail(all))] = a
    BY <1>1, <2>1, <2>2, <2>3
  <2> QED BY <1>2, <2>1, <2>2, <2>3, <2>4 DEF Remember
<1>3. CASE ~(Len(all) > Remembered)
  BY <1>1, <1>3, FederationAssumption DEF Remember
<1> QED BY <1>2, <1>3

(* A sequence of different members of a finite set is no longer than it. *)
LEMMA DistinctFits ==
    ASSUME NEW S, IsFiniteSet(S), NEW n \in Nat, NEW s,
           \A i \in 1..n : s[i] \in S,
           \A i, j \in 1..n : s[i] = s[j] => i = j
    PROVE  n <= Cardinality(S)
<1> DEFINE f == [i \in 1..n |-> s[i]]
<1>1. f \in [1..n -> S] /\ ~\E i, j \in 1..n : i # j /\ f[i] = f[j]
  OBVIOUS
<1>2. IsFiniteSet(1..n) /\ Cardinality(1..n) = n
  BY FS_Interval
<1>3. Cardinality(S) \in Nat
  BY FS_CardinalityType
<1> HIDE DEF f
<1>4. ~(Cardinality(S) < Cardinality(1..n))
  BY <1>1, <1>2, FS_PigeonHole
<1> QED BY <1>2, <1>3, <1>4

LEMMA SentIsFinite == IsFiniteSet(Sent) /\ Cardinality(Sent) \in Nat
<1>1. IsFiniteSet(Assertions)
  BY FederationAssumption, FS_Interval DEF Assertions
<1>2. Sent \in SUBSET Assertions
  BY DEF Sent
<1> QED BY <1>1, <1>2, FS_Subset, FS_CardinalityType

LEMMA MemoryStays ==
    ASSUME MemoryInv, UNCHANGED <<used, sent>>
    PROVE  MemoryInv'
<1>1. Sent' = Sent
  BY DEF Sent
<1> QED BY <1>1 DEF MemoryInv, Known

(* An assertion that is not remembered joins the memory and, as long as the *)
(* memory can hold all that left, drives none out of it.                    *)
LEMMA MemoryGrows ==
    ASSUME TypeOK, MemoryInv, ~Known(offered), UNCHANGED offered,
           used' = Remember(offered),
           sent' = [sent EXCEPT ![offered] = IF @ < 2 THEN @ + 1 ELSE @]
    PROVE  MemoryInv'
<1> DEFINE all == Append(used, offered)
<1>1. /\ offered \in Assertions /\ used \in Seq(Assertions) /\ sent \in [Assertions -> 0..2]
      /\ Remembered \in Nat \ {0} /\ Len(used) \in Nat /\ Len(used) <= Remembered
  BY FederationAssumption DEF TypeOK
<1>2. /\ all \in Seq(Assertions) /\ Len(all) = Len(used) + 1 /\ all[Len(all)] = offered
      /\ \A i \in 1..Len(used) : all[i] = used[i]
  BY <1>1
<1> HIDE DEF all
<1>3. /\ sent'[offered] > 0
      /\ \A a \in Assertions \ {offered} : sent'[a] = sent[a]
  BY <1>1
<1>4. Sent' = Sent \cup {offered}
  BY <1>1, <1>3 DEF Sent
<1>5. \A i, j \in 1..Len(all) : all[i] = all[j] => i = j
  <2>1. \A i \in 1..Len(used) : used[i] # offered
    BY DEF Known
  <2>2. \A i, j \in 1..Len(used) : used[i] = used[j] => i = j
    BY DEF MemoryInv
  <2>3. \A i \in 1..Len(all) : i \in 1..Len(used) \/ i = Len(all)
    BY <1>1, <1>2
  <2> QED BY <1>2, <2>1, <2>2, <2>3
<1>6. \A i \in 1..Len(all) : all[i] \in Sent'
  <2>1. \A i \in 1..Len(used) : used[i] \in Sent
    BY DEF MemoryInv
  <2>2. \A i \in 1..Len(all) : i \in 1..Len(used) \/ i = Len(all)
    BY <1>1, <1>2
  <2> QED BY <1>2, <1>4, <2>1, <2>2
<1>7. /\ \A i, j \in 1..Len(used') : used'[i] = used'[j] => i = j
      /\ \A i \in 1..Len(used') : used'[i] \in Sent'
  <2>1. CASE Len(all) > Remembered
    <3>1. used' = Tail(all)
      BY <2>1 DEF Remember, all
    <3>2. /\ Len(used') = Len(all) - 1 /\ Len(all) \in Nat \ {0}
          /\ \A i \in 1..Len(used') : used'[i] = all[i + 1]
      BY <1>1, <1>2, <2>1, <3>1
    <3>3. \A i \in 1..Len(used') : i \in Nat /\ i + 1 \in 1..Len(all)
      BY <3>2
    <3> QED BY <1>5, <1>6, <3>2, <3>3
  <2>2. CASE ~(Len(all) > Remembered)
    <3>1. used' = all
      BY <2>2 DEF Remember, all
    <3> QED BY <1>5, <1>6, <3>1
  <2> QED BY <2>1, <2>2
<1>8. ASSUME Cardinality(Sent') <= Remembered
      PROVE  \A a \in Sent' : Known(a)' /\ sent'[a] = 1
  <2>1. /\ IsFiniteSet(Sent) /\ Cardinality(Sent) \in Nat
        /\ IsFiniteSet(Sent') /\ Cardinality(Sent') \in Nat
    <3>1. IsFiniteSet(Sent) /\ Cardinality(Sent) \in Nat
      BY SentIsFinite
    <3>2. IsFiniteSet(Sent \cup {offered})
      BY <3>1, FS_AddElement
    <3> QED BY <1>4, <3>1, <3>2, FS_CardinalityType
  <2>2. Cardinality(Sent) <= Cardinality(Sent')
    BY <1>4, <2>1, FS_Subset
  <2>3. \A a \in Sent : Known(a) /\ sent[a] = 1
    BY <1>1, <1>8, <2>1, <2>2 DEF MemoryInv
  <2>4. Len(all) <= Cardinality(Sent')
    <3>1. Len(all) \in Nat /\ IsFiniteSet(Sent')
      BY <1>1, <1>2, <2>1
    <3>2. \A i \in 1..Len(all) : all[i] \in Sent'
      BY <1>6
    <3> QED BY <1>5, <3>1, <3>2, DistinctFits
  <2>5. used' = all
    BY <1>1, <1>2, <1>8, <2>1, <2>4 DEF Remember, all
  <2>6. sent[offered] = 0
    BY <1>1, <2>3 DEF Sent
  <2>7. Len(all) \in 1..Len(used') /\ used'[Len(all)] = offered /\ sent'[offered] = 1
    BY <1>1, <1>2, <2>5, <2>6
  <2>8. \A a \in Sent : Known(a)' /\ sent'[a] = 1
    <3>1. \A i \in 1..Len(used) : i \in 1..Len(used') /\ used'[i] = used[i]
      BY <1>1, <1>2, <2>5
    <3>2. \A a \in Sent : a \in Assertions \ {offered}
      BY <2>6 DEF Sent
    <3> QED BY <1>3, <2>3, <3>1, <3>2 DEF Known
  <2> QED BY <1>4, <2>7, <2>8 DEF Known
<1> QED BY <1>7, <1>8 DEF MemoryInv

(* The one call that moves on is where it went, the others stay. *)
LEMMA GoFacts ==
    ASSUME call \in [Threads -> Calls], NEW t \in Threads, NEW c \in Calls, Go(t, c)
    PROVE  /\ call' \in [Threads -> Calls]
           /\ call'[t] = c
           /\ \A u \in Threads \ {t} : call'[u] = call[u]
  BY DEF Go

LEMMA IdleTyped == Idle \in Calls
  BY FederationAssumption DEF Idle, Calls, NoReply

(* The initial states satisfy the invariant. *)
LEMMA FederationInit == Init => FederationInv
<1> SUFFICES ASSUME Init PROVE FederationInv
  OBVIOUS
<1>1. 1 \in Assertions
  BY FederationAssumption DEF Assertions
<1>2. TypeOK
  BY <1>1, IdleTyped, FederationAssumption DEF Init, TypeOK
<1>3. LockInv /\ TokenInv
  BY DEF Init, LockInv, TokenInv, Idle, NoReply
<1>4. ForwardInv
  BY <1>1 DEF Init, ForwardInv
<1>5. MemoryInv
  BY DEF Init, MemoryInv, Sent
<1> QED BY <1>2, <1>3, <1>4, <1>5 DEF FederationInv

(* A call that ends with the cached token, or with an error, keeps the      *)
(* invariant.                                                               *)
LEMMA EndStep ==
    ASSUME FederationInv, NEW t \in Threads, lock \in {t, NoThread},
           UNCHANGED <<external, identity, used, cache, sent>>,
           \/ Return(t, cache.token)
           \/ \E code \in Codes : Raise(t, code)
    PROVE  FederationInv'
<1> USE DEF FederationInv
<1>1. PICK token \in {cache.token, 0} : held' = [held EXCEPT ![t] = token]
  BY DEF Return, Raise
<1>2. failure' \in [Threads -> Codes \cup {"none"}]
  <2>1. CASE UNCHANGED failure
    BY <2>1 DEF TypeOK
  <2>2. CASE \E code \in Codes : failure' = [failure EXCEPT ![t] = code]
    BY <2>2 DEF TypeOK
  <2> QED BY <2>1, <2>2 DEF Return, Raise
<1>3. /\ lock' = NoThread
      /\ call' \in [Threads -> Calls] /\ call'[t] = Idle
      /\ \A u \in Threads \ {t} : call'[u] = call[u]
  BY GoFacts, IdleTyped DEF Return, Raise, Release, TypeOK
<1>4. held' \in [Threads -> Nat] /\ \A u \in Threads : held'[u] <= cache.token
  BY <1>1 DEF TypeOK, TokenInv
<1>5. TypeOK'
  BY <1>2, <1>3, <1>4 DEF TypeOK, external, identity
<1>6. LockInv'
  BY <1>3, FederationAssumption DEF LockInv, Idle, external
<1>7. TokenInv'
  <2>1. cache.token \in Nat /\ cache' = cache /\ issued' = issued
    BY DEF TypeOK, identity
  <2>2. Idle.current = 0 /\ Idle.reply.token = 0
    BY DEF Idle, NoReply
  <2> QED BY <1>3, <1>4, <2>1, <2>2 DEF TokenInv
<1>8. MemoryInv' /\ (~SourceRepeats => ForwardInv')
  BY MemoryStays DEF ForwardInv, Known, external
<1> QED BY <1>5, <1>6, <1>7, <1>8

(* Leaving with an error, and another attempt after one, keep it too. *)
LEMMA FailStep ==
    ASSUME FederationInv, NEW t \in Threads, lock = t,
           UNCHANGED <<external, identity, used, cache, sent>>,
           NEW code \in Codes, Fail(t, code)
    PROVE  FederationInv'
  BY EndStep DEF Fail

LEMMA RetryStep ==
    ASSUME FederationInv, NEW t \in Threads, At(t, "await"),
           UNCHANGED <<external, identity, used, cache, sent>>,
           NEW code \in Retried, Retry(t, code)
    PROVE  FederationInv'
<1> USE DEF FederationInv
<1>1. lock = t /\ call[t].now <= clock
  BY DEF LockInv, At
<1>2. CASE call[t].attempt + 1 < MaxAttempts
  <2> DEFINE again == [call[t] EXCEPT !.at = "source", !.attempt = @ + 1,
                         !.failed = code, !.assertion = 0, !.reply = NoReply]
  <2>1. again \in Calls
    <3>1. /\ call[t] \in Calls /\ call[t].attempt \in 0..(MaxAttempts - 1)
          /\ MaxAttempts \in Nat
      BY FederationAssumption DEF TypeOK, Calls
    <3>2. call[t].attempt + 1 \in 0..(MaxAttempts - 1)
      BY <1>2, <3>1
    <3>3. code \in Retried \cup {"none"} /\ 0 \in Assertions \cup {0}
          /\ NoReply \in [token : Nat, expiresAt : Nat, code : Refusals \cup {"none"}]
      BY DEF NoReply
    <3> QED BY <3>1, <3>2, <3>3 DEF Calls
  <2>2. Go(t, again) /\ UNCHANGED <<lock, held, failure>>
    BY <1>2 DEF Retry
  <2>3. /\ call' \in [Threads -> Calls] /\ call'[t] = again
        /\ \A u \in Threads \ {t} : call'[u] = call[u]
    BY <2>1, <2>2, GoFacts DEF TypeOK
  <2>4. /\ again.at = "source" /\ again.now = call[t].now
        /\ again.current = call[t].current /\ again.reply = NoReply
    BY DEF TypeOK, Calls
  <2> HIDE DEF again
  <2>5. TypeOK'
    BY <2>2, <2>3 DEF TypeOK, external, identity
  <2>6. LockInv'
    BY <1>1, <2>2, <2>3, <2>4 DEF LockInv, external
  <2>7. TokenInv'
    BY <2>2, <2>3, <2>4 DEF TokenInv, NoReply, identity
  <2>8. MemoryInv' /\ (~SourceRepeats => ForwardInv')
    BY MemoryStays DEF ForwardInv, Known, external
  <2> QED BY <2>5, <2>6, <2>7, <2>8
<1>3. CASE ~(call[t].attempt + 1 < MaxAttempts)
  BY <1>1, <1>3, FailStep DEF Retry, Codes, Refusals, Retried
<1> QED BY <1>2, <1>3

(* A call that moves on under the lock, or waits for it, keeps the          *)
(* invariant, whatever Identity did meanwhile.                              *)
LEMMA MoveStep ==
    ASSUME FederationInv, NEW t \in Threads, NEW c \in Calls, Go(t, c),
           UNCHANGED <<external, used, cache, held, sent>>,
           consumed' \subseteq Assertions, issued' \in Nat, issued' >= issued,
           failure' \in [Threads -> Codes \cup {"none"}],
           lock' = lock \/ (lock = NoThread /\ lock' = t),
           c.at \in {"source", "await"} => lock' = t /\ c.now <= clock,
           c.at = "await" => c.assertion \in Assertions,
           c.current <= cache.token,
           c.reply.token # 0 =>
              /\ c.at = "await" /\ c.reply.code = "none"
              /\ cache.token < c.reply.token /\ c.reply.token <= issued'
    PROVE  FederationInv'
<1> USE DEF FederationInv
<1>1. /\ call' \in [Threads -> Calls] /\ call'[t] = c
      /\ \A u \in Threads \ {t} : call'[u] = call[u]
  BY GoFacts DEF TypeOK
<1>2. TypeOK'
  BY <1>1 DEF TypeOK, external
<1>3. LockInv'
  BY <1>1, FederationAssumption DEF LockInv, external
<1>4. TokenInv'
  <2>1. /\ cache.token \in Nat /\ cache' = cache /\ issued \in Nat /\ held' = held
        /\ cache.token <= issued'
    BY DEF TypeOK, TokenInv
  <2>2. ASSUME NEW u \in Threads \ {t}, call[u].reply.token # 0
        PROVE  call[u].reply.token <= issued'
    <3>1. call[u].reply.token \in Nat
      BY DEF TypeOK, Calls
    <3> QED BY <2>1, <2>2, <3>1 DEF TokenInv
  <2> QED BY <1>1, <2>1, <2>2 DEF TokenInv
<1>5. MemoryInv' /\ (~SourceRepeats => ForwardInv')
  BY MemoryStays DEF ForwardInv, Known, external
<1> QED BY <1>2, <1>3, <1>4, <1>5

(* The invariant is inductive. *)
LEMMA FederationStep ==
    ASSUME FederationInv, [Next]_vars
    PROVE  FederationInv'
<1> USE DEF FederationInv
<1>1. CASE Tick
  <2>1. clock' = clock + 1 /\ clock \in Nat
    BY <1>1 DEF Tick, TypeOK
  <2>2. UNCHANGED <<offered, consumed, issued, used, cache, lock, call, held, failure, sent>>
    BY <1>1 DEF Tick, identity
  <2>3. TypeOK'
    BY <2>1, <2>2 DEF TypeOK
  <2>4. LockInv'
    BY <2>1, <2>2 DEF LockInv, TypeOK, Calls
  <2>5. TokenInv' /\ MemoryInv' /\ (~SourceRepeats => ForwardInv')
    BY <2>2, MemoryStays DEF TokenInv, ForwardInv, Known
  <2> QED BY <2>3, <2>4, <2>5
<1>2. CASE Rotate
  <2>1. UNCHANGED <<clock, consumed, issued, used, cache, lock, call, held, failure, sent>>
    BY <1>2 DEF Rotate, identity
  <2>2. offered' \in Assertions /\ (~SourceRepeats => offered' = offered + 1)
    BY <1>2 DEF Rotate
  <2>3. TypeOK'
    BY <2>1, <2>2 DEF TypeOK
  <2>4. LockInv' /\ TokenInv'
    BY <2>1 DEF LockInv, TokenInv
  <2>5. ASSUME ~SourceRepeats PROVE ForwardInv'
    <3>1. offered \in Nat /\ offered' = offered + 1 /\ \A a \in Assertions : a \in Nat
      BY <2>2, <2>5, FederationAssumption DEF TypeOK, Assertions
    <3>2. sent[offered'] = 0
      BY <2>2, <2>5, <3>1 DEF ForwardInv
    <3> QED BY <2>1, <2>5, <3>1, <3>2 DEF ForwardInv
  <2>6. MemoryInv'
    BY <2>1, MemoryStays
  <2> QED BY <2>3, <2>4, <2>5, <2>6
<1>3. CASE ConsumedElsewhere
  BY <1>3, MemoryStays DEF ConsumedElsewhere, external, TypeOK, LockInv, TokenInv,
                           ForwardInv, Known
<1>4. ASSUME NEW t \in Threads, IdentityIssues(t) PROVE FederationInv'
  <2> DEFINE next == [call[t] EXCEPT !.reply =
                [token |-> issued + 1, expiresAt |-> clock + Lifetime, code |-> "none"]]
  <2>1. /\ Go(t, next) /\ issued' = issued + 1
        /\ consumed' = consumed \cup {call[t].assertion} /\ call[t].at = "await"
        /\ UNCHANGED <<clock, offered, used, cache, lock, held, failure, sent>>
    BY <1>4 DEF IdentityIssues, At, external
  <2>2. call[t] \in Calls /\ call[t].assertion \in Assertions \cup {0} /\ clock + Lifetime \in Nat
        /\ issued \in Nat /\ cache.token <= issued /\ cache.token \in Nat
    BY FederationAssumption DEF TypeOK, Calls, TokenInv
  <2>3. next \in Calls
    BY <2>2 DEF Calls, Refusals
  <2>4. /\ next.at = "await" /\ next.now = call[t].now /\ next.current = call[t].current
        /\ next.reply.token = issued + 1 /\ next.reply.code = "none"
    BY <2>1, <2>2 DEF Calls
  <2>5. lock = t /\ call[t].now <= clock /\ call[t].current <= cache.token
    BY <2>1 DEF LockInv, TokenInv
  <2>6. next.assertion \in Assertions /\ call[t].assertion \in Assertions
    BY <2>1, <2>2 DEF LockInv, Calls
  <2> HIDE DEF next
  <2>7. consumed' \subseteq Assertions /\ issued' \in Nat /\ issued' >= issued
        /\ failure' \in [Threads -> Codes \cup {"none"}]
    BY <2>1, <2>2, <2>6 DEF TypeOK
  <2>8. UNCHANGED <<external, used, cache, held, sent>>
    BY <2>1 DEF external
  <2>9. cache.token < issued + 1 /\ issued + 1 <= issued'
    BY <2>1, <2>2
  <2> QED BY <2>1, <2>3, <2>4, <2>5, <2>6, <2>7, <2>8, <2>9, MoveStep
<1>5. ASSUME NEW t \in Threads, IdentityRefuses(t) PROVE FederationInv'
  <2>1. PICK code \in Refusals : Go(t, [call[t] EXCEPT !.reply.code = code])
    BY <1>5 DEF IdentityRefuses
  <2> DEFINE next == [call[t] EXCEPT !.reply.code = code]
  <2>2. call[t] \in Calls /\ call[t].at = "await" /\ call[t].reply = NoReply
    BY <1>5 DEF IdentityRefuses, At, TypeOK
  <2>3. next \in Calls
    BY <2>2 DEF Calls
  <2>4. /\ next.at = "await" /\ next.now = call[t].now /\ next.current = call[t].current
        /\ next.reply.token = 0 /\ next.assertion \in Assertions
    BY <2>2 DEF Calls, NoReply, LockInv
  <2>5. lock = t /\ call[t].now <= clock /\ call[t].current <= cache.token
    BY <2>2 DEF LockInv, TokenInv
  <2>6. UNCHANGED <<external, identity, used, cache, lock, held, failure, sent>>
    BY <1>5 DEF IdentityRefuses
  <2> HIDE DEF next
  <2>7. consumed' \subseteq Assertions /\ issued' \in Nat /\ issued' >= issued
        /\ failure' \in [Threads -> Codes \cup {"none"}]
    BY <2>6 DEF TypeOK, identity
  <2> QED BY <2>1, <2>3, <2>4, <2>5, <2>6, <2>7, MoveStep DEF next
<1>6. ASSUME NEW t \in Threads, Request(t) \/ Rejected(t) PROVE FederationInv'
  <2>1. PICK next \in Calls :
           /\ Go(t, next) /\ next.at = "waiting" /\ next.current \in {0, held[t]}
           /\ next.reply.token = 0
    <3>1. CASE Request(t)
      <4> DEFINE c == [Idle EXCEPT !.at = "waiting"]
      <4>1. c \in Calls /\ c.at = "waiting" /\ c.current = 0 /\ c.reply.token = 0
        BY IdleTyped DEF Calls, Idle, NoReply
      <4>2. Go(t, c)
        BY <3>1 DEF Request
      <4> HIDE DEF c
      <4> QED BY <4>1, <4>2
    <3>2. CASE Rejected(t)
      <4> DEFINE c == [Idle EXCEPT !.at = "waiting", !.current = held[t]]
      <4>1. held[t] \in Nat
        BY DEF TypeOK
      <4>2. c \in Calls /\ c.at = "waiting" /\ c.current = held[t] /\ c.reply.token = 0
        BY <4>1, IdleTyped DEF Calls, Idle, NoReply
      <4>3. Go(t, c)
        BY <3>2 DEF Rejected
      <4> HIDE DEF c
      <4> QED BY <4>2, <4>3
    <3> QED BY <1>6, <3>1, <3>2
  <2>2. next.current <= cache.token
    BY <2>1 DEF TypeOK, TokenInv
  <2>3. /\ UNCHANGED <<external, identity, used, cache, lock, held, sent>>
        /\ failure' = [failure EXCEPT ![t] = "none"]
    BY <1>6 DEF Request, Rejected
  <2>4. consumed' \subseteq Assertions /\ issued' \in Nat /\ issued' >= issued
        /\ failure' \in [Threads -> Codes \cup {"none"}]
    BY <2>3 DEF TypeOK, identity
  <2> QED BY <2>1, <2>2, <2>3, <2>4, MoveStep
<1>7. ASSUME NEW t \in Threads, ReturnCached(t) PROVE FederationInv'
  BY <1>7, EndStep DEF ReturnCached, MayAcquire
<1>8. ASSUME NEW t \in Threads, BeginExchange(t) PROVE FederationInv'
  <2> DEFINE next == [call[t] EXCEPT !.at = "source", !.now = clock]
  <2>1. /\ call[t] \in Calls /\ call[t].at = "waiting" /\ lock = NoThread /\ lock' = t
        /\ Go(t, next)
        /\ UNCHANGED <<external, identity, used, cache, held, failure, sent>>
    BY <1>8 DEF BeginExchange, MayAcquire, At, TypeOK
  <2>2. next \in Calls
    BY <2>1 DEF Calls, TypeOK
  <2>3. /\ next.at = "source" /\ next.now = clock /\ next.current = call[t].current
        /\ next.reply = call[t].reply
    BY <2>1 DEF Calls
  <2>4. /\ call[t].current <= cache.token /\ call[t].reply.token = 0
        /\ clock \in Nat
    BY <2>1 DEF TokenInv, TypeOK
  <2> HIDE DEF next
  <2>5. consumed' \subseteq Assertions /\ issued' \in Nat /\ issued' >= issued
        /\ failure' \in [Threads -> Codes \cup {"none"}]
    BY <2>1 DEF TypeOK, identity
  <2> QED BY <2>1, <2>2, <2>3, <2>4, <2>5, MoveStep
<1>9. ASSUME NEW t \in Threads,
             SourceFails(t) \/ SourceNotRotated(t) \/ ReceiveInvalid(t)
      PROVE  FederationInv'
  <2>1. lock = t /\ UNCHANGED <<external, identity, used, cache, sent>>
    BY <1>9 DEF SourceFails, SourceNotRotated, ReceiveInvalid, LockInv, At
  <2>2. PICK code \in Codes : Fail(t, code)
    <3>1. CASE SourceFails(t)
      BY <3>1 DEF SourceFails, Codes
    <3>2. CASE SourceNotRotated(t)
      <4>1. call[t].failed \in Codes \cup {"none"}
        BY DEF TypeOK, Calls, Retried, Codes, Refusals
      <4> QED BY <3>2, <4>1 DEF SourceNotRotated, Codes
    <3>3. CASE ReceiveInvalid(t)
      BY <3>3 DEF ReceiveInvalid, Codes
    <3> QED BY <1>9, <3>1, <3>2, <3>3
  <2> QED BY <2>1, <2>2, FailStep
<1>10. ASSUME NEW t \in Threads, ReceiveRefusal(t) \/ TransportFails(t)
       PROVE  FederationInv'
  <2>1. /\ At(t, "await") /\ lock = t
        /\ UNCHANGED <<external, identity, used, cache, sent>>
    BY <1>10 DEF ReceiveRefusal, TransportFails, LockInv, At
  <2>2. CASE \E code \in Retried : Retry(t, code)
    BY <2>1, <2>2, RetryStep
  <2>3. CASE \E code \in Codes : Fail(t, code)
    BY <2>1, <2>3, FailStep
  <2>4. call[t].reply.code \in Codes \cup {"none"}
    BY DEF TypeOK, Calls, Codes
  <2> QED BY <1>10, <2>2, <2>3, <2>4 DEF ReceiveRefusal, TransportFails, Retried
<1>11. ASSUME NEW t \in Threads, SendAssertion(t) PROVE FederationInv'
  <2> DEFINE next == [call[t] EXCEPT !.at = "await", !.assertion = offered]
  <2>1. /\ call[t] \in Calls /\ call[t].at = "source" /\ ~Known(offered)
        /\ used' = Remember(offered)
        /\ sent' = [sent EXCEPT ![offered] = IF @ < 2 THEN @ + 1 ELSE @]
        /\ Go(t, next)
        /\ UNCHANGED <<external, identity, cache, lock, held, failure>>
    BY <1>11 DEF SendAssertion, At, TypeOK
  <2>2. next \in Calls
    BY <2>1 DEF Calls, TypeOK
  <2>3. /\ next.at = "await" /\ next.now = call[t].now /\ next.current = call[t].current
        /\ next.reply = call[t].reply /\ next.assertion = offered
    BY <2>1 DEF Calls
  <2>4. lock = t /\ call[t].now <= clock /\ call[t].reply.token = 0
    BY <2>1 DEF LockInv, TokenInv
  <2>5. /\ call' \in [Threads -> Calls] /\ call'[t] = next
        /\ \A u \in Threads \ {t} : call'[u] = call[u]
    BY <2>1, <2>2, GoFacts DEF TypeOK
  <2> HIDE DEF next
  <2>6. /\ used' \in Seq(Assertions) /\ Len(used') \in 1..Remembered
        /\ used'[Len(used')] = offered
    BY <2>1, RememberFacts DEF TypeOK
  <2>7. sent' \in [Assertions -> 0..2]
    BY <2>1 DEF TypeOK
  <2>8. TypeOK'
    BY <2>1, <2>5, <2>6, <2>7, FederationAssumption DEF TypeOK, external, identity
  <2>9. LockInv'
    BY <2>1, <2>3, <2>4, <2>5 DEF LockInv, TypeOK, external
  <2>10. TokenInv'
    BY <2>1, <2>3, <2>4, <2>5 DEF TokenInv, identity
  <2>11. ASSUME ~SourceRepeats PROVE ForwardInv'
    <3>1. /\ sent[offered] = 0 /\ offered \in Assertions
          /\ \A a \in Assertions : a \in Nat /\ sent[a] <= 1
      BY <2>1, <2>11, FederationAssumption
      DEF ForwardInv, TypeOK, Assertions
    <3>2. sent'[offered] = 1 /\ \A a \in Assertions \ {offered} : sent'[a] = sent[a]
      BY <2>1, <3>1 DEF TypeOK
    <3>3. Known(offered)'
      BY <2>1, <2>6 DEF Known, external
    <3>4. offered' = offered
      BY <2>1 DEF external
    <3> QED BY <2>11, <3>1, <3>2, <3>3, <3>4 DEF ForwardInv
  <2>12. MemoryInv'
    BY <2>1, MemoryGrows DEF external
  <2> QED BY <2>8, <2>9, <2>10, <2>11, <2>12
<1>12. ASSUME NEW t \in Threads, ReceiveToken(t) PROVE FederationInv'
  <2> DEFINE token == call[t].reply.token
  <2>1. /\ call[t].at = "await" /\ token # 0 /\ Return(t, token)
        /\ UNCHANGED <<external, identity, used, sent>>
        /\ cache'.token = token
    BY <1>12 DEF ReceiveToken, At
  <2>2. /\ token \in Nat /\ cache.token \in Nat /\ issued \in Nat
        /\ cache.token < token /\ token <= issued /\ lock = t
    BY <2>1 DEF TypeOK, Calls, TokenInv, LockInv
  <2>3. cache' \in [token : Nat, refreshAt : Nat, expiresAt : Nat]
    <3>1. call[t].reply.expiresAt \in Nat /\ clock \in Nat /\ RefreshMargin \in Nat
      BY FederationAssumption DEF TypeOK, Calls
    <3> DEFINE lifetime == Larger(0, call[t].reply.expiresAt - clock)
    <3>3. lifetime \in Nat
      BY <3>1 DEF Larger
    <3> HIDE DEF lifetime
    <3>4. Half(lifetime) \in Nat
      BY <3>3 DEF Half
    <3>5. Larger(lifetime - RefreshMargin, Half(lifetime)) \in Nat
      BY <3>1, <3>3, <3>4 DEF Larger
    <3> QED BY <1>12, <2>2, <3>1, <3>3, <3>5 DEF ReceiveToken, lifetime
  <2>4. /\ lock' = NoThread /\ held' = [held EXCEPT ![t] = token] /\ failure' = failure
        /\ call' \in [Threads -> Calls] /\ call'[t] = Idle
        /\ \A u \in Threads \ {t} : call'[u] = call[u]
    BY <2>1, GoFacts, IdleTyped DEF Return, Release, TypeOK
  <2>5. TypeOK'
    BY <2>1, <2>2, <2>3, <2>4 DEF TypeOK, external, identity
  <2>6. LockInv'
    BY <2>1, <2>2, <2>4, FederationAssumption DEF LockInv, Idle, external
  <2>7. ASSUME NEW u \in Threads
        PROVE  /\ held'[u] <= token /\ call'[u].current <= token
               /\ call'[u].reply.token = 0
    <3>1. Idle.current = 0 /\ Idle.reply.token = 0
      BY DEF Idle, NoReply
    <3>2. CASE u = t
      BY <2>2, <2>4, <3>1, <3>2 DEF TypeOK
    <3>3. CASE u # t
      <4>1. /\ held'[u] = held[u] /\ call'[u] = call[u] /\ held[u] \in Nat
            /\ call[u].current \in Nat
        BY <2>4, <3>3 DEF TypeOK, Calls
      <4>2. call[u].reply.token = 0
        BY <2>2, <3>3 DEF TokenInv, LockInv
      <4> QED BY <2>2, <4>1, <4>2 DEF TokenInv
    <3> QED BY <3>2, <3>3
  <2>8. TokenInv'
    BY <2>1, <2>2, <2>7 DEF TokenInv, identity
  <2>9. MemoryInv' /\ (~SourceRepeats => ForwardInv')
    BY <2>1, MemoryStays DEF ForwardInv, Known, external
  <2> QED BY <2>5, <2>6, <2>8, <2>9
<1>13. CASE UNCHANGED vars
  BY <1>13, MemoryStays DEF vars, external, identity, TypeOK, LockInv, TokenInv,
                            ForwardInv, Known
<1> QED
  BY <1>1, <1>2, <1>3, <1>4, <1>5, <1>6, <1>7, <1>8, <1>9, <1>10, <1>11, <1>12, <1>13
  DEF Next, Step

----------------------------------------------------------------------------
(* Every reachable state satisfies the invariant. *)
THEOREM FederationInvariant == Spec => []FederationInv
<1>1. Init => FederationInv
  BY FederationInit
<1>2. FederationInv /\ [Next]_vars => FederationInv'
  BY FederationStep
<1> QED BY <1>1, <1>2, PTL DEF Spec

(* The types of the provider's state hold for any threads and bounds. *)
THEOREM FederationTypes == Spec => []TypeOK
<1>1. FederationInv => TypeOK
  BY DEF FederationInv
<1> QED BY <1>1, FederationInvariant, PTL

(* No assertion leaves twice before more have left than the memory holds,   *)
(* whatever the source offers and however many threads and attempts there   *)
(* are; if the source rotates forward, none ever does.                      *)
THEOREM SentOnce == Spec => []AssertionSentOnce
<1>1. FederationInv => AssertionSentOnce
  <2> SUFFICES ASSUME FederationInv, NEW a \in Assertions, sent[a] > 1
               PROVE  SourceRepeats /\ Cardinality(Sent) > Remembered
    BY DEF AssertionSentOnce
  <2> USE DEF FederationInv
  <2>1. sent[a] \in 0..2 /\ a \in Sent
    BY DEF TypeOK, Sent
  <2>2. SourceRepeats
    BY <2>1, FederationAssumption DEF ForwardInv
  <2>3. ~(Cardinality(Sent) <= Remembered)
    BY <2>1 DEF MemoryInv
  <2> QED BY <2>2, <2>3, SentIsFinite, FederationAssumption
<1> QED BY <1>1, FederationInvariant, PTL

----------------------------------------------------------------------------
(* Who is given a token: the thread whose call returns, never one whose     *)
(* call goes on or raises.                                                  *)
LEMMA NotGivenByGo ==
    ASSUME TypeOK, NEW t \in Threads, NEW u \in Threads, NEW c, Go(u, c), c.at # "idle"
    PROVE  ~Given(t)
<1>1. call'[t] = IF t = u THEN c ELSE call[t]
  BY DEF TypeOK, Go
<1> QED BY <1>1 DEF Given

LEMMA NotGivenByRaise ==
    ASSUME TypeOK, NEW t \in Threads, NEW u \in Threads, NEW code, Raise(u, code)
    PROVE  ~Given(t)
<1>1. /\ t # u => call'[t] = call[t]
      /\ t = u => held'[t] = 0
  BY DEF TypeOK, Raise, Go
<1> QED BY <1>1 DEF Given

LEMMA GivenByReturn ==
    ASSUME TypeOK, NEW t \in Threads, NEW u \in Threads, NEW token, Return(u, token),
           Given(t)
    PROVE  t = u /\ held'[t] = token
<1>1. /\ t # u => call'[t] = call[t]
      /\ t = u => held'[t] = token
  BY DEF TypeOK, Return, Go
<1> QED BY <1>1 DEF Given

LEMMA GivenByFail ==
    ASSUME TypeOK, NEW t \in Threads, NEW u \in Threads, NEW code, Fail(u, code), Given(t)
    PROVE  held'[t] = cache.token /\ ~Refreshing(t)
  BY NotGivenByRaise, GivenByReturn DEF Fail, MayKeep

LEMMA GivenByRetry ==
    ASSUME TypeOK, NEW t \in Threads, NEW u \in Threads, NEW code, Retry(u, code), Given(t)
    PROVE  held'[t] = cache.token /\ ~Refreshing(t)
<1>1. CASE call[u].attempt + 1 < MaxAttempts
  <2> DEFINE again == [call[u] EXCEPT !.at = "source", !.attempt = @ + 1,
                         !.failed = code, !.assertion = 0, !.reply = NoReply]
  <2>1. Go(u, again) /\ again.at = "source"
    BY <1>1 DEF Retry, TypeOK, Calls
  <2> HIDE DEF again
  <2> QED BY <2>1, NotGivenByGo
<1>2. CASE ~(call[u].attempt + 1 < MaxAttempts)
  BY <1>2, GivenByFail DEF Retry
<1> QED BY <1>1, <1>2

(* A token handed out is the cached one, which is not the rejected one, or  *)
(* the one Identity answered this call with.                                *)
LEMMA GivenToken ==
    ASSUME TypeOK, [Next]_vars, NEW t \in Threads, Given(t)
    PROVE  \/ held'[t] = cache.token /\ (Refreshing(t) => cache.token # call[t].current)
           \/ held'[t] = call[t].reply.token /\ call[t].reply.token # 0
<1>1. CASE UNCHANGED call
  BY <1>1 DEF Given
<1>2. ASSUME NEW u \in Threads,
             \/ IdentityIssues(u) \/ IdentityRefuses(u) \/ Request(u) \/ Rejected(u)
             \/ BeginExchange(u) \/ SendAssertion(u)
      PROVE  FALSE
  <2>1. call[u] \in Calls
    BY DEF TypeOK
  <2>2. PICK c : Go(u, c) /\ c.at # "idle"
    <3>1. CASE IdentityIssues(u)
      <4> DEFINE c == [call[u] EXCEPT !.reply =
                 [token |-> issued', expiresAt |-> clock + Lifetime, code |-> "none"]]
      <4>1. Go(u, c) /\ c.at # "idle"
        BY <2>1, <3>1 DEF IdentityIssues, At, Calls
      <4> HIDE DEF c
      <4> QED BY <4>1
    <3>2. CASE IdentityRefuses(u)
      <4>1. PICK code \in Refusals : Go(u, [call[u] EXCEPT !.reply.code = code])
        BY <3>2 DEF IdentityRefuses
      <4> DEFINE c == [call[u] EXCEPT !.reply.code = code]
      <4>2. c.at # "idle"
        BY <2>1, <3>2 DEF IdentityRefuses, At, Calls
      <4> HIDE DEF c
      <4> QED BY <4>1, <4>2 DEF c
    <3>3. CASE Request(u)
      <4> DEFINE c == [Idle EXCEPT !.at = "waiting"]
      <4>1. Go(u, c) /\ c.at # "idle"
        BY <2>1, <3>3 DEF Request, At, Calls, Idle
      <4> HIDE DEF c
      <4> QED BY <4>1
    <3>4. CASE Rejected(u)
      <4> DEFINE c == [Idle EXCEPT !.at = "waiting", !.current = held[u]]
      <4>1. Go(u, c) /\ c.at # "idle"
        BY <2>1, <3>4 DEF Rejected, At, Calls, Idle
      <4> HIDE DEF c
      <4> QED BY <4>1
    <3>5. CASE BeginExchange(u)
      <4> DEFINE c == [call[u] EXCEPT !.at = "source", !.now = clock]
      <4>1. Go(u, c)
        BY <3>5 DEF BeginExchange
      <4>2. c.at # "idle"
        BY <2>1 DEF Calls
      <4> HIDE DEF c
      <4> QED BY <4>1, <4>2
    <3>6. CASE SendAssertion(u)
      <4> DEFINE c == [call[u] EXCEPT !.at = "await", !.assertion = offered]
      <4>1. Go(u, c)
        BY <3>6 DEF SendAssertion
      <4>2. c.at # "idle"
        BY <2>1 DEF Calls
      <4> HIDE DEF c
      <4> QED BY <4>1, <4>2
    <3> QED BY <1>2, <3>1, <3>2, <3>3, <3>4, <3>5, <3>6
  <2> QED BY <2>2, NotGivenByGo
<1>3. ASSUME NEW u \in Threads, ReturnCached(u)
      PROVE  held'[t] = cache.token /\ cache.token # call[t].current
  BY <1>3, GivenByReturn DEF ReturnCached, Usable
<1>4. ASSUME NEW u \in Threads, ReceiveToken(u)
      PROVE  held'[t] = call[t].reply.token /\ call[t].reply.token # 0
  BY <1>4, GivenByReturn DEF ReceiveToken
<1>5. ASSUME NEW u \in Threads,
             \/ SourceFails(u) \/ SourceNotRotated(u) \/ ReceiveInvalid(u)
             \/ ReceiveRefusal(u) \/ TransportFails(u)
      PROVE  held'[t] = cache.token /\ ~Refreshing(t)
  <2>1. PICK code : Fail(u, code) \/ Retry(u, code)
    BY <1>5 DEF SourceFails, SourceNotRotated, ReceiveInvalid, ReceiveRefusal,
                TransportFails
  <2> QED BY <2>1, GivenByFail, GivenByRetry
<1>6. Tick \/ Rotate \/ ConsumedElsewhere \/ UNCHANGED vars => UNCHANGED call
  BY DEF Tick, Rotate, ConsumedElsewhere, vars
<1> QED BY <1>1, <1>2, <1>3, <1>4, <1>5, <1>6 DEF Next, Step

(* No thread is handed an older token than another had before, for any      *)
(* number of threads.                                                       *)
THEOREM NewerTokens == Spec => TokensNeverGoBack
<1>1. ASSUME FederationInv, [Next]_vars
      PROVE  \A t, u \in Threads : Given(t) => held'[t] >= held[u]
  <2> SUFFICES ASSUME NEW t \in Threads, NEW u \in Threads, Given(t)
               PROVE  held'[t] >= held[u]
    OBVIOUS
  <2>1. /\ held[u] \in Nat /\ cache.token \in Nat /\ held[u] <= cache.token
        /\ call[t].reply.token \in Nat
        /\ call[t].reply.token # 0 => cache.token < call[t].reply.token
    BY <1>1 DEF FederationInv, TypeOK, TokenInv, Calls
  <2>2. \/ held'[t] = cache.token
        \/ held'[t] = call[t].reply.token /\ call[t].reply.token # 0
    BY <1>1, GivenToken DEF FederationInv
  <2> QED BY <2>1, <2>2
<1> QED BY <1>1, FederationInvariant, PTL DEF Spec, TokensNeverGoBack

----------------------------------------------------------------------------
(* The refinement of NewestToken.  A call that goes on is a stuttering      *)
(* step, one that ends is an answer or a refusal.                           *)
LEMMA CallGoesOn ==
    ASSUME TypeOK, NEW t \in Threads, NEW c \in Calls, Go(t, c), call[t].at # "idle",
           c.at # "idle", c.current = call[t].current, UNCHANGED <<cache, held>>
    PROVE  UNCHANGED Promise!vars
<1>1. /\ call' \in [Threads -> Calls]
      /\ \A u \in Threads : call'[u] = IF u = t THEN c ELSE call[u]
  BY GoFacts DEF TypeOK
<1>2. \A u \in Threads : call'[u].current = call[u].current
  BY <1>1
<1>3. \A u \in Threads : call'[u].at # "idle" <=> call[u].at # "idle"
  BY <1>1
<1>4. {u \in Threads : call'[u].at # "idle"} = {u \in Threads : call[u].at # "idle"}
  BY <1>3
<1>5. [u \in Threads |-> call'[u].current] = [u \in Threads |-> call[u].current]
  BY <1>2
<1> QED BY <1>4, <1>5 DEF Promise!vars

LEMMA CallBegins ==
    ASSUME TypeOK, NEW t \in Threads, NEW c \in Calls, Go(t, c), call[t].at = "idle",
           c.at = "waiting", c.current \in {0, held[t]}, UNCHANGED <<cache, held>>
    PROVE  Promise!Ask(t)
<1>1. /\ call' \in [Threads -> Calls]
      /\ \A u \in Threads : call'[u] = IF u = t THEN c ELSE call[u]
  BY GoFacts DEF TypeOK
<1>2. {u \in Threads : call'[u].at # "idle"} = {u \in Threads : call[u].at # "idle"} \cup {t}
  BY <1>1
<1>3. [u \in Threads |-> call'[u].current] =
        [[u \in Threads |-> call[u].current] EXCEPT ![t] = c.current]
  BY <1>1
<1>4. t \notin {u \in Threads : call[u].at # "idle"}
  OBVIOUS
<1> QED BY <1>2, <1>3, <1>4 DEF Promise!Ask

LEMMA CallIsOver ==
    ASSUME TypeOK, NEW t \in Threads, Go(t, Idle), call[t].at # "idle"
    PROVE  /\ t \in {u \in Threads : call[u].at # "idle"}
           /\ {u \in Threads : call'[u].at # "idle"} =
                {u \in Threads : call[u].at # "idle"} \ {t}
           /\ [u \in Threads |-> call'[u].current] =
                [[u \in Threads |-> call[u].current] EXCEPT ![t] = 0]
<1>1. /\ call' \in [Threads -> Calls]
      /\ \A u \in Threads : call'[u] = IF u = t THEN Idle ELSE call[u]
  BY IdleTyped, GoFacts DEF TypeOK
<1>2. Idle.at = "idle" /\ Idle.current = 0
  BY DEF Idle
<1> QED BY <1>1, <1>2

LEMMA ReturnAnswers ==
    ASSUME TypeOK, NEW t \in Threads, call[t].at # "idle",
           NEW token \in Nat, Return(t, token), cache'.token = token,
           token >= cache.token, token > call[t].current
    PROVE  Promise!Answer(t)
<1>1. Go(t, Idle) /\ held' = [held EXCEPT ![t] = token]
  BY DEF Return
<1>2. [u \in Threads |-> call[u].current][t] = call[t].current
  OBVIOUS
<1> QED BY <1>1, <1>2, CallIsOver DEF Promise!Answer

LEMMA RaiseRefuses ==
    ASSUME TypeOK, NEW t \in Threads, call[t].at # "idle",
           NEW code, Raise(t, code), UNCHANGED cache
    PROVE  Promise!Refuse(t)
<1>1. Go(t, Idle) /\ held' = [held EXCEPT ![t] = 0]
  BY DEF Raise
<1> QED BY <1>1, CallIsOver DEF Promise!Refuse

LEMMA FailRefines ==
    ASSUME TypeOK, NEW t \in Threads, call[t].at # "idle",
           NEW code, Fail(t, code), UNCHANGED cache
    PROVE  Promise!Answer(t) \/ Promise!Refuse(t)
<1>1. CASE MayKeep(t, code) /\ Return(t, cache.token)
  <2>1. cache.token \in Nat /\ cache.token # 0 /\ call[t].current = 0
    BY <1>1 DEF MayKeep, Refreshing, TypeOK
  <2>2. cache'.token = cache.token /\ cache.token >= cache.token
        /\ cache.token > call[t].current
    BY <2>1
  <2> QED BY <1>1, <2>1, <2>2, ReturnAnswers
<1>2. CASE Raise(t, code)
  BY <1>2, RaiseRefuses
<1> QED BY <1>1, <1>2 DEF Fail

LEMMA RetryRefines ==
    ASSUME TypeOK, NEW t \in Threads, call[t].at # "idle",
           NEW code \in Retried, Retry(t, code), UNCHANGED cache
    PROVE  Promise!Answer(t) \/ Promise!Refuse(t) \/ UNCHANGED Promise!vars
<1>1. CASE call[t].attempt + 1 < MaxAttempts
  <2> DEFINE c == [call[t] EXCEPT !.at = "source", !.attempt = @ + 1,
                     !.failed = code, !.assertion = 0, !.reply = NoReply]
  <2>1. call[t] \in Calls /\ MaxAttempts \in Nat
    BY FederationAssumption DEF TypeOK
  <2>a. call[t].attempt \in Nat /\ call[t].attempt + 1 \in 0..(MaxAttempts - 1)
    BY <1>1, <2>1 DEF Calls
  <2>b. NoReply \in [token : Nat, expiresAt : Nat, code : Refusals \cup {"none"}]
    BY DEF NoReply
  <2>2. c.at # "idle" /\ c.current = call[t].current /\ c \in Calls
    BY <2>1, <2>a, <2>b DEF Calls
  <2>3. Go(t, c) /\ UNCHANGED <<cache, held>>
    BY <1>1 DEF Retry
  <2> HIDE DEF c
  <2> QED BY <2>2, <2>3, CallGoesOn
<1>2. CASE ~(call[t].attempt + 1 < MaxAttempts)
  BY <1>2, FailRefines DEF Retry
<1> QED BY <1>1, <1>2

(* Every step of the provider is one of NewestToken or a stuttering step. *)
LEMMA StepRefines ==
    ASSUME FederationInv, [Next]_vars
    PROVE  [Promise!Next]_(Promise!vars)
<1>0. TypeOK /\ TokenInv
  BY DEF FederationInv
<1>a. \A t \in Threads :
         /\ call[t] \in Calls /\ call[t].current \in Nat /\ cache.token \in Nat
         /\ call[t].current <= cache.token
  BY <1>0 DEF TypeOK, TokenInv, Calls
<1>1. CASE Tick \/ Rotate \/ ConsumedElsewhere \/ UNCHANGED vars
  BY <1>1 DEF Tick, Rotate, ConsumedElsewhere, vars, Promise!vars
<1>2. ASSUME NEW t \in Threads, IdentityIssues(t) \/ IdentityRefuses(t)
      PROVE  UNCHANGED Promise!vars
  <2>1. PICK r \in [token : Nat, expiresAt : Nat, code : Refusals \cup {"none"}] :
           Go(t, [call[t] EXCEPT !.reply = r])
    <3>1. CASE IdentityIssues(t)
      <4> DEFINE r == [token |-> issued', expiresAt |-> clock + Lifetime, code |-> "none"]
      <4>1. issued' \in Nat /\ clock + Lifetime \in Nat
        BY <1>0, <3>1, FederationAssumption DEF IdentityIssues, TypeOK
      <4>2. Go(t, [call[t] EXCEPT !.reply = r])
        BY <3>1 DEF IdentityIssues
      <4> QED BY <4>1, <4>2
    <3>2. CASE IdentityRefuses(t)
      <4>1. PICK code \in Refusals : Go(t, [call[t] EXCEPT !.reply.code = code])
        BY <3>2 DEF IdentityRefuses
      <4>2. [call[t] EXCEPT !.reply.code = code] =
              [call[t] EXCEPT !.reply = [call[t].reply EXCEPT !.code = code]]
        OBVIOUS
      <4>3. [call[t].reply EXCEPT !.code = code]
              \in [token : Nat, expiresAt : Nat, code : Refusals \cup {"none"}]
        BY <1>a DEF Calls
      <4> QED BY <4>1, <4>2, <4>3
    <3> QED BY <1>2, <3>1, <3>2
  <2>2. call[t].at = "await" /\ UNCHANGED <<cache, held>>
    BY <1>2 DEF IdentityIssues, IdentityRefuses, At
  <2> DEFINE c == [call[t] EXCEPT !.reply = r]
  <2>3. c \in Calls /\ c.at = call[t].at /\ c.current = call[t].current
    BY <1>a DEF Calls
  <2>4. Go(t, c)
    BY <2>1
  <2> HIDE DEF c
  <2> QED BY <1>0, <2>2, <2>3, <2>4, CallGoesOn
<1>3. ASSUME NEW t \in Threads, Request(t) \/ Rejected(t)
      PROVE  Promise!Ask(t)
  <2>1. PICK c \in Calls : Go(t, c) /\ c.at = "waiting" /\ c.current \in {0, held[t]}
    <3>1. CASE Request(t)
      <4> DEFINE c == [Idle EXCEPT !.at = "waiting"]
      <4>1. c \in Calls /\ c.at = "waiting" /\ c.current = 0
        BY IdleTyped DEF Idle, Calls
      <4>2. Go(t, c)
        BY <3>1 DEF Request
      <4> HIDE DEF c
      <4> QED BY <4>1, <4>2
    <3>2. CASE Rejected(t)
      <4> DEFINE c == [Idle EXCEPT !.at = "waiting", !.current = held[t]]
      <4>1. held[t] \in Nat
        BY <1>0 DEF TypeOK
      <4>2. c \in Calls /\ c.at = "waiting" /\ c.current = held[t]
        BY <4>1, IdleTyped DEF Idle, Calls
      <4>3. Go(t, c)
        BY <3>2 DEF Rejected
      <4> HIDE DEF c
      <4> QED BY <4>2, <4>3
    <3> QED BY <1>3, <3>1, <3>2
  <2>2. call[t].at = "idle" /\ UNCHANGED <<cache, held>>
    BY <1>3 DEF Request, Rejected, At
  <2> QED BY <1>0, <2>1, <2>2, CallBegins
<1>4. ASSUME NEW t \in Threads, ReturnCached(t) PROVE Promise!Answer(t)
  <2>1. /\ call[t].at # "idle" /\ cache.token # 0 /\ cache.token # call[t].current
        /\ Return(t, cache.token) /\ cache' = cache
    BY <1>4 DEF ReturnCached, MayAcquire, Usable, At
  <2>2. cache.token > call[t].current /\ cache.token >= cache.token
    BY <1>a, <2>1
  <2> QED BY <1>0, <1>a, <2>1, <2>2, ReturnAnswers
<1>5. ASSUME NEW t \in Threads, BeginExchange(t) PROVE UNCHANGED Promise!vars
  <2> DEFINE c == [call[t] EXCEPT !.at = "source", !.now = clock]
  <2>1. /\ call[t].at # "idle" /\ Go(t, c) /\ UNCHANGED <<cache, held>>
    BY <1>5 DEF BeginExchange, MayAcquire, At
  <2>2. c \in Calls /\ c.at # "idle" /\ c.current = call[t].current
    BY <1>0, <1>a DEF Calls, TypeOK
  <2> HIDE DEF c
  <2> QED BY <1>0, <2>1, <2>2, CallGoesOn
<1>6. ASSUME NEW t \in Threads, Step(t)
      PROVE  Promise!Answer(t) \/ Promise!Refuse(t) \/ UNCHANGED Promise!vars
  <2>1. CASE \E code : Fail(t, code) /\ UNCHANGED cache /\ call[t].at # "idle"
    BY <1>0, <2>1, FailRefines
  <2>2. CASE \E code \in Retried :
                Retry(t, code) /\ UNCHANGED cache /\ call[t].at # "idle"
    BY <1>0, <2>2, RetryRefines
  <2>3. CASE SendAssertion(t)
    <3> DEFINE c == [call[t] EXCEPT !.at = "await", !.assertion = offered]
    <3>1. call[t].at # "idle" /\ Go(t, c) /\ UNCHANGED <<cache, held>>
      BY <2>3 DEF SendAssertion, At
    <3>2. c \in Calls /\ c.at # "idle" /\ c.current = call[t].current
      BY <1>0, <1>a DEF Calls, TypeOK
    <3> HIDE DEF c
    <3> QED BY <1>0, <3>1, <3>2, CallGoesOn
  <2>4. CASE ReceiveToken(t)
    <3> DEFINE token == call[t].reply.token
    <3>1. /\ call[t].at # "idle" /\ Return(t, token) /\ cache'.token = token
          /\ token # 0
      BY <2>4 DEF ReceiveToken, At
    <3>2. token \in Nat /\ cache.token < token
      BY <1>0, <1>a, <3>1 DEF TokenInv, Calls
    <3>3. token >= cache.token /\ token > call[t].current
      BY <1>a, <3>2
    <3> HIDE DEF token
    <3> QED BY <1>0, <3>1, <3>2, <3>3, ReturnAnswers
  <2>5. CASE SourceFails(t) \/ SourceNotRotated(t) \/ ReceiveInvalid(t)
    BY <2>1, <2>5 DEF SourceFails, SourceNotRotated, ReceiveInvalid, At
  <2>6. CASE ReceiveRefusal(t)
    BY <2>1, <2>2, <2>6 DEF ReceiveRefusal, At
  <2>7. CASE TransportFails(t)
    BY <2>2, <2>7 DEF TransportFails, At, Retried
  <2> QED BY <1>6, <2>3, <2>4, <2>5, <2>6, <2>7 DEF Step
<1> QED BY <1>1, <1>2, <1>3, <1>4, <1>5, <1>6 DEF Next, Promise!Next

(* The provider's threads, whatever its exchanges and its clock do, see one *)
(* newest token, and refresh_credential always replaces the rejected one.   *)
THEOREM ProviderRefinement == Spec => Implements
<1>1. Init => Promise!Init
  <2> SUFFICES ASSUME Init PROVE Promise!Init
    OBVIOUS
  <2>1. \A t \in Threads : call[t] = Idle
    BY DEF Init
  <2>2. Idle.at = "idle" /\ Idle.current = 0
    BY DEF Idle
  <2>3. {t \in Threads : call[t].at # "idle"} = {}
    BY <2>1, <2>2
  <2>4. [t \in Threads |-> call[t].current] = [t \in Threads |-> 0]
    BY <2>1, <2>2
  <2> QED BY <2>3, <2>4 DEF Init, Promise!Init
<1>2. FederationInv /\ [Next]_vars => [Promise!Next]_(Promise!vars)
  BY StepRefines
<1> QED
  BY <1>1, <1>2, FederationInvariant, PTL DEF Spec, Implements, Promise!Spec

----------------------------------------------------------------------------
(* A call that fails while it holds the lock raises a tolerated code only   *)
(* if there is no unexpired token to keep.                                  *)
LEMMA FailHides ==
    ASSUME FederationInv, NEW u \in Threads, call[u].at \in {"source", "await"},
           NEW code, Fail(u, code)
    PROVE  ~Exposes(EarlyRefreshTolerated)
<1> SUFFICES ASSUME Exposes(EarlyRefreshTolerated) PROVE FALSE
  OBVIOUS
<1>1. PICK t \in Threads :
         /\ failure'[t] # failure[t] /\ failure'[t] \in EarlyRefreshTolerated
         /\ ~Refreshing(t) /\ cache.token # 0 /\ clock < cache.expiresAt
  BY DEF Exposes
<1>2. failure \in [Threads -> Codes \cup {"none"}] /\ TypeOK
  BY DEF FederationInv, TypeOK
<1>3. ~MayKeep(u, code) /\ t = u /\ failure'[t] = code
  BY <1>1, <1>2 DEF Fail, Return, Raise
<1>4. /\ call[u].now \in Nat /\ clock \in Nat /\ cache.expiresAt \in Nat
      /\ call[u].now <= clock
  BY DEF FederationInv, TypeOK, Calls, LockInv
<1> QED BY <1>1, <1>3, <1>4 DEF MayKeep

(* While the cached token is unexpired, get_credential's callers see no     *)
(* transient failure, for any number of threads and attempts.               *)
THEOREM FailuresHidden == Spec => TransientFailuresAreHidden
<1>1. ASSUME FederationInv, [Next]_vars PROVE ~Exposes(EarlyRefreshTolerated)
  <2>1. CASE UNCHANGED failure
    BY <2>1 DEF Exposes
  <2>2. ASSUME NEW u \in Threads, Request(u) \/ Rejected(u)
        PROVE  ~Exposes(EarlyRefreshTolerated)
    <3>1. failure' = [failure EXCEPT ![u] = "none"]
      BY <2>2 DEF Request, Rejected
    <3> QED BY <1>1, <3>1 DEF Exposes, EarlyRefreshTolerated, FederationInv, TypeOK
  <2>3. ASSUME NEW u \in Threads,
               \/ SourceFails(u) \/ SourceNotRotated(u) \/ ReceiveInvalid(u)
               \/ ReceiveRefusal(u) \/ TransportFails(u)
        PROVE  ~Exposes(EarlyRefreshTolerated)
    <3>1. call[u].at \in {"source", "await"}
      BY <2>3 DEF SourceFails, SourceNotRotated, ReceiveInvalid, ReceiveRefusal,
                  TransportFails, At
    <3>2. PICK code : Fail(u, code) \/ UNCHANGED failure
      BY <2>3 DEF SourceFails, SourceNotRotated, ReceiveInvalid, ReceiveRefusal,
                  TransportFails, Retry
    <3> QED BY <1>1, <2>1, <3>1, <3>2, FailHides
  <2>4. ASSUME NEW u \in Threads,
               \/ IdentityIssues(u) \/ IdentityRefuses(u) \/ ReturnCached(u)
               \/ BeginExchange(u) \/ SendAssertion(u) \/ ReceiveToken(u)
        PROVE  UNCHANGED failure
    BY <2>4 DEF IdentityIssues, IdentityRefuses, ReturnCached, BeginExchange,
                SendAssertion, ReceiveToken, Return
  <2>5. Tick \/ Rotate \/ ConsumedElsewhere \/ UNCHANGED vars => UNCHANGED failure
    BY DEF Tick, Rotate, ConsumedElsewhere, vars
  <2> QED BY <1>1, <2>1, <2>2, <2>3, <2>4, <2>5 DEF Next, Step
<1> QED BY <1>1, FederationInvariant, PTL DEF Spec, TransientFailuresAreHidden
=============================================================================
