------------------------ MODULE ClientIdentity_proofs -----------------------
(***************************************************************************)
(* Theorems about ClientIdentity, proved with TLAPS for any credentials;    *)
(* those that need it assume that one thread uses the client.               *)
(***************************************************************************)
EXTENDS ClientIdentity, TLAPS

LEMMA OrderFacts ==
    /\ Len(Order) = 4
    /\ Order[1] = "organization" /\ Order[2] = "workspace"
    /\ Order[3] = "subject" /\ Order[4] = "scopes"
  BY DEF Order

LEMMA OrderIsClaims ==
    /\ \A i \in 1..Len(Order) : Order[i] \in Claims
    /\ \A c \in Claims : \E i \in 1..Len(Order) : Order[i] = c
    /\ \A i, j \in 1..Len(Order) : Order[i] = Order[j] => i = j
<1>1. \A i \in 1..4 : i = 1 \/ i = 2 \/ i = 3 \/ i = 4
  OBVIOUS
<1>2. 1 \in 1..4 /\ 2 \in 1..4 /\ 3 \in 1..4 /\ 4 \in 1..4
  OBVIOUS
<1> QED BY <1>1, <1>2, OrderFacts DEF Claims, Tenant

LEMMA IdleTyped == Idle \in Calls
  BY OrderFacts DEF Idle, Calls, Locations

(* The initial states satisfy the invariant. *)
LEMMA IdentityInit == Init => IdentityInv
<1> SUFFICES ASSUME Init PROVE IdentityInv
  OBVIOUS
<1>1. TypeOK
  BY IdleTyped DEF Init, TypeOK, NoCredential, Tenant, Claims
<1>2. AttemptOK(Idle) /\ CheckOK(Idle)
  BY DEF AttemptOK, CheckOK, Idle
<1>3. \A t \in Threads : call[t] = Idle
  BY DEF Init
<1> QED BY <1>1, <1>2, <1>3 DEF IdentityInv

(* A call that moves on without touching the identity keeps the invariant,  *)
(* if it is in order where it arrives.                                      *)
LEMMA MoveStep ==
    ASSUME IdentityInv, NEW t \in Threads, NEW c \in Calls, Go(t, c), UNCHANGED declared,
           AttemptOK(c), SoleThread => CheckOK(c)
    PROVE  IdentityInv'
<1>1. \A u \in Threads : call'[u] = IF u = t THEN c ELSE call[u]
  BY DEF Go, IdentityInv, TypeOK
<1>2. TypeOK'
  BY DEF Go, IdentityInv, TypeOK
<1>3. \A u \in Threads : AttemptOK(call'[u])
  BY <1>1 DEF IdentityInv
<1>4. ASSUME SoleThread PROVE \A u \in Threads : CheckOK(call[u])'
  BY <1>1, <1>4 DEF IdentityInv, CheckOK, Passes
<1> QED BY <1>2, <1>3, <1>4 DEF IdentityInv, AttemptOK

LEMMA EndStep ==
    ASSUME IdentityInv, NEW t \in Threads, End(t), UNCHANGED declared
    PROVE  IdentityInv'
<1>1. AttemptOK(Idle) /\ CheckOK(Idle)
  BY DEF AttemptOK, CheckOK, Idle
<1> QED BY <1>1, IdleTyped, MoveStep DEF End

(* What moving on to the next claim leaves of a call. *)
SameBesides(c, d) ==
    /\ c.checked = d.checked /\ c.current = d.current /\ c.again = d.again
    /\ c.executed = d.executed /\ c.reply = d.reply

LEMMA NextClaimFacts ==
    ASSUME NEW t \in Threads, call[t] \in Calls, NEW after \in Locations, NextClaim(t, after)
    PROVE  \E c \in Calls :
             /\ Go(t, c) /\ SameBesides(c, call[t])
             /\ \/ c.at = call[t].at /\ c.claim = call[t].claim + 1
                \/ c.at = after /\ c.claim = 1 /\ call[t].claim = Len(Order)
<1>1. call[t].claim \in 1..Len(Order) /\ Len(Order) = 4
  BY OrderFacts DEF Calls
<1>2. CASE call[t].claim < Len(Order)
  <2> DEFINE c == [call[t] EXCEPT !.claim = @ + 1]
  <2>1. call[t].claim + 1 \in 1..Len(Order)
    BY <1>1, <1>2
  <2>2. c \in Calls /\ SameBesides(c, call[t]) /\ c.at = call[t].at
        /\ c.claim = call[t].claim + 1
    BY <2>1 DEF Calls, SameBesides
  <2>3. Go(t, c)
    BY <1>2 DEF NextClaim
  <2> HIDE DEF c
  <2> QED BY <2>2, <2>3
<1>3. CASE ~(call[t].claim < Len(Order))
  <2> DEFINE c == [call[t] EXCEPT !.at = after, !.claim = 1]
  <2>1. c \in Calls /\ SameBesides(c, call[t]) /\ c.at = after /\ c.claim = 1
    <3>1. 1 \in 1..Len(Order)
      BY <1>1
    <3> QED BY <3>1 DEF Calls, SameBesides
  <2>2. Go(t, c)
    BY <1>3 DEF NextClaim
  <2> HIDE DEF c
  <2>3. call[t].claim = Len(Order)
    BY <1>1, <1>3
  <2> QED BY <2>1, <2>2, <2>3
<1> QED BY <1>2, <1>3

(* A commit writes what has passed the tests: a sole thread makes the       *)
(* identity its credential's, claim by claim.                               *)
LEMMA CommitStep ==
    ASSUME IdentityInv, NEW t \in Threads, Commit(t)
    PROVE  IdentityInv'
<1> DEFINE claim == Order[call[t].claim]  value == call[t].checked[claim]
<1>1. /\ call[t] \in Calls /\ call[t].at = "commit" /\ NextClaim(t, "send") /\ Declare(t)
      /\ AttemptOK(call[t]) /\ (SoleThread => CheckOK(call[t]))
  BY DEF Commit, At, IdentityInv, TypeOK
<1>2. PICK c \in Calls :
         /\ Go(t, c) /\ SameBesides(c, call[t])
         /\ \/ c.at = "commit" /\ c.claim = call[t].claim + 1
            \/ c.at = "send" /\ c.claim = 1 /\ call[t].claim = Len(Order)
  BY <1>1, NextClaimFacts DEF Locations
<1>3. /\ call[t].claim \in 1..Len(Order) /\ claim \in Claims
      /\ call[t].checked \in [Claims -> Values \cup {None}]
  BY <1>1, OrderIsClaims, IdentityAssumption DEF Calls, NoCredential
<1>4. value \in Values \cup {None} /\ (claim \in Tenant => value \in {None, Own})
  BY <1>1, <1>3 DEF AttemptOK
<1>5. \/ UNCHANGED declared /\ (value = None \/ declared[claim] # None)
      \/ declared' = [declared EXCEPT ![claim] = value] /\ value # None
  BY <1>1 DEF Declare, Claim
<1>6. \A u \in Threads : call'[u] = IF u = t THEN c ELSE call[u]
  BY <1>2 DEF Go, IdentityInv, TypeOK
<1> HIDE DEF claim, value
<1>7. TypeOK'
  <2>1. call' \in [Threads -> Calls]
    BY <1>2 DEF Go, IdentityInv, TypeOK
  <2>2. \/ declared' = declared
        \/ declared' = [declared EXCEPT ![claim] = value]
    BY <1>5
  <2>3. /\ declared \in [Claims -> Values \cup {None}]
        /\ \A d \in Tenant : declared[d] \in {None, Own}
    BY DEF IdentityInv, TypeOK
  <2>4. declared' \in [Claims -> Values \cup {None}]
    BY <1>3, <1>4, <2>2, <2>3
  <2>5. \A d \in Tenant : declared'[d] \in {None, Own}
    <3>1. Tenant \subseteq Claims
      BY DEF Claims
    <3> QED BY <1>3, <1>4, <2>2, <2>3, <3>1
  <2> QED BY <2>1, <2>4, <2>5 DEF TypeOK
<1>8. AttemptOK(c)
  BY <1>1, <1>2, OrderFacts DEF AttemptOK, SameBesides
<1>9. ASSUME SoleThread PROVE CheckOK(c)'
  <2>1. Passes(call[t].checked, claim) /\ (declared[claim] # None => value = declared[claim])
    BY <1>1, <1>3, <1>9 DEF CheckOK, Passes, claim, value
  <2>2. declared'[claim] = value
    BY <1>3, <1>5, <2>1 DEF IdentityInv, TypeOK
  <2>3. \A d \in Claims : d # claim => declared'[d] = declared[d]
    BY <1>3, <1>5 DEF IdentityInv, TypeOK
  <2>4. \A i \in 1..Len(Order) :
          /\ declared'[Order[i]] # None => c.checked[Order[i]] = declared'[Order[i]]
          /\ Order[i] \in Tenant => c.checked[Order[i]] \in {None, Own}
          /\ i <= call[t].claim => declared'[Order[i]] = c.checked[Order[i]]
    <3> SUFFICES ASSUME NEW i \in 1..Len(Order)
                 PROVE  /\ declared'[Order[i]] # None
                             => c.checked[Order[i]] = declared'[Order[i]]
                        /\ Order[i] \in Tenant => c.checked[Order[i]] \in {None, Own}
                        /\ i <= call[t].claim => declared'[Order[i]] = c.checked[Order[i]]
      OBVIOUS
    <3>1. /\ Passes(call[t].checked, Order[i]) /\ c.checked = call[t].checked
          /\ i < call[t].claim => declared[Order[i]] = call[t].checked[Order[i]]
      BY <1>1, <1>2, <1>9 DEF CheckOK, SameBesides
    <3>2. CASE i = call[t].claim
      BY <2>2, <3>1, <3>2 DEF Passes, claim, value
    <3>3. CASE i # call[t].claim
      <4>1. Order[i] \in Claims /\ Order[i] # claim
        BY <1>3, <3>3, OrderIsClaims DEF claim
      <4>2. i <= call[t].claim => i < call[t].claim
        BY <1>3, <3>3, OrderFacts
      <4> QED BY <2>3, <3>1, <4>1, <4>2 DEF Passes
    <3> QED BY <3>2, <3>3
  <2>5. c.again => Retained(c.current, c.checked)
    BY <1>1, <1>2, <1>9 DEF CheckOK, SameBesides
  <2>6. CASE c.at = "commit"
    <3>1. \A i \in 1..Len(Order) : i < c.claim => i <= call[t].claim
      BY <1>2, <1>3, <2>6, OrderFacts
    <3> QED BY <2>4, <2>5, <2>6, <3>1 DEF CheckOK, Passes
  <2>7. CASE c.at = "send"
    <3>1. \A i \in 1..Len(Order) : declared'[Order[i]] = c.checked[Order[i]]
      BY <1>2, <2>4, <2>7, OrderFacts
    <3>2. \A d \in Claims : declared'[d] = c.checked[d]
      BY <3>1, OrderIsClaims
    <3>3. declared' = c.checked
      BY <1>2, <1>3, <1>7, <3>2 DEF TypeOK, SameBesides
    <3> QED BY <2>5, <2>7, <3>3 DEF CheckOK
  <2> QED BY <1>2, <2>6, <2>7
<1>10. \A u \in Threads : AttemptOK(call'[u])
  BY <1>6, <1>8 DEF IdentityInv
<1>11. ASSUME SoleThread PROVE \A u \in Threads : CheckOK(call[u])'
  <2>1. \A u \in Threads : call'[u] = c
    BY <1>6, <1>11 DEF SoleThread
  <2> QED BY <1>9, <1>11, <2>1 DEF CheckOK, Passes
<1> QED BY <1>7, <1>10, <1>11 DEF IdentityInv, AttemptOK

(* The invariant is inductive. *)
LEMMA IdentityStep ==
    ASSUME IdentityInv, [Next]_vars
    PROVE  IdentityInv'
<1>1. ASSUME NEW t \in Threads, Call(t) PROVE IdentityInv'
  <2> DEFINE c == [Idle EXCEPT !.at = "get"]
  <2>1. Go(t, c) /\ UNCHANGED declared
    BY <1>1 DEF Call
  <2>2. /\ c \in Calls /\ c.at = "get" /\ c.executed = 0 /\ c.claim = 1
        /\ ~c.again /\ c.current = NoCredential
    BY IdleTyped DEF Calls, Locations, Idle
  <2> HIDE DEF c
  <2>3. AttemptOK(c) /\ CheckOK(c)
    BY <2>2 DEF AttemptOK, CheckOK
  <2> QED BY <2>1, <2>2, <2>3, MoveStep
<1>2. ASSUME NEW t \in Threads,
             ProviderFails(t) \/ Refuse(t) \/ ReceiveReply(t) \/ TransportFails(t)
      PROVE  IdentityInv'
  BY <1>2, EndStep DEF ProviderFails, Refuse, ReceiveReply, TransportFails
<1>3. ASSUME NEW t \in Threads, GetCredential(t) PROVE IdentityInv'
  <2>1. PICK cred \in Credentials : Go(t, [call[t] EXCEPT !.at = "test", !.checked = cred])
    BY <1>3 DEF GetCredential
  <2> DEFINE c == [call[t] EXCEPT !.at = "test", !.checked = cred]
  <2>2. call[t] \in Calls /\ call[t].at = "get" /\ AttemptOK(call[t]) /\ UNCHANGED declared
        /\ (SoleThread => CheckOK(call[t]))
    BY <1>3 DEF GetCredential, At, IdentityInv, TypeOK
  <2>3. /\ c \in Calls /\ c.at = "test" /\ c.checked = cred /\ c.claim = call[t].claim
        /\ c.current = call[t].current /\ c.again = call[t].again
        /\ c.executed = call[t].executed
    BY <2>2 DEF Calls, Locations
  <2> HIDE DEF c
  <2>4. c.claim = 1 /\ c.executed = 0 /\ ~c.again /\ c.current = NoCredential
    BY <2>2, <2>3 DEF AttemptOK
  <2>5. AttemptOK(c) /\ (SoleThread => CheckOK(c))
    BY <2>3, <2>4, OrderFacts DEF AttemptOK, CheckOK
  <2> QED BY <2>1, <2>2, <2>3, <2>5, MoveStep DEF c
<1>4. ASSUME NEW t \in Threads, Test(t) PROVE IdentityInv'
  <2>1. /\ call[t] \in Calls /\ call[t].at = "test" /\ NextClaim(t, "commit")
        /\ UNCHANGED declared /\ Passes(call[t].checked, Order[call[t].claim])
        /\ AttemptOK(call[t]) /\ (SoleThread => CheckOK(call[t]))
    BY <1>4 DEF Test, At, Claim, IdentityInv, TypeOK
  <2>2. PICK c \in Calls :
           /\ Go(t, c) /\ SameBesides(c, call[t])
           /\ \/ c.at = "test" /\ c.claim = call[t].claim + 1
              \/ c.at = "commit" /\ c.claim = 1 /\ call[t].claim = Len(Order)
    BY <2>1, NextClaimFacts DEF Locations
  <2>3. AttemptOK(c)
    BY <2>1, <2>2, OrderFacts DEF AttemptOK, SameBesides, Passes, Calls
  <2>4. ASSUME SoleThread PROVE CheckOK(c)
    <3>1. \A i \in 1..Len(Order) : i <= call[t].claim => Passes(c.checked, Order[i])
      BY <2>1, <2>2, <2>4, OrderFacts DEF CheckOK, SameBesides, Calls
    <3>2. CASE c.at = "test"
      BY <2>1, <2>2, <2>4, <3>1, <3>2, OrderFacts DEF CheckOK, SameBesides, Calls
    <3>3. CASE c.at = "commit"
      <4>1. \A i \in 1..Len(Order) : Passes(c.checked, Order[i])
        BY <2>2, <3>1, <3>3, OrderFacts
      <4>2. \A claim \in Claims : Passes(c.checked, claim)
        BY <4>1, OrderIsClaims
      <4>3. c.again => Retained(c.current, c.checked)
        BY <2>1, <2>2, <2>4, <4>2 DEF CheckOK, SameBesides, Retained, Passes
      <4> QED BY <2>2, <3>3, <4>1, <4>3, OrderFacts DEF CheckOK
    <3> QED BY <2>2, <3>2, <3>3
  <2> QED BY <2>1, <2>2, <2>3, <2>4, MoveStep
<1>5. ASSUME NEW t \in Threads, Commit(t) PROVE IdentityInv'
  BY <1>5, CommitStep
<1>6. ASSUME NEW t \in Threads, Send(t) PROVE IdentityInv'
  <2> DEFINE c == [call[t] EXCEPT !.at = "await", !.reply = "none",
                     !.current = IF call[t].again THEN @ ELSE call[t].checked]
  <2>1. /\ call[t] \in Calls /\ call[t].at = "send" /\ Go(t, c) /\ UNCHANGED declared
        /\ AttemptOK(call[t]) /\ (SoleThread => CheckOK(call[t]))
    BY <1>6 DEF Send, At, IdentityInv, TypeOK
  <2>2. /\ c \in Calls /\ c.at = "await" /\ c.checked = call[t].checked
        /\ c.current = (IF call[t].again THEN call[t].current ELSE call[t].checked)
        /\ c.again = call[t].again /\ c.executed = call[t].executed
        /\ c.claim = call[t].claim
    BY <2>1 DEF Calls, Locations
  <2> HIDE DEF c
  <2>3. AttemptOK(c)
    BY <2>1, <2>2 DEF AttemptOK
  <2>4. SoleThread => CheckOK(c)
    BY <2>1, <2>2 DEF CheckOK
  <2> QED BY <2>1, <2>2, <2>3, <2>4, MoveStep
<1>7. ASSUME NEW t \in Threads, Answer(t) PROVE IdentityInv'
  <2>1. PICK reply \in {"ok", "unauthenticated", "error"}, n \in {0, 1} :
           /\ Go(t, [call[t] EXCEPT !.reply = reply, !.executed = @ + n])
           /\ reply = "unauthenticated" => n = 0
    BY <1>7 DEF Answer
  <2> DEFINE c == [call[t] EXCEPT !.reply = reply, !.executed = @ + n]
  <2>2. /\ call[t] \in Calls /\ call[t].at = "await" /\ call[t].reply = "none"
        /\ AttemptOK(call[t]) /\ (SoleThread => CheckOK(call[t])) /\ UNCHANGED declared
    BY <1>7 DEF Answer, At, IdentityInv, TypeOK
  <2>3. call[t].executed = 0
    BY <2>2 DEF AttemptOK
  <2>4. /\ c \in Calls /\ c.at = "await" /\ c.checked = call[t].checked
        /\ c.current = call[t].current /\ c.again = call[t].again
        /\ c.executed = n /\ c.reply = reply /\ c.claim = call[t].claim
    <3>1. call[t].executed + n = n /\ n \in Nat
      BY <2>3
    <3> QED BY <2>2, <3>1 DEF Calls
  <2> HIDE DEF c
  <2>5. AttemptOK(c)
    BY <2>1, <2>2, <2>4 DEF AttemptOK
  <2>6. SoleThread => CheckOK(c)
    BY <2>2, <2>4 DEF CheckOK
  <2> QED BY <2>1, <2>2, <2>4, <2>5, <2>6, MoveStep DEF c
<1>8. ASSUME NEW t \in Threads, ReceiveUnauthenticated(t) PROVE IdentityInv'
  <2> DEFINE c == [call[t] EXCEPT !.at = "refresh"]
  <2>1. /\ call[t] \in Calls /\ call[t].at = "await" /\ Go(t, c) /\ UNCHANGED declared
        /\ call[t].reply = "unauthenticated" /\ ~call[t].again
        /\ AttemptOK(call[t]) /\ (SoleThread => CheckOK(call[t]))
    BY <1>8 DEF ReceiveUnauthenticated, MayReplay, At, IdentityInv, TypeOK
  <2>2. /\ c \in Calls /\ c.at = "refresh" /\ c.current = call[t].current
        /\ c.again = call[t].again /\ c.executed = call[t].executed
        /\ c.claim = call[t].claim
    BY <2>1 DEF Calls, Locations
  <2> HIDE DEF c
  <2>3. AttemptOK(c) /\ (SoleThread => CheckOK(c))
    BY <2>1, <2>2 DEF AttemptOK, CheckOK
  <2> QED BY <2>1, <2>2, <2>3, MoveStep
<1>9. ASSUME NEW t \in Threads, Refresh(t) PROVE IdentityInv'
  <2>1. CASE End(t)
    BY <1>9, <2>1, EndStep DEF Refresh
  <2>2. CASE \E cred \in Credentials :
               /\ SameSubject(call[t].current, cred)
               /\ Go(t, [call[t] EXCEPT !.at = "test", !.checked = cred, !.again = TRUE])
    <3>1. PICK cred \in Credentials :
             /\ SameSubject(call[t].current, cred)
             /\ Go(t, [call[t] EXCEPT !.at = "test", !.checked = cred, !.again = TRUE])
      BY <2>2
    <3> DEFINE c == [call[t] EXCEPT !.at = "test", !.checked = cred, !.again = TRUE]
    <3>2. /\ call[t] \in Calls /\ call[t].at = "refresh" /\ UNCHANGED declared
          /\ AttemptOK(call[t]) /\ (SoleThread => CheckOK(call[t]))
      BY <1>9 DEF Refresh, At, IdentityInv, TypeOK
    <3>3. /\ c \in Calls /\ c.at = "test" /\ c.checked = cred /\ c.claim = call[t].claim
          /\ c.current = call[t].current /\ c.again = TRUE
          /\ c.executed = call[t].executed
      BY <3>2 DEF Calls, Locations
    <3> HIDE DEF c
    <3>4. AttemptOK(c)
      BY <3>1, <3>2, <3>3, OrderFacts DEF AttemptOK
    <3>5. SoleThread => CheckOK(c)
      BY <3>2, <3>3, OrderFacts DEF AttemptOK, CheckOK
    <3> QED BY <3>1, <3>2, <3>3, <3>4, <3>5, MoveStep DEF c
  <2> QED BY <1>9, <2>1, <2>2 DEF Refresh
<1>10. CASE UNCHANGED vars
  BY <1>10 DEF vars, IdentityInv, TypeOK, AttemptOK, CheckOK, Passes
<1> QED
  BY <1>1, <1>2, <1>3, <1>4, <1>5, <1>6, <1>7, <1>8, <1>9, <1>10 DEF Next, Step

----------------------------------------------------------------------------
(* Every reachable state satisfies the invariant. *)
THEOREM IdentityInvariant == Spec => []IdentityInv
<1>1. Init => IdentityInv
  BY IdentityInit
<1>2. IdentityInv /\ [Next]_vars => IdentityInv'
  BY IdentityStep
<1> QED BY <1>1, <1>2, PTL DEF Spec

(* The identity and the calls keep their types, and no other tenant is ever *)
(* declared, for any number of threads.                                     *)
THEOREM IdentityTypes == Spec => []TypeOK
<1>1. IdentityInv => TypeOK
  BY DEF IdentityInv
<1> QED BY <1>1, IdentityInvariant, PTL

(* No call has its request carried out twice, for any number of threads.    *)
THEOREM AtMostOneExecution == Spec => []ExecutedOnce
<1>1. IdentityInv => ExecutedOnce
  <2> SUFFICES ASSUME IdentityInv, NEW t \in Threads PROVE call[t].executed <= 1
    BY DEF ExecutedOnce
  <2>1. call[t].executed \in Nat /\ AttemptOK(call[t])
    BY DEF IdentityInv, TypeOK, Calls
  <2> QED BY <2>1 DEF AttemptOK
<1> QED BY <1>1, IdentityInvariant, PTL

(* No request is repeated for another subject, for any number of threads.   *)
THEOREM SubjectKept == Spec => []ReplayKeepsSubject
<1>1. IdentityInv => ReplayKeepsSubject
  BY DEF IdentityInv, ReplayKeepsSubject, Repeated, AttemptOK, SameSubject
<1> QED BY <1>1, IdentityInvariant, PTL

(* In a client one thread uses, a repeated request carries every claim of   *)
(* the first one's credential.                                              *)
THEOREM ClaimsKept == ASSUME SoleThread PROVE Spec => []ReplayKeepsClaims
<1>1. IdentityInv => ReplayKeepsClaims
  BY DEF IdentityInv, ReplayKeepsClaims, Repeated, CheckOK
<1> QED BY <1>1, IdentityInvariant, PTL

(* In a client one thread uses, a refused refresh leaves the original       *)
(* credential acceptable.                                                   *)
THEOREM OriginalKept == ASSUME SoleThread PROVE Spec => []OriginalStillPasses
<1>1. IdentityInv => OriginalStillPasses
  <2> SUFFICES ASSUME IdentityInv, NEW t \in Threads,
                      call[t].current # NoCredential,
                      call[t].at \in {"await", "refresh", "test"},
                      ~(call[t].again /\ call[t].at = "await"), NEW c \in Claims
               PROVE  Passes(call[t].current, c)
    BY DEF OriginalStillPasses
  <2>1. declared = call[t].current
    BY DEF IdentityInv, CheckOK, AttemptOK
  <2>2. c \in Tenant => declared[c] \in {None, Own}
    BY DEF IdentityInv, TypeOK
  <2> QED BY <2>1, <2>2 DEF Passes
<1> QED BY <1>1, IdentityInvariant, PTL

(* In a client one thread uses, a declared claim never changes. *)
THEOREM DeclaredKept == ASSUME SoleThread PROVE Spec => DeclaredNeverChanges
<1>1. ASSUME IdentityInv, [Next]_vars
      PROVE  \A c \in Claims : declared[c] # None => declared'[c] = declared[c]
  <2>1. CASE UNCHANGED declared
    BY <2>1
  <2>2. ASSUME NEW t \in Threads, Commit(t)
        PROVE  \A c \in Claims : declared[c] # None => declared'[c] = declared[c]
    <3> DEFINE claim == Order[call[t].claim]  value == call[t].checked[claim]
    <3>1. call[t].at = "commit" /\ CheckOK(call[t]) /\ Declare(t)
          /\ call[t].claim \in 1..Len(Order)
      BY <1>1, <2>2 DEF IdentityInv, TypeOK, Calls, Commit, At
    <3>2. declared[claim] # None => value = declared[claim]
      BY <3>1 DEF CheckOK, Passes
    <3>3. \/ declared' = declared
          \/ declared' = [declared EXCEPT ![claim] = value]
      BY <3>1 DEF Declare, Claim
    <3>4. declared \in [Claims -> Values \cup {None}]
      BY <1>1 DEF IdentityInv, TypeOK
    <3> HIDE DEF claim, value
    <3> QED BY <3>2, <3>3, <3>4
  <2>3. (\E t \in Threads : Commit(t)) \/ UNCHANGED declared
    BY <1>1 DEF Next, Step, Call, GetCredential, ProviderFails, Test, Refuse, Send, Answer,
                ReceiveUnauthenticated, Refresh, ReceiveReply, TransportFails, vars
  <2> QED BY <2>1, <2>2, <2>3
<1> QED BY <1>1, IdentityInvariant, PTL DEF Spec, DeclaredNeverChanges
=============================================================================
