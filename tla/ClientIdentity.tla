--------------------------- MODULE ClientIdentity ---------------------------
(***************************************************************************)
(* One client's calls (Deixic._unary and _stream in src/deixic/client.py)   *)
(* and the identity it holds its credentials to (CredentialIdentity in      *)
(* src/deixic/auth.py).  A call that Platform answers with 401 is sent once *)
(* more, with a refreshed credential of the same identity.  Threads may     *)
(* share the client, and nothing locks the identity: what one of them tests *)
(* another may have changed before the first commits.                       *)
(*                                                                          *)
(* The credential provider and Platform are external.  A credential is its  *)
(* claims; _clean leaves None of an empty one.                              *)
(***************************************************************************)
EXTENDS Integers, Sequences

CONSTANTS
    Threads,           \* callers of the client's methods
    Values,            \* values of the claims
    Own,               \* the tenant the client was created for
    None,              \* a claim the credential does not declare
    Credentials,       \* what the provider may hand out
    CanRefresh         \* whether the provider can refresh

Tenant == {"organization", "workspace"}
Claims == Tenant \cup {"subject", "scopes"}

ASSUME IdentityAssumption ==
    /\ None \notin Values /\ Own \in Values
    /\ Credentials \subseteq [Claims -> Values \cup {None}]
    /\ CanRefresh \in BOOLEAN

VARIABLES
    declared,          \* CredentialIdentity: what the accepted credentials declared
    call               \* the local state of each thread's call

vars == <<declared, call>>

----------------------------------------------------------------------------
(* The order in which check tests the claims, and then commits them. *)
Order == <<"organization", "workspace", "subject", "scopes">>

NoCredential == [c \in Claims |-> None]

Idle == [at |-> "idle", claim |-> 1, current |-> NoCredential,
         checked |-> NoCredential, again |-> FALSE, reply |-> "none",
         executed |-> 0]

At(t, location) == call[t].at = location

Go(t, c) == call' = [call EXCEPT ![t] = c]

(* The call returns or raises. *)
End(t) == Go(t, Idle)

Init ==
    /\ declared = NoCredential
    /\ call = [t \in Threads |-> Idle]

(* _unary asks the provider for a credential... *)
Call(t) ==
    /\ At(t, "idle")
    /\ Go(t, [Idle EXCEPT !.at = "get"])
    /\ UNCHANGED declared

(* ...and checks what it is given, claim by claim. *)
GetCredential(t) ==
    /\ At(t, "get")
    /\ \E c \in Credentials : Go(t, [call[t] EXCEPT !.at = "test", !.checked = c])
    /\ UNCHANGED declared

(* The provider raises, or its token is no header value. *)
ProviderFails(t) ==
    /\ call[t].at \in {"get", "refresh"}
    /\ End(t)
    /\ UNCHANGED declared

----------------------------------------------------------------------------
(* CredentialIdentity.check. *)

Claim(t) == Order[call[t].claim]

(* Mutants of Passes: a credential may be another tenant's; a refreshed one *)
(* may leave a claim out, or have another value.                            *)
PassesAnyTenant(cred, claim) ==
    declared[claim] # None => cred[claim] = declared[claim]
PassesRemoved(cred, claim) ==
    /\ claim \in Tenant => cred[claim] \in {None, Own}
    /\ declared[claim] # None => cred[claim] \in {None, declared[claim]}
PassesChanged(cred, claim) ==
    /\ claim \in Tenant => cred[claim] \in {None, Own}
    /\ declared[claim] # None => cred[claim] # None

(* A tenant is the client's, and what was declared once is neither removed  *)
(* nor changed.                                                             *)
Passes(cred, claim) ==
    /\ claim \in Tenant => cred[claim] \in {None, Own}
    /\ declared[claim] # None => cred[claim] = declared[claim]

NextClaim(t, after) ==
    IF call[t].claim < Len(Order)
      THEN Go(t, [call[t] EXCEPT !.claim = @ + 1])
      ELSE Go(t, [call[t] EXCEPT !.at = after, !.claim = 1])

(* A claim the credential has is committed; the scopes only once (their     *)
(* test at 121 and their assignment are one step here).                     *)
Declare(t) ==
    LET claim == Claim(t)  value == call[t].checked[claim]
        kept == value = None \/ (claim = "scopes" /\ declared[claim] # None)
    IN declared' = IF kept THEN declared ELSE [declared EXCEPT ![claim] = value]

(* Mutant of Test: each claim is committed as soon as it has passed. *)
TestAndDeclare(t) ==
    /\ At(t, "test") /\ Passes(call[t].checked, Claim(t))
    /\ NextClaim(t, "commit")
    /\ Declare(t)

Test(t) ==
    /\ At(t, "test") /\ Passes(call[t].checked, Claim(t))
    /\ NextClaim(t, "commit")
    /\ UNCHANGED declared

Refuse(t) ==
    /\ At(t, "test") /\ ~Passes(call[t].checked, Claim(t))
    /\ End(t)
    /\ UNCHANGED declared

Commit(t) ==
    /\ At(t, "commit")
    /\ NextClaim(t, "send")
    /\ Declare(t)

----------------------------------------------------------------------------
(* The HTTP call, and the one repetition of it. *)

(* The request leaves with the checked credential; the first one is kept to *)
(* compare a refreshed one with.                                            *)
Send(t) ==
    /\ At(t, "send")
    /\ Go(t, [call[t] EXCEPT !.at = "await", !.reply = "none",
                !.current = IF call[t].again THEN @ ELSE call[t].checked])
    /\ UNCHANGED declared

(* Platform (external) carries the request out and says so, refuses its     *)
(* credential, or fails before or after it has carried the request out.     *)
Answer(t) ==
    /\ At(t, "await") /\ call[t].reply = "none"
    /\ \E reply \in {"ok", "unauthenticated", "error"}, n \in {0, 1} :
         /\ reply = "ok" => n = 1
         /\ reply = "unauthenticated" => n = 0
         /\ Go(t, [call[t] EXCEPT !.reply = reply, !.executed = @ + n])
    /\ UNCHANGED declared

(* Mutants of MayReplay: any error is a reason to repeat the request, or    *)
(* every 401 is.                                                            *)
MayReplayErrors(t) ==
    call[t].reply \in {"unauthenticated", "error"} /\ CanRefresh /\ ~call[t].again
MayReplayForEver(t) == call[t].reply = "unauthenticated" /\ CanRefresh

(* A request is repeated after a 401, once. *)
MayReplay(t) == call[t].reply = "unauthenticated" /\ CanRefresh /\ ~call[t].again

ReceiveUnauthenticated(t) ==
    /\ At(t, "await") /\ MayReplay(t)
    /\ Go(t, [call[t] EXCEPT !.at = "refresh"])
    /\ UNCHANGED declared

(* Mutant of SameSubject: the refreshed credential is only checked. *)
AnySubject(current, refreshed) == TRUE

(* check_refresh: both credentials name one subject. *)
SameSubject(current, refreshed) ==
    current["subject"] # None /\ refreshed["subject"] = current["subject"]

Refresh(t) ==
    /\ At(t, "refresh")
    /\ \E c \in Credentials :
         \/ /\ SameSubject(call[t].current, c)
            /\ Go(t, [call[t] EXCEPT !.at = "test", !.checked = c, !.again = TRUE])
         \/ ~SameSubject(call[t].current, c) /\ End(t)
    /\ UNCHANGED declared

(* The reply is the call's result or error. *)
ReceiveReply(t) ==
    /\ At(t, "await") /\ call[t].reply # "none" /\ ~MayReplay(t)
    /\ End(t)
    /\ UNCHANGED declared

(* The transport fails, whatever Platform did with the request. *)
TransportFails(t) ==
    /\ At(t, "await")
    /\ End(t)
    /\ UNCHANGED declared

----------------------------------------------------------------------------
(* A call under way, failures included. *)
Step(t) ==
    \/ GetCredential(t) \/ ProviderFails(t)
    \/ Test(t) \/ Refuse(t) \/ Commit(t)
    \/ Send(t) \/ ReceiveUnauthenticated(t) \/ Refresh(t)
    \/ ReceiveReply(t) \/ TransportFails(t)

Next == \E t \in Threads : Call(t) \/ Step(t) \/ Answer(t)

Spec == Init /\ [][Next]_vars

(* The provider returns, and the transport has a timeout. *)
FairSpec == Spec /\ \A t \in Threads : WF_vars(Step(t))

----------------------------------------------------------------------------
(* Properties. *)

Locations == {"idle", "get", "test", "commit", "send", "await", "refresh"}

Calls ==
    [at : Locations, claim : 1..Len(Order),
     current : Credentials \cup {NoCredential},
     checked : Credentials \cup {NoCredential},
     again : BOOLEAN, reply : {"none", "ok", "unauthenticated", "error"},
     executed : Nat]

(* The type invariant. *)
TypeOK ==
    /\ declared \in [Claims -> Values \cup {None}]
    /\ \A c \in Tenant : declared[c] \in {None, Own}
    /\ call \in [Threads -> Calls]

(* What every call keeps to, whatever the other threads do to the identity: *)
(* its request is carried out by its last attempt only, and repeated for    *)
(* the subject of the first, and its credential is of the client's tenant   *)
(* once that was tested.                                                    *)
AttemptOK(c) ==
    /\ c.executed # 0 =>
         c.executed = 1 /\ c.at = "await" /\ c.reply \in {"ok", "error"}
    /\ c.at \notin {"test", "commit"} => c.claim = 1
    /\ c.at = "get" => ~c.again /\ c.current = NoCredential
    /\ c.at = "await" /\ ~c.again => c.current = c.checked
    /\ c.again /\ c.at \in {"test", "commit", "send", "await"}
         => SameSubject(c.current, c.checked)
    /\ \A i \in 1..Len(Order) :
         (c.at = "test" /\ i < c.claim) \/ c.at = "commit"
           => (Order[i] \in Tenant => c.checked[Order[i]] \in {None, Own})

Retained(first, second) == \A c \in Claims : first[c] # None => second[c] = first[c]

(* What a sole thread's call keeps to besides: what it has tested stays     *)
(* tested, and the identity is the last accepted credential's until another *)
(* has passed.                                                              *)
CheckOK(c) ==
    /\ c.at = "test" =>
         /\ \A i \in 1..Len(Order) : i < c.claim => Passes(c.checked, Order[i])
         /\ c.again => declared = c.current
         /\ ~c.again => c.current = NoCredential
    /\ c.at = "commit" =>
         \A i \in 1..Len(Order) :
           /\ Passes(c.checked, Order[i])
           /\ i < c.claim => declared[Order[i]] = c.checked[Order[i]]
    /\ c.at \in {"send", "await"} => declared = c.checked
    /\ c.at = "refresh" => ~c.again /\ declared = c.current
    /\ c.at \in {"commit", "send", "await"} /\ c.again => Retained(c.current, c.checked)

SoleThread == \A t, u \in Threads : t = u

(* The inductive invariant, for any number of threads. *)
IdentityInv ==
    /\ TypeOK
    /\ \A t \in Threads : AttemptOK(call[t])
    /\ SoleThread => \A t \in Threads : CheckOK(call[t])

(* "Mutation methods do not retry unavailable or transport failures":       *)
(* Platform carries out the request of one call once at most, whatever it   *)
(* answers and whatever is lost.                                            *)
ExecutedOnce == \A t \in Threads : call[t].executed <= 1

Repeated(t) == call[t].again /\ call[t].at \in {"send", "await"}

(* A request is never repeated for another subject, or without one, however *)
(* many threads and credentials the client sees.                            *)
ReplayKeepsSubject ==
    \A t \in Threads :
      Repeated(t) => LET subject == call[t].current["subject"] IN
                       subject # None /\ call[t].checked["subject"] = subject

(* "An authentication replay is allowed only when the refreshed credential  *)
(* retains the same subject, tenant, and declared scopes": what the first   *)
(* credential of the call declared, the second declares too.                *)
ReplayKeepsClaims ==
    \A t \in Threads : Repeated(t) => Retained(call[t].current, call[t].checked)

(* "A rejected refresh must not make the original credential look as if it  *)
(* removed a tenant declaration, subject, or scope": until the refreshed    *)
(* credential has passed every test, the original would pass them too.      *)
OriginalStillPasses ==
    \A t \in Threads :
      call[t].current # NoCredential /\ call[t].at \in {"await", "refresh", "test"}
        => (call[t].again /\ call[t].at = "await")
             \/ \A c \in Claims : Passes(call[t].current, c)

(* What the client has once held its credentials to it never changes. *)
DeclaredNeverChanges ==
    [][\A c \in Claims : declared[c] # None => declared'[c] = declared[c]]_declared

(* Every call ends, although Platform may refuse every credential. *)
CallEnds == \A t \in Threads : ~At(t, "idle") ~> At(t, "idle")
=============================================================================
