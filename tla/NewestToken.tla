----------------------------- MODULE NewestToken -----------------------------
(***************************************************************************)
(* What a provider of federated credentials promises the threads that share *)
(* it (SDK README: it "exchanges an assertion on the first request and      *)
(* caches the token", and "again [...] after an HTTP 401 from Deixic"):     *)
(* there is one newest token, every answer is the newest token, and the     *)
(* caller whose token was rejected is answered with a newer one or not at   *)
(* all.                                                                     *)
(*                                                                          *)
(* Tokens are numbered in the order of their issue.  Assertions, exchanges, *)
(* attempts, the lock and the clock are not visible here: they are          *)
(* stuttering steps.                                                        *)
(***************************************************************************)
EXTENDS Naturals

CONSTANTS Threads

VARIABLES
    newest,        \* the newest token any thread was given, 0 for none
    asking,        \* the threads that wait for an answer
    rejected,      \* the token Deixic rejected, of a thread that wants another
    held           \* the token a thread was last given, 0 for none

vars == <<newest, asking, rejected, held>>

Init ==
    /\ newest = 0
    /\ asking = {}
    /\ rejected = [t \in Threads |-> 0]
    /\ held = [t \in Threads |-> 0]

(* A thread wants a token, or another one than it holds. *)
Ask(t) ==
    /\ t \notin asking
    /\ asking' = asking \cup {t}
    /\ \E token \in {0, held[t]} : rejected' = [rejected EXCEPT ![t] = token]
    /\ UNCHANGED <<newest, held>>

(* It is answered with the newest token, which may just have been issued. *)
Answer(t) ==
    /\ t \in asking
    /\ asking' = asking \ {t}
    /\ newest' \in Nat
    /\ newest' >= newest
    /\ newest' > rejected[t]
    /\ held' = [held EXCEPT ![t] = newest']
    /\ rejected' = [rejected EXCEPT ![t] = 0]

(* It is told that there is none. *)
Refuse(t) ==
    /\ t \in asking
    /\ asking' = asking \ {t}
    /\ held' = [held EXCEPT ![t] = 0]
    /\ rejected' = [rejected EXCEPT ![t] = 0]
    /\ UNCHANGED newest

Next == \E t \in Threads : Ask(t) \/ Answer(t) \/ Refuse(t)

Spec == Init /\ [][Next]_vars
=============================================================================
