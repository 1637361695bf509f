----------------------- MODULE CheckpointFields_proofs -----------------------
(***************************************************************************)
(* Theorems about CheckpointFields and StoredCheckpoint, for every base,    *)
(* every greatest position and every limit of a selection, proved with      *)
(* TLAPS.                                                                   *)
(***************************************************************************)
EXTENDS StoredCheckpoint, SequenceTheorems, FiniteSetTheorems, TLAPS

(* Every nonempty set of natural numbers has a least element. *)
LEMMA LeastNatural ==
    ASSUME NEW T, T \subseteq Nat, T # {}
    PROVE  \E n \in T : \A m \in T : n <= m
<1>1. PICK n \in T : \A m \in T : ~ (<<m, n>> \in OpToRel(<, Nat))
  BY NatLessThanWellFounded, WFMin
<1>2. \A m \in T : ~ (m < n)
  BY <1>1 DEF OpToRel
<1> QED BY <1>2

----------------------------------------------------------------------------
(* Division by the base. *)

LEMMA Quotient ==
    ASSUME Base \in Nat, Base >= 2, NEW n \in Nat
    PROVE  /\ n \div Base \in Nat /\ n % Base \in 0..(Base - 1)
           /\ Base * (n \div Base) + (n % Base) = n
           /\ n >= Base => n \div Base < n /\ n \div Base >= 1
OBVIOUS

LEMMA QuotientMonotone ==
    ASSUME Base \in Nat, Base >= 2, NEW n \in Nat, NEW m \in Nat, n <= m
    PROVE  n \div Base <= m \div Base
OBVIOUS

----------------------------------------------------------------------------
(* String and Value are defined by recursion: on a smaller number, and on a *)
(* shorter string.  That there are such functions has to be proved.         *)

StringStep(f, n) == IF n < Base THEN <<n>> ELSE Append(f[n \div Base], n % Base)

(* f writes the numbers below k. *)
Writes(f, k) == f = [n \in 0..(k - 1) |-> StringStep(f, n)]

LEMMA WritesAgree ==
    ASSUME Base \in Nat, Base >= 2,
           NEW f, NEW g, NEW k \in Nat, NEW l \in Nat, k <= l, Writes(f, k), Writes(g, l)
    PROVE  \A n \in 0..(k - 1) : f[n] = g[n]
<1> DEFINE T == {n \in 0..(k - 1) : f[n] # g[n]}
<1> SUFFICES ASSUME T # {} PROVE FALSE
  OBVIOUS
<1>1. PICK n \in T : \A m \in T : n <= m
  <2>1. T \subseteq Nat
    OBVIOUS
  <2> HIDE DEF T
  <2> QED BY <2>1, LeastNatural
<1>2. n \in Nat /\ n \in 0..(k - 1) /\ n \in 0..(l - 1)
  OBVIOUS
<1>3. f[n] = StringStep(f, n) /\ g[n] = StringStep(g, n)
  BY <1>2 DEF Writes
<1>4. n >= Base => f[n \div Base] = g[n \div Base]
  <2> SUFFICES ASSUME n >= Base PROVE f[n \div Base] = g[n \div Base]
    OBVIOUS
  <2> DEFINE q == n \div Base
  <2>1. q \in Nat /\ q < n
    BY <1>2, Quotient
  <2> HIDE DEF q
  <2>2. q \in 0..(k - 1) /\ q \notin T
    BY <1>1, <1>2, <2>1
  <2>3. f[q] = g[q]
    BY <2>2
  <2> QED BY <2>3 DEF q
<1>5. f[n] = g[n]
  BY <1>2, <1>3, <1>4 DEF StringStep
<1> QED BY <1>5

LEMMA WritesExists ==
    ASSUME Base \in Nat, Base >= 2
    PROVE  \A k \in Nat : \E f : Writes(f, k)
<1> DEFINE T == {k \in Nat : ~ \E f : Writes(f, k)}
<1> SUFFICES ASSUME T # {} PROVE FALSE
  OBVIOUS
<1>1. PICK k \in T : \A m \in T : k <= m
  <2>1. T \subseteq Nat
    OBVIOUS
  <2> HIDE DEF T
  <2> QED BY <2>1, LeastNatural
<1>2. CASE k = 0
  <2> DEFINE f == [n \in {} |-> 0]
  <2>1. 0..(0 - 1) = {}
    OBVIOUS
  <2>2. Writes(f, 0)
    BY <2>1 DEF Writes
  <2> QED BY <1>2, <2>2
<1>3. CASE k # 0
  <2>1. k - 1 \in Nat /\ k - 1 \notin T
    BY <1>1, <1>3
  <2>2. PICK f : Writes(f, k - 1)
    BY <2>1
  <2> DEFINE g == [n \in 0..(k - 1) |-> StringStep(f, n)]
  <2>3. ASSUME NEW n \in 0..(k - 1) PROVE StringStep(f, n) = StringStep(g, n)
    <3>1. n >= Base => f[n \div Base] = g[n \div Base]
      <4> SUFFICES ASSUME n >= Base PROVE f[n \div Base] = g[n \div Base]
        OBVIOUS
      <4> DEFINE q == n \div Base
      <4>1. q \in Nat /\ q < n
        BY Quotient
      <4> HIDE DEF q
      <4>2. q \in 0..(k - 1) /\ q \in 0..((k - 1) - 1)
        BY <4>1
      <4>3. f[q] = StringStep(f, q)
        BY <2>2, <4>2 DEF Writes
      <4>4. g[q] = StringStep(f, q)
        BY <4>2
      <4> QED BY <4>3, <4>4 DEF q
    <3> HIDE DEF g
    <3> QED BY <3>1 DEF StringStep
  <2>4. Writes(g, k)
    BY <2>3 DEF Writes
  <2> QED BY <2>4
<1> QED BY <1>2, <1>3

LEMMA StringExists ==
    ASSUME Base \in Nat, Base >= 2
    PROVE  \E f : f = [n \in Nat |-> StringStep(f, n)]
<1> DEFINE Approx(k) == CHOOSE f : Writes(f, k)
           F == [n \in Nat |-> Approx(n + 1)[n]]
<1>1. \A k \in Nat : Writes(Approx(k), k)
  BY WritesExists
<1> HIDE DEF Approx
<1>2. ASSUME NEW n \in Nat PROVE F[n] = StringStep(F, n)
  <2> DEFINE f == Approx(n + 1)
  <2>1. F[n] = StringStep(f, n)
    <3>1. n + 1 \in Nat /\ n \in 0..((n + 1) - 1)
      OBVIOUS
    <3>2. Approx(n + 1)[n] = StringStep(Approx(n + 1), n)
      BY <1>1, <3>1 DEF Writes
    <3> QED BY <3>2
  <2>2. n >= Base => f[n \div Base] = F[n \div Base]
    <3> SUFFICES ASSUME n >= Base PROVE f[n \div Base] = F[n \div Base]
      OBVIOUS
    <3> DEFINE q == n \div Base
    <3>1. q \in Nat /\ q < n
      BY Quotient
    <3> HIDE DEF q
    <3>2. q + 1 \in Nat /\ n + 1 \in Nat /\ q + 1 <= n + 1 /\ q \in 0..((q + 1) - 1)
      BY <3>1
    <3>3. Approx(q + 1)[q] = Approx(n + 1)[q]
      BY <1>1, <3>2, WritesAgree
    <3>4. F[q] = Approx(q + 1)[q]
      BY <3>1
    <3> QED BY <3>3, <3>4 DEF q
  <2> HIDE DEF F, f
  <2> QED BY <2>1, <2>2 DEF StringStep
<1>3. F = [n \in Nat |-> StringStep(F, n)]
  <2> DEFINE G == [n \in Nat |-> StringStep(F, n)]
  <2>1. \A n \in Nat : F[n] = G[n]
    BY <1>2
  <2>2. F = [n \in Nat |-> F[n]] /\ G = [n \in Nat |-> G[n]]
    OBVIOUS
  <2> HIDE DEF F, G
  <2>3. F = G
    BY <2>1, <2>2
  <2> QED BY <2>3 DEF G
<1> QED BY <1>3

LEMMA StringUnfolds ==
    ASSUME Base \in Nat, Base >= 2, NEW n \in Nat
    PROVE  String[n] = StringStep(String, n)
<1>1. String = CHOOSE f : f = [m \in Nat |-> StringStep(f, m)]
  BY DEF String, StringStep
<1>2. String = [m \in Nat |-> StringStep(String, m)]
  BY <1>1, StringExists
<1> QED BY <1>2

ValueStep(f, s) ==
    IF s = << >> THEN 0 ELSE Base * f[SubSeq(s, 1, Len(s) - 1)] + s[Len(s)]

Short(k) == {s \in Seq(Nat) : Len(s) < k}
Values(f, k) == f = [s \in Short(k) |-> ValueStep(f, s)]

LEMMA FrontIsShorter ==
    ASSUME NEW s \in Seq(Nat), s # << >>
    PROVE  /\ SubSeq(s, 1, Len(s) - 1) \in Seq(Nat)
           /\ Len(SubSeq(s, 1, Len(s) - 1)) = Len(s) - 1
           /\ Len(s) - 1 \in Nat /\ s[Len(s)] \in Nat
           /\ s = Append(SubSeq(s, 1, Len(s) - 1), s[Len(s)])
<1>1. Len(s) \in Nat /\ Len(s) # 0
  BY EmptySeq, LenProperties
<1>2. \A i \in 1..Len(s) : s[i] \in Nat
  BY ElementOfSeq
<1> DEFINE n == Len(s) - 1
           t == SubSeq(s, 1, n)
<1>3. n \in Nat /\ Len(s) = n + 1
  BY <1>1
<1>4. \A i \in 1..n : s[i] \in Nat
  BY <1>2, <1>3
<1>5. t \in Seq(Nat) /\ Len(t) = n /\ \A i \in 1..n : t[i] = s[i]
  <2> HIDE DEF n
  <2>1. 1 \in Int /\ n \in Int
    BY <1>3
  <2>2. /\ SubSeq(s, 1, n) \in Seq(Nat)
        /\ Len(SubSeq(s, 1, n)) = (IF 1 <= n THEN n - 1 + 1 ELSE 0)
        /\ \A i \in 1..(n - 1 + 1) : SubSeq(s, 1, n)[i] = s[1 + i - 1]
    BY <1>4, <2>1, SubSeqProperties
  <2> QED BY <1>3, <2>2
<1>6. s[Len(s)] \in Nat
  BY <1>1, <1>2
<1> DEFINE u == Append(t, s[Len(s)])
<1>7. u \in Seq(Nat) /\ Len(u) = n + 1 /\ (\A i \in 1..n : u[i] = t[i]) /\ u[n + 1] = s[Len(s)]
  <2> HIDE DEF n, t
  <2> QED BY <1>5, <1>6, AppendProperties
<1>8. s = u
  <2> HIDE DEF n, t, u
  <2>1. \A i \in 1..n : s[i] = u[i]
    BY <1>5, <1>7
  <2>2. \A i \in 1..(n + 1) : i \in 1..n \/ i = n + 1
    BY <1>3
  <2>3. \A i \in 1..Len(s) : s[i] = u[i]
    BY <1>3, <1>7, <2>1, <2>2
  <2> QED BY <1>3, <1>7, <2>3, SeqEqual
<1> QED BY <1>3, <1>5, <1>6, <1>8

LEMMA ValueStepLocal ==
    ASSUME NEW f, NEW g, NEW s,
           s # << >> => f[SubSeq(s, 1, Len(s) - 1)] = g[SubSeq(s, 1, Len(s) - 1)]
    PROVE  ValueStep(f, s) = ValueStep(g, s)
BY DEF ValueStep

LEMMA ValuesAgree ==
    ASSUME NEW f, NEW g, NEW k \in Nat, NEW l \in Nat, k <= l, Values(f, k), Values(g, l)
    PROVE  \A s \in Short(k) : f[s] = g[s]
<1> DEFINE Bad == {s \in Short(k) : f[s] # g[s]}
           T == {Len(s) : s \in Bad}
<1> SUFFICES ASSUME Bad # {} PROVE FALSE
  OBVIOUS
<1>1. T \subseteq Nat /\ T # {}
  <2>1. \A s \in Bad : Len(s) \in Nat
    BY LenProperties DEF Short
  <2> HIDE DEF Bad
  <2> QED BY <2>1
<1>2. PICK n \in T : \A m \in T : n <= m
  BY <1>1, LeastNatural
<1>3. PICK s \in Bad : n = Len(s)
  OBVIOUS
<1>4. s \in Short(k) /\ s \in Short(l) /\ s \in Seq(Nat) /\ Len(s) \in Nat /\ Len(s) < k
  BY LenProperties DEF Short
<1>5. f[s] = ValueStep(f, s) /\ g[s] = ValueStep(g, s)
  BY <1>4 DEF Values
<1>6. s # << >> => f[SubSeq(s, 1, Len(s) - 1)] = g[SubSeq(s, 1, Len(s) - 1)]
  <2> SUFFICES ASSUME s # << >>
               PROVE  f[SubSeq(s, 1, Len(s) - 1)] = g[SubSeq(s, 1, Len(s) - 1)]
    OBVIOUS
  <2> DEFINE t == SubSeq(s, 1, Len(s) - 1)
  <2>1. t \in Seq(Nat) /\ Len(t) = Len(s) - 1
    BY <1>4, FrontIsShorter
  <2> HIDE DEF t
  <2>2. t \in Short(k)
    BY <1>4, <2>1 DEF Short
  <2>3. t \notin Bad
    <3>1. ~ (n <= Len(t))
      BY <1>3, <1>4, <2>1
    <3> QED BY <1>2, <3>1
  <2>4. f[t] = g[t]
    BY <2>2, <2>3
  <2> QED BY <2>4 DEF t
<1>7. f[s] = g[s]
  BY <1>5, <1>6, ValueStepLocal
<1> QED BY <1>7

LEMMA ValuesExists == \A k \in Nat : \E f : Values(f, k)
<1> DEFINE T == {k \in Nat : ~ \E f : Values(f, k)}
<1> SUFFICES ASSUME T # {} PROVE FALSE
  OBVIOUS
<1>1. PICK k \in T : \A m \in T : k <= m
  <2>1. T \subseteq Nat
    OBVIOUS
  <2> HIDE DEF T
  <2> QED BY <2>1, LeastNatural
<1>2. CASE k = 0
  <2> DEFINE f == [s \in {} |-> 0]
  <2>1. Short(0) = {}
    BY LenProperties DEF Short
  <2>2. Values(f, 0)
    BY <2>1 DEF Values
  <2> QED BY <1>2, <2>2
<1>3. CASE k # 0
  <2>1. k - 1 \in Nat /\ k - 1 \notin T
    BY <1>1, <1>3
  <2>2. PICK f : Values(f, k - 1)
    BY <2>1
  <2> DEFINE g == [s \in Short(k) |-> ValueStep(f, s)]
  <2>3. ASSUME NEW s \in Short(k) PROVE ValueStep(f, s) = ValueStep(g, s)
    <3>1. s \in Seq(Nat) /\ Len(s) \in Nat /\ Len(s) < k
      BY LenProperties DEF Short
    <3>2. s # << >> => f[SubSeq(s, 1, Len(s) - 1)] = g[SubSeq(s, 1, Len(s) - 1)]
      <4> SUFFICES ASSUME s # << >>
                   PROVE  f[SubSeq(s, 1, Len(s) - 1)] = g[SubSeq(s, 1, Len(s) - 1)]
        OBVIOUS
      <4> DEFINE t == SubSeq(s, 1, Len(s) - 1)
      <4>1. t \in Seq(Nat) /\ Len(t) = Len(s) - 1
        BY <3>1, FrontIsShorter
      <4> HIDE DEF t
      <4>2. t \in Short(k) /\ t \in Short(k - 1)
        BY <3>1, <4>1 DEF Short
      <4>3. f[t] = ValueStep(f, t)
        BY <2>2, <4>2 DEF Values
      <4>4. g[t] = ValueStep(f, t)
        BY <4>2
      <4> QED BY <4>3, <4>4 DEF t
    <3> HIDE DEF g
    <3> QED BY <3>2, ValueStepLocal
  <2>4. Values(g, k)
    BY <2>3 DEF Values
  <2> QED BY <2>4
<1> QED BY <1>2, <1>3

LEMMA ValueExists == \E f : f = [s \in Seq(Nat) |-> ValueStep(f, s)]
<1> DEFINE Approx(k) == CHOOSE f : Values(f, k)
           F == [s \in Seq(Nat) |-> Approx(Len(s) + 1)[s]]
<1>1. \A k \in Nat : Values(Approx(k), k)
  BY ValuesExists
<1> HIDE DEF Approx
<1>2. ASSUME NEW s \in Seq(Nat) PROVE F[s] = ValueStep(F, s)
  <2> DEFINE k == Len(s) + 1
             f == Approx(k)
  <2>1. Len(s) \in Nat /\ k \in Nat /\ s \in Short(k)
    BY LenProperties DEF Short
  <2>2. F[s] = ValueStep(f, s)
    BY <1>1, <2>1 DEF Values
  <2>3. s # << >> => f[SubSeq(s, 1, Len(s) - 1)] = F[SubSeq(s, 1, Len(s) - 1)]
    <3> SUFFICES ASSUME s # << >>
                 PROVE  f[SubSeq(s, 1, Len(s) - 1)] = F[SubSeq(s, 1, Len(s) - 1)]
      OBVIOUS
    <3> DEFINE t == SubSeq(s, 1, Len(s) - 1)
               l == Len(t) + 1
    <3>1. t \in Seq(Nat) /\ Len(t) = Len(s) - 1 /\ Len(t) \in Nat
      BY FrontIsShorter
    <3> HIDE DEF t
    <3>2. l \in Nat /\ l <= k /\ t \in Short(l)
      BY <2>1, <3>1 DEF Short
    <3>3. Approx(l)[t] = Approx(k)[t]
      BY <1>1, <2>1, <3>2, ValuesAgree
    <3>4. F[t] = Approx(l)[t]
      BY <3>1
    <3> QED BY <3>3, <3>4 DEF t
  <2> HIDE DEF F, f
  <2> QED BY <2>2, <2>3, ValueStepLocal
<1>3. F = [s \in Seq(Nat) |-> ValueStep(F, s)]
  <2> DEFINE G == [s \in Seq(Nat) |-> ValueStep(F, s)]
  <2>1. \A s \in Seq(Nat) : F[s] = G[s]
    BY <1>2
  <2>2. F = [s \in Seq(Nat) |-> F[s]] /\ G = [s \in Seq(Nat) |-> G[s]]
    OBVIOUS
  <2> HIDE DEF F, G
  <2>3. F = G
    BY <2>1, <2>2
  <2> QED BY <2>3 DEF G
<1> QED BY <1>3

LEMMA ValueUnfolds ==
    ASSUME NEW s \in Seq(Nat)
    PROVE  Value[s] = ValueStep(Value, s)
<1>1. Value = CHOOSE f : f = [t \in Seq(Nat) |-> ValueStep(f, t)]
  BY DEF Value, ValueStep
<1>2. Value = [t \in Seq(Nat) |-> ValueStep(Value, t)]
  BY <1>1, ValueExists
<1> QED BY <1>2

LEMMA ValueEmpty == Value[<< >>] = 0
<1> DEFINE none == << >>
<1>1. none \in Seq(Nat)
  OBVIOUS
<1>2. ValueStep(Value, none) = 0
  BY DEF ValueStep
<1> HIDE DEF none
<1>3. Value[none] = ValueStep(Value, none)
  BY <1>1, ValueUnfolds
<1> QED BY <1>2, <1>3 DEF none

LEMMA ValueAppend ==
    ASSUME NEW s \in Seq(Nat), NEW d \in Nat
    PROVE  Value[Append(s, d)] = Base * Value[s] + d
<1> DEFINE u == Append(s, d)
<1>1. /\ u \in Seq(Nat) /\ Len(u) = Len(s) + 1 /\ Len(s) \in Nat
      /\ (\A i \in 1..Len(s) : u[i] = s[i]) /\ u[Len(s) + 1] = d
  BY AppendProperties, LenProperties
<1> HIDE DEF u
<1>2. u # << >> /\ Len(u) - 1 = Len(s)
  BY <1>1
<1>3. SubSeq(u, 1, Len(u) - 1) = s
  <2> DEFINE t == SubSeq(u, 1, Len(u) - 1)
  <2>1. t \in Seq(Nat) /\ Len(t) = Len(s) /\ u = Append(t, u[Len(u)])
    BY <1>1, <1>2, FrontIsShorter
  <2> HIDE DEF t
  <2>2. u[Len(u)] \in Nat
    BY <1>1
  <2> DEFINE e == u[Len(u)]
  <2> HIDE DEF e
  <2>a. e \in Nat /\ u = Append(t, e)
    BY <2>1, <2>2 DEF e
  <2>3. \A i \in 1..Len(t) : u[i] = t[i]
    BY <2>1, <2>a, AppendProperties
  <2>4. t = s
    BY <1>1, <2>1, <2>3, SeqEqual
  <2> QED BY <2>4 DEF t
<1>4. Value[u] = Base * Value[SubSeq(u, 1, Len(u) - 1)] + u[Len(u)]
  BY <1>1, <1>2, ValueUnfolds DEF ValueStep
<1> QED BY <1>1, <1>3, <1>4 DEF u

LEMMA ValueType ==
    ASSUME Base \in Nat
    PROVE  \A s \in Seq(Nat) : Value[s] \in Nat
<1> DEFINE Bad == {s \in Seq(Nat) : Value[s] \notin Nat}
           T == {Len(s) : s \in Bad}
<1> SUFFICES ASSUME Bad # {} PROVE FALSE
  OBVIOUS
<1>1. T \subseteq Nat /\ T # {}
  <2>1. \A s \in Bad : Len(s) \in Nat
    BY LenProperties
  <2> HIDE DEF Bad
  <2> QED BY <2>1
<1>2. PICK n \in T : \A m \in T : n <= m
  BY <1>1, LeastNatural
<1>3. PICK s \in Bad : n = Len(s)
  OBVIOUS
<1>4. s \in Seq(Nat) /\ Len(s) \in Nat /\ s # << >>
  BY ValueEmpty, LenProperties
<1> DEFINE t == SubSeq(s, 1, Len(s) - 1)
<1>5. t \in Seq(Nat) /\ Len(t) = Len(s) - 1 /\ s[Len(s)] \in Nat
  BY <1>4, FrontIsShorter
<1>6. Value[s] = Base * Value[t] + s[Len(s)]
  BY <1>4, ValueUnfolds DEF ValueStep
<1> HIDE DEF t
<1>7. t \notin Bad
  <2>1. ~ (n <= Len(t))
    BY <1>3, <1>4, <1>5
  <2> QED BY <1>2, <2>1
<1>8. Value[t] \in Nat
  BY <1>5, <1>7
<1>9. Value[s] \in Nat
  BY <1>5, <1>6, <1>8
<1> QED BY <1>9

----------------------------------------------------------------------------
(* Positions. *)

(* str(n) is made of digits, and int reads n from it.                       *)
LEMMA StringFacts ==
    ASSUME Base \in Nat, Base >= 2
    PROVE  \A n \in Nat :
             /\ String[n] \in Seq(Nat) /\ Len(String[n]) \in Nat /\ Len(String[n]) >= 1
             /\ \A i \in 1..Len(String[n]) : String[n][i] < Base
             /\ Value[String[n]] = n
<1> DEFINE Good(n) ==
             /\ String[n] \in Seq(Nat) /\ Len(String[n]) \in Nat /\ Len(String[n]) >= 1
             /\ \A i \in 1..Len(String[n]) : String[n][i] < Base
             /\ Value[String[n]] = n
           T == {n \in Nat : ~Good(n)}
<1> SUFFICES ASSUME T # {} PROVE FALSE
  OBVIOUS
<1>1. PICK n \in T : \A m \in T : n <= m
  <2>1. T \subseteq Nat
    OBVIOUS
  <2> HIDE DEF T
  <2> QED BY <2>1, LeastNatural
<1>2. n \in Nat /\ String[n] = StringStep(String, n)
  BY StringUnfolds
<1>3. CASE n < Base
  <2> DEFINE s == <<n>>
  <2>1. String[n] = s
    BY <1>2, <1>3 DEF StringStep
  <2>2. s \in Seq(Nat) /\ Len(s) = 1 /\ s[1] = n
    BY <1>2
  <2>3. s = Append(<< >>, n)
    OBVIOUS
  <2>4. Value[s] = Base * 0 + n
    <3> DEFINE none == << >>
    <3>1. none \in Seq(Nat) /\ Value[none] = 0 /\ s = Append(none, n)
      BY <2>3, ValueEmpty
    <3> HIDE DEF none, s
    <3>2. Value[s] = Base * Value[none] + n
      BY <1>2, <3>1, ValueAppend
    <3> QED BY <3>1, <3>2
  <2> HIDE DEF s
  <2>5. Value[s] = n
    BY <1>2, <2>4
  <2>6. Good(n)
    BY <1>3, <2>1, <2>2, <2>5
  <2> QED BY <2>6
<1>4. CASE n >= Base
  <2> DEFINE q == n \div Base
             d == n % Base
             t == String[q]
  <2>1. q \in Nat /\ q < n /\ d \in Nat /\ d < Base /\ Base * q + d = n
    <3>1. /\ q \in Nat /\ d \in 0..(Base - 1) /\ Base * q + d = n
          /\ n >= Base => q < n
      BY <1>2, Quotient
    <3> HIDE DEF q, d
    <3> QED BY <1>4, <3>1
  <2>2. String[n] = Append(t, d)
    BY <1>2, <1>4 DEF StringStep
  <2> HIDE DEF q, d
  <2>3. Good(q)
    <3>1. q \notin T
      BY <1>1, <1>2, <2>1
    <3> QED BY <2>1, <3>1
  <2> HIDE DEF t
  <2>4. /\ t \in Seq(Nat) /\ Len(t) \in Nat /\ Value[t] = q
        /\ \A i \in 1..Len(t) : t[i] < Base
    BY <2>3 DEF t
  <2> DEFINE u == Append(t, d)
  <2>5. /\ u \in Seq(Nat) /\ Len(u) = Len(t) + 1
        /\ (\A i \in 1..Len(t) : u[i] = t[i]) /\ u[Len(t) + 1] = d
    BY <2>1, <2>4, AppendProperties
  <2>6. Value[u] = n
    BY <2>1, <2>4, ValueAppend
  <2> HIDE DEF u
  <2>7. \A i \in 1..Len(u) : u[i] < Base
    <3>1. \A i \in 1..Len(u) : i \in 1..Len(t) \/ i = Len(t) + 1
      BY <2>4, <2>5
    <3> QED BY <2>1, <2>4, <2>5, <3>1
  <2>8. Len(u) \in Nat /\ Len(u) >= 1 /\ String[n] = u
    BY <2>2, <2>4, <2>5 DEF u
  <2>9. Good(n)
    BY <2>5, <2>6, <2>7, <2>8
  <2> QED BY <2>9
<1> QED BY <1>2, <1>3, <1>4

(* A greater number has no fewer digits.                                    *)
LEMMA StringGrows ==
    ASSUME Base \in Nat, Base >= 2
    PROVE  \A m \in Nat : \A n \in 0..m : Len(String[n]) <= Len(String[m])
<1> DEFINE Good(m) == \A n \in 0..m : Len(String[n]) <= Len(String[m])
           T == {m \in Nat : ~Good(m)}
<1> SUFFICES ASSUME T # {} PROVE FALSE
  OBVIOUS
<1>1. PICK m \in T : \A k \in T : m <= k
  <2>1. T \subseteq Nat
    OBVIOUS
  <2> HIDE DEF T
  <2> QED BY <2>1, LeastNatural
<1>2. PICK n \in 0..m : ~ (Len(String[n]) <= Len(String[m]))
  OBVIOUS
<1>3. n \in Nat /\ m \in Nat /\ n <= m
  OBVIOUS
<1>4. /\ Len(String[n]) \in Nat /\ Len(String[m]) \in Nat /\ Len(String[m]) >= 1
  BY <1>3, StringFacts
<1>5. CASE n < Base
  <2>1. String[n] = <<n>>
    BY <1>3, <1>5, StringUnfolds DEF StringStep
  <2>2. Len(String[n]) = 1
    BY <2>1
  <2> QED BY <1>2, <1>4, <2>2
<1>6. CASE n >= Base
  <2> DEFINE p == n \div Base
             q == m \div Base
  <2>1. p \in Nat /\ q \in Nat /\ q < m /\ p <= q
    <3>1. m >= Base
      BY <1>3, <1>6
    <3> QED BY <1>3, <3>1, Quotient, QuotientMonotone
  <2>2. String[n] = Append(String[p], n % Base) /\ String[m] = Append(String[q], m % Base)
    <3>1. m >= Base /\ ~(m < Base) /\ ~(n < Base)
      BY <1>3, <1>6
    <3>2. String[n] = StringStep(String, n) /\ String[m] = StringStep(String, m)
      BY <1>3, StringUnfolds
    <3> QED BY <3>1, <3>2 DEF StringStep
  <2> HIDE DEF p, q
  <2>3. Len(String[p]) <= Len(String[q])
    <3>1. q \notin T
      BY <1>1, <1>3, <2>1
    <3>2. Good(q)
      BY <2>1, <3>1
    <3> QED BY <2>1, <3>2
  <2>4. /\ String[p] \in Seq(Nat) /\ Len(String[p]) \in Nat
        /\ String[q] \in Seq(Nat) /\ Len(String[q]) \in Nat
    BY <2>1, StringFacts
  <2>5. n % Base \in Nat /\ m % Base \in Nat
    BY <1>3, Quotient
  <2>6. Len(String[n]) = Len(String[p]) + 1 /\ Len(String[m]) = Len(String[q]) + 1
    BY <2>2, <2>4, <2>5, AppendProperties
  <2> QED BY <1>2, <2>3, <2>4, <2>6
<1> QED BY <1>3, <1>5, <1>6

(* Every position up to the limit is stored as a string that resume accepts *)
(* and that means the same position; every string that resume accepts, of   *)
(* any length and with any other characters, is that of a position within   *)
(* the limit (_decimal, tasks.py:622).                                      *)
THEOREM PositionsAreKept ==
    ASSUME LimitsFit
    PROVE  /\ \A n \in 0..MaxPosition : IsPosition(String[n]) /\ Value[String[n]] = n
           /\ \A s \in Seq(0..Base) : IsPosition(s) => \E n \in 0..MaxPosition : s = String[n]
<1>1. /\ Base \in Nat /\ Base >= 2 /\ MaxPosition \in Nat /\ Width \in Nat
      /\ Len(String[MaxPosition]) <= Width
  BY DEF LimitsFit
<1>2. ASSUME NEW n \in 0..MaxPosition PROVE IsPosition(String[n]) /\ Value[String[n]] = n
  <2>1. n \in Nat /\ n <= MaxPosition
    BY <1>1
  <2>2. /\ String[n] \in Seq(Nat) /\ Len(String[n]) \in Nat /\ Len(String[n]) >= 1
        /\ \A i \in 1..Len(String[n]) : String[n][i] < Base
        /\ Value[String[n]] = n
    BY <1>1, <2>1, StringFacts
  <2>3. Len(String[n]) <= Width
    <3>1. Len(String[n]) <= Len(String[MaxPosition]) /\ Len(String[MaxPosition]) \in Nat
      BY <1>1, StringFacts, StringGrows
    <3> QED BY <1>1, <2>2, <3>1
  <2>4. Len(String[n]) \in 1..Width
    BY <1>1, <2>2, <2>3
  <2> QED BY <2>1, <2>2, <2>4 DEF IsPosition
<1>3. ASSUME NEW s \in Seq(0..Base), IsPosition(s)
      PROVE  \E n \in 0..MaxPosition : s = String[n]
  <2>1. s \in Seq(Nat)
    <3>1. 0..Base \subseteq Nat
      BY <1>1
    <3> QED BY <3>1, SeqMonotonic
  <2>2. Value[s] \in Nat /\ Value[s] <= MaxPosition /\ s = String[Value[s]]
    BY <1>1, <1>3, <2>1, ValueType DEF IsPosition
  <2>3. Value[s] \in 0..MaxPosition
    BY <1>1, <2>2
  <2> QED BY <2>2, <2>3
<1> QED BY <1>2, <1>3

----------------------------------------------------------------------------
(* Voices. *)

SortsTo(s, T) ==
    /\ s \in BoundedSeq(Tones, 3)
    /\ ToSet(s) = T
    /\ \A i, j \in DOMAIN s : i < j => s[i] < s[j]

LEMMA BoundedIsSeq ==
    ASSUME NEW S, NEW n \in Nat
    PROVE  BoundedSeq(S, n) \subseteq Seq(S)
BY DEF BoundedSeq, SeqOf

(* Every set of tones has its sorted sequence: there are eight.             *)
LEMMA SortedExists ==
    ASSUME NEW T, T \subseteq Tones
    PROVE  \E s : SortsTo(s, T)
<1> USE DEF SortsTo, BoundedSeq, SeqOf, ToSet, Tones
<1>1. CASE T = {}
  <2>1. SortsTo(<< >>, T)
    BY <1>1
  <2> QED BY <2>1
<1>2. CASE T = {1}
  <2>1. SortsTo(<<1>>, T)
    BY <1>2
  <2> QED BY <2>1
<1>3. CASE T = {2}
  <2>1. SortsTo(<<2>>, T)
    BY <1>3
  <2> QED BY <2>1
<1>4. CASE T = {3}
  <2>1. SortsTo(<<3>>, T)
    BY <1>4
  <2> QED BY <2>1
<1>5. CASE T = {1, 2}
  <2>1. SortsTo(<<1, 2>>, T)
    BY <1>5
  <2> QED BY <2>1
<1>6. CASE T = {1, 3}
  <2>1. SortsTo(<<1, 3>>, T)
    BY <1>6
  <2> QED BY <2>1
<1>7. CASE T = {2, 3}
  <2>1. SortsTo(<<2, 3>>, T)
    BY <1>7
  <2> QED BY <2>1
<1>8. CASE T = {1, 2, 3}
  <2>1. SortsTo(<<1, 2, 3>>, T)
    BY <1>8
  <2> QED BY <2>1
<1>9. \/ T = {} \/ T = {1} \/ T = {2} \/ T = {3}
      \/ T = {1, 2} \/ T = {1, 3} \/ T = {2, 3} \/ T = {1, 2, 3}
  <2>1. \A x \in T : x = 1 \/ x = 2 \/ x = 3
    OBVIOUS
  <2>2. CASE 1 \in T /\ 2 \in T
    <3>1. T = {1, 2} \/ T = {1, 2, 3}
      BY <2>1, <2>2
    <3> QED BY <3>1
  <2>3. CASE 1 \in T /\ 2 \notin T
    <3>1. T = {1} \/ T = {1, 3}
      BY <2>1, <2>3
    <3> QED BY <3>1
  <2>4. CASE 1 \notin T /\ 2 \in T
    <3>1. T = {2} \/ T = {2, 3}
      BY <2>1, <2>4
    <3> QED BY <3>1
  <2>5. CASE 1 \notin T /\ 2 \notin T
    <3>1. T = {} \/ T = {3}
      BY <2>1, <2>5
    <3> QED BY <3>1
  <2> QED BY <2>2, <2>3, <2>4, <2>5
<1> QED BY <1>1, <1>2, <1>3, <1>4, <1>5, <1>6, <1>7, <1>8, <1>9

LEMMA SortedFacts ==
    ASSUME NEW T, T \subseteq Tones
    PROVE  SortsTo(Sorted(T), T)
<1>1. \E s \in BoundedSeq(Tones, 3) :
         ToSet(s) = T /\ \A i, j \in DOMAIN s : i < j => s[i] < s[j]
  BY SortedExists DEF SortsTo
<1> QED BY <1>1 DEF Sorted, SortsTo

(* The sorted sequence is no longer than the one whose members it has.      *)
LEMMA SortedIsShort ==
    ASSUME NEW t \in Seq(Nat), ToSet(t) \subseteq Tones
    PROVE  Len(Sorted(ToSet(t))) <= Len(t)
<1> DEFINE T == ToSet(t)
           s == Sorted(T)
           m == Len(s)
           n == Len(t)
<1>1. SortsTo(s, T)
  BY SortedFacts
<1> HIDE DEF s
<1>2. m \in Nat /\ n \in Nat /\ s \in [1..m -> T] /\ DOMAIN t = 1..n /\ DOMAIN s = 1..m
  <2>1. s \in Seq(Tones)
    BY <1>1, BoundedIsSeq DEF SortsTo
  <2>2. m \in Nat /\ n \in Nat /\ s \in [1..m -> Tones] /\ DOMAIN t = 1..n
    BY <2>1, LenProperties
  <2>3. \A i \in 1..m : s[i] \in T
    BY <1>1, <2>2 DEF SortsTo, ToSet
  <2> HIDE DEF T
  <2> QED BY <2>2, <2>3
<1>3. s \in Injection(1..m, T)
  <2>1. \A i, j \in 1..m : s[i] = s[j] => i = j
    <3> TAKE i, j \in 1..m
    <3>1. s[i] \in Nat /\ s[j] \in Nat
      <4>1. s[i] \in T /\ s[j] \in T
        BY <1>2
      <4> QED BY <4>1 DEF Tones
    <3>2. (i < j => s[i] < s[j]) /\ (j < i => s[j] < s[i])
      BY <1>1, <1>2 DEF SortsTo
    <3> QED BY <3>1, <3>2
  <2> QED BY <1>2, <2>1 DEF Injection, IsInjective
<1>4. t \in Surjection(1..n, T)
  <2>1. t \in [1..n -> T]
    <3>1. t \in [1..n -> Nat] /\ \A i \in 1..n : t[i] \in T
      BY <1>2, LenProperties DEF ToSet
    <3> HIDE DEF T
    <3> QED BY <3>1
  <2>2. \A x \in T : \E i \in 1..n : t[i] = x
    BY <1>2 DEF ToSet
  <2> QED BY <2>1, <2>2 DEF Surjection
<1> HIDE DEF T, m, n
<1>5. IsFiniteSet(T) /\ Cardinality(T) <= n
  <2>1. IsFiniteSet(1..n) /\ Cardinality(1..n) = n
    BY <1>2, FS_Interval
  <2> QED BY <1>4, <2>1, FS_Surjection
<1>6. m <= Cardinality(T)
  <2>1. IsFiniteSet(1..m) /\ Cardinality(1..m) = m
    BY <1>2, FS_Interval
  <2> QED BY <1>3, <1>5, <2>1, FS_Injection
<1>7. Cardinality(T) \in Nat
  BY <1>5, FS_CardinalityType
<1>8. m <= n
  BY <1>2, <1>5, <1>6, <1>7
<1> QED BY <1>8 DEF s, T, m, n

(* A selection that prepare accepts is stored in a form that resume accepts *)
(* and that neither resume nor a replay changes (client.py:555).            *)
THEOREM SelectionsAreKept ==
    ASSUME LimitsFit,
           NEW v \in [mode : Nat, ids : Seq(Names \cup BadNames), tones : Seq(Nat)],
           IsSelection(v)
    PROVE  /\ IsReadable(Normalized(v))
           /\ ReadBack(Normalized(v)) = Normalized(v)
<1> DEFINE T == ToSet(v.tones)
           u == Normalized(v)
<1>1. /\ T \subseteq Tones /\ v.tones \in Seq(Nat) /\ Len(v.tones) \in Nat
      /\ Len(v.tones) <= MaxTones /\ MaxTones \in Nat
  BY LenProperties DEF IsSelection, LimitsFit
<1>2. u = [mode |-> v.mode, ids |-> v.ids, tones |-> Sorted(T)]
  BY DEF Normalized
<1>3. SortsTo(Sorted(T), T)
  BY <1>1, SortedFacts
<1>4. ToSet(Sorted(T)) = T
  BY <1>3 DEF SortsTo
<1>5. Len(Sorted(T)) <= MaxTones
  <2>1. Len(Sorted(T)) <= Len(v.tones)
    BY <1>1, SortedIsShort
  <2>2. Len(Sorted(T)) \in Nat
    <3>1. Sorted(T) \in Seq(Tones)
      BY <1>3, BoundedIsSeq DEF SortsTo
    <3> QED BY <3>1, LenProperties
  <2> HIDE DEF T
  <2> QED BY <1>1, <2>1, <2>2
<1> HIDE DEF T, u
<1>6. u.mode = v.mode /\ u.ids = v.ids /\ u.tones = Sorted(T)
  BY <1>2
<1>7. IsReadable(u)
  BY <1>1, <1>4, <1>5, <1>6 DEF IsReadable, IsSelection
<1>8. Normalized(u) = u
  <2>1. Normalized(u) = [u EXCEPT !.tones = Sorted(T)]
    BY <1>4, <1>6 DEF Normalized
  <2> QED BY <1>2, <2>1
<1>9. ReadBack(u) = u
  BY <1>8 DEF ReadBack
<1> QED BY <1>7, <1>9 DEF u

(* The two together, for the inputs that TLC enumerates.                    *)
LEMMA FieldsFacts ==
    ASSUME LimitsFit
    PROVE  FieldsAreReadBack
<1>1. /\ Base \in Nat /\ Width \in Nat /\ MaxVoices \in Nat /\ MaxTones \in Nat
  BY DEF LimitsFit
<1>2. Strings \subseteq Seq(0..Base)
  BY <1>1, BoundedIsSeq DEF Strings
<1>3. Selections \subseteq [mode : Nat, ids : Seq(Names \cup BadNames), tones : Seq(Nat)]
  <2>1. BoundedSeq(Names \cup BadNames, MaxVoices + 1) \subseteq Seq(Names \cup BadNames)
    BY <1>1, BoundedIsSeq
  <2>2. BoundedSeq(0..4, MaxTones + 1) \subseteq Seq(Nat)
    <3>1. BoundedSeq(0..4, MaxTones + 1) \subseteq Seq(0..4)
      BY <1>1, BoundedIsSeq
    <3>2. Seq(0..4) \subseteq Seq(Nat)
      BY SeqMonotonic
    <3> QED BY <3>1, <3>2
  <2> DEFINE ids == BoundedSeq(Names \cup BadNames, MaxVoices + 1)
             tones == BoundedSeq(0..4, MaxTones + 1)
  <2>3. 0..4 \subseteq Nat /\ Selections = [mode : 0..4, ids : ids, tones : tones]
    BY DEF Selections
  <2> HIDE DEF ids, tones
  <2>4. ids \subseteq Seq(Names \cup BadNames) /\ tones \subseteq Seq(Nat)
    BY <2>1, <2>2 DEF ids, tones
  <2> QED BY <2>3, <2>4
<1> QED BY <1>2, <1>3, PositionsAreKept, SelectionsAreKept DEF FieldsAreReadBack

(* A restart changes no field of a stored checkpoint: positions and voices  *)
(* are read back as they were (tasks.py:622-634 and 670-691,                *)
(* client.py:555-564), for every base, greatest position and limit.         *)
THEOREM FieldsAreKept == Spec => []RestartKeepsFields
<1>1. RestartKeepsFields
  BY FieldsAssumption, FieldsFacts DEF RestartKeepsFields
<1> QED BY <1>1, PTL
=============================================================================
