--------------------------- MODULE GatewayProofs ----------------------------
(***************************************************************************)
(* Theorems about what a gateway keeps beside its route table: the answers *)
(* about tokens, the backend's tokens, the validators and the access log   *)
(* (Edge), the figures it hands to the control plane (Telemetry), the      *)
(* control plane's windows and history of what passes (Monitor), and the   *)
(* calls counted against a quota (Quota).                                  *)
(***************************************************************************)
EXTENDS Edge, Telemetry, Monitor, Quota, Integers, FiniteSetTheorems, SequenceTheorems, WellFoundedInduction, TLAPS

(* A nonempty set of naturals has a least member.                          *)
LEMMA LeastNat ==
    ASSUME NEW T \in SUBSET Nat, T # {}
    PROVE  \E m \in T : \A n \in T : m <= n
  <1> DEFINE R == OpToRel(<, Nat)
  <1>1. IsWellFoundedOn(R, Nat)
    BY NatLessThanWellFounded
  <1>2. \A x, y \in Nat : y < x => <<y, x>> \in R
    BY DEF OpToRel
  <1> HIDE DEF R
  <1>3. PICK x \in T : \A y \in T : ~(<<y, x>> \in R)
    BY <1>1, WFMin
  <1>4. ASSUME NEW n \in T PROVE x <= n
    <2>1. x \in Nat /\ n \in Nat
      OBVIOUS
    <2>2. ~(n < x)
      BY <1>2, <1>3, <2>1
    <2> QED BY <2>1, <2>2
  <1> QED BY <1>4

(* A finite nonempty set of naturals has a greatest member.                *)
LEMMA MaxIsGreatest ==
    ASSUME NEW U \in SUBSET Nat, U # {}, IsFiniteSet(U)
    PROVE  Max(U) \in U /\ \A x \in U : x <= Max(U)
  <1> DEFINE Topped(V) == \E m \in V : \A x \in V : x <= m
             Bad == {n \in Nat : \E V \in SUBSET U : V # {} /\ IsFiniteSet(V) /\ Cardinality(V) = n /\ ~Topped(V)}
  <1>1. Bad = {}
    <2> SUFFICES ASSUME Bad # {} PROVE FALSE
      OBVIOUS
    <2>1. PICK m \in Bad : \A n \in Bad : m <= n
      <3>1. Bad \in SUBSET Nat
        OBVIOUS
      <3> HIDE DEF Bad
      <3> QED BY <3>1, LeastNat
    <2>2. PICK V \in SUBSET U : V # {} /\ IsFiniteSet(V) /\ Cardinality(V) = m /\ ~Topped(V)
      BY <2>1
    <2>3. PICK v \in V : TRUE
      BY <2>2
    <2>4. IsFiniteSet(V \ {v}) /\ Cardinality(V \ {v}) = m - 1 /\ m \in Nat
      BY <2>2, <2>3, FS_RemoveElement, FS_CardinalityType
    <2>5. V \ {v} # {}
      <3> SUFFICES ASSUME V \ {v} = {} PROVE FALSE
        OBVIOUS
      <3>1. \A x \in V : x = v
        OBVIOUS
      <3>2. v \in Nat
        BY <2>3
      <3> QED BY <2>2, <2>3, <3>1, <3>2
    <2>6. Topped(V \ {v})
      <3>1. m - 1 \notin Bad
        <4> HIDE DEF Bad
        <4> QED BY <2>1, <2>4
      <3>2. m - 1 \in Nat
        BY <2>4, FS_CardinalityType
      <3> QED BY <2>4, <2>5, <3>1, <3>2
    <2>7. PICK w \in V \ {v} : \A x \in V \ {v} : x <= w
      BY <2>6
    <2>8. w \in Nat /\ v \in Nat
      BY <2>3, <2>7
    <2>9. CASE v <= w
      BY <2>2, <2>7, <2>9
    <2>10. CASE ~(v <= w)
      <3>1. \A x \in V : x <= v
        BY <2>7, <2>8, <2>10
      <3> QED BY <2>2, <2>3, <3>1
    <2> QED BY <2>9, <2>10
  <1>2. Topped(U)
    <2>1. Cardinality(U) \in Nat
      BY FS_CardinalityType
    <2> QED BY <1>1, <2>1
  <1>3. PICK m \in U : \A x \in U : x <= m
    BY <1>2
  <1>4. \A y \in U : m >= y
    BY <1>3
  <1>5. Max(U) \in U /\ \A y \in U : Max(U) >= y
    BY <1>3, <1>4 DEF Max
  <1> QED BY <1>5

-----------------------------------------------------------------------------
Distinct(s) == \A i, j \in DOMAIN s : s[i] = s[j] => i = j

(* What Only leaves of a sequence, by induction on how much was looked at. *)
LEMMA OnlyKeeps ==
    ASSUME NEW T, NEW s \in Seq(T), NEW S
    PROVE  /\ Only(s, S) \in Seq(T)
           /\ Range(Only(s, S)) = Range(s) \cap S
           /\ Distinct(s) => Distinct(Only(s, S))
  <1> DEFINE Next1(f, n) == IF s[n] \in S THEN Append(f[n - 1], s[n]) ELSE f[n - 1]
             Run(f, k) == \A n \in 0..k : f[n] = IF n = 0 THEN <<>> ELSE Next1(f, n)
             Def(f) == f = [n \in 0..Len(s) |-> IF n = 0 THEN <<>> ELSE Next1(f, n)]
  <1>1. Len(s) \in Nat /\ \A n \in 1..Len(s) : s[n] \in T
    OBVIOUS
  <1>2. ASSUME NEW k \in Nat, k <= Len(s) PROVE \E f : Run(f, k)
    <2> DEFINE Bad == {n \in Nat : n <= Len(s) /\ ~\E f : Run(f, n)}
    <2> SUFFICES ASSUME Bad # {} PROVE FALSE
      BY <1>2
    <2>1. PICK m \in Bad : \A n \in Bad : m <= n
      <3> HIDE DEF Bad
      <3>1. Bad \in SUBSET Nat
        BY DEF Bad
      <3> QED BY <3>1, LeastNat
    <2>2. CASE m = 0
      <3>1. Run([n \in {0} |-> <<>>], 0)
        <4>1. 0..0 = {0}
          OBVIOUS
        <4> QED BY <4>1
      <3> QED BY <2>1, <2>2, <3>1
    <2>3. CASE m # 0
      <3> m \in Nat /\ m <= Len(s)
        OBVIOUS
      <3>1. m - 1 \in Nat /\ m - 1 <= Len(s) /\ m - 1 \notin Bad
        <4> HIDE DEF Bad
        <4> QED BY <2>1, <2>3, <1>1
      <3>2. PICK f : Run(f, m - 1)
        BY <3>1
      <3> DEFINE h == [n \in 0..m |-> IF n = m THEN Next1(f, m) ELSE f[n]]
      <3>3. ASSUME NEW n \in 0..m
            PROVE  h[n] = IF n = 0 THEN <<>> ELSE Next1(h, n)
        <4> HIDE DEF Bad, Run
        <4>1. CASE n = m
          <5>1. h[m] = Next1(f, m) /\ h[m - 1] = f[m - 1]
            BY <2>3, <3>1
          <5> HIDE DEF h
          <5> QED BY <2>3, <4>1, <5>1
        <4>2. CASE n # m
          <5>1. n \in 0..(m - 1)
            BY <2>1, <4>2
          <5>2. h[n] = f[n] /\ (n # 0 => h[n - 1] = f[n - 1])
            BY <2>1, <4>2, <5>1
          <5>3. f[n] = IF n = 0 THEN <<>> ELSE Next1(f, n)
            BY <3>2, <5>1 DEF Run
          <5> HIDE DEF h
          <5> QED BY <5>2, <5>3
        <4> QED BY <4>1, <4>2
      <3>4. Run(h, m)
        BY <3>3
      <3> QED BY <2>1, <3>4
    <2> QED BY <2>2, <2>3
  <1>3. \E f : Def(f)
    <2>1. PICK f : Run(f, Len(s))
      <3>1. Len(s) <= Len(s)
        BY <1>1
      <3> HIDE DEF Run
      <3> QED BY <1>1, <1>2, <3>1
    <2> DEFINE h == [n \in 0..Len(s) |-> f[n]]
    <2>2. Def(h)
      <3>1. ASSUME NEW n \in 0..Len(s)
            PROVE  f[n] = IF n = 0 THEN <<>> ELSE Next1(h, n)
        <4>1. n # 0 => n - 1 \in 0..Len(s)
          BY <1>1
        <4>2. n # 0 => h[n - 1] = f[n - 1]
          BY <4>1
        <4>3. f[n] = IF n = 0 THEN <<>> ELSE Next1(f, n)
          BY <2>1
        <4> HIDE DEF h
        <4> QED BY <4>2, <4>3
      <3> QED BY <3>1
    <2> QED BY <2>2
  <1> DEFINE upTo == CHOOSE f : Def(f)
  <1>4. Def(upTo)
    <2> HIDE DEF Def
    <2> QED BY <1>3
  <1>5. Only(s, S) = upTo[Len(s)]
    BY DEF Only
  <1> HIDE DEF upTo
  <1>6. upTo[0] = <<>> /\ \A n \in 1..Len(s) : upTo[n] = Next1(upTo, n)
    <2>1. ASSUME NEW n \in 0..Len(s)
          PROVE  upTo[n] = IF n = 0 THEN <<>> ELSE Next1(upTo, n)
      BY <1>4
    <2>2. 0 \in 0..Len(s) /\ \A n \in 1..Len(s) : n \in 0..Len(s) /\ n # 0
      BY <1>1
    <2> HIDE DEF Next1
    <2> QED BY <2>1, <2>2
  <1> DEFINE Head1(k) == {s[i] : i \in 1..k}
             Good(k) == /\ upTo[k] \in Seq(T) /\ Range(upTo[k]) = Head1(k) \cap S
                        /\ Distinct(s) => Distinct(upTo[k])
  <1>7. ASSUME NEW m \in 1..Len(s), Good(m - 1) PROVE Good(m)
    <2>1. /\ m \in Nat /\ m - 1 \in Nat /\ s[m] \in T /\ Head1(m) = Head1(m - 1) \cup {s[m]}
      <3>1. 1..m = (1..(m - 1)) \cup {m}
        BY <1>1
      <3> QED BY <1>1, <3>1
    <2>2. CASE s[m] \in S
      <3> DEFINE a == upTo[m - 1]
      <3>1. upTo[m] = Append(a, s[m]) /\ a \in Seq(T)
        BY <1>6, <1>7, <2>2
      <3>2. /\ upTo[m] \in Seq(T) /\ Len(upTo[m]) = Len(a) + 1 /\ DOMAIN a = 1..Len(a) /\ Len(a) \in Nat
            /\ DOMAIN upTo[m] = 1..(Len(a) + 1) /\ upTo[m][Len(a) + 1] = s[m]
            /\ \A i \in 1..Len(a) : upTo[m][i] = a[i]
        BY <2>1, <3>1
      <3>3. Range(upTo[m]) = Range(a) \cup {s[m]}
        <4>1. 1..(Len(a) + 1) = (1..Len(a)) \cup {Len(a) + 1}
          BY <3>2
        <4> HIDE DEF a
        <4>2. Range(upTo[m]) = {upTo[m][i] : i \in 1..Len(a)} \cup {upTo[m][Len(a) + 1]}
          BY <3>2, <4>1 DEF Range
        <4>3. {upTo[m][i] : i \in 1..Len(a)} = Range(a)
          BY <3>2 DEF Range
        <4> QED BY <3>2, <4>2, <4>3
      <3>4. ASSUME Distinct(s) PROVE Distinct(upTo[m])
        <4>1. s[m] \notin Head1(m - 1)
          <5>1. \A i \in 1..(m - 1) : i \in DOMAIN s /\ i # m
            BY <1>1
          <5> QED BY <1>1, <3>4, <5>1 DEF Distinct
        <4>2. \A i \in 1..Len(a) : a[i] \in Head1(m - 1)
          <5>1. \A i \in 1..Len(a) : a[i] \in Range(a)
            BY <3>2 DEF Range
          <5> QED BY <1>7, <5>1
        <4>3. Distinct(a)
          BY <1>7, <3>4
        <4> SUFFICES ASSUME NEW i \in 1..(Len(a) + 1), NEW j \in 1..(Len(a) + 1), upTo[m][i] = upTo[m][j]
                     PROVE  i = j
          BY <3>2 DEF Distinct
        <4> HIDE DEF a, Head1
        <4>4. CASE i = Len(a) + 1 \/ j = Len(a) + 1
          BY <3>2, <4>1, <4>2, <4>4
        <4>5. CASE i \in 1..Len(a) /\ j \in 1..Len(a)
          BY <3>2, <4>3, <4>5 DEF Distinct
        <4> QED BY <3>2, <4>4, <4>5
      <3> QED BY <1>7, <2>1, <2>2, <3>2, <3>3, <3>4
    <2>3. CASE s[m] \notin S
      <3>1. upTo[m] = upTo[m - 1]
        BY <1>6, <2>3
      <3> QED BY <1>7, <2>1, <2>3, <3>1
    <2> QED BY <2>2, <2>3
  <1>8. Good(0)
    <2>1. 1..0 = {}
      OBVIOUS
    <2>2. DOMAIN <<>> = {} /\ <<>> \in Seq(T)
      BY EmptySeq, <2>1
    <2> QED BY <1>6, <2>1, <2>2 DEF Range, Distinct
  <1>9. ASSUME NEW k \in Nat, k <= Len(s) PROVE Good(k)
    <2> DEFINE Bad == {n \in Nat : n <= Len(s) /\ ~Good(n)}
    <2> SUFFICES ASSUME Bad # {} PROVE FALSE
      BY <1>9
    <2>1. PICK m \in Bad : \A n \in Bad : m <= n
      <3> HIDE DEF Bad
      <3>1. Bad \in SUBSET Nat
        BY DEF Bad
      <3> QED BY <3>1, LeastNat
    <2> HIDE DEF Good
    <2>2. m # 0
      BY <1>8, <2>1
    <2>3. m - 1 \in Nat /\ m - 1 <= Len(s) /\ m - 1 \notin Bad /\ m \in 1..Len(s)
      BY <1>1, <2>1, <2>2
    <2>4. Good(m - 1)
      BY <2>3
    <2> QED BY <1>7, <2>1, <2>3, <2>4
  <1>10. Good(Len(s))
    <2> HIDE DEF Good
    <2>1. Len(s) <= Len(s)
      BY <1>1
    <2> QED BY <1>1, <1>9, <2>1
  <1>11. Range(s) = Head1(Len(s))
    BY <1>1 DEF Range
  <1> QED BY <1>5, <1>10, <1>11

-----------------------------------------------------------------------------
(* Introspection.  There is one answer per token; one that says a token is *)
(* active was asked for before the token was revoked, and what is left of  *)
(* its life is less by the time that has passed since.                     *)
Limit == Timeout + Max(Units)
TokenAnswer == [token : Opaque, active : BOOLEAN, left : Nat]
Question == [ttls : SUBSET Units, first : Nat, active : BOOLEAN, age : Nat]
OneEach(s) == \A i, j \in DOMAIN s : s[i].token = s[j].token => i = j

IntroOK ==
    /\ standing \in [Opaque -> [revoked : BOOLEAN, since : Nat]]
    /\ asking \in [Opaque -> Question]
    /\ entries \in Seq(TokenAnswer) /\ OneEach(entries)
    /\ \A o \in Opaque : ~standing[o].revoked => standing[o].since = 0
AnswerHolds(e, s) ==
    /\ e.left <= Max(Units)
    /\ e.active /\ e.left > 0 /\ s.revoked => s.since + e.left <= Limit
QuestionHolds(q, s) ==
    q.ttls # {} => /\ q.first \in Units /\ q.age <= Timeout
                   /\ q.active /\ s.revoked => s.since <= q.age
LagHolds == lag \in [Units -> Nat] /\ \A ttl \in Units : lag[ttl] <= Limit
JInv ==
    /\ IntroOK /\ LagHolds
    /\ \A o \in Opaque : QuestionHolds(asking[o], standing[o])
    /\ \A e \in Range(entries) : AnswerHolds(e, standing[e.token])

LEMMA UnitsBounded ==
    Timeout \in Nat /\ Max(Units) \in Nat /\ Limit \in Nat /\ \A ttl \in Units : ttl \in Nat /\ ttl <= Max(Units)
  <1>1. Timeout \in Nat /\ Units \subseteq Nat /\ Units # {} /\ IsFiniteSet(Units)
    BY EdgeAssumption DEF EdgeAssumption
  <1>2. Max(Units) \in Units /\ \A ttl \in Units : ttl <= Max(Units)
    BY <1>1, MaxIsGreatest
  <1> PICK m : m = Max(Units)
    OBVIOUS
  <1>5. \A u \in Units : u \in Nat
    BY <1>1
  <1>6. m \in Nat
    BY <1>5, <1>2
  <1>7. Timeout \in Nat
    BY <1>1
  <1>3. m \in Nat /\ Timeout + m \in Nat
    BY <1>6, <1>7
  <1>4. \A ttl \in Units : ttl \in Nat /\ ttl <= Max(Units)
    BY <1>1, <1>2
  <1> QED BY <1>1, <1>3, <1>4 DEF Limit

LEMMA MostBounded ==
    ASSUME NEW a \in Nat, NEW b \in Nat, NEW l \in Nat, a <= l, b <= l
    PROVE  Most(a, b) \in Nat /\ Most(a, b) <= l
  BY DEF Most

(* An admission within the limit leaves every lag within it.               *)
LEMMA AdmitHolds ==
    ASSUME IntroOK, LagHolds, NEW o \in Opaque, NEW ttls, NEW active,
           Admit(o, ttls, active), active /\ standing[o].revoked => standing[o].since <= Limit
    PROVE  LagHolds'
  <1>1. standing[o].since \in Nat
    BY DEF IntroOK
  <1>2. ASSUME NEW ttl \in Units, active, standing[o].revoked
        PROVE  Most(lag[ttl], standing[o].since) \in Nat /\ Most(lag[ttl], standing[o].since) <= Limit
    <2>1. lag[ttl] \in Nat /\ lag[ttl] <= Limit /\ standing[o].since <= Limit
      BY <1>2 DEF LagHolds
    <2> QED BY <1>1, <2>1, MostBounded, UnitsBounded
  <1>3. CASE active /\ standing[o].revoked
    <2>1. lag' = [ttl \in Units |-> IF ttl \in ttls THEN Most(lag[ttl], standing[o].since) ELSE lag[ttl]]
      BY <1>3 DEF Admit
    <2> QED BY <1>2, <1>3, <2>1 DEF LagHolds
  <1>4. CASE ~(active /\ standing[o].revoked)
    BY <1>4 DEF Admit, LagHolds
  <1> QED BY <1>3, <1>4

(* What is left when the entries of one token go.                          *)
LEMMA WithoutKeeps ==
    ASSUME IntroOK, NEW o
    PROVE  /\ Without(o) \in Seq(TokenAnswer) /\ OneEach(Without(o))
           /\ Range(Without(o)) = {e \in Range(entries) : e.token # o}
  <1>1. entries \in Seq(TokenAnswer) /\ OneEach(entries)
    BY DEF IntroOK
  <1> DEFINE s == Without(o)
  <1>2. /\ s \in Seq(TokenAnswer) /\ Range(s) = Range(entries) \cap {e \in Range(entries) : e.token # o}
        /\ Distinct(entries) => Distinct(s)
    BY <1>1, OnlyKeeps DEF Without
  <1>3. Distinct(entries)
    BY <1>1 DEF Distinct, OneEach
  <1>4. ASSUME NEW e \in Range(entries), NEW f \in Range(entries), e.token = f.token PROVE e = f
    BY <1>1, <1>4 DEF OneEach, Range
  <1> HIDE DEF s
  <1>5. OneEach(s)
    <2> SUFFICES ASSUME NEW i \in DOMAIN s, NEW j \in DOMAIN s, s[i].token = s[j].token PROVE i = j
      BY DEF OneEach
    <2>1. s[i] \in Range(entries) /\ s[j] \in Range(entries)
      BY <1>2 DEF Range
    <2>2. s[i] = s[j]
      BY <1>4, <2>1
    <2> QED BY <1>2, <1>3, <2>2 DEF Distinct
  <1> QED BY <1>2, <1>5 DEF s

(* An answer for a token that has no other is added at the end.            *)
LEMMA AnswerAppended ==
    ASSUME NEW s \in Seq(TokenAnswer), OneEach(s), NEW e \in TokenAnswer, \A i \in DOMAIN s : s[i].token # e.token
    PROVE  /\ Append(s, e) \in Seq(TokenAnswer) /\ OneEach(Append(s, e))
           /\ Range(Append(s, e)) = Range(s) \cup {e}
           /\ Append(s, e) # <<>> /\ Last(Append(s, e)) = e
  <1> DEFINE t == Append(s, e)
  <1>1. /\ t \in Seq(TokenAnswer) /\ Len(t) = Len(s) + 1 /\ DOMAIN s = 1..Len(s) /\ Len(s) \in Nat
        /\ DOMAIN t = 1..(Len(s) + 1) /\ t[Len(s) + 1] = e /\ \A i \in 1..Len(s) : t[i] = s[i]
    OBVIOUS
  <1> HIDE DEF t
  <1>2. 1..(Len(s) + 1) = (1..Len(s)) \cup {Len(s) + 1}
    BY <1>1
  <1>3. Range(t) = {t[i] : i \in 1..Len(s)} \cup {t[Len(s) + 1]}
    BY <1>1, <1>2 DEF Range
  <1>4. {t[i] : i \in 1..Len(s)} = Range(s)
    BY <1>1 DEF Range
  <1>5. OneEach(t)
    <2> SUFFICES ASSUME NEW i \in DOMAIN t, NEW j \in DOMAIN t, t[i].token = t[j].token PROVE i = j
      BY DEF OneEach
    <2>1. CASE i \in 1..Len(s) /\ j \in 1..Len(s)
      BY <1>1, <2>1 DEF OneEach
    <2>2. CASE i = Len(s) + 1 \/ j = Len(s) + 1
      BY <1>1, <1>2, <2>2
    <2> QED BY <1>1, <1>2, <2>1, <2>2
  <1>6. t # <<>> /\ Last(t) = e
    BY <1>1 DEF Last
  <1> QED BY <1>1, <1>3, <1>4, <1>5, <1>6 DEF t

(* Making room drops the oldest, and the new answer takes the place of the *)
(* token's old one.                                                        *)
LEMMA StoredHolds ==
    ASSUME IntroOK, NEW e \in TokenAnswer
    PROVE  /\ Stored(e) \in Seq(TokenAnswer) /\ OneEach(Stored(e))
           /\ Range(Stored(e)) \subseteq Range(entries) \cup {e}
  <1> PICK n : n = Len(entries)
    OBVIOUS
  <1>1. /\ entries \in Seq(TokenAnswer) /\ OneEach(entries) /\ n \in Nat /\ DOMAIN entries = 1..n
        /\ MaxAnswers \in Nat
    BY EdgeAssumption DEF IntroOK, EdgeAssumption
  <1>2. Room \in Seq(TokenAnswer) /\ OneEach(Room) /\ Range(Room) \subseteq Range(entries)
    <2>1. CASE n < MaxAnswers
      <3>1. Room = entries
        BY <1>1, <2>1 DEF Room
      <3> QED BY <1>1, <3>1
    <2>2. CASE n >= MaxAnswers
      <3> PICK m : m = n - MaxAnswers + 2
        OBVIOUS
      <3>1. Room = SubSeq(entries, m, n) /\ m \in Int /\ m >= 1
        BY <1>1, <2>2 DEF Room
      <3>2. /\ Room \in Seq(TokenAnswer)
            /\ Len(Room) = IF m <= n THEN n - m + 1 ELSE 0
            /\ \A i \in 1..(n - m + 1) : Room[i] = entries[m + i - 1]
        <4>1. \A i \in m..n : entries[i] \in TokenAnswer
          <5>1. \A i \in 1..n : entries[i] \in TokenAnswer
            BY ONLY <1>1, ElementOfSeq
          <5>2. \A i \in m..n : i \in 1..n
            BY ONLY <1>1, <3>1
          <5> QED BY ONLY <5>1, <5>2
        <4> QED BY ONLY <1>1, <3>1, <4>1, SubSeqProperties
      <3>3. DOMAIN Room = 1..(n - m + 1)
        <4>1. DOMAIN Room = 1..Len(Room)
          BY <3>2
        <4> QED BY <1>1, <3>1, <3>2, <4>1
      <3>4. \A i \in DOMAIN Room : m + i - 1 \in 1..n /\ Room[i] = entries[m + i - 1]
        BY <1>1, <3>1, <3>2, <3>3
      <3>5. Range(Room) \subseteq Range(entries)
        BY <1>1, <3>4 DEF Range
      <3>6. OneEach(Room)
        <4> SUFFICES ASSUME NEW i \in DOMAIN Room, NEW j \in DOMAIN Room, Room[i].token = Room[j].token
                     PROVE  i = j
          BY DEF OneEach
        <4>1. m + i - 1 = m + j - 1
          BY <1>1, <3>4 DEF OneEach
        <4> QED BY <1>1, <3>1, <3>3, <4>1
      <3> QED BY <3>2, <3>5, <3>6
    <2> QED BY <1>1, <2>1, <2>2
  <1>3. CASE ~\E i \in DOMAIN Room : Room[i].token = e.token
    <2>1. Stored(e) = Append(Room, e)
      BY <1>3 DEF Stored
    <2> QED BY <1>2, <1>3, <2>1, AnswerAppended
  <1>4. CASE \E i \in DOMAIN Room : Room[i].token = e.token
    <2> DEFINE t == [i \in DOMAIN Room |-> IF Room[i].token = e.token THEN e ELSE Room[i]]
    <2>1. Stored(e) = t
      BY <1>4 DEF Stored
    <2>2. DOMAIN Room = 1..Len(Room) /\ Len(Room) \in Nat /\ \A i \in 1..Len(Room) : Room[i] \in TokenAnswer
      BY <1>2
    <2>3. t \in Seq(TokenAnswer)
      <3>1. t \in [1..Len(Room) -> TokenAnswer]
        BY <2>2
      <3> HIDE DEF t
      <3> QED BY <2>2, <3>1
    <2>4. OneEach(t)
      <3>1. \A i \in DOMAIN Room : t[i].token = Room[i].token
        OBVIOUS
      <3>2. DOMAIN t = DOMAIN Room
        OBVIOUS
      <3> HIDE DEF t
      <3> QED BY <1>2, <3>1, <3>2 DEF OneEach
    <2>5. Range(t) \subseteq Range(entries) \cup {e}
      <3>1. \A i \in DOMAIN Room : t[i] = e \/ t[i] = Room[i]
        OBVIOUS
      <3>2. DOMAIN t = DOMAIN Room
        OBVIOUS
      <3> HIDE DEF t
      <3> QED BY <1>2, <3>1, <3>2 DEF Range
    <2> HIDE DEF t
    <2> QED BY <2>1, <2>3, <2>4, <2>5
  <1> QED BY <1>3, <1>4

(* What the clock, the caller and the issuer do to the introspection cache *)
(* keeps all this.                                                         *)
LEMMA RevokeHolds ==
    ASSUME JInv, NEW o \in Opaque, Revoke(o)
    PROVE  JInv'
  <1>1. /\ ~standing[o].revoked /\ standing' = [standing EXCEPT ![o].revoked = TRUE]
        /\ UNCHANGED <<entries, asking, lag>>
    BY DEF Revoke
  <1>2. /\ standing \in [Opaque -> [revoked : BOOLEAN, since : Nat]] /\ standing[o].since = 0
        /\ asking \in [Opaque -> Question] /\ entries \in Seq(TokenAnswer)
    BY <1>1 DEF JInv, IntroOK
  <1> PICK new : new = [standing[o] EXCEPT !.revoked = TRUE]
    OBVIOUS
  <1>3. /\ standing' \in [Opaque -> [revoked : BOOLEAN, since : Nat]] /\ standing'[o].since = 0
        /\ standing'[o].revoked /\ \A p \in Opaque : p # o => standing'[p] = standing[p]
    <2>1. new \in [revoked : BOOLEAN, since : Nat] /\ new.since = 0 /\ new.revoked
      BY <1>2
    <2>2. standing' = [standing EXCEPT ![o] = new]
      BY <1>1
    <2> QED BY <1>2, <2>1, <2>2
  <1>4. IntroOK' /\ LagHolds'
    BY <1>1, <1>3 DEF JInv, IntroOK, LagHolds
  <1>5. \A p \in Opaque : QuestionHolds(asking[p], standing'[p])
    <2>1. asking[o].age \in Nat
      BY <1>2 DEF Question
    <2> QED BY <1>3, <2>1 DEF JInv, QuestionHolds
  <1>6. \A e \in Range(entries) : AnswerHolds(e, standing'[e.token])
    <2> SUFFICES ASSUME NEW e \in Range(entries) PROVE AnswerHolds(e, standing'[e.token])
      OBVIOUS
    <2>1. e \in TokenAnswer /\ AnswerHolds(e, standing[e.token])
      <3>1. \A i \in DOMAIN entries : entries[i] \in TokenAnswer
        BY <1>2
      <3>2. e \in TokenAnswer
        BY <3>1 DEF Range
      <3> QED BY <3>2 DEF JInv
    <2>2. e.token \in Opaque /\ e.left \in Nat /\ e.left <= Max(Units) /\ Max(Units) <= Limit
      BY <2>1, UnitsBounded DEF TokenAnswer, AnswerHolds, Limit
    <2>3. CASE e.token = o
      <3>1. standing'[e.token].since + e.left <= Limit
        BY <1>3, <2>2, <2>3, UnitsBounded
      <3> QED BY <2>2, <3>1 DEF AnswerHolds
    <2>4. CASE e.token # o
      BY <1>3, <2>1, <2>2, <2>4 DEF AnswerHolds
    <2> QED BY <2>3, <2>4
  <1> QED BY <1>1, <1>4, <1>5, <1>6 DEF JInv

LEMMA IntrospectHolds ==
    ASSUME JInv, NEW o \in Opaque, NEW ttl \in Units, Introspect(o, ttl)
    PROVE  JInv'
  <1>1. IntroOK /\ LagHolds /\ \A e \in Range(entries) : AnswerHolds(e, standing[e.token])
    BY DEF JInv
  <1>2. CASE Lasting(o)
    <2>1. /\ entries' = Hit(o) /\ Admit(o, {ttl}, Last(entries').active) /\ UNCHANGED <<standing, asking>>
      BY <1>2 DEF Introspect
    <2>2. PICK i \in DOMAIN entries : entries[i].token = o /\ entries[i].left > 0
      BY <1>2 DEF Lasting, Position
    <2>3. Position(o) = {i}
      BY <1>1, <2>2 DEF Position, IntroOK, OneEach
    <2>4. (CHOOSE j \in Position(o) : TRUE) = i
      BY <2>3
    <2> PICK e : e = entries[i]
      OBVIOUS
    <2>5. entries' = Append(Without(o), e)
      BY <2>1, <2>4 DEF Hit
    <2>6. e \in TokenAnswer /\ e \in Range(entries) /\ e.token = o /\ e.left > 0
      BY <1>1, <2>2 DEF IntroOK, Range
    <2>7. /\ Without(o) \in Seq(TokenAnswer) /\ OneEach(Without(o))
          /\ Range(Without(o)) = {f \in Range(entries) : f.token # o}
      BY <1>1, WithoutKeeps
    <2>8. \A j \in DOMAIN Without(o) : Without(o)[j].token # e.token
      <3>1. \A j \in DOMAIN Without(o) : Without(o)[j] \in Range(Without(o))
        BY DEF Range
      <3> QED BY <2>6, <2>7, <3>1
    <2>9. /\ entries' \in Seq(TokenAnswer) /\ OneEach(entries') /\ Last(entries') = e
          /\ Range(entries') \subseteq Range(entries)
      BY <2>5, <2>6, <2>7, <2>8, AnswerAppended
    <2>10. standing[o].since \in Nat /\ Limit \in Nat /\ e.left \in Nat
      BY <1>1, <2>6, UnitsBounded DEF IntroOK, TokenAnswer
    <2>11. e.active /\ standing[o].revoked => standing[o].since <= Limit
      BY <1>1, <2>6, <2>10 DEF AnswerHolds
    <2>12. LagHolds'
      BY <1>1, <2>1, <2>9, <2>11, AdmitHolds
    <2> QED BY <1>1, <2>1, <2>9, <2>12 DEF JInv, IntroOK
  <1>3. CASE ~Lasting(o)
    <2> PICK q : q = Joined(asking[o], o, ttl)
      OBVIOUS
    <2>1. asking' = [asking EXCEPT ![o] = q] /\ UNCHANGED <<standing, entries, lag>>
      BY <1>3 DEF Introspect
    <2>2. /\ asking \in [Opaque -> Question] /\ asking[o] \in Question /\ standing[o].revoked \in BOOLEAN
          /\ QuestionHolds(asking[o], standing[o]) /\ ttl \in Nat
          /\ (~standing[o].revoked => standing[o].since = 0) /\ Timeout \in Nat
      BY <1>1, UnitsBounded DEF IntroOK, JInv
    <2>3. q \in Question /\ QuestionHolds(q, standing[o])
      <3>1. CASE asking[o].ttls = {}
        <4> PICK b \in BOOLEAN : b = ~standing[o].revoked
          OBVIOUS
        <4>1. q = [ttls |-> {ttl}, first |-> ttl, active |-> b, age |-> 0]
          BY <3>1 DEF Joined
        <4>2. q \in Question
          BY <2>2, <4>1, {ttl} \in SUBSET Units DEF Question
        <4>3. q.first = ttl /\ q.age = 0 /\ q.active = b
          BY <4>1
        <4>4. ~(q.active /\ standing[o].revoked)
          BY <4>3
        <4> QED BY <2>2, <4>2, <4>3, <4>4 DEF QuestionHolds
      <3>2. CASE asking[o].ttls # {}
        <4>1. q = [asking[o] EXCEPT !.ttls = @ \cup {ttl}]
          BY <3>2 DEF Joined
        <4>2. asking[o].ttls \cup {ttl} \in SUBSET Units
          BY <2>2 DEF Question
        <4> PICK b : b = asking[o]
          OBVIOUS
        <4>0. b \in [ttls : SUBSET Units, first : Nat, active : BOOLEAN, age : Nat]
          BY <2>2 DEF Question
        <4>3. q.first = asking[o].first /\ (q.active <=> asking[o].active) /\ q.age = asking[o].age
          BY <4>1, <4>0
        <4>4. q \in Question
          BY <2>2, <4>1, <4>2 DEF Question
        <4>5. q.first \in Units /\ q.age <= Timeout /\ (q.active /\ standing[o].revoked => standing[o].since <= q.age)
          BY <2>2, <3>2, <4>3 DEF QuestionHolds
        <4> QED BY <4>4, <4>5 DEF QuestionHolds
      <3> QED BY <3>1, <3>2
    <2>4. asking' \in [Opaque -> Question] /\ \A p \in Opaque : asking'[p] = asking[p] \/ (p = o /\ asking'[p] = q)
      BY <2>1, <2>2, <2>3
    <2>5. standing' = standing /\ entries' = entries /\ lag' = lag
      BY <2>1
    <2>6. ASSUME NEW p \in Opaque
          PROVE  QuestionHolds(asking'[p], standing[p])
      <3>1. QuestionHolds(asking[p], standing[p])
        BY DEF JInv
      <3>2. CASE asking'[p] = asking[p]
        BY <3>1, <3>2
      <3>3. CASE p = o /\ asking'[p] = q
        BY <2>3, <3>3
      <3> QED BY <2>4, <3>2, <3>3
    <2>7. IntroOK'
      BY <1>1, <2>5, <2>4 DEF IntroOK
    <2>8. LagHolds'
      BY <1>1, <2>5 DEF LagHolds
    <2> QED BY <1>1, <2>5, <2>6, <2>7, <2>8 DEF JInv
  <1> QED BY <1>2, <1>3

LEMMA IntrospectEndsHolds ==
    ASSUME JInv, NEW o \in Opaque, NEW ok, IntrospectEnds(o, ok)
    PROVE  JInv'
  <1>1. IntroOK /\ LagHolds /\ (\A e \in Range(entries) : AnswerHolds(e, standing[e.token]))
        /\ \A p \in Opaque : QuestionHolds(asking[p], standing[p])
    BY DEF JInv
  <1> PICK a : a = asking[o]
    OBVIOUS
  <1>2. /\ a.ttls # {} /\ asking' = [asking EXCEPT ![o] = NotAsking] /\ UNCHANGED standing
        /\ IF ok
           THEN /\ entries' = Stored([token |-> o, active |-> a.active, left |-> a.first])
                /\ Admit(o, a.ttls, a.active)
           ELSE UNCHANGED <<entries, lag>>
    BY DEF IntrospectEnds
  <1>3. /\ asking \in [Opaque -> Question] /\ a \in Question /\ QuestionHolds(a, standing[o])
        /\ standing[o].since \in Nat
    BY <1>1 DEF IntroOK
  <1>4. NotAsking \in Question /\ NotAsking.ttls = {}
    BY DEF NotAsking, Question
  <1>5. /\ asking' \in [Opaque -> Question]
        /\ \A p \in Opaque : QuestionHolds(asking'[p], standing[p])
    BY <1>1, <1>2, <1>3, <1>4 DEF QuestionHolds
  <1>6. a.first \in Nat /\ a.first <= Max(Units) /\ a.age \in Nat /\ a.age <= Timeout
    BY <1>2, <1>3, UnitsBounded DEF QuestionHolds, Question
  <1>7. a.active /\ standing[o].revoked => standing[o].since <= Timeout
    BY <1>2, <1>3, <1>6, UnitsBounded DEF QuestionHolds
  <1>8. CASE ok
    <2> PICK e : e = [token |-> o, active |-> a.active, left |-> a.first]
      OBVIOUS
    <2>1. e \in TokenAnswer
      BY <1>3, <1>6 DEF Question, TokenAnswer
    <2>2. AnswerHolds(e, standing[e.token])
      BY <1>3, <1>6, <1>7, UnitsBounded DEF AnswerHolds, Limit
    <2>3. /\ entries' \in Seq(TokenAnswer) /\ OneEach(entries') /\ Range(entries') \subseteq Range(entries) \cup {e}
      BY <1>1, <1>2, <1>8, <2>1, StoredHolds
    <2>4. a.active /\ standing[o].revoked => standing[o].since <= Limit
      BY <1>3, <1>7, UnitsBounded DEF Limit
    <2>5. LagHolds'
      BY <1>1, <1>2, <1>8, <2>4, AdmitHolds
    <2>6. \A f \in Range(entries') : AnswerHolds(f, standing[f.token])
      BY <1>1, <2>2, <2>3
    <2> QED BY <1>1, <1>2, <1>5, <2>3, <2>5, <2>6 DEF JInv, IntroOK
  <1>9. CASE ~ok
    BY <1>1, <1>2, <1>5, <1>9 DEF JInv, IntroOK, LagHolds
  <1> QED BY <1>8, <1>9

LEMMA IntroTickHolds ==
    ASSUME JInv, IntroTick
    PROVE  JInv'
  <1>1. /\ \A o \in Opaque : asking[o].ttls # {} => asking[o].age < Timeout
        /\ standing' = [o \in Opaque |-> [standing[o] EXCEPT !.since =
              IF standing[o].revoked THEN Least(@ + 1, Horizon) ELSE @]]
        /\ entries' = [i \in DOMAIN entries |-> [entries[i] EXCEPT !.left = Most(@ - 1, 0)]]
        /\ asking' = [o \in Opaque |-> IF asking[o].ttls # {} THEN [asking[o] EXCEPT !.age = @ + 1] ELSE asking[o]]
        /\ UNCHANGED lag
    BY DEF IntroTick
  <1>2. /\ standing \in [Opaque -> [revoked : BOOLEAN, since : Nat]] /\ asking \in [Opaque -> Question]
        /\ entries \in Seq(TokenAnswer) /\ OneEach(entries)
        /\ \A o \in Opaque : /\ ~standing[o].revoked => standing[o].since = 0
                             /\ QuestionHolds(asking[o], standing[o])
        /\ \A e \in Range(entries) : AnswerHolds(e, standing[e.token])
    BY DEF JInv, IntroOK
  <1>3. ASSUME NEW o \in Opaque
        PROVE  /\ standing'[o] \in [revoked : BOOLEAN, since : Nat]
               /\ standing'[o].revoked = standing[o].revoked
               /\ ~standing[o].revoked => standing'[o].since = standing[o].since
               /\ standing'[o].since <= standing[o].since + 1
    <2>1. standing[o] \in [revoked : BOOLEAN, since : Nat]
      BY <1>2
    <2> PICK n : n = IF standing[o].revoked THEN Least(standing[o].since + 1, Horizon) ELSE standing[o].since
      OBVIOUS
    <2>2. standing'[o] = [standing[o] EXCEPT !.since = n]
      BY <1>1
    <2>3. n \in Nat /\ n <= standing[o].since + 1
      BY <2>1, UnitsBounded DEF Least, Horizon
    <2> QED BY <2>1, <2>2, <2>3
  <1>4. ASSUME NEW o \in Opaque
        PROVE  asking'[o] \in Question /\ QuestionHolds(asking'[o], standing'[o])
    <2>1. asking[o] \in Question /\ QuestionHolds(asking[o], standing[o]) /\ standing[o].since \in Nat
      BY <1>2
    <2>2. CASE asking[o].ttls = {}
      BY <1>1, <2>1, <2>2 DEF QuestionHolds
    <2>3. CASE asking[o].ttls # {}
      <3> PICK q : q = [asking[o] EXCEPT !.age = @ + 1]
        OBVIOUS
      <3>1. asking'[o] = q
        BY <1>1, <2>3
      <3>2. /\ q \in Question /\ q.ttls = asking[o].ttls /\ q.first = asking[o].first
            /\ q.active = asking[o].active /\ q.age = asking[o].age + 1 /\ asking[o].age \in Nat
        BY <2>1 DEF Question
      <3>3. q.age <= Timeout
        BY <1>1, <2>3, <3>2, UnitsBounded
      <3> QED BY <1>3, <2>1, <2>3, <3>1, <3>2, <3>3 DEF QuestionHolds
    <2> QED BY <2>2, <2>3
  <1>5. ASSUME NEW i \in DOMAIN entries
        PROVE  /\ entries'[i] \in TokenAnswer /\ entries'[i].token = entries[i].token
               /\ AnswerHolds(entries'[i], standing'[entries'[i].token])
    <2>1. entries[i] \in TokenAnswer /\ AnswerHolds(entries[i], standing[entries[i].token])
      BY <1>2 DEF Range
    <2> PICK n : n = Most(entries[i].left - 1, 0)
      OBVIOUS
    <2>2. entries'[i] = [entries[i] EXCEPT !.left = n]
      BY <1>1
    <2>3. /\ entries[i].token \in Opaque /\ entries[i].left \in Nat
          /\ n \in Nat /\ n <= entries[i].left /\ (n > 0 => n = entries[i].left - 1)
      BY <2>1 DEF TokenAnswer, Most
    <2>4. /\ entries'[i] \in TokenAnswer /\ entries'[i].token = entries[i].token
          /\ entries'[i].left = n /\ entries'[i].active = entries[i].active
      BY <2>1, <2>2, <2>3 DEF TokenAnswer
    <2>5. standing[entries[i].token].since \in Nat
      BY <1>2, <2>3
    <2>6. /\ standing'[entries[i].token].revoked = standing[entries[i].token].revoked
          /\ standing'[entries[i].token].since <= standing[entries[i].token].since + 1
          /\ standing'[entries[i].token].since \in Nat
      BY <1>3, <2>3
    <2> QED BY <2>1, <2>3, <2>4, <2>5, <2>6, UnitsBounded DEF AnswerHolds
  <1>6. standing' \in [Opaque -> [revoked : BOOLEAN, since : Nat]] /\ asking' \in [Opaque -> Question]
    <2>1. DOMAIN standing' = Opaque /\ DOMAIN asking' = Opaque
      BY <1>1
    <2>2. standing' = [o \in Opaque |-> standing'[o]] /\ asking' = [o \in Opaque |-> asking'[o]]
      BY <1>1
    <2> QED BY <1>3, <1>4, <2>2
  <1>7. entries' \in Seq(TokenAnswer) /\ DOMAIN entries' = DOMAIN entries
    <2>1. DOMAIN entries = 1..Len(entries) /\ Len(entries) \in Nat
      BY <1>2
    <2>2. entries' = [i \in 1..Len(entries) |-> entries'[i]]
      BY <1>1, <2>1
    <2>3. entries' \in [1..Len(entries) -> TokenAnswer]
      BY <1>5, <2>1, <2>2
    <2> QED BY <2>1, <2>3
  <1>8. OneEach(entries')
    BY <1>2, <1>5, <1>7 DEF OneEach
  <1>9. \A e \in Range(entries') : AnswerHolds(e, standing'[e.token])
    BY <1>5, <1>7 DEF Range
  <1>10. \A o \in Opaque : ~standing'[o].revoked => standing'[o].since = 0
    BY <1>2, <1>3
  <1>11. LagHolds'
    BY <1>1 DEF JInv, LagHolds
  <1> QED BY <1>4, <1>6, <1>7, <1>8, <1>9, <1>10, <1>11 DEF JInv, IntroOK


LEMMA IntroStep ==
    ASSUME JInv, [EdgeNext]_evars
    PROVE  JInv'
  <1>1. CASE UNCHANGED introVars
    BY <1>1 DEF JInv, IntroOK, LagHolds, introVars
  <1>2. ASSUME NEW o \in Opaque, Revoke(o)
        PROVE  JInv'
    BY <1>2, RevokeHolds
  <1>3. ASSUME NEW o \in Opaque, NEW ttl \in Units, Introspect(o, ttl)
        PROVE  JInv'
    BY <1>3, IntrospectHolds
  <1>4. ASSUME NEW o \in Opaque, NEW ok \in BOOLEAN, IntrospectEnds(o, ok)
        PROVE  JInv'
    BY <1>4, IntrospectEndsHolds
  <1>5. ASSUME IntroTick
        PROVE  JInv'
    BY <1>5, IntroTickHolds
  <1>6. IntroNext => JInv'
    BY <1>2, <1>3, <1>4, <1>5 DEF IntroNext
  <1>7. JwksNext \/ TokenNext \/ ArtifactNext \/ LogNext \/ UNCHANGED evars => UNCHANGED introVars
    BY DEF JwksNext, TokenNext, ArtifactNext, LogNext, evars
  <1> QED BY <1>1, <1>6, <1>7 DEF EdgeNext

LEMMA IntroStarts == EdgeInit => JInv
  <1> SUFFICES ASSUME EdgeInit
               PROVE  JInv
    OBVIOUS
  <1>1. /\ standing = [o \in Opaque |-> [revoked |-> FALSE, since |-> 0]] /\ entries = <<>>
        /\ asking = [o \in Opaque |-> NotAsking] /\ lag = [ttl \in Units |-> 0]
    BY DEF EdgeInit, IntroInit
  <1>2. entries \in Seq(TokenAnswer) /\ DOMAIN entries = {} /\ Range(entries) = {}
    BY <1>1 DEF Range
  <1>3. NotAsking \in Question /\ NotAsking.ttls = {}
    BY DEF NotAsking, Question
  <1>4. LagHolds
    BY <1>1, UnitsBounded DEF LagHolds
  <1>5. IntroOK
    BY <1>1, <1>2, <1>3 DEF IntroOK, OneEach
  <1>6. \A o \in Opaque : QuestionHolds(asking[o], standing[o])
    BY <1>1, <1>3 DEF QuestionHolds
  <1> QED BY <1>2, <1>4, <1>5, <1>6 DEF JInv


-----------------------------------------------------------------------------
(* Tokens for backends.  What is left of one in the cache and its age make *)
(* at most the time the provider gave it, and an answer under way is no    *)
(* older than the request may be.                                          *)
BackendToken == [age : Nat, expiresIn : Nat, left : Nat]
UInv ==
    /\ token \in BackendToken /\ getting \in BackendToken /\ overdue = FALSE
    /\ getting.expiresIn > 0 => getting.age <= Timeout
    /\ token.left > 0 /\ token.expiresIn > Skew => token.age + token.left <= token.expiresIn

LEMMA TokenStarts == EdgeInit => UInv
  BY DEF EdgeInit, TokenInit, NoToken, UInv, BackendToken

LEMMA TokenStep ==
    ASSUME Timeout <= Skew, UInv, [EdgeNext]_evars
    PROVE  UInv'
  <1>1. Timeout \in Nat /\ Skew \in Nat /\ ExpiresIn \subseteq Nat
    BY EdgeAssumption DEF EdgeAssumption
  <1>2. NoToken \in BackendToken /\ NoToken.left = 0 /\ NoToken.expiresIn = 0
    BY DEF NoToken, BackendToken
  <1>3. CASE UNCHANGED tokenVars
    BY <1>3 DEF UInv, tokenVars
  <1>4. CASE UseToken
    <2>1. CASE token.left > 0
      <3>1. ~(token.expiresIn > Skew /\ token.age >= token.expiresIn)
        BY <1>1, <2>1 DEF UInv, BackendToken
      <3>2. overdue' = (overdue \/ (token.expiresIn > Skew /\ token.age >= token.expiresIn)) /\ UNCHANGED <<token, getting>>
        BY <1>4, <2>1 DEF UseToken
      <3>3. overdue' = FALSE
        BY <3>1, <3>2 DEF UInv
      <3> QED BY <3>2, <3>3 DEF UInv
    <2>2. CASE ~(token.left > 0)
      <3> PICK g : g = [NoToken EXCEPT !.left = 1]
        OBVIOUS
      <3>1. g \in BackendToken /\ g.expiresIn = 0
        BY <1>2 DEF BackendToken, NoToken
      <3>2. (getting' = getting \/ getting' = g) /\ UNCHANGED <<token, overdue>>
        BY <1>4, <2>2 DEF UseToken
      <3>3. getting' \in BackendToken /\ (getting'.expiresIn > 0 => getting'.age <= Timeout)
        <4>1. CASE UNCHANGED getting
          BY <4>1 DEF UInv
        <4>2. CASE getting' = g
          BY <3>1, <4>2
        <4> QED BY <3>2, <4>1, <4>2
      <3> QED BY <3>2, <3>3 DEF UInv
    <2> QED BY <2>1, <2>2
  <1>5. ASSUME NEW e \in ExpiresIn, Issue(e)
        PROVE  UInv'
    <2> PICK g : g = [getting EXCEPT !.expiresIn = e, !.age = 0]
      OBVIOUS
    <2>1. g \in BackendToken /\ g.age = 0
      BY <1>1 DEF UInv, BackendToken
    <2>2. getting' = g /\ UNCHANGED <<token, overdue>>
      BY <1>5 DEF Issue
    <2> QED BY <1>1, <2>1, <2>2 DEF UInv
  <1>6. CASE TokenArrives
    <2> PICK t : t = [age |-> getting.age, expiresIn |-> getting.expiresIn, left |-> Lifetime(getting.expiresIn)]
      OBVIOUS
    <2>1. getting.age \in Nat /\ getting.expiresIn \in Nat /\ getting.expiresIn > 0 /\ getting.age <= Timeout
      BY <1>6 DEF UInv, BackendToken, TokenArrives
    <2>2. /\ Lifetime(getting.expiresIn) \in Nat
          /\ getting.expiresIn > Skew => Lifetime(getting.expiresIn) = getting.expiresIn - Skew
      BY <1>1, <2>1 DEF Lifetime, Most
    <2>3. t \in BackendToken /\ t.age = getting.age /\ t.expiresIn = getting.expiresIn /\ t.left = Lifetime(getting.expiresIn)
      BY <2>1, <2>2 DEF BackendToken
    <2>4. token' = t /\ getting' = NoToken /\ overdue' = (overdue \/ (token'.expiresIn > Skew /\ token'.age >= token'.expiresIn))
      BY <1>6 DEF TokenArrives
    <2>5. ~(t.expiresIn > Skew /\ t.age >= t.expiresIn)
      BY <1>1, <2>1, <2>3
    <2>6. t.expiresIn > Skew => t.age + t.left <= t.expiresIn
      BY <1>1, <2>1, <2>2, <2>3
    <2>7. overdue' = FALSE
      BY <2>4, <2>5 DEF UInv
    <2>8. token' \in BackendToken /\ getting' \in BackendToken /\ ~(getting'.expiresIn > 0)
      BY <1>2, <2>3, <2>4
    <2>9. token'.left > 0 /\ token'.expiresIn > Skew => token'.age + token'.left <= token'.expiresIn
      BY <2>4, <2>6
    <2> QED BY <2>7, <2>8, <2>9 DEF UInv
  <1>7. CASE TokenFails \/ Invalidate
    BY <1>2, <1>7 DEF TokenFails, Invalidate, UInv
  <1>8. CASE TokenTick
    <2>1. token.age \in Nat /\ token.left \in Nat /\ token.expiresIn \in Nat /\ getting.age \in Nat
      BY DEF UInv, BackendToken
    <2> PICK g : g = [getting EXCEPT !.age = @ + 1]
      OBVIOUS
    <2> PICK t : t = [token EXCEPT !.age = @ + 1, !.left = @ - 1]
      OBVIOUS
    <2>2. g \in BackendToken /\ g.age = getting.age + 1 /\ g.expiresIn = getting.expiresIn
      BY DEF UInv, BackendToken
    <2>3. ASSUME token.left > 0
          PROVE  t \in BackendToken
      <3>1. token.left - 1 \in Nat /\ token.age + 1 \in Nat
        BY <2>1, <2>3
      <3>2. token \in [age : Nat, expiresIn : Nat, left : Nat]
        BY DEF UInv, BackendToken
      <3> QED BY <3>1, <3>2 DEF BackendToken
    <2>4. t.age = token.age + 1 /\ t.left = token.left - 1 /\ t.expiresIn = token.expiresIn
      BY DEF UInv, BackendToken
    <2>5. /\ getting.expiresIn > 0 => getting.age < Timeout
          /\ getting' = IF getting.expiresIn > 0 THEN g ELSE getting
          /\ token' = IF token.left > 0 THEN t ELSE NoToken
          /\ UNCHANGED overdue
      BY <1>8 DEF TokenTick
    <2>6. getting' \in BackendToken /\ (getting'.expiresIn > 0 => getting'.age <= Timeout)
      BY <1>1, <2>1, <2>2, <2>5 DEF UInv
    <2>7. token' \in BackendToken /\ (token'.left > 0 /\ token'.expiresIn > Skew => token'.age + token'.left <= token'.expiresIn)
      BY <1>1, <1>2, <2>1, <2>3, <2>4, <2>5 DEF UInv
    <2> QED BY <2>5, <2>6, <2>7 DEF UInv
  <1>9. TokenNext => UInv'
    BY <1>4, <1>5, <1>6, <1>7, <1>8 DEF TokenNext
  <1>10. JwksNext \/ IntroNext \/ ArtifactNext \/ LogNext \/ UNCHANGED evars => UNCHANGED tokenVars
    BY DEF JwksNext, IntroNext, ArtifactNext, LogNext, evars
  <1> QED BY <1>3, <1>9, <1>10 DEF EdgeNext


-----------------------------------------------------------------------------
(* Validators.  What is in memory is on the volume too, in good order: a   *)
(* file goes only when there is no copy of it in memory, or with the copy. *)
(* What was prefetched, and not found missing, is in memory until the      *)
(* prefetch ends.                                                          *)
Names == UNION {Needs[d] : d \in Documents}
Artifact == [name : Names, good : BOOLEAN]
NamesOf(S) == {f.name : f \in S}
VolumeOK ==
    /\ disk \in Seq(Artifact) /\ memory \subseteq Artifact
    /\ ceiling \in Nat /\ pinned \subseteq Names
PrefetchOK ==
    /\ prefetch \in [doc : Documents \cup {"none"}, todo : SUBSET Names, missing : SUBSET Names]
    /\ prefetch.doc = "none" => prefetch.todo = {}
    /\ prefetch.doc # "none" => (Needs[prefetch.doc] \ prefetch.todo) \ prefetch.missing \subseteq NamesOf(memory)
ServedHolds == complete => served \in Documents /\ Needs[served] \subseteq NamesOf(memory)
VInv ==
    /\ VolumeOK /\ PrefetchOK /\ ServedHolds
    /\ \A m \in memory : m.good
    /\ NamesOf(memory) \subseteq NamesOf(Range(disk))

LEMMA NeedsNamed == \A d \in Documents : Needs[d] \subseteq Names
  BY EdgeAssumption DEF EdgeAssumption, Names

LEMMA OnDiskNames ==
    ASSUME VolumeOK
    PROVE  /\ OnDisk = NamesOf(Range(disk))
           /\ \A a \in OnDisk : File(a) \in DOMAIN disk /\ disk[File(a)] \in Artifact /\ disk[File(a)].name = a
                                /\ disk[File(a)] \in Range(disk)
  <1>1. disk \in Seq(Artifact)
    BY DEF VolumeOK
  <1>2. OnDisk = NamesOf(Range(disk))
    BY <1>1 DEF OnDisk, NamesOf, Range
  <1>3. ASSUME NEW a \in OnDisk
        PROVE  File(a) \in DOMAIN disk /\ disk[File(a)].name = a
    <2>1. \E i \in DOMAIN disk : disk[i].name = a
      BY <1>3 DEF OnDisk
    <2> QED BY <2>1 DEF File
  <1>4. \A i \in DOMAIN disk : disk[i] \in Artifact /\ disk[i] \in Range(disk)
    BY <1>1 DEF Range
  <1> QED BY <1>2, <1>3, <1>4

LEMMA DeletedKeeps ==
    ASSUME NEW d \in Seq(Artifact), NEW a
    PROVE  Deleted(d, a) \in Seq(Artifact) /\ Range(Deleted(d, a)) = {f \in Range(d) : f.name # a}
  BY OnlyKeeps DEF Deleted

(* A file that is used, or is new, is put at the end; no other goes.       *)
LEMMA MovedKeeps ==
    ASSUME NEW d \in Seq(Artifact), NEW f \in Artifact
    PROVE  /\ Append(Deleted(d, f.name), f) \in Seq(Artifact)
           /\ NamesOf(Range(Append(Deleted(d, f.name), f))) = NamesOf(Range(d)) \cup {f.name}
  <1> DEFINE s == Deleted(d, f.name)
             t == Append(s, f)
  <1>1. s \in Seq(Artifact) /\ Range(s) = {g \in Range(d) : g.name # f.name}
    BY DeletedKeeps
  <1> HIDE DEF s
  <1>2. t \in Seq(Artifact) /\ Range(t) = Range(s) \cup {f}
    <2>1. Len(t) = Len(s) + 1 /\ Len(s) \in Nat /\ t[Len(s) + 1] = f /\ \A i \in 1..Len(s) : t[i] = s[i]
      BY <1>1, AppendProperties
    <2>2. DOMAIN s = 1..Len(s) /\ DOMAIN t = 1..(Len(s) + 1) /\ t \in Seq(Artifact)
      BY <1>1, <2>1, AppendProperties
    <2>3. \A x : x \in Range(t) <=> x \in Range(s) \/ x = f
      BY <2>1, <2>2 DEF Range
    <2> QED BY <2>2, <2>3
  <1>3. NamesOf(Range(t)) = NamesOf(Range(d)) \cup {f.name}
    BY <1>1, <1>2 DEF NamesOf
  <1> QED BY <1>2, <1>3 DEF s

(* Eviction removes files only, and none of the pinned.                    *)
LEMMA EvictedKeeps ==
    ASSUME NEW d \in Seq(Artifact), NEW pins, NEW max \in Nat
    PROVE  /\ Evicted(d, pins, max) \in Seq(Artifact)
           /\ Range(Evicted(d, pins, max)) \subseteq Range(d)
           /\ NamesOf(Range(d)) \cap pins \subseteq NamesOf(Range(Evicted(d, pins, max)))
  <1> DEFINE free == Only(d, {f \in Range(d) : f.name \notin pins})
             n == Least(Len(free), Most(0, Len(d) - max))
             out == {free[i].name : i \in 1..n}
             left == {f \in Range(d) : f.name \notin out}
  <1>1. free \in Seq(Artifact) /\ Range(free) \subseteq {f \in Range(d) : f.name \notin pins}
    BY OnlyKeeps
  <1> HIDE DEF free
  <1>2. n \in Nat /\ n <= Len(free)
    <2>1. Len(free) \in Nat /\ Len(d) \in Nat
      BY <1>1
    <2> QED BY <2>1 DEF Least, Most
  <1> HIDE DEF n
  <1>3. \A i \in 1..n : free[i] \in Range(free)
    <2>1. DOMAIN free = 1..Len(free) /\ Len(free) \in Nat
      BY <1>1
    <2> QED BY <1>2, <2>1 DEF Range
  <1>4. out \cap pins = {}
    BY <1>1, <1>3
  <1>5. Evicted(d, pins, max) = Only(d, left)
    BY DEF Evicted, free, n
  <1> HIDE DEF out
  <1>6. Only(d, left) \in Seq(Artifact) /\ Range(Only(d, left)) = Range(d) \cap left
    BY OnlyKeeps
  <1>7. NamesOf(Range(d)) \cap pins \subseteq NamesOf(Range(d) \cap left)
    BY <1>4 DEF NamesOf
  <1> QED BY <1>5, <1>6, <1>7


LEMMA GetHolds ==
    ASSUME VInv, NEW a \in Names, Get(a)
    PROVE  /\ disk' \in Seq(Artifact) /\ memory' \subseteq Artifact /\ memory \subseteq memory'
           /\ a \in NamesOf(memory') /\ (\A m \in memory' : m.good)
           /\ NamesOf(memory') \subseteq NamesOf(Range(disk')) /\ complete' = complete
  <1>1. /\ disk \in Seq(Artifact) /\ memory \subseteq Artifact /\ (\A m \in memory : m.good)
        /\ NamesOf(memory) \subseteq NamesOf(Range(disk)) /\ OnDisk = NamesOf(Range(disk))
    BY OnDiskNames DEF VInv, VolumeOK
  <1>2. a \in OnDisk
    BY <1>1 DEF Get, NamesOf
  <1> PICK f : f = disk[File(a)]
    OBVIOUS
  <1>3. f \in Artifact /\ f.name = a
    BY <1>2, OnDiskNames DEF VInv
  <1>4. disk' = Append(Deleted(disk, f.name), f)
    BY <1>2, <1>3 DEF Get
  <1>5. disk' \in Seq(Artifact) /\ NamesOf(Range(disk')) = NamesOf(Range(disk)) \cup {a}
    BY <1>1, <1>3, <1>4, MovedKeeps
  <1>6. CASE \E m \in memory : m.name = a
    <2>1. memory' = memory /\ complete' = complete /\ a \in NamesOf(memory)
      BY <1>6 DEF Get, NamesOf
    <2> QED BY <1>1, <1>5, <2>1
  <1>7. CASE ~\E m \in memory : m.name = a
    <2>1. f.good /\ memory' = memory \cup {f} /\ complete' = complete
      BY <1>7 DEF Get, Sound
    <2>2. NamesOf(memory') = NamesOf(memory) \cup {a}
      BY <1>3, <2>1 DEF NamesOf
    <2> QED BY <1>1, <1>3, <1>5, <2>1, <2>2
  <1> QED BY <1>6, <1>7

(* A step that leaves the document alone, and takes nothing from memory.   *)
LEMMA KeepingHolds ==
    ASSUME VInv, UNCHANGED <<pinned, ceiling, served, prefetch>>,
           disk' \in Seq(Artifact), memory' \subseteq Artifact, memory \subseteq memory',
           \A m \in memory' : m.good, NamesOf(memory') \subseteq NamesOf(Range(disk')), complete' => complete
    PROVE  VInv'
  <1>1. NamesOf(memory) \subseteq NamesOf(memory')
    BY DEF NamesOf
  <1>2. VolumeOK'
    BY DEF VInv, VolumeOK
  <1>3. PrefetchOK'
    BY <1>1 DEF VInv, PrefetchOK
  <1>4. ServedHolds'
    BY <1>1 DEF VInv, ServedHolds
  <1> QED BY <1>2, <1>3, <1>4 DEF VInv

LEMMA ValidateHolds ==
    ASSUME VInv, NEW d \in Documents, NEW a \in Needs[d], Validate(a)
    PROVE  VInv'
  <1>1. a \in Names /\ served # "none" /\ a \in Needs[served] /\ UNCHANGED <<pinned, ceiling, served, prefetch>>
    BY NeedsNamed DEF Validate
  <1>2. CASE Get(a)
    <2>1. /\ disk' \in Seq(Artifact) /\ memory' \subseteq Artifact /\ memory \subseteq memory'
          /\ (\A m \in memory' : m.good) /\ NamesOf(memory') \subseteq NamesOf(Range(disk')) /\ complete' = complete
      BY <1>1, <1>2, GetHolds
    <2> QED BY <1>1, <2>1, KeepingHolds
  <1>3. CASE Missed(a) /\ disk' = Deleted(disk, a) /\ complete' = (complete /\ a \notin OnDisk) /\ UNCHANGED memory
    <2>1. /\ disk \in Seq(Artifact) /\ memory \subseteq Artifact /\ (\A m \in memory : m.good)
          /\ NamesOf(memory) \subseteq NamesOf(Range(disk))
      BY DEF VInv, VolumeOK
    <2>2. disk' \in Seq(Artifact) /\ Range(disk') = {f \in Range(disk) : f.name # a}
      BY <1>3, <2>1, DeletedKeeps
    <2>3. a \notin NamesOf(memory)
      BY <1>3 DEF Missed, NamesOf
    <2>4. NamesOf(memory) \subseteq NamesOf(Range(disk'))
      BY <2>1, <2>2, <2>3 DEF NamesOf
    <2>5. memory' = memory /\ (complete' => complete)
      BY <1>3
    <2> QED BY <1>1, <2>1, <2>2, <2>4, <2>5, KeepingHolds
  <1> QED BY <1>2, <1>3 DEF Validate

LEMMA DamageHolds ==
    ASSUME VInv, NEW a, Damage(a)
    PROVE  VInv'
  <1>1. a \in OnDisk /\ disk' = [disk EXCEPT ![File(a)].good = FALSE]
        /\ UNCHANGED <<memory, pinned, ceiling, served, complete, prefetch>>
    BY DEF Damage
  <1> PICK i : i = File(a)
    OBVIOUS
  <1>2. disk \in Seq(Artifact) /\ i \in DOMAIN disk /\ disk[i] \in Artifact
    BY <1>1, OnDiskNames DEF VInv, VolumeOK
  <1> PICK f : f = [disk[i] EXCEPT !.good = FALSE]
    OBVIOUS
  <1>3. f \in Artifact /\ f.name = disk[i].name
    BY <1>2 DEF Artifact
  <1>4. disk' = [disk EXCEPT ![i] = f]
    BY <1>1
  <1>5. disk' \in Seq(Artifact) /\ DOMAIN disk' = DOMAIN disk
    BY <1>2, <1>3, <1>4, ExceptSeq
  <1>6. \A j \in DOMAIN disk : disk'[j].name = disk[j].name
    BY <1>2, <1>3, <1>4
  <1>7. NamesOf(Range(disk')) = NamesOf(Range(disk))
    BY <1>5, <1>6 DEF NamesOf, Range
  <1>8. memory' = memory /\ (complete' => complete)
    BY <1>1
  <1> QED BY <1>1, <1>5, <1>7, <1>8, KeepingHolds DEF VInv, VolumeOK


(* What a step of the prefetch keeps; a is no longer to do, and in memory  *)
(* unless it is missing.                                                   *)
LEMMA PrefetchingHolds ==
    ASSUME VInv, NEW a \in Names, NEW failed \in SUBSET {a}, prefetch.doc # "none",
           prefetch' = [prefetch EXCEPT !.todo = @ \ {a}, !.missing = @ \cup failed],
           UNCHANGED <<pinned, ceiling, served, complete>>,
           disk' \in Seq(Artifact), memory' \subseteq Artifact, memory \subseteq memory', a \in NamesOf(memory') \cup failed,
           \A m \in memory' : m.good, NamesOf(memory') \subseteq NamesOf(Range(disk'))
    PROVE  VInv'
  <1>1. NamesOf(memory) \subseteq NamesOf(memory')
    BY DEF NamesOf
  <1>2. VolumeOK'
    BY DEF VInv, VolumeOK
  <1>3. ServedHolds'
    BY <1>1 DEF VInv, ServedHolds
  <1>4. prefetch \in [doc : Documents \cup {"none"}, todo : SUBSET Names, missing : SUBSET Names]
        /\ (Needs[prefetch.doc] \ prefetch.todo) \ prefetch.missing \subseteq NamesOf(memory)
    BY DEF VInv, PrefetchOK
  <1>5. /\ prefetch' \in [doc : Documents \cup {"none"}, todo : SUBSET Names, missing : SUBSET Names]
        /\ prefetch'.doc = prefetch.doc /\ prefetch'.todo = prefetch.todo \ {a}
        /\ prefetch'.missing = prefetch.missing \cup failed
    BY <1>4
  <1>6. (Needs[prefetch'.doc] \ prefetch'.todo) \ prefetch'.missing \subseteq NamesOf(memory')
    BY <1>1, <1>4, <1>5
  <1>7. PrefetchOK'
    BY <1>5, <1>6 DEF PrefetchOK
  <1> QED BY <1>2, <1>3, <1>7 DEF VInv

LEMMA PrefetchOneHolds ==
    ASSUME VInv, NEW a, PrefetchOne(a)
    PROVE  VInv'
  <1>1. a \in prefetch.todo /\ UNCHANGED <<pinned, ceiling, served>>
    BY DEF PrefetchOne
  <1>2. /\ prefetch \in [doc : Documents \cup {"none"}, todo : SUBSET Names, missing : SUBSET Names]
        /\ disk \in Seq(Artifact) /\ memory \subseteq Artifact /\ (\A m \in memory : m.good)
        /\ NamesOf(memory) \subseteq NamesOf(Range(disk))
    BY DEF VInv, PrefetchOK, VolumeOK
  <1>3. a \in Names /\ prefetch.doc # "none"
    BY <1>1, <1>2 DEF VInv, PrefetchOK
  <1>4. CASE Get(a) /\ prefetch' = [prefetch EXCEPT !.todo = @ \ {a}]
    <2>1. /\ disk' \in Seq(Artifact) /\ memory' \subseteq Artifact /\ memory \subseteq memory' /\ a \in NamesOf(memory')
          /\ (\A m \in memory' : m.good) /\ NamesOf(memory') \subseteq NamesOf(Range(disk')) /\ complete' = complete
      BY <1>3, <1>4, GetHolds
    <2>2. prefetch' = [prefetch EXCEPT !.todo = @ \ {a}, !.missing = @ \cup {}]
      BY <1>2, <1>4
    <2>3. a \in NamesOf(memory') \cup {} /\ {} \in SUBSET {a}
      BY <2>1
    <2> QED BY <1>1, <1>3, <2>1, <2>2, <2>3, PrefetchingHolds
  <1>5. CASE /\ Missed(a) /\ UNCHANGED complete
             /\ disk' = Append(Deleted(disk, a), [name |-> a, good |-> TRUE])
             /\ memory' = memory \cup {[name |-> a, good |-> TRUE]}
             /\ prefetch' = [prefetch EXCEPT !.todo = @ \ {a}]
    <2> PICK f : f = [name |-> a, good |-> TRUE]
      OBVIOUS
    <2>1. f \in Artifact /\ f.name = a /\ f.good
      BY <1>3 DEF Artifact
    <2>2. disk' \in Seq(Artifact) /\ NamesOf(Range(disk')) = NamesOf(Range(disk)) \cup {a}
      BY <1>2, <1>5, <2>1, MovedKeeps
    <2>3. memory' = memory \cup {f}
      BY <1>5
    <2>4. NamesOf(memory') = NamesOf(memory) \cup {a}
      BY <2>1, <2>3 DEF NamesOf
    <2>5. memory' \subseteq Artifact /\ memory \subseteq memory' /\ (\A m \in memory' : m.good)
      BY <1>2, <2>1, <2>3
    <2>6. prefetch' = [prefetch EXCEPT !.todo = @ \ {a}, !.missing = @ \cup {}]
      BY <1>2, <1>5
    <2>7. NamesOf(memory') \subseteq NamesOf(Range(disk')) /\ a \in NamesOf(memory') \cup {}
      BY <1>2, <2>2, <2>4
    <2>8. {} \in SUBSET {a}
      OBVIOUS
    <2> QED BY <1>1, <1>3, <1>5, <2>2, <2>5, <2>6, <2>7, <2>8, PrefetchingHolds
  <1>6. CASE /\ Missed(a) /\ UNCHANGED complete /\ disk' = Deleted(disk, a) /\ UNCHANGED memory
             /\ prefetch' = [prefetch EXCEPT !.todo = @ \ {a}, !.missing = @ \cup {a}]
    <2>1. disk' \in Seq(Artifact) /\ Range(disk') = {f \in Range(disk) : f.name # a}
      BY <1>2, <1>6, DeletedKeeps
    <2>2. a \notin NamesOf(memory)
      BY <1>6 DEF Missed, NamesOf
    <2>3. NamesOf(memory) \subseteq NamesOf(Range(disk'))
      BY <1>2, <2>1, <2>2 DEF NamesOf
    <2>4. memory' = memory /\ a \in NamesOf(memory') \cup {a}
      BY <1>6
    <2> QED BY <1>1, <1>2, <1>3, <1>6, <2>1, <2>3, <2>4, PrefetchingHolds
  <1> QED BY <1>4, <1>5, <1>6 DEF PrefetchOne

LEMMA OfferHolds ==
    ASSUME VInv, NEW d \in Documents, Offer(d)
    PROVE  VInv'
  <1>1. /\ prefetch' = [doc |-> d, todo |-> Needs[d], missing |-> {}]
        /\ UNCHANGED <<disk, memory, pinned, ceiling, served, complete>>
    BY DEF Offer
  <1>2. Needs[d] \subseteq Names /\ d # "none"
    BY NeedsNamed, EdgeAssumption DEF EdgeAssumption
  <1>3. PrefetchOK'
    BY <1>1, <1>2 DEF PrefetchOK
  <1>4. VolumeOK' /\ ServedHolds'
    BY <1>1 DEF VInv, VolumeOK, ServedHolds
  <1> QED BY <1>1, <1>3, <1>4 DEF VInv

(* The pinned are those of the document: none of them goes.                *)
LEMMA PrefetchEndsHolds ==
    ASSUME VInv, NEW max \in Ceilings, PrefetchEnds(max)
    PROVE  VInv'
  <1> DEFINE made == Evicted(disk, Needs[prefetch.doc], ceiling)
  <1>1. /\ prefetch.doc # "none" /\ prefetch.todo = {} /\ pinned' = Needs[prefetch.doc]
        /\ prefetch' = [doc |-> "none", todo |-> {}, missing |-> {}]
        /\ memory' = InMemory(disk')
        /\ IF prefetch.missing = {}
           THEN /\ served' = prefetch.doc /\ complete' = TRUE /\ ceiling' = max
                /\ disk' = Evicted(made, Needs[prefetch.doc], max)
           ELSE disk' = made /\ complete' = FALSE /\ UNCHANGED <<served, ceiling>>
    BY DEF PrefetchEnds, Pins
  <1>2. max \in Nat /\ "none" \notin Documents
    BY EdgeAssumption DEF EdgeAssumption
  <1>3. /\ disk \in Seq(Artifact) /\ memory \subseteq Artifact /\ ceiling \in Nat /\ (\A m \in memory : m.good)
        /\ NamesOf(memory) \subseteq NamesOf(Range(disk)) /\ prefetch.doc \in Documents
        /\ Needs[prefetch.doc] \ prefetch.missing \subseteq NamesOf(memory)
    BY <1>1 DEF VInv, VolumeOK, PrefetchOK
  <1>4. /\ made \in Seq(Artifact) /\ Range(made) \subseteq Range(disk)
        /\ NamesOf(Range(disk)) \cap Needs[prefetch.doc] \subseteq NamesOf(Range(made))
    BY <1>3, EvictedKeeps
  <1> HIDE DEF made
  <1>5. /\ Evicted(made, Needs[prefetch.doc], max) \in Seq(Artifact)
        /\ NamesOf(Range(made)) \cap Needs[prefetch.doc] \subseteq NamesOf(Range(Evicted(made, Needs[prefetch.doc], max)))
    BY <1>2, <1>4, EvictedKeeps
  <1>6. /\ disk' \in Seq(Artifact)
        /\ NamesOf(Range(disk)) \cap Needs[prefetch.doc] \subseteq NamesOf(Range(disk'))
    BY <1>1, <1>4, <1>5
  <1>7. memory' = {m \in memory : m.name \in NamesOf(Range(disk'))}
    BY <1>1, <1>6 DEF InMemory, NamesOf, Range
  <1>8. memory' \subseteq Artifact /\ (\A m \in memory' : m.good) /\ NamesOf(memory') = NamesOf(memory) \cap NamesOf(Range(disk'))
    BY <1>3, <1>7 DEF NamesOf
  <1>9. PrefetchOK'
    BY <1>1, <1>2 DEF PrefetchOK
  <1>10. VolumeOK'
    <2>1. ceiling' \in Nat /\ pinned' \subseteq Names
      BY <1>1, <1>2, <1>3, NeedsNamed
    <2> QED BY <1>6, <1>8, <2>1 DEF VolumeOK
  <1>11. ServedHolds'
    <2>1. CASE prefetch.missing = {}
      <3>1. served' = prefetch.doc
        BY <1>1, <2>1
      <3>2. Needs[prefetch.doc] \subseteq NamesOf(memory')
        BY <1>3, <1>6, <1>8, <2>1
      <3> QED BY <1>3, <3>1, <3>2 DEF ServedHolds
    <2>2. CASE prefetch.missing # {}
      BY <1>1, <2>2 DEF ServedHolds
    <2> QED BY <2>1, <2>2
  <1> QED BY <1>8, <1>9, <1>10, <1>11 DEF VInv

LEMMA RestartHolds ==
    ASSUME VInv, RestartGateway
    PROVE  VInv'
  <1>1. /\ memory' = {} /\ pinned' = {} /\ complete' = FALSE
        /\ prefetch' = [doc |-> "none", todo |-> {}, missing |-> {}] /\ UNCHANGED <<ceiling, served>>
    BY DEF RestartGateway
  <1>2. PICK order \in [DOMAIN disk -> Range(disk)] : disk' = Evicted(order, {}, ceiling)
    BY DEF RestartGateway
  <1>3. disk \in Seq(Artifact) /\ ceiling \in Nat
    BY DEF VInv, VolumeOK
  <1>4. Range(disk) \subseteq Artifact /\ DOMAIN disk = 1..Len(disk) /\ Len(disk) \in Nat
    BY <1>3 DEF Range
  <1>5. order \in Seq(Artifact)
    BY <1>2, <1>4
  <1>6. disk' \in Seq(Artifact)
    BY <1>2, <1>3, <1>5, EvictedKeeps
  <1>7. NamesOf(memory') = {}
    BY <1>1 DEF NamesOf
  <1>8. VolumeOK' /\ PrefetchOK' /\ ServedHolds'
    BY <1>1, <1>3, <1>6 DEF VolumeOK, PrefetchOK, ServedHolds
  <1> QED BY <1>1, <1>7, <1>8 DEF VInv


LEMMA VolumeStarts == EdgeInit => VInv
  <1> SUFFICES ASSUME EdgeInit
               PROVE  VInv
    OBVIOUS
  <1>1. /\ disk = <<>> /\ memory = {} /\ pinned = {} /\ ceiling \in Ceilings /\ served = "none" /\ complete = FALSE
        /\ prefetch = [doc |-> "none", todo |-> {}, missing |-> {}]
    BY DEF EdgeInit, ArtifactInit
  <1>2. ceiling \in Nat
    BY <1>1, EdgeAssumption DEF EdgeAssumption
  <1>3. VolumeOK /\ PrefetchOK /\ ServedHolds
    BY <1>1, <1>2 DEF VolumeOK, PrefetchOK, ServedHolds
  <1>4. NamesOf(memory) = {}
    BY <1>1 DEF NamesOf
  <1> QED BY <1>1, <1>3, <1>4 DEF VInv

LEMMA VolumeStep ==
    ASSUME VInv, [EdgeNext]_evars
    PROVE  VInv'
  <1>1. CASE UNCHANGED artifactVars
    BY <1>1 DEF VInv, VolumeOK, PrefetchOK, ServedHolds, artifactVars
  <1>2. ASSUME NEW d \in Documents, Offer(d) \/ \E a \in Needs[d] : Validate(a) \/ PrefetchOne(a) \/ Damage(a)
        PROVE  VInv'
    BY <1>2, OfferHolds, ValidateHolds, PrefetchOneHolds, DamageHolds
  <1>3. ASSUME NEW max \in Ceilings, PrefetchEnds(max)
        PROVE  VInv'
    BY <1>3, PrefetchEndsHolds
  <1>4. CASE RestartGateway
    BY <1>4, RestartHolds
  <1>5. ArtifactNext => VInv'
    BY <1>2, <1>3, <1>4 DEF ArtifactNext
  <1>6. JwksNext \/ IntroNext \/ TokenNext \/ LogNext \/ UNCHANGED evars => UNCHANGED artifactVars
    BY DEF JwksNext, IntroNext, TokenNext, LogNext, evars
  <1> QED BY <1>1, <1>5, <1>6 DEF EdgeNext

-----------------------------------------------------------------------------
(* What the gateway keeps for later is still good when it is used, for any *)
(* number of tokens, routes, documents and artifacts (identity.ts,         *)
(* backend-auth.ts, artifacts.ts), if the skew taken off a backend token's *)
(* life covers the time its answer may take.                               *)
THEOREM KeptGood == Timeout <= Skew => (EdgeSpec => []KeptIsGood)
  <1> SUFFICES ASSUME Timeout <= Skew
               PROVE  EdgeSpec => []KeptIsGood
    OBVIOUS
  <1> DEFINE I == JInv /\ UInv /\ VInv
  <1>1. EdgeInit => I
    BY IntroStarts, TokenStarts, VolumeStarts
  <1>2. I /\ [EdgeNext]_evars => I'
    BY IntroStep, TokenStep, VolumeStep
  <1>3. I => KeptIsGood
    <2> SUFFICES ASSUME I
                 PROVE  KeptIsGood
      OBVIOUS
    <2>1. RevokedLapses
      BY DEF JInv, LagHolds, Limit, RevokedLapses
    <2>2. TokenStillValid
      BY DEF UInv, TokenStillValid
    <2>3. ValidatorsSound
      BY OnDiskNames DEF VInv, ServedHolds, ValidatorsSound
    <2> QED BY <2>1, <2>2, <2>3 DEF KeptIsGood
  <1> QED BY <1>1, <1>2, <1>3, PTL DEF EdgeSpec


-----------------------------------------------------------------------------
(* The access log, as a function from a place to its lines: -1 what is not *)
(* yet written, 0 the current file, n access.log.n.  Every step of the log *)
(* is made of the four below.                                              *)
Rising(s) == \A i, j \in DOMAIN s : i < j => s[i] < s[j]
LinesOf(P) == UNION {Range(P[n]) : n \in Parts}
Placed(P) ==
    /\ \A n \in Parts : P[n] \in Seq(Nat) /\ Rising(P[n])
    /\ \A n, m \in Parts : n < m => \A x \in Range(P[n]), y \in Range(P[m]) : y < x
Whole(P, w, d, k, low) ==
    /\ Placed(P) /\ w \in Nat /\ \A x \in LinesOf(P) : x <= w
    /\ ~low => /\ \A n \in Parts : n > k => P[n] = <<>>
               /\ \A x \in LinesOf(P) : x..w \subseteq LinesOf(P) \cup d

LEMMA KeepsBounded ==
    /\ MaxKeep \in Nat \ {0} /\ \A k \in Keeps : k \in Nat \ {0} /\ k <= MaxKeep
    /\ -1 \in Parts /\ 0 \in Parts /\ Parts \subseteq Int /\ \A n \in Parts : -1 <= n /\ n <= MaxKeep
    /\ \A n \in Int : -1 <= n /\ n <= MaxKeep => n \in Parts
  <1>1. Keeps \in SUBSET Nat /\ (\A k \in Keeps : k \in Nat \ {0}) /\ Keeps # {} /\ IsFiniteSet(Keeps)
    BY EdgeAssumption DEF EdgeAssumption
  <1>2. Max(Keeps) \in Keeps /\ \A k \in Keeps : k <= Max(Keeps)
    BY <1>1, MaxIsGreatest
  <1>3. MaxKeep \in Nat \ {0} /\ \A k \in Keeps : k <= MaxKeep
    BY <1>1, <1>2 DEF MaxKeep
  <1> QED BY <1>1, <1>3 DEF Parts

LEMMA ConcatRises ==
    ASSUME NEW s \in Seq(Nat), NEW t \in Seq(Nat), Rising(s), Rising(t),
           \A x \in Range(s), y \in Range(t) : x < y
    PROVE  s \o t \in Seq(Nat) /\ Rising(s \o t) /\ Range(s \o t) = Range(s) \cup Range(t)
  <1> DEFINE u == s \o t
  <1>1. /\ u \in Seq(Nat) /\ Len(u) = Len(s) + Len(t) /\ Len(s) \in Nat /\ Len(t) \in Nat
        /\ \A i \in 1..Len(u) : u[i] = IF i <= Len(s) THEN s[i] ELSE t[i - Len(s)]
    BY ConcatProperties
  <1>2. DOMAIN s = 1..Len(s) /\ DOMAIN t = 1..Len(t) /\ DOMAIN u = 1..(Len(s) + Len(t))
    BY <1>1
  <1> HIDE DEF u
  <1>3. \A i \in 1..Len(s) : i \in DOMAIN u /\ u[i] = s[i]
    BY <1>1, <1>2
  <1>4. \A j \in 1..Len(t) : j + Len(s) \in DOMAIN u /\ u[j + Len(s)] = t[j]
    <2> TAKE j \in 1..Len(t)
    <2>1. j \in Int /\ 1 <= j /\ j <= Len(t)
      BY <1>1
    <2>2. j + Len(s) \in 1..Len(u) /\ ~(j + Len(s) <= Len(s)) /\ (j + Len(s)) - Len(s) = j
      BY <1>1, <2>1
    <2> QED BY <1>1, <1>2, <2>2
  <1>5. \A i \in DOMAIN u : (i \in 1..Len(s) /\ u[i] = s[i]) \/ (i - Len(s) \in 1..Len(t) /\ u[i] = t[i - Len(s)])
    BY <1>1, <1>2
  <1>6. Range(u) = Range(s) \cup Range(t)
    <2>1. \A x \in Range(s) \cup Range(t) : x \in Range(u)
      BY <1>2, <1>3, <1>4 DEF Range
    <2>2. \A x \in Range(u) : x \in Range(s) \cup Range(t)
      BY <1>2, <1>5 DEF Range
    <2> QED BY <2>1, <2>2
  <1>7. ASSUME NEW i \in DOMAIN u, NEW j \in DOMAIN u, i < j
        PROVE  u[i] < u[j]
    <2>1. i \in Int /\ j \in Int
      BY <1>2
    <2>2. CASE j \in 1..Len(s) /\ u[j] = s[j]
      <3>1. i \in 1..Len(s)
        BY <1>1, <1>2, <1>7, <2>1, <2>2
      <3> QED BY <1>2, <1>3, <1>7, <2>2, <3>1 DEF Rising
    <2>3. CASE j - Len(s) \in 1..Len(t) /\ u[j] = t[j - Len(s)]
      <3>1. CASE i \in 1..Len(s) /\ u[i] = s[i]
        <4>1. u[i] \in Range(s) /\ u[j] \in Range(t)
          BY <1>2, <2>3, <3>1 DEF Range
        <4> QED BY <4>1
      <3>2. CASE i - Len(s) \in 1..Len(t) /\ u[i] = t[i - Len(s)]
        <4>1. i - Len(s) < j - Len(s)
          BY <1>1, <1>7, <2>1
        <4> QED BY <1>2, <2>3, <3>2, <4>1 DEF Rising
      <3> QED BY <1>5, <3>1, <3>2
    <2> QED BY <1>5, <2>2, <2>3
  <1>8. Rising(u)
    BY <1>7 DEF Rising
  <1> QED BY <1>1, <1>6, <1>8 DEF u


(* A line is written: the newest, at the end of the newest part.           *)
LEMMA LineWhole ==
    ASSUME NEW P, NEW Q, NEW w, NEW d, NEW k \in Nat, NEW low, Whole(P, w, d, k, low),
           Q[-1] = Append(P[-1], w + 1), \A n \in Parts \ {-1} : Q[n] = P[n]
    PROVE  Whole(Q, w + 1, d, k, low)
  <1>1. -1 \in Parts /\ P[-1] \in Seq(Nat) /\ Rising(P[-1]) /\ w \in Nat /\ w + 1 \in Nat
    BY KeepsBounded DEF Whole, Placed
  <1>2. \A n \in Parts : \A x \in Range(P[n]) : x \in Nat /\ x <= w
    <2>1. \A n \in Parts : P[n] \in Seq(Nat)
      BY DEF Whole, Placed
    <2>2. \A n \in Parts : \A x \in Range(P[n]) : x \in Nat
      BY <2>1 DEF Range
    <2> QED BY <2>2 DEF Whole, LinesOf
  <1> PICK b : b = P[-1]
    OBVIOUS
  <1> PICK l : l = w + 1
    OBVIOUS
  <1>3. <<l>> \in Seq(Nat) /\ Range(<<l>>) = {l} /\ Rising(<<l>>)
    <2>1. l \in Nat /\ <<l>> \in Seq(Nat)
      BY <1>1
    <2>2. DOMAIN <<l>> = {1} /\ <<l>>[1] = l
      OBVIOUS
    <2> QED BY <2>1, <2>2 DEF Range, Rising
  <1>4. \A x \in Range(b), y \in Range(<<l>>) : x < y
    <2>1. \A x \in Range(b) : x \in Nat /\ x <= w
      BY <1>1, <1>2
    <2>2. \A x \in Range(b) : x < l
      BY <1>1, <2>1
    <2> QED BY <1>3, <2>2
  <1>5. Q[-1] \in Seq(Nat) /\ Rising(Q[-1]) /\ Range(Q[-1]) = Range(P[-1]) \cup {w + 1}
    <2>1. b \in Seq(Nat) /\ l \in Nat /\ Rising(b) /\ Q[-1] = Append(b, l)
      BY <1>1
    <2>2. Q[-1] = b \o <<l>>
      BY <2>1, AppendIsConcat
    <2>3. b \o <<l>> \in Seq(Nat) /\ Rising(b \o <<l>>) /\ Range(b \o <<l>>) = Range(b) \cup Range(<<l>>)
      BY <1>3, <1>4, <2>1, ConcatRises
    <2> QED BY <1>3, <2>2, <2>3
  <1>6. \A n \in Parts : \/ n # -1 /\ Q[n] = P[n]
                         \/ n = -1 /\ Range(Q[n]) = Range(P[n]) \cup {w + 1}
    BY <1>5
  <1>7. LinesOf(Q) = LinesOf(P) \cup {w + 1}
    <2>1. \A n \in Parts : Range(P[n]) \subseteq Range(Q[n]) /\ Range(Q[n]) \subseteq Range(P[n]) \cup {w + 1}
      BY <1>6
    <2>2. w + 1 \in Range(Q[-1])
      BY <1>5
    <2>3. LinesOf(P) \subseteq LinesOf(Q) /\ LinesOf(Q) \subseteq LinesOf(P) \cup {w + 1}
      BY <2>1 DEF LinesOf
    <2>4. w + 1 \in LinesOf(Q)
      BY <1>1, <2>2 DEF LinesOf
    <2> QED BY <2>3, <2>4
  <1>8. ASSUME NEW n \in Parts, NEW m \in Parts, n < m, NEW x \in Range(Q[n]), NEW y \in Range(Q[m])
        PROVE  y < x
    <2>1. m # -1 /\ Q[m] = P[m]
      BY <1>6, <1>8, KeepsBounded
    <2>2. CASE x \in Range(P[n])
      BY <1>8, <2>1, <2>2 DEF Whole, Placed
    <2>3. CASE x = w + 1
      <3>1. y \in Range(P[m])
        BY <2>1
      <3>2. y \in Nat /\ y <= w
        BY <1>2, <3>1
      <3> QED BY <1>1, <2>3, <3>2
    <2> QED BY <1>6, <1>8, <2>2, <2>3
  <1>9. Placed(Q)
    <2>1. \A n \in Parts : Q[n] \in Seq(Nat) /\ Rising(Q[n])
      BY <1>5, <1>6 DEF Whole, Placed
    <2> QED BY <1>8, <2>1 DEF Placed
  <1>10. \A x \in LinesOf(Q) : x <= w + 1 /\ x \in Nat
    <2>1. ASSUME NEW x \in LinesOf(P)
          PROVE  x \in Nat /\ x <= w
      <3>1. PICK n \in Parts : x \in Range(P[n])
        BY DEF LinesOf
      <3> QED BY <1>2, <3>1
    <2> QED BY <1>1, <1>7, <2>1
  <1>11. ASSUME ~low
         PROVE  (\A n \in Parts : n > k => Q[n] = <<>>) /\ \A x \in LinesOf(Q) : x..(w + 1) \subseteq LinesOf(Q) \cup d
    <2>1. \A n \in Parts : n > k => Q[n] = <<>>
      BY <1>6, <1>11 DEF Whole
    <2>2. ASSUME NEW x \in LinesOf(Q), NEW y \in x..(w + 1)
          PROVE  y \in LinesOf(Q) \cup d
      <3>1. x \in Nat /\ x <= w + 1 /\ y \in Int /\ x <= y /\ y <= w + 1
        BY <1>1, <1>10, <2>2
      <3>2. CASE y = w + 1
        BY <1>7, <3>2
      <3>3. CASE y # w + 1
        <4>1. x # w + 1 /\ y \in x..w
          BY <1>1, <3>1, <3>3
        <4>2. x \in LinesOf(P)
          BY <1>7, <2>2, <4>1
        <4> QED BY <1>7, <1>11, <4>1, <4>2 DEF Whole
      <3> QED BY <3>2, <3>3
    <2> QED BY <2>1, <2>2
  <1> QED BY <1>1, <1>9, <1>10, <1>11 DEF Whole

(* The buffer reaches the end of the current file.                         *)
LEMMA FlushWhole ==
    ASSUME NEW P, NEW Q, NEW w, NEW d, NEW k \in Nat, NEW low, Whole(P, w, d, k, low),
           Q[-1] = <<>>, Q[0] = P[0] \o P[-1], \A n \in Parts \ {-1, 0} : Q[n] = P[n]
    PROVE  Whole(Q, w, d, k, low)
  <1>1. -1 \in Parts /\ 0 \in Parts /\ \A n \in Parts : P[n] \in Seq(Nat) /\ Rising(P[n])
    BY KeepsBounded DEF Whole, Placed
  <1>2. \A n \in Parts, m \in Parts : n < m => \A x \in Range(P[n]), y \in Range(P[m]) : y < x
    BY DEF Whole, Placed
  <1>3. \A x \in Range(P[0]), y \in Range(P[-1]) : x < y
    <2>1. -1 < 0
      OBVIOUS
    <2> QED BY <1>1, <1>2, <2>1
  <1>4. Q[0] \in Seq(Nat) /\ Rising(Q[0]) /\ Range(Q[0]) = Range(P[0]) \cup Range(P[-1])
    BY <1>1, <1>3, ConcatRises
  <1>5. Q[-1] \in Seq(Nat) /\ Rising(Q[-1]) /\ Range(Q[-1]) = {}
    BY DEF Rising, Range
  <1>6. \A n \in Parts : n = -1 \/ n = 0 \/ (n # -1 /\ n # 0 /\ Q[n] = P[n])
    OBVIOUS
  <1>7. LinesOf(Q) = LinesOf(P)
    BY <1>1, <1>4, <1>5, <1>6 DEF LinesOf
  <1>8. ASSUME NEW n \in Parts, NEW m \in Parts, n < m, NEW x \in Range(Q[n]), NEW y \in Range(Q[m])
        PROVE  y < x
    <2>1. n # -1 /\ m # -1
      BY <1>5, <1>8
    <2>2. m # 0 /\ Q[m] = P[m]
      BY <1>6, <1>8, <2>1, KeepsBounded
    <2>3. CASE n = 0
      <3>1. x \in Range(P[0]) \/ x \in Range(P[-1])
        BY <1>4, <1>8, <2>3
      <3>2. -1 < m /\ 0 < m
        BY <1>8, <2>3, KeepsBounded
      <3> QED BY <1>1, <1>2, <1>8, <2>2, <3>1, <3>2
    <2>4. CASE n # 0
      BY <1>2, <1>6, <1>8, <2>1, <2>2, <2>4
    <2> QED BY <2>3, <2>4
  <1>9. Placed(Q)
    <2>1. \A n \in Parts : Q[n] \in Seq(Nat) /\ Rising(Q[n])
      BY <1>1, <1>4, <1>5, <1>6
    <2> QED BY <1>8, <2>1 DEF Placed
  <1>10. ~low => \A n \in Parts : n > k => Q[n] = <<>>
    BY <1>6 DEF Whole
  <1> QED BY <1>7, <1>9, <1>10 DEF Whole


(* The buffer is lost, and that is known.                                  *)
LEMMA DropWhole ==
    ASSUME NEW P, NEW Q, NEW w, NEW d, NEW k \in Nat, NEW low, Whole(P, w, d, k, low),
           Q[-1] = <<>>, \A n \in Parts \ {-1} : Q[n] = P[n]
    PROVE  Whole(Q, w, d \cup Range(P[-1]), k, low)
  <1>1. Q[-1] \in Seq(Nat) /\ Rising(Q[-1]) /\ Range(Q[-1]) = {}
    BY DEF Rising, Range
  <1>2. \A n \in Parts : (n = -1 /\ Range(Q[n]) = {}) \/ Q[n] = P[n]
    BY <1>1
  <1>3. LinesOf(Q) \subseteq LinesOf(P) /\ LinesOf(P) \subseteq LinesOf(Q) \cup Range(P[-1])
    <2>1. \A n \in Parts : Range(Q[n]) \subseteq Range(P[n])
      BY <1>2
    <2>2. \A n \in Parts : Range(P[n]) \subseteq Range(Q[n]) \cup Range(P[-1])
      BY <1>2
    <2> QED BY <2>1, <2>2 DEF LinesOf
  <1>4. Placed(Q)
    <2>1. \A n \in Parts : Q[n] \in Seq(Nat) /\ Rising(Q[n])
      BY <1>1 DEF Whole, Placed
    <2>2. ASSUME NEW n \in Parts, NEW m \in Parts, n < m, NEW x \in Range(Q[n]), NEW y \in Range(Q[m])
          PROVE  y < x
      <3>1. Q[n] = P[n] /\ Q[m] = P[m]
        BY <1>2, <2>2
      <3> QED BY <2>2, <3>1 DEF Whole, Placed
    <2> QED BY <2>1, <2>2 DEF Placed
  <1>5. ~low => \A n \in Parts : n > k => Q[n] = <<>>
    BY KeepsBounded DEF Whole
  <1>6. ~low => \A x \in LinesOf(Q) : x..w \subseteq LinesOf(Q) \cup (d \cup Range(P[-1]))
    BY <1>3 DEF Whole
  <1> QED BY <1>3, <1>4, <1>5, <1>6 DEF Whole

(* A rotation from one place up: what is in the last place goes, and those *)
(* are the oldest lines there are unless keep was ever lowered.            *)
LEMMA ShiftWhole ==
    ASSUME NEW P, NEW Q, NEW w, NEW d, NEW k \in Nat, NEW low, k <= MaxKeep, Whole(P, w, d, k, low),
           NEW from \in 0..k, Q[from] = <<>>, \A n \in (from + 1)..k : Q[n] = P[n - 1],
           \A n \in Parts : n < from \/ n > k => Q[n] = P[n]
    PROVE  Whole(Q, w, d, k, low)
  <1> DEFINE Src(n) == IF n \in (from + 1)..k THEN n - 1 ELSE n
  <1>1. MaxKeep \in Nat /\ Parts \subseteq Int /\ k \in Nat /\ from \in Nat /\ from <= k
        /\ (\A n \in Parts : -1 <= n /\ n <= MaxKeep) /\ \A n \in Int : -1 <= n /\ n <= MaxKeep => n \in Parts
    BY KeepsBounded
  <1>2. \A n \in Parts : P[n] \in Seq(Nat) /\ Rising(P[n])
    BY DEF Whole, Placed
  <1>3. \A n, m \in Parts : n < m => \A x \in Range(P[n]), y \in Range(P[m]) : y < x
    BY DEF Whole, Placed
  <1>4. Q[from] \in Seq(Nat) /\ Rising(Q[from]) /\ Range(Q[from]) = {}
    BY DEF Rising, Range
  <1>5. ASSUME NEW n \in Parts
        PROVE  Src(n) \in Parts /\ (n = from \/ Q[n] = P[Src(n)])
    <2>1. CASE n \in (from + 1)..k
      BY <1>1, <2>1
    <2>2. CASE n \notin (from + 1)..k
      <3>1. n = from \/ n < from \/ n > k
        BY <1>1, <2>2
      <3> QED BY <2>2, <3>1
    <2> QED BY <2>1, <2>2
  <1>6. \A n \in Parts, m \in Parts : n < m /\ n # from /\ m # from => Src(n) < Src(m)
    BY <1>1
  <1>7. \A n \in Parts : n <= k /\ n # from => Src(n) < k
    BY <1>1
  <1>8. ASSUME NEW n \in Parts, n # k
        PROVE  \E m \in Parts : Q[m] = P[n]
    <2>1. CASE n < from \/ n > k
      BY <2>1
    <2>2. CASE ~(n < from \/ n > k)
      <3>1. n + 1 \in (from + 1)..k /\ n + 1 \in Parts /\ (n + 1) - 1 = n
        BY <1>1, <1>8, <2>2
      <3>2. Q[n + 1] = P[(n + 1) - 1]
        BY <3>1
      <3> QED BY <3>1, <3>2
    <2> QED BY <2>1, <2>2
  <1> HIDE DEF Src
  <1>9. LinesOf(Q) \subseteq LinesOf(P)
    <2>1. \A n \in Parts : \E m \in Parts : Range(Q[n]) \subseteq Range(P[m])
      BY <1>4, <1>5
    <2> QED BY <2>1 DEF LinesOf
  <1>10. Placed(Q)
    <2>1. \A n \in Parts : Q[n] \in Seq(Nat) /\ Rising(Q[n])
      BY <1>2, <1>4, <1>5
    <2>2. ASSUME NEW n \in Parts, NEW m \in Parts, n < m, NEW x \in Range(Q[n]), NEW y \in Range(Q[m])
          PROVE  y < x
      <3>1. n # from /\ m # from
        BY <1>4, <2>2
      <3>2. Q[n] = P[Src(n)] /\ Q[m] = P[Src(m)] /\ Src(n) \in Parts /\ Src(m) \in Parts /\ Src(n) < Src(m)
        BY <1>5, <1>6, <2>2, <3>1
      <3> QED BY <1>3, <3>2
    <2> QED BY <2>1, <2>2 DEF Placed
  <1>11. ASSUME ~low
         PROVE  (\A n \in Parts : n > k => Q[n] = <<>>) /\ \A x \in LinesOf(Q) : x..w \subseteq LinesOf(Q) \cup d
    <2>1. \A n \in Parts : n > k => P[n] = <<>>
      BY <1>11 DEF Whole
    <2>2. \A n \in Parts : n > k => Q[n] = <<>>
      BY <2>1
    <2>3. ASSUME NEW x \in LinesOf(Q), NEW y \in x..w
          PROVE  y \in LinesOf(Q) \cup d
      <3>1. y \in LinesOf(P) \cup d
        BY <1>9, <1>11, <2>3 DEF Whole
      <3>2. PICK n \in Parts : x \in Range(Q[n])
        BY DEF LinesOf
      <3>3. n # from /\ n <= k
        <4>1. n # from
          BY <1>4, <3>2
        <4>2. Q[n] # <<>>
          BY <3>2 DEF Range
        <4> QED BY <1>1, <2>2, <4>1, <4>2
      <3>4. Src(n) \in Parts /\ x \in Range(P[Src(n)]) /\ Src(n) < k
        BY <1>5, <1>7, <3>2, <3>3
      <3>5. k \in Parts
        BY <1>1
      <3>6. ASSUME y \in Range(P[k])
            PROVE  FALSE
        <4>1. y < x
          BY <1>3, <3>4, <3>5, <3>6
        <4>2. x \in Int /\ x <= y
          <5>1. P[Src(n)] \in Seq(Nat)
            BY <1>2, <3>4
          <5>2. x \in Nat
            BY <3>4, <5>1 DEF Range
          <5>3. w \in Nat
            BY DEF Whole
          <5> QED BY <2>3, <5>2, <5>3
        <4>3. y \in Int
          BY <2>3, <4>2 DEF Whole
        <4> QED BY <4>1, <4>2, <4>3
      <3>7. CASE y \in LinesOf(P)
        <4>1. PICK m \in Parts : y \in Range(P[m])
          BY <3>7 DEF LinesOf
        <4>2. m # k
          BY <3>6, <4>1
        <4>3. PICK l \in Parts : Q[l] = P[m]
          BY <1>8, <4>2
        <4> QED BY <4>1, <4>3 DEF LinesOf
      <3> QED BY <3>1, <3>7
    <2> QED BY <2>2, <2>3
  <1> QED BY <1>9, <1>10, <1>11 DEF Whole


Log == [n \in Parts |-> Part(n)]
LInv == files \in [1..MaxKeep -> Seq(Nat)] /\ keep \in Keeps /\ Whole(Log, written, dropped, keep, lowered)

LEMMA LogParts ==
    Log[-1] = unflushed /\ Log[0] = current /\ \A n \in 1..MaxKeep : n \in Parts /\ Log[n] = files[n]
  BY KeepsBounded DEF Log, Part

(* A flush, of a log whose buffer may have taken one more line.            *)
LEMMA FlushedHolds ==
    ASSUME NEW P, NEW lines, NEW ok \in BOOLEAN, Whole(P, written', dropped, keep, lowered),
           files \in [1..MaxKeep -> Seq(Nat)], keep \in Keeps, UNCHANGED <<keep, lowered>>,
           P[-1] = lines, P[0] = current, \A n \in 1..MaxKeep : P[n] = files[n],
           Flushed(lines, ok), unflushed' = <<>>
    PROVE  LInv'
  <1>1. keep \in Nat /\ 1 <= keep /\ keep <= MaxKeep /\ MaxKeep \in Nat /\ Parts \subseteq Int
        /\ (\A n \in Parts : n = -1 \/ n = 0 \/ n \in 1..MaxKeep)
    BY KeepsBounded
  <1> PICK L : L = Log'
    OBVIOUS
  <1>0. L = [n \in Parts |-> IF n = -1 THEN unflushed' ELSE IF n = 0 THEN current' ELSE files'[n]]
    BY DEF Log, Part
  <1>2. L[-1] = unflushed' /\ L[0] = current' /\ \A n \in 1..MaxKeep : n \in Parts /\ L[n] = files'[n]
    BY <1>0, KeepsBounded
  <1>3. CASE ~ok
    <2>1. dropped' = dropped \cup Range(lines) /\ UNCHANGED <<files, current>>
      BY <1>3 DEF Flushed
    <2>2. L[-1] = <<>> /\ \A n \in Parts \ {-1} : L[n] = P[n]
      BY <1>1, <1>2, <2>1
    <2>3. Whole(L, written', dropped', keep, lowered)
      BY <1>1, <2>1, <2>2, DropWhole
    <2> QED BY <2>1, <2>3 DEF LInv
  <1>4. CASE ok
    <2> PICK R : R = [n \in Parts |-> IF n = -1 THEN <<>> ELSE IF n = 0 THEN current \o lines ELSE files[n]]
      OBVIOUS
    <2>1. R[-1] = <<>> /\ R[0] = current \o lines /\ \A n \in 1..MaxKeep : R[n] = files[n]
      BY KeepsBounded
    <2>2. Whole(R, written', dropped, keep, lowered)
      <3>1. \A n \in Parts \ {-1, 0} : R[n] = P[n]
        BY <1>1, <2>1
      <3> QED BY <1>1, <2>1, <3>1, FlushWhole
    <2>3. dropped' = dropped
      BY <1>4 DEF Flushed
    <2>4. CASE Len(current \o lines) < LogMax
      <3>1. current' = current \o lines /\ UNCHANGED files
        BY <1>4, <2>4 DEF Flushed
      <3>2. L = R
        <4>1. \A n \in Parts : L[n] = R[n]
          BY <1>1, <1>2, <2>1, <3>1
        <4> QED BY <1>0, <4>1
      <3> QED BY <2>2, <2>3, <3>1, <3>2 DEF LInv
    <2>5. CASE ~(Len(current \o lines) < LogMax)
      <3>1. PICK from \in 1..keep, done \in BOOLEAN :
                /\ files' = Rotated(files, current \o lines, from, done).fs
                /\ current' = Rotated(files, current \o lines, from, done).cur
        BY <1>4, <2>5 DEF Flushed
      <3>2. \A f \in 1..keep : /\ Shifted(files, f) \in [1..MaxKeep -> Seq(Nat)]
                               /\ Shifted(files, f)[f] = <<>>
                               /\ \A n \in 1..MaxKeep :
                                     /\ n \in (f + 1)..keep => Shifted(files, f)[n] = files[n - 1]
                                     /\ n < f \/ n > keep => Shifted(files, f)[n] = files[n]
        <4> TAKE f \in 1..keep
        <4> PICK S : S = Shifted(files, f)
          OBVIOUS
        <4>1. DOMAIN S = 1..MaxKeep /\ f \in 1..MaxKeep
          BY <1>1 DEF Shifted
        <4>2. ASSUME NEW n \in 1..MaxKeep
              PROVE  \/ n = f /\ S[n] = <<>>
                     \/ n \in (f + 1)..keep /\ n - 1 \in 1..MaxKeep /\ S[n] = files[n - 1]
                     \/ (n < f \/ n > keep) /\ S[n] = files[n]
          <5>1. S[n] = CASE n = f -> <<>> [] n \in (f + 1)..keep -> files[n - 1] [] OTHER -> files[n]
            BY DEF Shifted
          <5>2. CASE n = f
            BY <1>1, <5>1, <5>2
          <5>3. CASE n \in (f + 1)..keep
            <6>1. n # f /\ n - 1 \in 1..MaxKeep
              BY <1>1, <5>3
            <6> QED BY <5>1, <5>3, <6>1
          <5>4. CASE n # f /\ n \notin (f + 1)..keep
            <6>1. n < f \/ n > keep
              BY <1>1, <5>4
            <6> QED BY <5>1, <5>4, <6>1
          <5> QED BY <5>2, <5>3, <5>4
        <4>3. \A n \in 1..MaxKeep : S[n] \in Seq(Nat)
          <5>1. <<>> \in Seq(Nat)
            OBVIOUS
          <5> QED BY <4>2, <5>1
        <4>4. S \in [1..MaxKeep -> Seq(Nat)]
          <5>1. S = [n \in 1..MaxKeep |-> S[n]]
            BY DEF Shifted
          <5> QED BY <4>3, <5>1
        <4>5. S[f] = <<>>
          BY <1>1, <4>1, <4>2
        <4>6. ASSUME NEW n \in 1..MaxKeep
              PROVE  /\ n \in (f + 1)..keep => S[n] = files[n - 1]
                     /\ n < f \/ n > keep => S[n] = files[n]
          BY <1>1, <4>2
        <4> QED BY <4>4, <4>5, <4>6
      <3>3. CASE ~done
        <4>1. files' = Shifted(files, from) /\ current' = current \o lines
          BY <3>1, <3>3 DEF Rotated
        <4>2. from \in 0..keep /\ from \in 1..MaxKeep /\ L[from] = <<>>
          <5>1. from \in 0..keep /\ from \in 1..MaxKeep /\ from \in 1..keep
            BY <1>1
          <5>2. files'[from] = <<>>
            BY <3>2, <4>1, <5>1
          <5> QED BY <1>2, <5>1, <5>2
        <4>3. ASSUME NEW n \in (from + 1)..keep PROVE L[n] = R[n - 1]
          <5>1. n \in 1..MaxKeep /\ n - 1 \in 1..MaxKeep
            BY <1>1
          <5>2. files'[n] = files[n - 1]
            BY <3>2, <4>1, <5>1
          <5> QED BY <1>2, <2>1, <5>1, <5>2
        <4>4. ASSUME NEW n \in Parts, n < from \/ n > keep PROVE L[n] = R[n]
          <5>1. CASE n = -1 \/ n = 0
            BY <1>2, <2>1, <4>1, <5>1
          <5>2. CASE n \in 1..MaxKeep
            BY <1>2, <2>1, <3>2, <4>1, <4>4, <5>2
          <5> QED BY <1>1, <5>1, <5>2
        <4>5. Whole(L, written', dropped, keep, lowered)
          <5>1. \A n \in (from + 1)..keep : L[n] = R[n - 1]
            BY <4>3
          <5>2. \A n \in Parts : n < from \/ n > keep => L[n] = R[n]
            BY <4>4
          <5>3. keep \in Nat /\ keep <= MaxKeep /\ from \in 0..keep /\ L[from] = <<>>
            BY <1>1, <4>2
          <5> QED BY ONLY <2>2, <5>1, <5>2, <5>3, ShiftWhole
        <4>6. files' \in [1..MaxKeep -> Seq(Nat)]
          BY <3>2, <4>1
        <4> QED BY <2>3, <4>5, <4>6 DEF LInv
      <3>4. CASE done
        <4> PICK c : c = current \o lines
          OBVIOUS
        <4>1. files' = [Shifted(files, 1) EXCEPT ![1] = c] /\ current' = <<>> /\ 1 \in 1..keep /\ 1 \in 1..MaxKeep
          BY <1>1, <3>1, <3>4 DEF Rotated
        <4>2. c \in Seq(Nat)
          <5>1. R[0] \in Seq(Nat)
            BY <2>2, KeepsBounded DEF Whole, Placed
          <5> QED BY <2>1, <5>1
        <4>3. files' \in [1..MaxKeep -> Seq(Nat)] /\ files'[1] = c
              /\ \A n \in 1..MaxKeep : n # 1 => files'[n] = Shifted(files, 1)[n]
          BY <3>2, <4>1, <4>2
        <4>4. 0 \in 0..keep /\ L[0] = <<>>
          BY <1>1, <1>2, <4>1
        <4>5. ASSUME NEW n \in (0 + 1)..keep PROVE L[n] = R[n - 1]
          <5>1. n \in 1..MaxKeep
            BY <1>1
          <5>2. CASE n = 1
            <6>1. L[1] = c /\ R[0] = c
              BY <1>2, <2>1, <4>1, <4>3
            <6>2. n - 1 = 0
              BY <5>2
            <6> QED BY <5>2, <6>1, <6>2
          <5>3. CASE n # 1
            <6>1. n \in (1 + 1)..keep /\ n - 1 \in 1..MaxKeep
              BY <1>1, <5>1, <5>3
            <6>2. files'[n] = files[n - 1]
              BY <3>2, <4>1, <4>3, <5>1, <5>3, <6>1
            <6>3. L[n] = files'[n]
              BY <1>2, <5>1
            <6>4. R[n - 1] = files[n - 1]
              BY <2>1, <6>1
            <6> QED BY <6>2, <6>3, <6>4
          <5> QED BY <5>2, <5>3
        <4>6. ASSUME NEW n \in Parts, n < 0 \/ n > keep PROVE L[n] = R[n]
          <5>1. CASE n = -1
            BY <1>2, <2>1, <5>1
          <5>2. CASE n # -1
            <6>1. n > keep /\ n \in 1..MaxKeep /\ n # 1
              BY <1>1, <4>6, <5>2
            <6>2. Shifted(files, 1)[n] = files[n]
              BY <3>2, <4>1, <6>1
            <6>3. files'[n] = files[n]
              BY <4>3, <6>1, <6>2
            <6> QED BY <1>2, <2>1, <6>1, <6>3
          <5> QED BY <5>1, <5>2
        <4>7. Whole(L, written', dropped, keep, lowered)
          <5>1. \A n \in (0 + 1)..keep : L[n] = R[n - 1]
            BY <4>5
          <5>2. \A n \in Parts : n < 0 \/ n > keep => L[n] = R[n]
            BY <4>6
          <5>3. keep \in Nat /\ keep <= MaxKeep
            BY <1>1
          <5> QED BY ONLY <2>2, <4>4, <5>1, <5>2, <5>3, ShiftWhole
        <4> QED BY <2>3, <4>3, <4>7 DEF LInv
      <3> QED BY <3>3, <3>4
    <2> QED BY <2>4, <2>5
  <1> QED BY <1>3, <1>4


LEMMA WriteLineHolds ==
    ASSUME LInv, WriteLine
    PROVE  LInv'
  <1>1. /\ files \in [1..MaxKeep -> Seq(Nat)] /\ keep \in Keeps /\ keep \in Nat
        /\ Whole(Log, written, dropped, keep, lowered)
        /\ written' = written + 1 /\ UNCHANGED <<keep, lowered>>
    BY KeepsBounded DEF LInv, WriteLine
  <1> PICK b : b = Append(unflushed, written + 1)
    OBVIOUS
  <1> PICK P : P = [n \in Parts |-> IF n = -1 THEN b ELSE Log[n]]
    OBVIOUS
  <1>2. P[-1] = b /\ P[0] = current /\ (\A n \in 1..MaxKeep : P[n] = files[n]) /\ \A n \in Parts \ {-1} : P[n] = Log[n]
    BY LogParts, KeepsBounded
  <1>3. Whole(P, written', dropped, keep, lowered)
    <2>1. P[-1] = Append(Log[-1], written + 1)
      BY <1>2, LogParts
    <2> QED BY <1>1, <1>2, <2>1, LineWhole
  <1>4. CASE Len(unflushed) + 1 >= HighWater
    <2>1. PICK ok \in BOOLEAN : Flushed(b, ok)
      BY <1>1, <1>4 DEF WriteLine
    <2>2. unflushed' = <<>>
      BY <1>4 DEF WriteLine
    <2> QED BY <1>1, <1>2, <1>3, <2>1, <2>2, FlushedHolds
  <1>5. CASE ~(Len(unflushed) + 1 >= HighWater)
    <2>1. unflushed' = b /\ UNCHANGED <<files, current, dropped>>
      BY <1>1, <1>5 DEF WriteLine
    <2> PICK L : L = Log'
      OBVIOUS
    <2>2. L = [n \in Parts |-> IF n = -1 THEN unflushed' ELSE IF n = 0 THEN current' ELSE files'[n]]
      BY DEF Log, Part
    <2>3. L = P
      <3>1. \A n \in Parts : L[n] = P[n]
        <4>1. \A n \in Parts : P[n] = IF n = -1 THEN b ELSE IF n = 0 THEN current ELSE files[n]
          BY DEF Log, Part
        <4> QED BY <2>1, <2>2, <4>1
      <3> QED BY <2>2, <3>1
    <2> QED BY <1>1, <1>3, <2>1, <2>3 DEF LInv
  <1> QED BY <1>4, <1>5

LEMMA FlushHolds ==
    ASSUME LInv, Flush
    PROVE  LInv'
  <1>1. /\ files \in [1..MaxKeep -> Seq(Nat)] /\ keep \in Keeps
        /\ Whole(Log, written, dropped, keep, lowered) /\ UNCHANGED <<keep, written, lowered>> /\ unflushed' = <<>>
    BY DEF LInv, Flush
  <1>2. PICK ok \in BOOLEAN : Flushed(unflushed, ok)
    BY DEF Flush
  <1>3. Whole(Log, written', dropped, keep, lowered)
    BY <1>1
  <1> QED BY <1>1, <1>2, <1>3, LogParts, FlushedHolds

LEMMA KillHolds ==
    ASSUME LInv, Kill
    PROVE  LInv'
  <1>1. /\ files \in [1..MaxKeep -> Seq(Nat)] /\ keep \in Keeps /\ keep \in Nat
        /\ Whole(Log, written, dropped, keep, lowered)
        /\ unflushed' = <<>> /\ dropped' = dropped \cup Range(unflushed)
        /\ UNCHANGED <<files, current, keep, written, lowered>>
    BY KeepsBounded DEF LInv, Kill
  <1> PICK L : L = Log'
    OBVIOUS
  <1>2. L = [n \in Parts |-> IF n = -1 THEN unflushed' ELSE IF n = 0 THEN current' ELSE files'[n]]
    BY DEF Log, Part
  <1>3. \A n \in Parts : Log[n] = IF n = -1 THEN unflushed ELSE IF n = 0 THEN current ELSE files[n]
    BY DEF Log, Part
  <1>4. L[-1] = <<>> /\ Log[-1] = unflushed /\ \A n \in Parts \ {-1} : L[n] = Log[n]
    BY <1>1, <1>2, <1>3, KeepsBounded
  <1>5. Whole(L, written, dropped \cup Range(unflushed), keep, lowered)
    <2>1. Whole(L, written, dropped \cup Range(Log[-1]), keep, lowered)
      BY <1>1, <1>4, DropWhole
    <2> QED BY <1>4, <2>1
  <1> QED BY <1>1, <1>5 DEF LInv

LEMMA ResizeHolds ==
    ASSUME LInv, NEW k \in Keeps, ResizeLog(k)
    PROVE  LInv'
  <1>1. /\ keep' = k /\ lowered' = (lowered \/ k < keep) /\ UNCHANGED <<files, current, unflushed, written, dropped>>
        /\ keep \in Nat /\ k \in Nat /\ Whole(Log, written, dropped, keep, lowered)
    BY KeepsBounded DEF LInv, ResizeLog
  <1>2. Log' = Log
    BY <1>1 DEF Log, Part
  <1>3. ~lowered' => ~lowered /\ keep <= k
    <2>1. ~lowered' => ~lowered /\ ~(k < keep)
      BY <1>1, Zenon
    <2> QED BY <1>1, <2>1
  <1>4. Parts \subseteq Int
    BY KeepsBounded
  <1>5. ~lowered' => \A n \in Parts : n > k => Log[n] = <<>>
    BY <1>1, <1>3, <1>4 DEF Whole
  <1>6. Placed(Log) /\ written \in Nat /\ (\A x \in LinesOf(Log) : x <= written)
        /\ (~lowered => \A x \in LinesOf(Log) : x..written \subseteq LinesOf(Log) \cup dropped)
    BY <1>1 DEF Whole
  <1>7. Whole(Log, written, dropped, k, lowered')
    BY <1>3, <1>5, <1>6 DEF Whole
  <1>8. Whole(Log', written', dropped', keep', lowered')
    BY <1>1, <1>2, <1>7
  <1>9. files' \in [1..MaxKeep -> Seq(Nat)] /\ keep' \in Keeps
    BY <1>1 DEF LInv
  <1> QED BY <1>8, <1>9 DEF LInv

LEMMA LogStep ==
    ASSUME LInv, [EdgeNext]_evars
    PROVE  LInv'
  <1>1. CASE UNCHANGED logVars
    <2>1. Log' = Log
      BY <1>1 DEF logVars, Log, Part
    <2>2. UNCHANGED <<files, keep, written, dropped, lowered>>
      BY <1>1 DEF logVars
    <2> QED BY <2>1, <2>2 DEF LInv
  <1>2. LogNext => LInv'
    BY WriteLineHolds, FlushHolds, KillHolds, ResizeHolds DEF LogNext
  <1>3. JwksNext \/ IntroNext \/ TokenNext \/ ArtifactNext \/ UNCHANGED evars => UNCHANGED logVars
    BY DEF JwksNext, IntroNext, TokenNext, ArtifactNext, evars
  <1> QED BY <1>1, <1>2, <1>3 DEF EdgeNext

LEMMA LogStarts == EdgeInit => LInv
  <1> SUFFICES ASSUME EdgeInit
               PROVE  LInv
    OBVIOUS
  <1>1. /\ files = [n \in 1..MaxKeep |-> <<>>] /\ current = <<>> /\ unflushed = <<>> /\ keep \in Keeps
        /\ written = 0
    BY DEF EdgeInit, LogInit
  <1>2. \A n \in Parts : Log[n] = <<>>
    BY <1>1, KeepsBounded DEF Log, Part, Parts
  <1>3. <<>> \in Seq(Nat) /\ Rising(<<>>) /\ Range(<<>>) = {}
    BY DEF Rising, Range
  <1>4. LinesOf(Log) = {} /\ Placed(Log)
    BY <1>2, <1>3 DEF LinesOf, Placed
  <1>5. files \in [1..MaxKeep -> Seq(Nat)]
    BY <1>1, <1>3
  <1> QED BY <1>1, <1>2, <1>4, <1>5 DEF LInv, Whole

(* The access log holds every line from the oldest it has on, in order,    *)
(* across its files and the buffer, unless the line was reported dropped   *)
(* or keep was lowered, however many files there are and wherever a        *)
(* rotation fails (RotatingFileSink, accesslog.ts).                        *)
THEOREM LogWhole == EdgeSpec => []LogIsWhole
  <1>1. LInv => LogIsWhole
    <2> SUFFICES ASSUME LInv
                 PROVE  LogIsWhole
      OBVIOUS
    <2>1. Whole(Log, written, dropped, keep, lowered)
      BY DEF LInv
    <2>2. \A n \in Parts : Log[n] = Part(n)
      BY DEF Log
    <2>3. LinesOf(Log) = Logged
      BY <2>2 DEF LinesOf, Logged
    <2>4. \A n \in Parts : \A i, j \in DOMAIN Part(n) : i < j => Part(n)[i] < Part(n)[j]
      BY <2>1, <2>2 DEF Whole, Placed, Rising
    <2>5. \A n, m \in Parts : n < m => \A x \in Range(Part(n)), y \in Range(Part(m)) : y < x
      BY <2>1, <2>2 DEF Whole, Placed
    <2>6. ~lowered => \A x \in Logged : x..written \subseteq Logged \cup dropped
      BY <2>1, <2>3 DEF Whole
    <2> QED BY <2>4, <2>5, <2>6 DEF LogIsWhole
  <1> QED BY <1>1, LogStarts, LogStep, PTL DEF EdgeSpec

-----------------------------------------------------------------------------
(* Telemetry.  Nothing on the way holds more than was counted; a window is *)
(* acknowledged once, since it has closed and is gone from the instance    *)
(* then; and what was acknowledged is in the buffer or the rows.           *)
PollOK == tpoll \in [stage : {"idle", "sent", "answered"}, run : Runs, report : [Minutes -> Cells],
                     accepted : SUBSET Minutes]
NoMoreThanCounted ==
    /\ \A w \in Minutes : Within(held[w], recorded[<<run, w>>])
    /\ tpoll.stage # "idle" =>
          tpoll.run = run /\ \A w \in Minutes : Within(tpoll.report[w], recorded[<<run, w>>])
    /\ \A m \in strays : \A w \in Minutes : Within(m.report[w], recorded[<<m.run, w>>])
    /\ \A r \in Runs, w \in Minutes : /\ Within(buffer[<<r, w>>], recorded[<<r, w>>])
                                      /\ Within(rollup[<<r, w>>], recorded[<<r, w>>])
OnceAcknowledged ==
    /\ \A r \in Runs, w \in Minutes : r > run => kept[<<r, w>>] = Nothing
    /\ \A w \in Minutes : kept[<<run, w>>] # Nothing => held[w] = Nothing /\ w < minute
    /\ tpoll.stage # "idle" => \A w \in Minutes : tpoll.report[w] # Nothing => kept[<<run, w>>] = Nothing
    /\ tpoll.stage = "answered" => \A w \in tpoll.accepted : w < minute /\ tpoll.report[w] # Nothing
StillShown ==
    /\ \A r \in Runs, w \in Minutes : <<r, w>> \in excused \/ Within(kept[<<r, w>>], Figure(r, w))
    /\ tpoll.stage = "answered" =>
          \A r \in Runs, w \in tpoll.accepted :
             r = run => <<r, w>> \in excused \/ Within(tpoll.report[w], Figure(r, w))
GInv == TelemetryTypeOK /\ PollOK /\ NoMoreThanCounted /\ OnceAcknowledged /\ StillShown

LEMMA CellFacts ==
    /\ Nothing \in Cells /\ DOMAIN Nothing = Series \cup {Overflow}
    /\ \A s \in DOMAIN Nothing : Nothing[s] = 0
    /\ \A c \in Cells : Within(Nothing, c) /\ Within(c, c)
    /\ \A c \in Cells : (\A s \in DOMAIN Nothing : c[s] = 0) => c = Nothing
  <1>1. DOMAIN Nothing = Series \cup {Overflow} /\ \A s \in Series \cup {Overflow} : Nothing[s] = 0
    BY DEF Nothing
  <1>2. Nothing \in Cells
    BY DEF Nothing, Cells
  <1>3. \A c \in Cells : \A s \in DOMAIN Nothing : c[s] \in Nat
    BY <1>1 DEF Cells
  <1>4. \A c \in Cells : Within(Nothing, c) /\ Within(c, c)
    BY <1>1, <1>3 DEF Within
  <1>5. ASSUME NEW c \in Cells, \A s \in DOMAIN Nothing : c[s] = 0
        PROVE  c = Nothing
    BY <1>1, <1>5 DEF Cells, Nothing
  <1> QED BY <1>1, <1>2, <1>4, <1>5

LEMMA WithinChain ==
    ASSUME NEW a \in Cells, NEW b \in Cells, NEW c \in Cells, Within(a, b), Within(b, c)
    PROVE  Within(a, c)
  BY CellFacts DEF Within, Cells

LEMMA CellRanges ==
    /\ Minutes \subseteq Nat /\ Runs \subseteq Nat /\ 0 \in Runs /\ 0 \in Minutes /\ FoldedRun \notin Runs
    /\ \A r \in Runs : r \in 0..FoldedRun
    /\ \A r \in Runs, w \in Minutes : <<r, w>> \in Slots /\ <<r, w>> \in Runs \X Minutes
  <1>1. LastMinute \in Nat /\ LastRun \in Nat
    BY TelemetryAssumption DEF TelemetryAssumption
  <1> QED BY <1>1 DEF Minutes, Runs, FoldedRun, Slots

(* One more in one series of one place.                                    *)
LEMMA CountedOne ==
    ASSUME NEW D, NEW f \in [D -> Cells], NEW d \in D, NEW k \in DOMAIN Nothing
    PROVE  LET g == OneMore(f, d, k) IN
           /\ g \in [D -> Cells] /\ \A e \in D : e # d => g[e] = f[e]
           /\ \A e \in D : Within(f[e], g[e])
           /\ \A s \in DOMAIN Nothing : g[d][s] = IF s = k THEN f[d][s] + 1 ELSE f[d][s]
  <1> PICK g : g = OneMore(f, d, k)
    OBVIOUS
  <1> PICK c : c = [f[d] EXCEPT ![k] = @ + 1]
    OBVIOUS
  <1>1. f[d] \in Cells /\ f[d] \in [DOMAIN Nothing -> Nat]
    BY CellFacts DEF Cells
  <1>2. c \in [DOMAIN Nothing -> Nat] /\ \A s \in DOMAIN Nothing : c[s] = IF s = k THEN f[d][s] + 1 ELSE f[d][s]
    BY <1>1
  <1>3. c \in Cells
    BY <1>2, CellFacts DEF Cells
  <1>4. g = [f EXCEPT ![d] = c]
    BY DEF OneMore
  <1>5. g \in [D -> Cells] /\ g[d] = c /\ \A e \in D : e # d => g[e] = f[e]
    BY <1>3, <1>4
  <1>6. Within(f[d], c)
    BY <1>1, <1>2 DEF Within
  <1>7. \A e \in D : Within(f[e], g[e])
    BY <1>5, <1>6, CellFacts
  <1> QED BY <1>2, <1>5, <1>7


LEMMA RecordHolds ==
    ASSUME GInv, NEW s \in Series, Record(s)
    PROVE  GInv'
  <1>1. PICK key \in DOMAIN Nothing :
            /\ held' = OneMore(held, minute, key)
            /\ recorded' = OneMore(recorded, <<run, minute>>, key)
            /\ UNCHANGED <<minute, run, limits, batch, tpoll, strays, buffer, runsSeen, rollup, trouble, kept, excused>>
    BY CellFacts DEF Record
  <1>2. /\ held \in [Minutes -> Cells] /\ minute \in Minutes /\ run \in Runs /\ recorded \in [Runs \X Minutes -> Cells]
        /\ strays \subseteq Report /\ {buffer, rollup} \subseteq [Slots -> Cells] /\ <<run, minute>> \in Runs \X Minutes
    BY CellRanges DEF GInv, TelemetryTypeOK
  <1> PICK h : h = held'
    OBVIOUS
  <1> PICK c : c = recorded'
    OBVIOUS
  <1>3. /\ h \in [Minutes -> Cells] /\ (\A w \in Minutes : w # minute => h[w] = held[w])
        /\ \A t \in DOMAIN Nothing : h[minute][t] = IF t = key THEN held[minute][t] + 1 ELSE held[minute][t]
    BY <1>1, <1>2, CountedOne
  <1>4. /\ c \in [Runs \X Minutes -> Cells] /\ (\A x \in Runs \X Minutes : Within(recorded[x], c[x]))
        /\ \A t \in DOMAIN Nothing : c[<<run, minute>>][t] = IF t = key THEN recorded[<<run, minute>>][t] + 1
                                                              ELSE recorded[<<run, minute>>][t]
    <2> PICK d : d = <<run, minute>>
      OBVIOUS
    <2>1. d \in Runs \X Minutes /\ c = OneMore(recorded, d, key) /\ recorded \in [Runs \X Minutes -> Cells]
      BY <1>1, <1>2
    <2>2. /\ c \in [Runs \X Minutes -> Cells] /\ (\A x \in Runs \X Minutes : Within(recorded[x], c[x]))
          /\ \A t \in DOMAIN Nothing : c[d][t] = IF t = key THEN recorded[d][t] + 1 ELSE recorded[d][t]
      BY ONLY <2>1, key \in DOMAIN Nothing, CountedOne
    <2> QED BY <2>2
  <1>5. TelemetryTypeOK' /\ PollOK'
    BY <1>1, <1>3, <1>4 DEF GInv, TelemetryTypeOK, PollOK
  <1>6. ASSUME NEW r \in Runs, NEW w \in Minutes, NEW d \in Cells, Within(d, recorded[<<r, w>>])
        PROVE  Within(d, c[<<r, w>>])
    <2>1. recorded[<<r, w>>] \in Cells /\ c[<<r, w>>] \in Cells /\ Within(recorded[<<r, w>>], c[<<r, w>>])
      BY <1>2, <1>4, CellRanges
    <2> QED BY <1>6, <2>1, WithinChain
  <1>7. ASSUME NEW w \in Minutes
        PROVE  Within(h[w], c[<<run, w>>])
    <2>1. Within(held[w], recorded[<<run, w>>]) /\ held[w] \in Cells
      BY <1>2 DEF GInv, NoMoreThanCounted
    <2>2. CASE w # minute
      BY <1>2, <1>3, <1>6, <2>1, <2>2
    <2>3. CASE w = minute
      <3>1. held[minute] \in Cells /\ recorded[<<run, minute>>] \in Cells
        BY <1>2
      <3>2. \A t \in DOMAIN Nothing : held[minute][t] \in Nat /\ recorded[<<run, minute>>][t] \in Nat
        BY <3>1, CellFacts DEF Cells
      <3> QED BY <1>3, <1>4, <2>1, <2>3, <3>2 DEF Within
    <2> QED BY <2>2, <2>3
  <1>8. NoMoreThanCounted'
    <2>1. tpoll.stage # "idle" => \A w \in Minutes : Within(tpoll.report[w], c[<<run, w>>])
      <3>1. \A w \in Minutes : tpoll.report[w] \in Cells
        BY DEF GInv, TelemetryTypeOK
      <3> QED BY <1>2, <1>6, <3>1 DEF GInv, NoMoreThanCounted
    <2>2. ASSUME NEW m \in strays, NEW w \in Minutes
          PROVE  Within(m.report[w], c[<<m.run, w>>])
      <3>1. m.run \in Runs /\ m.report[w] \in Cells
        BY <1>2 DEF Report
      <3> QED BY <1>6, <3>1 DEF GInv, NoMoreThanCounted
    <2>3. ASSUME NEW r \in Runs, NEW w \in Minutes
          PROVE  Within(buffer[<<r, w>>], c[<<r, w>>]) /\ Within(rollup[<<r, w>>], c[<<r, w>>])
      <3>1. buffer[<<r, w>>] \in Cells /\ rollup[<<r, w>>] \in Cells
        BY <1>2, CellRanges
      <3>2. Within(buffer[<<r, w>>], recorded[<<r, w>>]) /\ Within(rollup[<<r, w>>], recorded[<<r, w>>])
        BY DEF GInv, NoMoreThanCounted
      <3> QED BY <1>6, <3>1, <3>2
    <2>4. tpoll.stage # "idle" => tpoll.run = run
      BY DEF GInv, NoMoreThanCounted
    <2> QED BY <1>1, <1>7, <2>1, <2>2, <2>3, <2>4 DEF NoMoreThanCounted
  <1>9. OnceAcknowledged'
    <2>1. \A w \in Minutes : kept[<<run, w>>] # Nothing => h[w] = Nothing /\ w < minute
      BY <1>2, <1>3, CellRanges DEF GInv, OnceAcknowledged
    <2> QED BY <1>1, <2>1 DEF GInv, OnceAcknowledged
  <1>10. StillShown'
    BY <1>1 DEF GInv, StillShown, Figure
  <1> QED BY <1>5, <1>8, <1>9, <1>10 DEF GInv


LEMMA OfTwo ==
    ASSUME NEW a \in Nat, NEW b \in Nat
    PROVE  Min({a, b}) = (IF a <= b THEN a ELSE b) /\ Max({a, b}) = (IF a <= b THEN b ELSE a)
  <1>1. \E x \in {a, b} : \A y \in {a, b} : x <= y
    OBVIOUS
  <1>2. Min({a, b}) \in {a, b} /\ \A y \in {a, b} : Min({a, b}) <= y
    BY <1>1 DEF Min
  <1>3. \E x \in {a, b} : \A y \in {a, b} : x >= y
    OBVIOUS
  <1>4. Max({a, b}) \in {a, b} /\ \A y \in {a, b} : Max({a, b}) >= y
    BY <1>3 DEF Max
  <1> QED BY <1>2, <1>4

LEMMA QuietFacts ==
    /\ Quiet \in [stage : {"idle", "sent", "answered"}, run : Runs, report : [Minutes -> Cells], accepted : SUBSET Minutes]
    /\ Quiet.stage = "idle"
  BY CellFacts, CellRanges DEF Quiet

LEMMA SettingsFacts == \A l \in Settings : l.windows \in Nat \ {0} /\ l.series \in Nat
  BY TelemetryAssumption DEF TelemetryAssumption

LEMMA SendReportHolds ==
    ASSUME GInv, SendReport
    PROVE  GInv'
  <1> PICK h : h = held'
    OBVIOUS
  <1> PICK gone : gone = {run} \X (Windows(held) \ Newest(Windows(held), batch))
    OBVIOUS
  <1>1. /\ h = [w \in Minutes |-> IF w \in Newest(Windows(held), batch) THEN held[w] ELSE Nothing]
        /\ held' = h /\ tpoll.stage = "idle" /\ excused' = excused \cup gone
        /\ tpoll' = [Quiet EXCEPT !.stage = "sent", !.run = run, !.report = h]
        /\ UNCHANGED <<minute, run, limits, batch, strays, buffer, runsSeen, rollup, trouble, recorded, kept>>
    BY DEF SendReport
  <1>2. held \in [Minutes -> Cells] /\ run \in Runs /\ recorded \in [Runs \X Minutes -> Cells]
    BY DEF GInv, TelemetryTypeOK
  <1>3. h \in [Minutes -> Cells] /\ \A w \in Minutes : h[w] = held[w] \/ h[w] = Nothing
    BY <1>1, <1>2, CellFacts
  <1>4. gone \subseteq Runs \X Minutes
    BY <1>2 DEF Windows
  <1>5. tpoll' \in [stage : {"idle", "sent", "answered"}, run : Runs, report : [Minutes -> Cells], accepted : SUBSET Minutes]
        /\ tpoll'.stage = "sent" /\ tpoll'.run = run /\ tpoll'.report = h
    <2> PICK q : q = Quiet
      OBVIOUS
    <2> PICK p : p = tpoll'
      OBVIOUS
    <2>1. q \in [stage : {"idle", "sent", "answered"}, run : Runs, report : [Minutes -> Cells], accepted : SUBSET Minutes]
      BY QuietFacts
    <2>2. p = [q EXCEPT !.stage = "sent", !.run = run, !.report = h]
      BY <1>1
    <2>3. p \in [stage : {"idle", "sent", "answered"}, run : Runs, report : [Minutes -> Cells], accepted : SUBSET Minutes]
          /\ p.stage = "sent" /\ p.run = run /\ p.report = h
      BY ONLY <2>1, <2>2, <1>2, <1>3
    <2> QED BY <2>3
  <1>6. PollOK'
    BY <1>5 DEF PollOK
  <1>7. TelemetryTypeOK'
    BY <1>1, <1>3, <1>4, <1>5 DEF GInv, TelemetryTypeOK
  <1>8. \A w \in Minutes : Within(h[w], recorded[<<run, w>>])
    <2>1. \A w \in Minutes : recorded[<<run, w>>] \in Cells /\ Within(held[w], recorded[<<run, w>>])
      BY <1>2, CellRanges DEF GInv, NoMoreThanCounted
    <2> QED BY <1>3, <2>1, CellFacts
  <1>9. NoMoreThanCounted'
    BY <1>1, <1>5, <1>8 DEF GInv, NoMoreThanCounted
  <1>10. OnceAcknowledged'
    <2>1. \A w \in Minutes : kept[<<run, w>>] # Nothing => h[w] = Nothing /\ w < minute
      BY <1>3 DEF GInv, OnceAcknowledged
    <2> QED BY <1>1, <1>5, <2>1 DEF GInv, OnceAcknowledged
  <1>11. StillShown'
    <2>1. \A r \in Runs, w \in Minutes : <<r, w>> \in excused \/ Within(kept[<<r, w>>], Figure(r, w))
      BY DEF GInv, StillShown
    <2>2. \A r, w : Figure(r, w)' = Figure(r, w)
      BY <1>1 DEF Figure
    <2> QED BY <1>1, <1>5, <2>1, <2>2 DEF StillShown
  <1> QED BY <1>6, <1>7, <1>9, <1>10, <1>11 DEF GInv

(* A window is acknowledged when nothing of it was acknowledged before.    *)
LEMMA AcknowledgeHolds ==
    ASSUME GInv, Acknowledge
    PROVE  GInv'
  <1> PICK h : h = held'
    OBVIOUS
  <1> PICK k : k = kept'
    OBVIOUS
  <1>1. /\ tpoll.stage = "answered" /\ held' = h /\ kept' = k /\ batch' = limits.windows /\ tpoll' = Quiet
        /\ h = [w \in Minutes |-> IF w \in tpoll.accepted THEN Nothing ELSE held[w]]
        /\ k = [x \in Runs \X Minutes |-> IF x[1] = run /\ x[2] \in tpoll.accepted
                                          THEN Plus(kept[x], tpoll.report[x[2]]) ELSE kept[x]]
        /\ UNCHANGED <<minute, run, limits, strays, buffer, runsSeen, rollup, trouble, recorded, excused>>
    BY DEF Acknowledge
  <1>2. /\ held \in [Minutes -> Cells] /\ run \in Runs /\ kept \in [Runs \X Minutes -> Cells] /\ limits \in Settings
        /\ tpoll.report \in [Minutes -> Cells] /\ tpoll.accepted \subseteq Minutes /\ recorded \in [Runs \X Minutes -> Cells]
    BY DEF GInv, TelemetryTypeOK
  <1>3. h \in [Minutes -> Cells] /\ \A w \in Minutes : h[w] = held[w] \/ h[w] = Nothing
    BY <1>1, <1>2, CellFacts
  <1>4. \A w \in tpoll.accepted : kept[<<run, w>>] = Nothing /\ w < minute
    BY <1>1, <1>2 DEF GInv, OnceAcknowledged
  <1>5. \A c \in Cells : Plus(Nothing, c) = c
    <2> TAKE c \in Cells
    <2>1. c \in [DOMAIN Nothing -> Nat] /\ \A s \in DOMAIN Nothing : Nothing[s] + c[s] = c[s]
      BY CellFacts DEF Cells
    <2> QED BY <2>1 DEF Plus
  <1>6. ASSUME NEW r \in Runs, NEW w \in Minutes
        PROVE  k[<<r, w>>] = IF r = run /\ w \in tpoll.accepted THEN tpoll.report[w] ELSE kept[<<r, w>>]
    <2>1. <<r, w>> \in Runs \X Minutes /\ <<r, w>>[1] = r /\ <<r, w>>[2] = w
      OBVIOUS
    <2>2. k[<<r, w>>] = IF r = run /\ w \in tpoll.accepted THEN Plus(kept[<<r, w>>], tpoll.report[w]) ELSE kept[<<r, w>>]
      BY <1>1, <2>1
    <2>3. tpoll.report[w] \in Cells
      BY <1>2
    <2> QED BY <1>4, <1>5, <2>2, <2>3
  <1>7. k \in [Runs \X Minutes -> Cells]
    <2>1. \A x \in Runs \X Minutes : k[x] \in Cells
      <3> TAKE x \in Runs \X Minutes
      <3>1. x = <<x[1], x[2]>> /\ x[1] \in Runs /\ x[2] \in Minutes
        OBVIOUS
      <3>2. k[<<x[1], x[2]>>] \in {tpoll.report[x[2]], kept[<<x[1], x[2]>>]}
        BY <1>6, <3>1
      <3> QED BY <1>2, <3>1, <3>2
    <2> QED BY <1>1, <2>1
  <1>8. TelemetryTypeOK' /\ PollOK'
    <2>1. tpoll'.stage \in {"idle", "sent", "answered"} /\ tpoll'.report \in [Minutes -> Cells] /\ tpoll'.accepted \subseteq Minutes
      BY <1>1, QuietFacts
    <2>2. batch' \in 1..limits.windows
      BY <1>1, <1>2, SettingsFacts
    <2>3. PollOK'
      BY <1>1, QuietFacts DEF PollOK
    <2> QED BY <1>1, <1>3, <1>7, <2>1, <2>2, <2>3 DEF GInv, TelemetryTypeOK
  <1>9. NoMoreThanCounted'
    <2>1. \A w \in Minutes : Within(h[w], recorded[<<run, w>>])
      <3>1. \A w \in Minutes : recorded[<<run, w>>] \in Cells /\ Within(held[w], recorded[<<run, w>>])
        BY <1>2, CellRanges DEF GInv, NoMoreThanCounted
      <3> QED BY <1>3, <3>1, CellFacts
    <2> QED BY <1>1, <2>1, QuietFacts DEF GInv, NoMoreThanCounted
  <1>10. OnceAcknowledged'
    <2>1. \A r \in Runs, w \in Minutes : r > run => k[<<r, w>>] = Nothing
      <3>1. \A r \in Runs : r > run => r # run
        BY <1>2, CellRanges
      <3> QED BY <1>6, <3>1 DEF GInv, OnceAcknowledged
    <2>2. ASSUME NEW w \in Minutes, k[<<run, w>>] # Nothing
          PROVE  h[w] = Nothing /\ w < minute
      <3>1. CASE w \in tpoll.accepted
        BY <1>1, <1>4, <3>1
      <3>2. CASE w \notin tpoll.accepted
        <4>1. kept[<<run, w>>] # Nothing
          BY <1>2, <1>6, <2>2, <3>2
        <4> QED BY <1>3, <4>1 DEF GInv, OnceAcknowledged
      <3> QED BY <3>1, <3>2
    <2>3. held' = h /\ kept' = k /\ run' = run /\ minute' = minute /\ tpoll'.stage = "idle"
      BY <1>1, QuietFacts
    <2> QED BY ONLY <2>1, <2>2, <2>3 DEF OnceAcknowledged
  <1>11. StillShown'
    <2>1. ASSUME NEW r \in Runs, NEW w \in Minutes
          PROVE  <<r, w>> \in excused \/ Within(k[<<r, w>>], Figure(r, w))
      <3>1. CASE r = run /\ w \in tpoll.accepted
        BY <1>1, <1>6, <3>1 DEF GInv, StillShown
      <3>2. CASE ~(r = run /\ w \in tpoll.accepted)
        BY <1>6, <3>2 DEF GInv, StillShown
      <3> QED BY <3>1, <3>2
    <2>2. \A r, w : Figure(r, w)' = Figure(r, w)
      BY <1>1 DEF Figure
    <2> QED BY <1>1, <2>1, <2>2, QuietFacts DEF StillShown
  <1> QED BY <1>8, <1>9, <1>10, <1>11 DEF GInv


LEMMA TelemetryResizes ==
    ASSUME GInv, Resize
    PROVE  GInv'
  <1>1. PICK l \in Settings :
            /\ limits' = l /\ batch' = IF batch < limits.windows THEN Min({batch, l.windows}) ELSE l.windows
            /\ UNCHANGED <<minute, run, held, tpoll, strays, buffer, runsSeen, rollup, trouble, recorded, kept, excused>>
    BY DEF Resize
  <1>2. batch \in Nat \ {0} /\ l.windows \in Nat \ {0}
    <2>1. limits.windows \in Nat /\ l.windows \in Nat \ {0}
      BY SettingsFacts DEF GInv, TelemetryTypeOK
    <2>2. batch \in 1..limits.windows
      BY DEF GInv, TelemetryTypeOK
    <2> QED BY <2>1, <2>2
  <1>3. Min({batch, l.windows}) = (IF batch <= l.windows THEN batch ELSE l.windows)
    BY <1>2, OfTwo
  <1>4. batch' \in 1..limits'.windows
    BY <1>1, <1>2, <1>3
  <1>5. TelemetryTypeOK'
    BY <1>1, <1>4 DEF GInv, TelemetryTypeOK
  <1>6. PollOK' /\ NoMoreThanCounted' /\ OnceAcknowledged'
    BY <1>1 DEF GInv, PollOK, NoMoreThanCounted, OnceAcknowledged
  <1>7. StillShown'
    <2>1. \A r, w : Figure(r, w)' = Figure(r, w)
      BY <1>1 DEF Figure
    <2> QED BY <1>1, <2>1 DEF GInv, StillShown
  <1> QED BY <1>5, <1>6, <1>7 DEF GInv

(* What taking in a report does to the cells of the runs that have ids.    *)
LEMMA BufferedCells ==
    ASSUME buffer \in [Slots -> Cells], NEW m, m.run \in Runs, m.report \in [Minutes -> Cells]
    PROVE  LET b == Buffered(m) IN
           /\ b \in [Slots -> Cells]
           /\ \A r \in Runs, w \in Minutes :
                 IF m.report[w] # Nothing /\ r = EffectiveRun(w, m.run)
                 THEN /\ r = m.run
                      /\ \A s \in DOMAIN Nothing :
                            b[<<r, w>>][s] = IF m.report[w][s] = 0 THEN buffer[<<r, w>>][s] ELSE m.report[w][s]
                 ELSE b[<<r, w>>] = buffer[<<r, w>>]
  <1> DEFINE Cell(x) == [s \in DOMAIN Nothing |->
               IF m.report[x[2]][s] = 0 THEN buffer[x][s]
               ELSE IF x[1] = FoldedRun THEN Min({Many, buffer[x][s] + m.report[x[2]][s]})
                                        ELSE m.report[x[2]][s]]
  <1> PICK b : b = Buffered(m)
    OBVIOUS
  <1>1. b = [x \in Slots |-> IF x[2] \in Windows(m.report) /\ x[1] = EffectiveRun(x[2], m.run) THEN Cell(x) ELSE buffer[x]]
    BY DEF Buffered
  <1>2. ASSUME NEW x \in Slots
        PROVE  Cell(x) \in Cells
    <2>1. x[2] \in Minutes
      BY DEF Slots
    <2>2. m.report[x[2]] \in Cells /\ buffer[x] \in Cells
      BY <2>1
    <2>3. \A s \in DOMAIN Nothing : m.report[x[2]][s] \in Nat /\ buffer[x][s] \in Nat
      BY <2>2, CellFacts DEF Cells
    <2>4. Many \in Nat
      BY TelemetryAssumption DEF TelemetryAssumption, Many
    <2>5. ASSUME NEW s \in DOMAIN Nothing
          PROVE  Cell(x)[s] \in Nat
      <3>1. buffer[x][s] + m.report[x[2]][s] \in Nat
        BY <2>3
      <3>2. Min({Many, buffer[x][s] + m.report[x[2]][s]}) \in Nat
        BY <2>4, <3>1, OfTwo
      <3> QED BY <2>3, <3>2
    <2>6. Cell(x) = [s \in DOMAIN Nothing |-> Cell(x)[s]]
      OBVIOUS
    <2> HIDE DEF Cell
    <2>7. Cell(x) \in [DOMAIN Nothing -> Nat]
      BY <2>5, <2>6
    <2> QED BY <2>7, CellFacts DEF Cells
  <1>3. b \in [Slots -> Cells]
    <2> HIDE DEF Cell
    <2> QED BY <1>1, <1>2
  <1>4. ASSUME NEW r \in Runs, NEW w \in Minutes
        PROVE  IF m.report[w] # Nothing /\ r = EffectiveRun(w, m.run)
               THEN /\ r = m.run
                    /\ \A s \in DOMAIN Nothing :
                          b[<<r, w>>][s] = IF m.report[w][s] = 0 THEN buffer[<<r, w>>][s] ELSE m.report[w][s]
               ELSE b[<<r, w>>] = buffer[<<r, w>>]
    <2> PICK x : x = <<r, w>>
      OBVIOUS
    <2>1. x \in Slots /\ x[1] = r /\ x[2] = w /\ r # FoldedRun
      BY CellRanges
    <2>2. w \in Windows(m.report) <=> m.report[w] # Nothing
      BY DEF Windows
    <2>3. CASE m.report[w] # Nothing /\ r = EffectiveRun(w, m.run)
      <3>1. r = m.run
        BY <2>1, <2>3 DEF EffectiveRun
      <3>2. b[x] = Cell(x)
        <4> HIDE DEF Cell
        <4> QED BY <1>1, <2>1, <2>2, <2>3
      <3>3. \A s \in DOMAIN Nothing : Cell(x)[s] = IF m.report[w][s] = 0 THEN buffer[x][s] ELSE m.report[w][s]
        BY <2>1
      <3> QED BY <2>3, <3>1, <3>2, <3>3
    <2>4. CASE ~(m.report[w] # Nothing /\ r = EffectiveRun(w, m.run))
      <3> HIDE DEF Cell
      <3>1. b[x] = buffer[x]
        BY <1>1, <2>1, <2>2, <2>4
      <3> QED BY <2>4, <3>1
    <2> QED BY <2>3, <2>4
  <1> QED BY <1>3, <1>4

LEMMA SeenRuns ==
    ASSUME runsSeen \in [Minutes -> SUBSET Runs], NEW m, m.run \in Runs
    PROVE  Seen(m) \in [Minutes -> SUBSET Runs]
  BY DEF Seen


(* The figure of a run's window under another buffer.                      *)
FigureUnder(b, r, w) == [s \in DOMAIN Nothing |-> IF b[<<r, w>>][s] > 0 THEN b[<<r, w>>][s] ELSE rollup[<<r, w>>][s]]

(* A report that is taken in stays below the counts, and what it replaces  *)
(* either was not acknowledged yet or is excused.                          *)
LEMMA TakenIn ==
    ASSUME GInv, NEW m, m.run \in Runs, m.report \in [Minutes -> Cells],
           \A w \in Minutes : Within(m.report[w], recorded[<<m.run, w>>]),
           NEW b, b = Buffered(m)
    PROVE  /\ b \in [Slots -> Cells]
           /\ \A r \in Runs, w \in Minutes : Within(b[<<r, w>>], recorded[<<r, w>>])
           /\ \A r \in Runs, w \in Minutes : FigureUnder(b, r, w) = Figure(r, w) \/ (r = m.run /\ m.report[w] # Nothing)
           /\ \A w \in Minutes : \/ m.report[w] = Nothing \/ EffectiveRun(w, m.run) = FoldedRun
                                  \/ Within(m.report[w], FigureUnder(b, m.run, w))
  <1>1. buffer \in [Slots -> Cells] /\ rollup \in [Slots -> Cells] /\ recorded \in [Runs \X Minutes -> Cells]
    BY DEF GInv, TelemetryTypeOK
  <1>2. /\ b \in [Slots -> Cells]
        /\ \A r \in Runs, w \in Minutes :
              IF m.report[w] # Nothing /\ r = EffectiveRun(w, m.run)
              THEN /\ r = m.run
                   /\ \A s \in DOMAIN Nothing :
                         b[<<r, w>>][s] = IF m.report[w][s] = 0 THEN buffer[<<r, w>>][s] ELSE m.report[w][s]
              ELSE b[<<r, w>>] = buffer[<<r, w>>]
    BY <1>1, BufferedCells
  <1>3. ASSUME NEW r \in Runs, NEW w \in Minutes
        PROVE  /\ Within(b[<<r, w>>], recorded[<<r, w>>])
               /\ FigureUnder(b, r, w) = Figure(r, w) \/ (r = m.run /\ m.report[w] # Nothing)
               /\ r = m.run => \/ m.report[w] = Nothing \/ EffectiveRun(w, m.run) = FoldedRun
                              \/ Within(m.report[w], FigureUnder(b, r, w))
    <2>1. Within(buffer[<<r, w>>], recorded[<<r, w>>])
      BY DEF GInv, NoMoreThanCounted
    <2>2. CASE m.report[w] # Nothing /\ r = EffectiveRun(w, m.run)
      <3>1. r = m.run /\ r # FoldedRun /\ Within(m.report[w], recorded[<<r, w>>])
            /\ \A s \in DOMAIN Nothing :
                  b[<<r, w>>][s] = IF m.report[w][s] = 0 THEN buffer[<<r, w>>][s] ELSE m.report[w][s]
        BY <1>2, <2>2, CellRanges
      <3>2. m.report[w] \in Cells
        OBVIOUS
      <3>3. \A s \in DOMAIN Nothing : m.report[w][s] \in Nat
        BY <3>2, CellFacts DEF Cells
      <3>4. Within(b[<<r, w>>], recorded[<<r, w>>])
        BY <2>1, <3>1 DEF Within
      <3>5. b[<<r, w>>] \in Cells /\ rollup[<<r, w>>] \in Cells
        BY <1>1, <1>2, CellRanges
      <3>6. \A s \in DOMAIN Nothing : b[<<r, w>>][s] \in Nat /\ rollup[<<r, w>>][s] \in Nat
        BY <3>5, CellFacts DEF Cells
      <3>7. \A s \in DOMAIN Nothing : m.report[w][s] <= FigureUnder(b, r, w)[s]
        BY <3>1, <3>3, <3>6 DEF FigureUnder
      <3>8. Within(m.report[w], FigureUnder(b, r, w))
        BY <3>7 DEF Within
      <3> QED BY <2>2, <3>1, <3>4, <3>8
    <2>3. CASE ~(m.report[w] # Nothing /\ r = EffectiveRun(w, m.run))
      <3>1. b[<<r, w>>] = buffer[<<r, w>>]
        BY <1>2, <2>3
      <3>2. FigureUnder(b, r, w) = Figure(r, w)
        BY ONLY <3>1 DEF Figure, FigureUnder
      <3>3. r = m.run => m.report[w] = Nothing \/ EffectiveRun(w, m.run) = FoldedRun
        BY <2>3 DEF EffectiveRun
      <3> QED BY <2>1, <3>1, <3>2, <3>3
    <2> QED BY <2>2, <2>3
  <1>4. \A w \in Minutes : \/ m.report[w] = Nothing \/ EffectiveRun(w, m.run) = FoldedRun
                            \/ Within(m.report[w], FigureUnder(b, m.run, w))
    BY <1>3
  <1> QED BY <1>2, <1>3, <1>4

LEMMA IntakeReportHolds ==
    ASSUME GInv, IntakeReport
    PROVE  GInv'
  <1> PICK b : b = buffer'
    OBVIOUS
  <1> PICK q : q = tpoll
    OBVIOUS
  <1> PICK folded : folded = {w \in Windows(tpoll.report) : EffectiveRun(w, tpoll.run) = FoldedRun}
    OBVIOUS
  <1>1. /\ q.stage = "sent" /\ buffer' = b /\ b = Buffered(q) /\ runsSeen' = Seen(q)
        /\ tpoll' = [q EXCEPT !.stage = "answered", !.accepted = Closed(q)]
        /\ excused' = excused \cup {<<q.run, w>> : w \in folded}
        /\ UNCHANGED <<minute, run, limits, batch, held, strays, rollup, trouble, recorded, kept>>
    BY DEF IntakeReport
  <1>2. /\ q \in [stage : {"idle", "sent", "answered"}, run : Runs, report : [Minutes -> Cells], accepted : SUBSET Minutes]
        /\ q.run = run /\ (\A w \in Minutes : Within(q.report[w], recorded[<<run, w>>]))
        /\ \A w \in Minutes : q.report[w] # Nothing => kept[<<run, w>>] = Nothing
    BY <1>1 DEF GInv, PollOK, NoMoreThanCounted, OnceAcknowledged
  <1>3. folded \subseteq Minutes /\ folded = {w \in Minutes : q.report[w] # Nothing /\ EffectiveRun(w, q.run) = FoldedRun}
        /\ Closed(q) = {w \in Minutes : q.report[w] # Nothing /\ w < minute}
    BY DEF Windows, Closed
  <1>4. tpoll' \in [stage : {"idle", "sent", "answered"}, run : Runs, report : [Minutes -> Cells], accepted : SUBSET Minutes]
        /\ tpoll'.stage = "answered" /\ tpoll'.run = run /\ tpoll'.report = q.report
        /\ tpoll'.accepted = Closed(q)
    BY <1>1, <1>2, <1>3
  <1>5. /\ b \in [Slots -> Cells]
        /\ \A r \in Runs, w \in Minutes : Within(b[<<r, w>>], recorded[<<r, w>>])
        /\ \A r \in Runs, w \in Minutes : Figure(r, w)' = Figure(r, w) \/ (r = run /\ q.report[w] # Nothing)
        /\ \A w \in Minutes : \/ q.report[w] = Nothing \/ EffectiveRun(w, q.run) = FoldedRun
                               \/ \A r \in Runs : r = run => Within(q.report[w], Figure(r, w)')
    <2>1. q.run \in Runs /\ q.report \in [Minutes -> Cells] /\ \A w \in Minutes : Within(q.report[w], recorded[<<q.run, w>>])
      BY <1>2
    <2>2. /\ b \in [Slots -> Cells]
          /\ \A r \in Runs, w \in Minutes : Within(b[<<r, w>>], recorded[<<r, w>>])
          /\ \A r \in Runs, w \in Minutes : FigureUnder(b, r, w) = Figure(r, w) \/ (r = q.run /\ q.report[w] # Nothing)
          /\ \A w \in Minutes : \/ q.report[w] = Nothing \/ EffectiveRun(w, q.run) = FoldedRun
                                 \/ Within(q.report[w], FigureUnder(b, q.run, w))
      BY <1>1, <2>1, TakenIn
    <2>3. \A r, w : Figure(r, w)' = FigureUnder(b, r, w)
      BY <1>1 DEF Figure, FigureUnder
    <2> QED BY <1>2, <2>2, <2>3
  <1>6. TelemetryTypeOK'
    <2>1. runsSeen' \in [Minutes -> SUBSET Runs]
      BY <1>1, <1>2, SeenRuns DEF GInv, TelemetryTypeOK
    <2>2. excused' \subseteq Runs \X Minutes
      BY <1>1, <1>2, <1>3 DEF GInv, TelemetryTypeOK
    <2>3. tpoll'.stage \in {"idle", "sent", "answered"} /\ tpoll'.report \in [Minutes -> Cells] /\ tpoll'.accepted \subseteq Minutes
      BY <1>4
    <2> QED BY <1>1, <1>5, <2>1, <2>2, <2>3 DEF GInv, TelemetryTypeOK
  <1>7. PollOK'
    BY <1>4 DEF PollOK
  <1>8. NoMoreThanCounted'
    BY <1>1, <1>2, <1>4, <1>5 DEF GInv, NoMoreThanCounted
  <1>9. OnceAcknowledged'
    BY <1>1, <1>2, <1>3, <1>4 DEF GInv, OnceAcknowledged
  <1>10. StillShown'
    <2>1. ASSUME NEW r \in Runs, NEW w \in Minutes
          PROVE  <<r, w>> \in excused' \/ Within(kept[<<r, w>>], Figure(r, w)')
      <3>1. CASE Figure(r, w)' = Figure(r, w)
        BY <1>1, <3>1 DEF GInv, StillShown
      <3>2. CASE r = run /\ q.report[w] # Nothing
        <4>1. kept[<<r, w>>] = Nothing
          BY <1>2, <3>2
        <4>2. Figure(r, w)' \in Cells
          <5>1. b[<<r, w>>] \in Cells /\ rollup[<<r, w>>] \in Cells
            BY <1>5, CellRanges DEF GInv, TelemetryTypeOK
          <5>2. \A s \in DOMAIN Nothing : b[<<r, w>>][s] \in Nat /\ rollup[<<r, w>>][s] \in Nat
            BY <5>1, CellFacts DEF Cells
          <5>3. Figure(r, w)' = [s \in DOMAIN Nothing |-> IF b[<<r, w>>][s] > 0 THEN b[<<r, w>>][s] ELSE rollup[<<r, w>>][s]]
            BY <1>1 DEF Figure
          <5>4. Figure(r, w)' \in [DOMAIN Nothing -> Nat]
            BY ONLY <5>2, <5>3
          <5> QED BY <5>4, CellFacts DEF Cells
        <4> QED BY <4>1, <4>2, CellFacts
      <3> QED BY <1>5, <3>1, <3>2
    <2>2. ASSUME NEW r \in Runs, NEW w \in Closed(q), r = run
          PROVE  <<r, w>> \in excused' \/ Within(q.report[w], Figure(r, w)')
      <3>1. w \in Minutes /\ q.report[w] # Nothing
        BY <1>3
      <3>2. CASE w \in folded
        BY <1>1, <1>2, <2>2, <3>2
      <3>3. CASE w \notin folded
        BY <1>3, <1>5, <2>2, <3>1, <3>3
      <3> QED BY <3>2, <3>3
    <2> QED BY <1>1, <1>4, <2>1, <2>2 DEF StillShown
  <1> QED BY <1>6, <1>7, <1>8, <1>9, <1>10 DEF GInv


LEMMA IntakeStrayHolds ==
    ASSUME GInv, IntakeStray
    PROVE  GInv'
  <1> PICK b : b = buffer'
    OBVIOUS
  <1>1. PICK m \in strays :
            /\ buffer' = b /\ b = Buffered(m) /\ runsSeen' = Seen(m) /\ strays' = strays \ {m}
            /\ excused' = excused \cup ({m.run} \X Windows(m.report))
            /\ UNCHANGED <<minute, run, limits, batch, held, tpoll, rollup, trouble, recorded, kept>>
    BY DEF IntakeStray
  <1>2. m.run \in Runs /\ m.report \in [Minutes -> Cells] /\ \A w \in Minutes : Within(m.report[w], recorded[<<m.run, w>>])
    BY DEF GInv, TelemetryTypeOK, NoMoreThanCounted, Report
  <1>3. Windows(m.report) = {w \in Minutes : m.report[w] # Nothing}
    BY DEF Windows
  <1>4. /\ b \in [Slots -> Cells]
        /\ \A r \in Runs, w \in Minutes : Within(b[<<r, w>>], recorded[<<r, w>>])
        /\ \A r \in Runs, w \in Minutes : <<r, w>> \in excused' \/ Figure(r, w)' = Figure(r, w)
    <2>1. /\ b \in [Slots -> Cells]
          /\ \A r \in Runs, w \in Minutes : Within(b[<<r, w>>], recorded[<<r, w>>])
          /\ \A r \in Runs, w \in Minutes : FigureUnder(b, r, w) = Figure(r, w) \/ (r = m.run /\ m.report[w] # Nothing)
      BY <1>1, <1>2, TakenIn
    <2>2. \A r, w : Figure(r, w)' = FigureUnder(b, r, w)
      BY <1>1 DEF Figure, FigureUnder
    <2> QED BY <1>1, <1>3, <2>1, <2>2
  <1>5. TelemetryTypeOK'
    <2>1. runsSeen' \in [Minutes -> SUBSET Runs]
      BY <1>1, <1>2, SeenRuns DEF GInv, TelemetryTypeOK
    <2>2. excused' \subseteq Runs \X Minutes
      BY <1>1, <1>2, <1>3 DEF GInv, TelemetryTypeOK
    <2> QED BY <1>1, <1>4, <2>1, <2>2 DEF GInv, TelemetryTypeOK
  <1>6. PollOK' /\ OnceAcknowledged'
    BY <1>1 DEF GInv, PollOK, OnceAcknowledged
  <1>7. NoMoreThanCounted'
    BY <1>1, <1>4 DEF GInv, NoMoreThanCounted
  <1>8. StillShown'
    <2>1. UNCHANGED <<run, tpoll, kept>> /\ excused \subseteq excused'
      BY <1>1
    <2>2. \A r \in Runs, w \in Minutes : <<r, w>> \in excused' \/ Figure(r, w)' = Figure(r, w)
      BY <1>4
    <2> QED BY <2>1, <2>2 DEF GInv, StillShown, PollOK
  <1> QED BY <1>5, <1>6, <1>7, <1>8 DEF GInv

(* Writing the buffer over the rows shows the same figures.                *)
LEMMA FlushRowsHolds ==
    ASSUME GInv, FlushRows
    PROVE  GInv'
  <1> PICK p : p = rollup'
    OBVIOUS
  <1> PICK b : b = buffer'
    OBVIOUS
  <1>1. /\ rollup' = p /\ buffer' = b
        /\ p = [x \in Slots |-> [s \in DOMAIN Nothing |-> IF buffer[x][s] > 0 THEN buffer[x][s] ELSE rollup[x][s]]]
        /\ b = [x \in Slots |-> Nothing] /\ runsSeen' = Remembered
        /\ UNCHANGED <<minute, run, limits, batch, held, tpoll, strays, trouble, recorded, kept, excused>>
    BY DEF FlushRows
  <1>2. {buffer, rollup} \subseteq [Slots -> Cells] /\ \A r \in Runs, w \in Minutes : recorded[<<r, w>>] \in Cells
    BY CellRanges DEF GInv, TelemetryTypeOK
  <1>3. ASSUME NEW x \in Slots
        PROVE  p[x] \in Cells /\ \A s \in DOMAIN Nothing : p[x][s] = IF buffer[x][s] > 0 THEN buffer[x][s] ELSE rollup[x][s]
    <2>1. \A s \in DOMAIN Nothing : buffer[x][s] \in Nat /\ rollup[x][s] \in Nat
      BY <1>2, CellFacts DEF Cells
    <2>2. p[x] = [s \in DOMAIN Nothing |-> IF buffer[x][s] > 0 THEN buffer[x][s] ELSE rollup[x][s]]
      BY <1>1
    <2>3. p[x] \in [DOMAIN Nothing -> Nat]
      BY <2>1, <2>2
    <2> QED BY <2>2, <2>3, CellFacts DEF Cells
  <1>4. p \in [Slots -> Cells] /\ b \in [Slots -> Cells]
    BY <1>1, <1>3, CellFacts
  <1>5. ASSUME NEW r \in Runs, NEW w \in Minutes
        PROVE  /\ Figure(r, w)' = Figure(r, w)
               /\ Within(b[<<r, w>>], recorded[<<r, w>>]) /\ Within(p[<<r, w>>], recorded[<<r, w>>])
    <2> PICK x : x = <<r, w>>
      OBVIOUS
    <2>1. x \in Slots /\ b[x] = Nothing
      BY <1>1, CellRanges
    <2>2. \A s \in DOMAIN Nothing : ~(b[x][s] > 0)
      BY <2>1, CellFacts
    <2>3. Figure(r, w)' = [s \in DOMAIN Nothing |-> IF b[x][s] > 0 THEN b[x][s] ELSE p[x][s]]
      BY <1>1 DEF Figure
    <2>4. Figure(r, w) = [s \in DOMAIN Nothing |-> IF buffer[x][s] > 0 THEN buffer[x][s] ELSE rollup[x][s]]
      BY DEF Figure
    <2>5. Figure(r, w)' = Figure(r, w)
      BY <1>3, <2>1, <2>2, <2>3, <2>4
    <2>6. Within(buffer[x], recorded[x]) /\ Within(rollup[x], recorded[x])
      BY DEF GInv, NoMoreThanCounted
    <2>7. Within(p[x], recorded[x])
      BY <1>3, <2>1, <2>6 DEF Within
    <2> QED BY <1>2, <2>1, <2>5, <2>7, CellFacts
  <1>6. TelemetryTypeOK'
    <2>1. runsSeen' \in [Minutes -> SUBSET Runs]
      BY <1>1 DEF GInv, TelemetryTypeOK, Remembered
    <2> QED BY <1>1, <1>4, <2>1 DEF GInv, TelemetryTypeOK
  <1>7. PollOK' /\ OnceAcknowledged'
    <2>1. UNCHANGED <<minute, run, held, tpoll, kept>>
      BY <1>1
    <2> QED BY <2>1 DEF GInv, PollOK, OnceAcknowledged
  <1>8. NoMoreThanCounted'
    BY <1>1, <1>5 DEF GInv, NoMoreThanCounted
  <1>9. StillShown'
    <2>1. UNCHANGED <<run, tpoll, kept, excused>>
      BY <1>1
    <2>2. \A r \in Runs, w \in Minutes : Figure(r, w)' = Figure(r, w)
      BY <1>5
    <2> QED BY <2>1, <2>2 DEF GInv, StillShown, PollOK
  <1> QED BY <1>6, <1>7, <1>8, <1>9 DEF GInv

LEMMA PruneRowsHolds ==
    ASSUME GInv, PruneRows
    PROVE  GInv'
  <1> PICK p : p = rollup'
    OBVIOUS
  <1>1. /\ rollup' = p
        /\ p = [x \in Slots |-> IF x[2] + Retention < minute /\ rollup[x] # Nothing THEN Nothing ELSE rollup[x]]
        /\ excused' = excused \cup {x \in Runs \X Minutes : x[2] + Retention < minute}
        /\ UNCHANGED <<minute, run, limits, batch, held, tpoll, strays, buffer, runsSeen, trouble, recorded, kept>>
    BY DEF PruneRows
  <1>2. rollup \in [Slots -> Cells] /\ \A r \in Runs, w \in Minutes : recorded[<<r, w>>] \in Cells
    BY CellRanges DEF GInv, TelemetryTypeOK
  <1>3. p \in [Slots -> Cells]
    BY <1>1, <1>2, CellFacts
  <1>4. ASSUME NEW r \in Runs, NEW w \in Minutes
        PROVE  /\ <<r, w>> \in excused' \/ Figure(r, w)' = Figure(r, w)
               /\ Within(p[<<r, w>>], recorded[<<r, w>>])
    <2> PICK x : x = <<r, w>>
      OBVIOUS
    <2>1. x \in Slots /\ x[2] = w /\ x \in Runs \X Minutes
      BY CellRanges
    <2>2. CASE w + Retention < minute /\ rollup[x] # Nothing
      <3>1. p[x] = Nothing /\ x \in excused'
        BY <1>1, <2>1, <2>2
      <3> QED BY <1>2, <3>1, CellFacts
    <2>3. CASE ~(w + Retention < minute /\ rollup[x] # Nothing)
      <3>1. p[x] = rollup[x]
        BY <1>1, <2>1, <2>3
      <3>2. Figure(r, w)' = Figure(r, w)
        BY <1>1, <3>1 DEF Figure
      <3>3. Within(rollup[x], recorded[x])
        BY DEF GInv, NoMoreThanCounted
      <3> QED BY <3>1, <3>2, <3>3
    <2> QED BY <2>2, <2>3
  <1>5. TelemetryTypeOK'
    BY <1>1, <1>3 DEF GInv, TelemetryTypeOK
  <1>6. PollOK' /\ OnceAcknowledged'
    BY <1>1 DEF GInv, PollOK, OnceAcknowledged
  <1>7. NoMoreThanCounted'
    BY <1>1, <1>4 DEF GInv, NoMoreThanCounted
  <1>8. StillShown'
    <2>1. UNCHANGED <<run, tpoll, kept>> /\ excused \subseteq excused'
      BY <1>1
    <2>2. \A r \in Runs, w \in Minutes : <<r, w>> \in excused' \/ Figure(r, w)' = Figure(r, w)
      BY <1>4
    <2> QED BY <2>1, <2>2 DEF GInv, StillShown, PollOK
  <1> QED BY <1>5, <1>6, <1>7, <1>8 DEF GInv


LEMMA NextMinuteHolds ==
    ASSUME GInv, NextMinute
    PROVE  GInv'
  <1>1. /\ minute' = minute + 1 /\ minute < LastMinute /\ minute \in 0..LastMinute /\ LastMinute \in Nat
        /\ UNCHANGED <<run, limits, batch, held, tpoll, strays, buffer, runsSeen, rollup, trouble, recorded, kept, excused>>
    BY TelemetryAssumption DEF TelemetryAssumption, NextMinute, GInv, TelemetryTypeOK, Minutes
  <1>2. minute' \in Minutes /\ \A w \in Minutes : w < minute => w < minute'
    BY <1>1, CellRanges DEF Minutes
  <1>3. TelemetryTypeOK' /\ PollOK' /\ NoMoreThanCounted'
    BY <1>1, <1>2 DEF GInv, TelemetryTypeOK, PollOK, NoMoreThanCounted
  <1>4. OnceAcknowledged'
    BY <1>1, <1>2 DEF GInv, OnceAcknowledged, PollOK
  <1>5. StillShown'
    <2>1. \A r, w : Figure(r, w)' = Figure(r, w)
      BY <1>1 DEF Figure
    <2> QED BY <1>1, <2>1 DEF GInv, StillShown
  <1> QED BY <1>3, <1>4, <1>5 DEF GInv

LEMMA TroubleCounted ==
    ASSUME GInv, Trouble
    PROVE  trouble' \in 0..MaxTrouble
  BY TelemetryAssumption DEF TelemetryAssumption, GInv, TelemetryTypeOK, Trouble

LEMMA TooLargeHolds ==
    ASSUME GInv, TooLarge
    PROVE  GInv'
  <1>1. /\ batch' = Max({1, batch \div 2}) /\ tpoll' = Quiet /\ Trouble
        /\ UNCHANGED <<minute, run, limits, held, strays, buffer, runsSeen, rollup, recorded, kept, excused>>
    BY DEF TooLarge
  <1>2. batch' \in 1..limits.windows
    <2>1. limits.windows \in Nat /\ batch \in 1..limits.windows
      BY SettingsFacts DEF GInv, TelemetryTypeOK
    <2>2. batch \div 2 \in Nat /\ batch \div 2 <= batch
      BY <2>1
    <2>3. Max({1, batch \div 2}) = (IF 1 <= batch \div 2 THEN batch \div 2 ELSE 1)
      BY <2>2, OfTwo
    <2> QED BY <1>1, <2>1, <2>2, <2>3
  <1>3. tpoll'.stage = "idle" /\ tpoll'.report \in [Minutes -> Cells] /\ tpoll'.accepted \subseteq Minutes
    BY <1>1, QuietFacts
  <1>4. TelemetryTypeOK'
    BY <1>1, <1>2, <1>3, TroubleCounted DEF GInv, TelemetryTypeOK
  <1>5. PollOK'
    BY <1>1, QuietFacts DEF PollOK
  <1>6. NoMoreThanCounted' /\ OnceAcknowledged'
    BY <1>1, <1>3 DEF GInv, NoMoreThanCounted, OnceAcknowledged
  <1>7. StillShown'
    <2>1. \A r, w : Figure(r, w)' = Figure(r, w)
      BY <1>1 DEF Figure
    <2> QED BY <1>1, <1>3, <2>1 DEF GInv, StillShown
  <1> QED BY <1>4, <1>5, <1>6, <1>7 DEF GInv

LEMMA ReportFailsHolds ==
    ASSUME GInv, ReportFails
    PROVE  GInv'
  <1> PICK m : m = [run |-> tpoll.run, report |-> tpoll.report]
    OBVIOUS
  <1>1. /\ Trouble /\ tpoll.stage # "idle" /\ tpoll' = Quiet /\ (strays' = strays \/ strays' = strays \cup {m})
        /\ UNCHANGED <<minute, run, limits, batch, held, buffer, runsSeen, rollup, recorded, kept, excused>>
    BY DEF ReportFails
  <1>2. m \in Report /\ m.run = tpoll.run /\ m.report = tpoll.report /\ tpoll.run \in Runs
    BY DEF Report, GInv, PollOK
  <1>3. tpoll'.stage = "idle" /\ tpoll'.report \in [Minutes -> Cells] /\ tpoll'.accepted \subseteq Minutes
    BY <1>1, QuietFacts
  <1>4. TelemetryTypeOK'
    BY <1>1, <1>2, <1>3, TroubleCounted DEF GInv, TelemetryTypeOK
  <1>5. PollOK'
    BY <1>1, QuietFacts DEF PollOK
  <1>6. OnceAcknowledged'
    BY <1>1, <1>3 DEF GInv, OnceAcknowledged
  <1>7. NoMoreThanCounted'
    <2>1. \A w \in Minutes : Within(m.report[w], recorded[<<m.run, w>>])
      BY <1>1, <1>2 DEF GInv, NoMoreThanCounted
    <2>2. \A n \in strays' : \A w \in Minutes : Within(n.report[w], recorded[<<n.run, w>>])
      BY <1>1, <2>1 DEF GInv, NoMoreThanCounted
    <2> QED BY <1>1, <1>3, <2>2 DEF GInv, NoMoreThanCounted
  <1>8. StillShown'
    <2>1. \A r, w : Figure(r, w)' = Figure(r, w)
      BY <1>1 DEF Figure
    <2> QED BY <1>1, <1>3, <2>1 DEF GInv, StillShown
  <1> QED BY <1>4, <1>5, <1>6, <1>7, <1>8 DEF GInv

(* A new process starts from nothing: no run after it acknowledged yet.    *)
LEMMA RestartInstanceHolds ==
    ASSUME GInv, RestartInstance
    PROVE  GInv'
  <1> PICK m : m = [run |-> run, report |-> tpoll.report]
    OBVIOUS
  <1> PICK h : h = held'
    OBVIOUS
  <1>1. /\ run < LastRun /\ run' = run + 1 /\ excused' = excused \cup ({run} \X Windows(held))
        /\ held' = h /\ h = [w \in Minutes |-> Nothing] /\ batch' = limits.windows
        /\ (strays' = strays \/ (tpoll.stage = "sent" /\ strays' = strays \cup {m})) /\ tpoll' = Quiet
        /\ UNCHANGED <<minute, limits, buffer, runsSeen, rollup, trouble, recorded, kept>>
    BY DEF RestartInstance
  <1>2. run \in Runs /\ run' \in Runs /\ run' > run /\ limits \in Settings
    BY <1>1, TelemetryAssumption DEF TelemetryAssumption, GInv, TelemetryTypeOK, Runs
  <1>3. m \in Report /\ m.run = run /\ m.report = tpoll.report
    BY <1>2 DEF Report, GInv, TelemetryTypeOK
  <1>4. tpoll'.stage = "idle" /\ tpoll'.report \in [Minutes -> Cells] /\ tpoll'.accepted \subseteq Minutes
    BY <1>1, QuietFacts
  <1>5. TelemetryTypeOK'
    <2>1. batch' \in 1..limits.windows
      BY <1>1, <1>2, SettingsFacts
    <2>2. h \in [Minutes -> Cells]
      BY <1>1, CellFacts
    <2>3. excused' \subseteq Runs \X Minutes
      BY <1>1, <1>2 DEF GInv, TelemetryTypeOK, Windows
    <2> QED BY <1>1, <1>2, <1>3, <1>4, <2>1, <2>2, <2>3 DEF GInv, TelemetryTypeOK
  <1>6. PollOK'
    BY <1>1, QuietFacts DEF PollOK
  <1>7. NoMoreThanCounted'
    <2>1. \A n \in strays' : \A w \in Minutes : Within(n.report[w], recorded[<<n.run, w>>])
      <3>1. tpoll.stage = "sent" => \A w \in Minutes : Within(m.report[w], recorded[<<m.run, w>>])
        BY <1>3 DEF GInv, NoMoreThanCounted
      <3> QED BY <1>1, <3>1 DEF GInv, NoMoreThanCounted
    <2>2. \A w \in Minutes : Within(h[w], recorded[<<run', w>>])
      <3>1. \A w \in Minutes : recorded[<<run', w>>] \in Cells /\ h[w] = Nothing
        BY <1>1, <1>2, CellRanges DEF GInv, TelemetryTypeOK
      <3> QED BY <3>1, CellFacts
    <2> QED BY <1>1, <1>4, <2>1, <2>2 DEF GInv, NoMoreThanCounted
  <1>8. OnceAcknowledged'
    <2>1. \A r \in Runs : r > run' => r > run
      BY <1>2, CellRanges
    <2>2. \A r \in Runs, w \in Minutes : r > run' => kept[<<r, w>>] = Nothing
      BY <2>1 DEF GInv, OnceAcknowledged
    <2>3. \A w \in Minutes : kept[<<run', w>>] = Nothing
      BY <1>2 DEF GInv, OnceAcknowledged
    <2> QED BY <1>1, <1>4, <2>2, <2>3 DEF OnceAcknowledged
  <1>9. StillShown'
    <2>1. \A r, w : Figure(r, w)' = Figure(r, w)
      BY <1>1 DEF Figure
    <2> QED BY <1>1, <1>4, <2>1 DEF GInv, StillShown
  <1> QED BY <1>5, <1>6, <1>7, <1>8, <1>9 DEF GInv

(* Losing the buffer changes no figure that is not excused with it.        *)
LEMMA Unbuffered ==
    ASSUME GInv, buffer' = [x \in Slots |-> Nothing], rollup' = rollup, recorded' = recorded, kept' = kept,
           excused' = excused \cup Unwritten, tpoll' = tpoll, run' = run, held' = held, strays' = strays
    PROVE  /\ buffer' \in [Slots -> Cells] /\ excused' \subseteq Runs \X Minutes
           /\ NoMoreThanCounted' /\ StillShown'
  <1> PICK b : b = buffer'
    OBVIOUS
  <1>1. b = [x \in Slots |-> Nothing] /\ buffer' = b
    OBVIOUS
  <1>2. \A r \in Runs, w \in Minutes : recorded[<<r, w>>] \in Cells
    <2>1. recorded \in [Runs \X Minutes -> Cells]
      BY DEF GInv, TelemetryTypeOK
    <2> QED BY ONLY <2>1, CellRanges
  <1>3. b \in [Slots -> Cells] /\ excused' \subseteq Runs \X Minutes
    <2>1. b \in [Slots -> Cells]
      BY ONLY <1>1, CellFacts
    <2>2. excused \subseteq Runs \X Minutes /\ Unwritten \subseteq Runs \X Minutes
      BY DEF GInv, TelemetryTypeOK, Unwritten
    <2>3. excused' = excused \cup Unwritten
      OBVIOUS
    <2> QED BY <2>1, <2>2, <2>3, Zenon
  <1>4. ASSUME NEW r \in Runs, NEW w \in Minutes
        PROVE  /\ <<r, w>> \in excused' \/ Figure(r, w)' = Figure(r, w)
               /\ Within(b[<<r, w>>], recorded[<<r, w>>])
    <2> PICK x : x = <<r, w>>
      OBVIOUS
    <2>1. x \in Slots /\ x \in Runs \X Minutes /\ b[x] = Nothing
      BY <1>1, CellRanges
    <2>2. CASE buffer[x] # Nothing
      BY <1>2, <2>1, <2>2, CellFacts DEF Unwritten
    <2>3. CASE buffer[x] = Nothing
      <3>1. Figure(r, w)' = Figure(r, w)
        BY <1>1, <2>1, <2>3 DEF Figure
      <3> QED BY <1>2, <2>1, <3>1, CellFacts
    <2> QED BY <2>2, <2>3
  <1>5. NoMoreThanCounted'
    BY <1>1, <1>4 DEF GInv, NoMoreThanCounted
  <1>6. StillShown'
    <2>1. UNCHANGED <<run, tpoll, kept>> /\ excused \subseteq excused'
      OBVIOUS
    <2>2. \A r \in Runs, w \in Minutes : <<r, w>> \in excused' \/ Figure(r, w)' = Figure(r, w)
      BY <1>4
    <2> QED BY <2>1, <2>2 DEF GInv, StillShown, PollOK
  <1> QED BY <1>1, <1>3, <1>5, <1>6

LEMMA FlushRowsFailsHolds ==
    ASSUME GInv, FlushRowsFails
    PROVE  GInv'
  <1>1. /\ Trouble /\ buffer' = [x \in Slots |-> Nothing] /\ excused' = excused \cup Unwritten
        /\ UNCHANGED <<minute, run, limits, batch, held, tpoll, strays, runsSeen, rollup, recorded, kept>>
    BY DEF FlushRowsFails
  <1>2. /\ buffer' \in [Slots -> Cells] /\ excused' \subseteq Runs \X Minutes
        /\ NoMoreThanCounted' /\ StillShown'
    BY <1>1, Unbuffered
  <1>3. TelemetryTypeOK'
    BY <1>1, <1>2, TroubleCounted DEF GInv, TelemetryTypeOK
  <1>4. PollOK' /\ OnceAcknowledged'
    <2>1. UNCHANGED <<minute, run, held, tpoll, kept>>
      BY <1>1
    <2> QED BY <2>1 DEF GInv, PollOK, OnceAcknowledged
  <1> QED BY <1>2, <1>3, <1>4 DEF GInv

LEMMA ControlPlaneCrashesHolds ==
    ASSUME GInv, ControlPlaneCrashes
    PROVE  GInv'
  <1>1. /\ Trouble /\ buffer' = [x \in Slots |-> Nothing] /\ excused' = excused \cup Unwritten
        /\ runsSeen' = [w \in Minutes |-> {}]
        /\ UNCHANGED <<minute, run, limits, batch, held, tpoll, strays, rollup, recorded, kept>>
    BY DEF ControlPlaneCrashes
  <1>2. /\ buffer' \in [Slots -> Cells] /\ excused' \subseteq Runs \X Minutes
        /\ NoMoreThanCounted' /\ StillShown'
    BY <1>1, Unbuffered
  <1>3. TelemetryTypeOK'
    BY <1>1, <1>2, TroubleCounted DEF GInv, TelemetryTypeOK
  <1>4. PollOK' /\ OnceAcknowledged'
    <2>1. UNCHANGED <<minute, run, held, tpoll, kept>>
      BY <1>1
    <2> QED BY <2>1 DEF GInv, PollOK, OnceAcknowledged
  <1> QED BY <1>2, <1>3, <1>4 DEF GInv

LEMMA TelemetryStarts == TelemetryInit => GInv
  <1> SUFFICES ASSUME TelemetryInit PROVE GInv
    OBVIOUS
  <1>1. /\ minute = 0 /\ run = 0 /\ limits \in Settings /\ batch = limits.windows
        /\ held = [w \in Minutes |-> Nothing] /\ tpoll = Quiet /\ strays = {}
        /\ buffer = [x \in Slots |-> Nothing] /\ rollup = [x \in Slots |-> Nothing]
        /\ runsSeen = [w \in Minutes |-> {}] /\ trouble = 0
        /\ recorded = [x \in Runs \X Minutes |-> Nothing] /\ kept = [x \in Runs \X Minutes |-> Nothing]
        /\ excused = {}
    BY DEF TelemetryInit
  <1>2. /\ held \in [Minutes -> Cells] /\ {buffer, rollup} \subseteq [Slots -> Cells]
        /\ {recorded, kept} \subseteq [Runs \X Minutes -> Cells]
    BY <1>1, CellFacts
  <1>3. tpoll.stage = "idle" /\ tpoll.report \in [Minutes -> Cells] /\ tpoll.accepted \subseteq Minutes
    BY <1>1, QuietFacts
  <1>4. minute \in Minutes /\ run \in Runs /\ trouble \in 0..MaxTrouble /\ batch \in 1..limits.windows
    BY <1>1, CellRanges, SettingsFacts, TelemetryAssumption DEF TelemetryAssumption
  <1>5. TelemetryTypeOK
    BY <1>1, <1>2, <1>3, <1>4 DEF TelemetryTypeOK
  <1>6. PollOK
    BY <1>1, QuietFacts DEF PollOK
  <1>7. \A r \in Runs, w \in Minutes :
           /\ recorded[<<r, w>>] = Nothing /\ kept[<<r, w>>] = Nothing /\ held[w] = Nothing
           /\ buffer[<<r, w>>] = Nothing /\ rollup[<<r, w>>] = Nothing /\ Within(Nothing, Nothing)
    BY <1>1, CellRanges, CellFacts
  <1>8. NoMoreThanCounted
    BY <1>1, <1>3, <1>4, <1>7 DEF NoMoreThanCounted
  <1>9. OnceAcknowledged
    BY <1>3, <1>4, <1>7 DEF OnceAcknowledged
  <1>10. StillShown
    <2>1. ASSUME NEW r \in Runs, NEW w \in Minutes
          PROVE  Within(kept[<<r, w>>], Figure(r, w))
      <3>1. \A s \in DOMAIN Nothing : Figure(r, w)[s] = 0
        BY <1>7, CellFacts DEF Figure
      <3> QED BY <1>7, <3>1, CellFacts DEF Within
    <2> QED BY <1>3, <2>1 DEF StillShown
  <1> QED BY <1>5, <1>6, <1>8, <1>9, <1>10 DEF GInv

LEMMA TelemetryStep == GInv /\ [TelemetryNext]_teleVars => GInv'
  <1> SUFFICES ASSUME GInv, [TelemetryNext]_teleVars PROVE GInv'
    OBVIOUS
  <1>1. CASE \E s \in Series : Record(s)
    BY <1>1, RecordHolds
  <1>2. CASE SendReport \/ IntakeReport \/ Acknowledge \/ IntakeStray
    BY <1>2, SendReportHolds, IntakeReportHolds, AcknowledgeHolds, IntakeStrayHolds
  <1>3. CASE FlushRows \/ PruneRows \/ NextMinute \/ Resize
    BY <1>3, FlushRowsHolds, PruneRowsHolds, NextMinuteHolds, TelemetryResizes
  <1>4. CASE TooLarge \/ ReportFails \/ FlushRowsFails \/ ControlPlaneCrashes \/ RestartInstance
    BY <1>4, TooLargeHolds, ReportFailsHolds, FlushRowsFailsHolds, ControlPlaneCrashesHolds, RestartInstanceHolds
  <1>5. CASE UNCHANGED teleVars
    <2>1. TelemetryTypeOK' /\ PollOK' /\ NoMoreThanCounted' /\ OnceAcknowledged'
      BY <1>5 DEF teleVars, GInv, TelemetryTypeOK, PollOK, NoMoreThanCounted, OnceAcknowledged
    <2>2. \A r, w : Figure(r, w)' = Figure(r, w)
      BY <1>5 DEF Figure, teleVars
    <2>3. StillShown'
      BY <1>5, <2>2 DEF teleVars, GInv, StillShown
    <2> QED BY <2>1, <2>3 DEF GInv
  <1> QED BY <1>1, <1>2, <1>3, <1>4, <1>5 DEF TelemetryNext

(* What the estate's screens show of a run's minute is never more than the *)
(* instance counted and never less than it was told it may clear, however  *)
(* often a report is sent again, is refused for its size, times out or     *)
(* arrives late, and whatever the timer's writes, the pruning and restarts *)
(* of either side do in between, unless one of these gave the minute up    *)
(* (data-plane/src/telemetry.ts, control-plane/src/telemetry.ts accept).   *)
THEOREM FiguresStand == TelemetrySpec => []FiguresHold
  <1>1. GInv => FiguresHold
    <2> SUFFICES ASSUME GInv PROVE FiguresHold
      OBVIOUS
    <2>1. ASSUME NEW r \in Runs, NEW w \in Minutes
          PROVE  Within(Figure(r, w), recorded[<<r, w>>])
      <3>1. Within(buffer[<<r, w>>], recorded[<<r, w>>]) /\ Within(rollup[<<r, w>>], recorded[<<r, w>>])
        BY DEF GInv, NoMoreThanCounted
      <3> QED BY <3>1 DEF Figure, Within
    <2> QED BY <2>1 DEF GInv, StillShown, FiguresHold, NeverInflated, AcknowledgedIsKept
  <1> QED BY <1>1, TelemetryStarts, TelemetryStep, PTL DEF TelemetrySpec

-----------------------------------------------------------------------------
(* Monitor.  The windows of body capture, the document's and the console.  *)
Window == [until : Nat, revoked : BOOLEAN]
Reports == {Reportable(call) : call \in Calls}
HistoryRows == [request : Reports, status : Answers]
CaptureOK ==
    /\ windows \in Seq(Window) /\ asked \in Nat /\ document \in Nat /\ clock \in Nat
    /\ logged \subseteq Nat
    /\ \A m \in logged : \E i \in DOMAIN windows : m < windows[i].until
    /\ document > 0 => \E i \in DOMAIN windows : windows[i].until = document
    /\ \A i, j \in DOMAIN windows : LiveWindow(windows[i]) /\ LiveWindow(windows[j]) => i = j
ConsoleOK ==
    /\ sending \subseteq Calls
    /\ history \in Seq(HistoryRows) /\ Len(history) <= HistoryPerResource
MInv == CaptureOK /\ ConsoleOK

LEMMA LengthsAreNat == Lengths \subseteq Nat /\ \A n \in Lengths : n > 0
  BY MonitorAssumption DEF MonitorAssumption

(* The key goes with no call that is reported.                             *)
LEMMA KeyUnreported ==
    ASSUME NEW call \in Calls
    PROVE  LET report == Reportable(call) IN "key" \notin {p[2] : p \in report.headers \cup report.query}
  <1> PICK report : report = Reportable(call)
    OBVIOUS
  <1>1. \A p \in call.headers \cup call.query : p[2] # "key"
    BY MonitorAssumption DEF MonitorAssumption
  <1>2. report.headers = SafeHeaders(call) /\ report.query = ReportableSearch(call)
    BY DEF Reportable
  <1>3. SafeHeaders(call) \subseteq call.headers
    BY DEF SafeHeaders, Typed
  <1>4. ReportableSearch(call) \subseteq call.query
    <2>1. CASE call.key.in = "query"
      <3>1. Sent(call).query = Typed(call.query, {KeyName(call)}) \cup {<<KeyName(call), "key">>}
        BY <2>1 DEF Sent
      <3>2. <<KeyName(call), "key">>[1] = KeyName(call)
        OBVIOUS
      <3> QED BY <2>1, <3>1, <3>2 DEF ReportableSearch, Typed
    <2>2. CASE call.key.in # "query"
      <3>1. Sent(call).query = call.query
        BY <2>2 DEF Sent
      <3> QED BY <2>2, <3>1 DEF ReportableSearch
    <2> QED BY <2>1, <2>2
  <1> QED BY <1>1, <1>2, <1>3, <1>4

LEMMA OneWindow ==
    ASSUME MInv
    PROVE  Cardinality({i \in DOMAIN windows : LiveWindow(windows[i])}) <= 1
  <1> DEFINE live == {i \in DOMAIN windows : LiveWindow(windows[i])}
  <1>1. \A i, j \in live : i = j
    BY DEF MInv, CaptureOK
  <1> HIDE DEF live
  <1>2. live = {} => Cardinality(live) = 0
    BY FS_EmptySet
  <1>3. ASSUME NEW i \in live
        PROVE  Cardinality(live) = 1
    <2>1. live = {i}
      BY <1>1
    <2> QED BY <2>1, FS_Singleton
  <1>4. Cardinality(live) <= 1
    BY <1>2, <1>3
  <1> QED BY <1>4 DEF live

LEMMA AnswersRecorded ==
    ASSUME ConsoleOK, NEW call \in Calls, NEW answer \in Answers
    PROVE  LET rows == Recorded(history, Row(call, answer)) IN
           /\ rows \in Seq(HistoryRows) /\ Len(rows) <= HistoryPerResource
           /\ HistoryPerResource > 0 => rows # <<>> /\ Last(rows).request = Reportable(call)
  <1> DEFINE cap == HistoryPerResource
  <1> PICK row : row = Row(call, answer)
    OBVIOUS
  <1> PICK others : others = IF history # <<>> /\ Last(history).request = row.request THEN Front(history) ELSE history
    OBVIOUS
  <1> PICK all : all = Append(others, row)
    OBVIOUS
  <1> PICK rows : rows = Recorded(history, Row(call, answer))
    OBVIOUS
  <1>1. cap \in Nat
    BY MonitorAssumption DEF MonitorAssumption
  <1>2. row \in HistoryRows /\ row.request = Reportable(call)
    BY DEF Row, HistoryRows, Reports
  <1>3. others \in Seq(HistoryRows)
    <2>1. history \in Seq(HistoryRows)
      BY DEF ConsoleOK
    <2>2. CASE history # <<>>
      <3>1. Len(history) \in Nat \ {0}
        BY <2>1, <2>2, EmptySeq, LenProperties
      <3>2. Front(history) \in Seq(HistoryRows)
        <4>1. \A n \in 1..(Len(history) - 1) : history[n] \in HistoryRows
          BY <2>1, <3>1, ElementOfSeq
        <4> QED BY <2>1, <3>1, <4>1, SubSeqProperties DEF Front
      <3> QED BY <2>1, <3>2
    <2> QED BY <2>1, <2>2
  <1>4. all \in Seq(HistoryRows) /\ Len(all) = Len(others) + 1 /\ all[Len(all)] = row /\ Len(all) \in Nat
    <2>1. /\ Append(others, row) \in Seq(HistoryRows) /\ Len(Append(others, row)) = Len(others) + 1
          /\ Append(others, row)[Len(others) + 1] = row
      BY ONLY <1>2, <1>3, AppendProperties
    <2>2. Len(others) \in Nat
      BY ONLY <1>3, LenProperties
    <2>3. all = Append(others, row)
      OBVIOUS
    <2> QED BY ONLY <2>1, <2>2, <2>3
  <1>5. rows = IF Len(all) > cap THEN SubSeq(all, Len(all) - cap + 1, Len(all)) ELSE all
    BY DEF Recorded, Capped
  <1>6. CASE Len(all) > cap
    <2> DEFINE m == Len(all) - cap + 1
               n == Len(all)
    <2>1. m \in 1..(n + 1) /\ n \in Nat /\ n - m + 1 = cap
      <3>1. cap \in Nat /\ Len(all) \in Nat /\ Len(all) > cap
        BY <1>1, <1>4, <1>6
      <3> HIDE DEF cap
      <3> QED BY ONLY <3>1
    <2>2. rows = SubSeq(all, m, n)
      BY <1>5, <1>6
    <2>3. \A i \in m..n : all[i] \in HistoryRows
      <3>1. \A i \in 1..Len(all) : all[i] \in HistoryRows
        BY ONLY <1>4, ElementOfSeq
      <3>2. \A i \in m..n : i \in 1..Len(all)
        BY <1>1, <1>4, <1>6
      <3> QED BY ONLY <3>1, <3>2
    <2>4. Len(rows) = cap /\ rows \in Seq(HistoryRows) /\ \A i \in 1..cap : rows[i] = all[m + i - 1]
      <3>1. m \in Int /\ n \in Int
        BY <2>1
      <3> HIDE DEF m, n
      <3>2. /\ rows \in Seq(HistoryRows) /\ Len(rows) = IF m <= n THEN n - m + 1 ELSE 0
            /\ \A i \in 1..(n - m + 1) : rows[i] = all[m + i - 1]
        BY ONLY <2>2, <2>3, <3>1, SubSeqProperties
      <3>3. m \in 1..(n + 1) /\ n \in Nat /\ n - m + 1 = cap
        BY <2>1
      <3> HIDE DEF cap
      <3>4. Len(rows) = cap
        BY ONLY <3>1, <3>2, <3>3
      <3>5. \A i \in 1..cap : rows[i] = all[m + i - 1]
        BY ONLY <3>2, <3>3
      <3> QED BY ONLY <3>2, <3>4, <3>5
    <2>5. cap > 0 => rows # <<>> /\ rows[cap] = row
      BY <1>1, <1>4, <2>1, <2>4
    <2> QED BY <1>1, <1>2, <2>4, <2>5 DEF Last
  <1>7. CASE ~(Len(all) > cap)
    <2>1. rows = all /\ Len(rows) <= cap /\ rows # <<>>
      BY <1>1, <1>3, <1>4, <1>5, <1>7, LenProperties
    <2> QED BY <1>2, <1>4, <2>1 DEF Last
  <1> QED BY <1>6, <1>7


LEMMA WindowsShaped ==
    ASSUME MInv
    PROVE  /\ windows \in Seq(Window) /\ DOMAIN windows = 1..Len(windows) /\ Len(windows) \in Nat
           /\ \A i \in DOMAIN windows : windows[i] \in Window /\ windows[i].until \in Nat
  <1>1. windows \in Seq(Window)
    BY DEF MInv, CaptureOK
  <1>2. DOMAIN windows = 1..Len(windows) /\ Len(windows) \in Nat /\ \A i \in DOMAIN windows : windows[i] \in Window
    BY ONLY <1>1, LenProperties
  <1> QED BY <1>1, <1>2 DEF Window

(* What the windows, the document and the clock may do at once.            *)
LEMMA WindowsKept ==
    ASSUME MInv, windows' = windows, asked' \in Nat, clock' \in Nat, clock' >= clock,
           document' \in Nat, document' > 0 => \E i \in DOMAIN windows : windows[i].until = document',
           logged' \subseteq Nat, \A m \in logged' : m \in logged \/ \E i \in DOMAIN windows : m < windows[i].until
    PROVE  CaptureOK'
  <1>1. \A i \in DOMAIN windows : windows[i].until \in Nat
    BY WindowsShaped
  <1>2. clock \in Nat
    BY DEF MInv, CaptureOK
  <1>3. ASSUME NEW i \in DOMAIN windows', NEW j \in DOMAIN windows',
               ~windows'[i].revoked, windows'[i].until > clock', ~windows'[j].revoked, windows'[j].until > clock'
        PROVE  i = j
    <2>1. windows[i].until > clock /\ windows[j].until > clock
      BY <1>1, <1>2, <1>3
    <2> QED BY <1>3, <2>1 DEF MInv, CaptureOK, LiveWindow
  <1>4. \A i, j \in DOMAIN windows' : LiveWindow(windows[i])' /\ LiveWindow(windows[j])' => i = j
    BY <1>3 DEF LiveWindow
  <1>5. /\ windows' \in Seq(Window)
        /\ \A m \in logged' : \E i \in DOMAIN windows' : m < windows'[i].until
        /\ document' > 0 => \E i \in DOMAIN windows' : windows'[i].until = document'
    BY DEF MInv, CaptureOK
  <1> QED BY <1>4, <1>5 DEF CaptureOK

(* A window is opened when none is open.                                   *)
LEMMA WindowOpened ==
    ASSUME MInv, NEW n \in Lengths, windows' = Append(windows, [until |-> clock + n, revoked |-> FALSE]),
           ~\E i \in DOMAIN windows : LiveWindow(windows[i]), asked' \in Nat, UNCHANGED <<clock, document, logged>>
    PROVE  CaptureOK'
  <1> PICK v : v = windows'
    OBVIOUS
  <1> PICK w : w = [until |-> clock + n, revoked |-> FALSE]
    OBVIOUS
  <1>1. clock \in Nat /\ n \in Nat /\ windows \in Seq(Window)
    BY LengthsAreNat DEF MInv, CaptureOK
  <1>2. w \in Window
    BY <1>1 DEF Window
  <1>3. v = Append(windows, w) /\ windows' = v
    OBVIOUS
  <1>4. /\ v \in Seq(Window) /\ Len(v) = Len(windows) + 1 /\ v[Len(windows) + 1] = w
        /\ \A i \in 1..Len(windows) : v[i] = windows[i]
    BY ONLY <1>1, <1>2, <1>3, AppendProperties
  <1>5. DOMAIN windows = 1..Len(windows) /\ DOMAIN v = 1..(Len(windows) + 1) /\ Len(windows) \in Nat
    BY ONLY <1>1, <1>4, LenProperties
  <1>6. \A i \in DOMAIN windows : i \in DOMAIN v /\ v[i] = windows[i]
    BY ONLY <1>4, <1>5
  <1>7. ASSUME NEW i \in DOMAIN v, ~v[i].revoked, v[i].until > clock
        PROVE  i = Len(windows) + 1
    <2>1. i \notin DOMAIN windows
      BY <1>6, <1>7 DEF LiveWindow
    <2> QED BY <1>5, <2>1
  <1>8. \A i, j \in DOMAIN windows' : LiveWindow(windows[i])' /\ LiveWindow(windows[j])' => i = j
    BY <1>3, <1>7 DEF LiveWindow
  <1>9. \A m \in logged : \E i \in DOMAIN v : m < v[i].until
    BY <1>6 DEF MInv, CaptureOK
  <1>10. document > 0 => \E i \in DOMAIN v : v[i].until = document
    BY <1>6 DEF MInv, CaptureOK
  <1> QED BY <1>3, <1>4, <1>8, <1>9, <1>10 DEF MInv, CaptureOK

LEMMA CaptureCloseHolds ==
    ASSUME MInv, NEW n \in 1..MaxWindows, CaptureClose(n)
    PROVE  CaptureOK'
  <1> PICK v : v = windows'
    OBVIOUS
  <1>1. n \in DOMAIN windows /\ v = [windows EXCEPT ![n].revoked = TRUE] /\ windows' = v
        /\ UNCHANGED <<asked, document, logged, clock>>
    BY DEF CaptureClose
  <1>2. windows \in Seq(Window) /\ n \in 1..Len(windows) /\ DOMAIN windows = 1..Len(windows)
    BY <1>1, WindowsShaped
  <1>3. \A i \in DOMAIN windows : windows[i] \in Window
    BY WindowsShaped
  <1>4. DOMAIN v = DOMAIN windows /\ \A i \in DOMAIN windows : v[i] \in Window /\ v[i].until = windows[i].until
                                                               /\ (windows[i].revoked => v[i].revoked)
    <2>1. DOMAIN v = DOMAIN windows /\ v[n] = [windows[n] EXCEPT !.revoked = TRUE]
      BY ONLY <1>1
    <2>2. \A i \in DOMAIN windows : i # n => v[i] = windows[i]
      BY ONLY <1>1
    <2>3. v[n] \in Window /\ v[n].until = windows[n].until /\ v[n].revoked
      <3> PICK w : w = windows[n]
        OBVIOUS
      <3>1. w \in Window /\ v[n] = [w EXCEPT !.revoked = TRUE]
        BY <1>1, <1>3, <2>1
      <3>2. [w EXCEPT !.revoked = TRUE] \in Window /\ [w EXCEPT !.revoked = TRUE].until = w.until
        BY ONLY <3>1 DEF Window
      <3>3. [w EXCEPT !.revoked = TRUE].revoked
        BY ONLY <3>1 DEF Window
      <3> QED BY <3>1, <3>2, <3>3
    <2>4. ASSUME NEW i \in DOMAIN windows
          PROVE  v[i] \in Window /\ v[i].until = windows[i].until /\ (windows[i].revoked => v[i].revoked)
      <3>1. CASE i = n
        BY ONLY <2>3, <3>1
      <3>2. CASE i # n
        BY ONLY <1>3, <2>2, <2>4, <3>2
      <3> QED BY ONLY <3>1, <3>2
    <2> QED BY ONLY <2>1, <2>4, Zenon
  <1>5. v \in Seq(Window)
    <2> PICK w : w = [windows[n] EXCEPT !.revoked = TRUE]
      OBVIOUS
    <2>1. w \in Window
      BY <1>1, <1>3 DEF Window
    <2>2. v = [windows EXCEPT ![n] = w]
      BY <1>1
    <2> QED BY ONLY <1>2, <2>1, <2>2, ExceptSeq
  <1>6. \A i, j \in DOMAIN windows' : LiveWindow(windows[i])' /\ LiveWindow(windows[j])' => i = j
    <2>1. \A i \in DOMAIN v : ~v[i].revoked /\ v[i].until > clock => LiveWindow(windows[i])
      BY <1>4 DEF LiveWindow
    <2> QED BY <1>1, <1>4, <2>1 DEF LiveWindow, MInv, CaptureOK
  <1>7. \A m \in logged : \E i \in DOMAIN v : m < v[i].until
    BY <1>4 DEF MInv, CaptureOK
  <1>8. document > 0 => \E i \in DOMAIN v : v[i].until = document
    BY <1>4 DEF MInv, CaptureOK
  <1> QED BY <1>1, <1>5, <1>6, <1>7, <1>8 DEF MInv, CaptureOK

LEMMA PollCaptureHolds ==
    ASSUME MInv, PollCapture
    PROVE  CaptureOK'
  <1> DEFINE ends == {w.until : w \in Reported}
  <1>1. document' = IF Reported = {} THEN 0 ELSE Max(ends)
    BY DEF PollCapture, LogBodiesUntil
  <1>2. windows \in Seq(Window) /\ asked \in Nat /\ clock \in Nat /\ logged \subseteq Nat
    BY DEF MInv, CaptureOK
  <1>3. Reported = {windows[i] : i \in {k \in DOMAIN windows : LiveWindow(windows[k])}}
    BY DEF Reported, Range
  <1>4. \A w \in Reported : \E i \in DOMAIN windows : w = windows[i] /\ windows[i].until \in Nat
    BY <1>3, WindowsShaped
  <1>5. IsFiniteSet(ends)
    <2> DEFINE live == {k \in DOMAIN windows : LiveWindow(windows[k])}
               end == [k \in live |-> windows[k].until]
    <2>1. IsFiniteSet(live)
      <3>1. IsFiniteSet(DOMAIN windows)
        <4>1. DOMAIN windows = 1..Len(windows) /\ Len(windows) \in Int
          BY <1>2, LenProperties
        <4>2. IsFiniteSet(1..Len(windows))
          BY ONLY <4>1, FS_Interval
        <4> QED BY ONLY <4>1, <4>2
      <3> QED BY <3>1, FS_Subset
    <2>2. end \in [live -> ends] /\ \A e \in ends : \E k \in live : end[k] = e
      BY <1>3
    <2> HIDE DEF end, live, ends
    <2>3. end \in Surjection(live, ends)
      BY <2>2 DEF Surjection
    <2> QED BY <2>1, <2>3, FS_Surjection
  <1>6. document' \in Nat /\ (document' > 0 => \E i \in DOMAIN windows : windows[i].until = document')
    <2>1. CASE Reported = {}
      BY <1>1, <2>1
    <2>2. CASE Reported # {}
      <3>1. ends \in SUBSET Nat /\ ends # {}
        BY <1>4, <2>2
      <3>2. Max(ends) \in ends
        BY ONLY <1>5, <3>1, MaxIsGreatest
      <3> HIDE DEF ends
      <3>3. document' \in ends
        BY <1>1, <2>2, <3>2
      <3>4. \E w \in Reported : w.until = document'
        BY <3>3 DEF ends
      <3> QED BY <1>4, <3>4
    <2> QED BY <2>1, <2>2
  <1>7. UNCHANGED <<windows, asked, logged, clock>> /\ clock' >= clock
    BY <1>2 DEF PollCapture
  <1> QED BY <1>2, <1>6, <1>7, WindowsKept

LEMMA CaptureHolds ==
    ASSUME MInv, CaptureNext
    PROVE  CaptureOK'
  <1>1. windows \in Seq(Window) /\ asked \in Nat /\ document \in Nat /\ clock \in Nat /\ logged \subseteq Nat
        /\ (document > 0 => \E i \in DOMAIN windows : windows[i].until = document)
        /\ Len(windows) + 1 \in Nat
    BY LenProperties DEF MInv, CaptureOK
  <1>2. CASE CaptureBegin
    <2>1. windows' = windows /\ asked' \in Nat /\ clock' = clock /\ document' = document /\ logged' = logged
      BY <1>1, <1>2 DEF CaptureBegin
    <2> QED BY <1>1, <2>1, WindowsKept
  <1>3. CASE LogRequest
    <2>1. UNCHANGED <<windows, asked, document, clock>> /\ (logged' = logged \/ (MayLogBody /\ logged' = logged \cup {clock}))
      BY <1>3 DEF LogRequest
    <2>2. MayLogBody => \E i \in DOMAIN windows : clock < windows[i].until
      BY <1>1 DEF MayLogBody
    <2>3. logged' \subseteq Nat /\ \A m \in logged' : m \in logged \/ \E i \in DOMAIN windows : m < windows[i].until
      BY <1>1, <2>1, <2>2
    <2> QED BY <1>1, <2>1, <2>3, WindowsKept
  <1>4. ASSUME NEW n \in Lengths, CaptureEnd(n) PROVE CaptureOK'
    <2>1. asked' = 0 /\ UNCHANGED <<document, logged, clock>>
          /\ (windows' = windows \/ (~OpenNow /\ windows' = Append(windows, [until |-> clock + n, revoked |-> FALSE])))
      BY <1>4 DEF CaptureEnd
    <2>2. CASE windows' = windows
      BY <1>1, <2>1, <2>2, WindowsKept
    <2>3. CASE ~OpenNow /\ windows' = Append(windows, [until |-> clock + n, revoked |-> FALSE])
      BY <2>1, <2>3, WindowOpened DEF OpenNow
    <2> QED BY <2>1, <2>2, <2>3
  <1>5. ASSUME NEW n \in Lengths, CaptureOther(n) PROVE CaptureOK'
    BY <1>1, <1>5, WindowOpened DEF CaptureOther
  <1>6. CASE Tick /\ UNCHANGED captureVars
    <2>1. UNCHANGED <<windows, asked, document, logged>> /\ clock' = clock + 1
      BY <1>6 DEF Tick, captureVars
    <2> QED BY <1>1, <2>1, WindowsKept
  <1> QED BY <1>2, <1>3, <1>4, <1>5, <1>6, PollCaptureHolds, CaptureCloseHolds DEF CaptureNext

LEMMA ConsoleHolds ==
    ASSUME MInv, ConsoleNext
    PROVE  ConsoleOK'
  <1>1. sending \subseteq Calls /\ history \in Seq(HistoryRows) /\ Len(history) <= HistoryPerResource /\ HistoryPerResource \in Nat
    BY MonitorAssumption DEF MonitorAssumption, MInv, ConsoleOK
  <1>2. ASSUME NEW call \in Calls, Send(call) PROVE ConsoleOK'
    BY <1>1, <1>2 DEF Send, ConsoleOK
  <1>3. ASSUME NEW call \in Calls, NEW a \in Answers, Answer(call, a) PROVE ConsoleOK'
    <2>1. sending' \subseteq Calls /\ history' = Recorded(history, Row(call, a))
      BY <1>1, <1>3 DEF Answer
    <2>2. Recorded(history, Row(call, a)) \in Seq(HistoryRows) /\ Len(Recorded(history, Row(call, a))) <= HistoryPerResource
      BY AnswersRecorded DEF MInv
    <2> QED BY <2>1, <2>2 DEF ConsoleOK
  <1>4. ASSUME NEW i \in 1..HistoryPerResource, Forget(i) PROVE ConsoleOK'
    <2> DEFINE n == Len(history)
    <2>1. i \in DOMAIN history /\ history' = RemoveAt(history, i) /\ sending' = sending
      BY <1>4 DEF Forget
    <2>2. n \in Nat /\ i \in 1..n /\ \A k \in 1..n : history[k] \in HistoryRows
      BY <1>1, <2>1, LenProperties, ElementOfSeq
    <2>3. SubSeq(history, 1, i - 1) \in Seq(HistoryRows) /\ Len(SubSeq(history, 1, i - 1)) = i - 1
      BY <2>2, SubSeqProperties
    <2>4. SubSeq(history, i + 1, n) \in Seq(HistoryRows) /\ Len(SubSeq(history, i + 1, n)) = n - i
      BY <2>2, SubSeqProperties
    <2>5. history' = SubSeq(history, 1, i - 1) \o SubSeq(history, i + 1, n)
      BY <2>1 DEF RemoveAt
    <2> HIDE DEF n
    <2>6. history' \in Seq(HistoryRows) /\ Len(history') = n - 1
      <3> PICK x : x = SubSeq(history, 1, i - 1)
        OBVIOUS
      <3> PICK y : y = SubSeq(history, i + 1, n)
        OBVIOUS
      <3>1. x \in Seq(HistoryRows) /\ y \in Seq(HistoryRows) /\ Len(x) = i - 1 /\ Len(y) = n - i
        BY <2>3, <2>4
      <3>2. x \o y \in Seq(HistoryRows) /\ Len(x \o y) = Len(x) + Len(y)
        BY ONLY <3>1, ConcatProperties
      <3>3. history' = x \o y
        BY <2>5
      <3>4. i \in Int /\ n \in Int
        BY <2>2
      <3>5. Len(x) + Len(y) = n - 1
        BY ONLY <3>1, <3>4
      <3> QED BY <3>2, <3>3, <3>5
    <2> QED BY <1>1, <2>1, <2>2, <2>6 DEF ConsoleOK, n
  <1>5. CASE ForgetAll
    <2>1. history' = <<>> /\ sending' = sending
      BY <1>5 DEF ForgetAll
    <2>2. <<>> \in Seq(HistoryRows) /\ Len(<<>>) = 0
      BY EmptySeq
    <2> QED BY <1>1, <2>1, <2>2 DEF ConsoleOK
  <1>6. CASE UNCHANGED consoleVars
    BY <1>1, <1>6 DEF consoleVars, ConsoleOK
  <1> QED BY <1>2, <1>3, <1>4, <1>5, <1>6 DEF ConsoleNext

LEMMA ConsoleFrame == MInv /\ UNCHANGED consoleVars => ConsoleOK'
  BY DEF MInv, ConsoleOK, consoleVars
LEMMA CaptureFrame ==
    ASSUME MInv, UNCHANGED captureVars, clock' = clock \/ Tick
    PROVE  CaptureOK'
  <1>1. UNCHANGED <<windows, asked, document, logged>> /\ clock \in Nat /\ clock' \in Nat /\ clock' >= clock
    BY DEF captureVars, MInv, CaptureOK, Tick
  <1>2. asked \in Nat /\ document \in Nat /\ logged \subseteq Nat
        /\ (document > 0 => \E i \in DOMAIN windows : windows[i].until = document)
    BY DEF MInv, CaptureOK
  <1> QED BY <1>1, <1>2, WindowsKept

LEMMA ClockOfConsole == ConsoleNext => clock' = clock \/ Tick
  BY DEF ConsoleNext, Send, Answer, Forget, ForgetAll, Tick

LEMMA MonitorStep == MInv /\ [MonitorNext]_mvars => MInv'
  <1> SUFFICES ASSUME MInv, [MonitorNext]_mvars PROVE MInv'
    OBVIOUS
  <1>1. CASE UptimeNext
    <2>1. UNCHANGED captureVars /\ UNCHANGED consoleVars /\ clock' = clock
      BY <1>1 DEF UptimeNext
    <2> QED BY <2>1, CaptureFrame, ConsoleFrame DEF MInv
  <1>2. CASE CaptureNext
    <2>1. UNCHANGED consoleVars
      BY <1>2 DEF CaptureNext
    <2> QED BY <1>2, <2>1, CaptureHolds, ConsoleFrame DEF MInv
  <1>3. CASE ConsoleNext
    <2>1. UNCHANGED captureVars
      BY <1>3 DEF ConsoleNext
    <2> QED BY <1>3, <2>1, ClockOfConsole, CaptureFrame, ConsoleHolds DEF MInv
  <1>4. CASE UNCHANGED mvars
    <2>1. UNCHANGED captureVars /\ UNCHANGED consoleVars /\ clock' = clock
      BY <1>4 DEF mvars
    <2> QED BY <2>1, CaptureFrame, ConsoleFrame DEF MInv
  <1> QED BY <1>1, <1>2, <1>3, <1>4 DEF MonitorNext

LEMMA MonitorStarts == MonitorInit => MInv
  <1> SUFFICES ASSUME MonitorInit PROVE MInv
    OBVIOUS
  <1>1. windows = <<>> /\ asked = 0 /\ document = 0 /\ logged = {} /\ clock = 0 /\ sending = {} /\ history = <<>>
    BY DEF MonitorInit, CaptureInit, ConsoleInit
  <1>2. <<>> \in Seq(Window) /\ <<>> \in Seq(HistoryRows) /\ Len(<<>>) = 0 /\ DOMAIN <<>> = {}
    BY EmptySeq
  <1>3. HistoryPerResource \in Nat
    BY MonitorAssumption DEF MonitorAssumption
  <1> QED BY <1>1, <1>2, <1>3 DEF MInv, CaptureOK, ConsoleOK

(* An answered call is the newest of its history.                          *)
LEMMA AnsweredIsLast ==
    ASSUME HistoryPerResource > 0, MInv, [MonitorNext]_mvars, NEW call \in Calls, call \in sending, call \notin sending'
    PROVE  history' # <<>> /\ Last(history').request = Reportable(call)
  <1>1. sending' # sending
    OBVIOUS
  <1>2. ConsoleNext
    BY <1>1 DEF MonitorNext, UptimeNext, CaptureNext, mvars, consoleVars
  <1>3. \E c \in Calls : \E a \in Answers : Answer(c, a)
    <2>1. \A c \in Calls : Send(c) => call \in sending'
      BY DEF Send
    <2>2. \A i : Forget(i) => sending' = sending
      BY DEF Forget
    <2>3. ForgetAll => sending' = sending
      BY DEF ForgetAll
    <2> QED BY <1>1, <1>2, <2>1, <2>2, <2>3 DEF ConsoleNext, consoleVars
  <1>4. PICK a \in Answers : Answer(call, a)
    <2>1. PICK c \in Calls, a \in Answers : Answer(c, a)
      BY <1>3
    <2>2. c = call
      BY <2>1 DEF Answer
    <2> QED BY <2>1, <2>2
  <1>5. history' = Recorded(history, Row(call, a))
    BY <1>4 DEF Answer
  <1>6. /\ Recorded(history, Row(call, a)) # <<>>
        /\ Last(Recorded(history, Row(call, a))).request = Reportable(call)
    BY AnswersRecorded DEF MInv
  <1> QED BY <1>5, <1>6 DEF Last

LEMMA MonitorSafe == MInv => CaptureEnds /\ KeyStaysInside
  <1> SUFFICES ASSUME MInv PROVE CaptureEnds /\ KeyStaysInside
    OBVIOUS
  <1>1. CaptureEnds
    BY OneWindow DEF MInv, CaptureOK, CaptureEnds
  <1>2. ASSUME NEW i \in DOMAIN history
        PROVE  "key" \notin {p[2] : p \in history[i].request.headers \cup history[i].request.query}
    <2>1. history \in Seq(HistoryRows)
      BY DEF MInv, ConsoleOK
    <2>2. history[i] \in HistoryRows
      BY <2>1, LenProperties
    <2>3. history[i].request \in Reports
      BY <2>2 DEF HistoryRows
    <2> QED BY <2>3, KeyUnreported DEF Reports
  <1> QED BY <1>1, <1>2 DEF KeyStaysInside, MInv, ConsoleOK

(* Where any history is kept at all, what the monitor keeps is what it     *)
(* says it keeps: no body is logged in a minute no window covered, though  *)
(* the gateway learns of a window's end by its own clock only, two         *)
(* administrators never hold two, no report or history row carries the     *)
(* vault's key however the route wants it, and an answered call is the     *)
(* newest row (api/logs.ts, accesslog.ts, playground.ts).                  *)
THEOREM KeepsAsSaid == HistoryPerResource > 0 => (MonitorSpec => KeptAsSaid)
  <1> SUFFICES ASSUME HistoryPerResource > 0 PROVE MonitorSpec => KeptAsSaid
    OBVIOUS
  <1> DEFINE OnRecord == \A call \in Calls : call \in sending /\ call \notin sending' =>
                             history' # <<>> /\ Last(history').request = Reportable(call)
  <1>1. MInv /\ [MonitorNext]_mvars => MInv' /\ [OnRecord]_mvars
    BY MonitorStep, AnsweredIsLast
  <1> HIDE DEF OnRecord
  <1>2. MonitorSpec => []MInv /\ [][OnRecord]_mvars
    BY <1>1, MonitorStarts, PTL DEF MonitorSpec
  <1>3. [][OnRecord]_mvars <=> AnswerIsOnRecord
    BY PTL DEF OnRecord, AnswerIsOnRecord
  <1> QED BY <1>2, <1>3, MonitorSafe, PTL DEF KeptAsSaid

-----------------------------------------------------------------------------
(* Quota.  What the operations on an instance's counters keep: a list of   *)
(* distinct keys, whose figures are 0 where there is no counter.           *)
CounterShape == [order : Seq(Keys), delta : Counts, aggregate : Counts]
Tidy(c) ==
    /\ c \in CounterShape /\ Len(c.order) <= MaxKeys /\ Distinct(c.order)
    /\ \A k \in Keys : ~Has(c, k) => c.delta[k] = 0 /\ c.aggregate[k] = 0

(* A poll has only what belongs to its stage.                              *)
PollShape == [stage : {"idle", "sent", "answered"}, deltas : Counts,
              told : SUBSET Keys, totals : Counts]
PollHolds(q) ==
    /\ q \in PollShape
    /\ q.stage # "sent" => q.deltas = Zero
    /\ q.stage # "answered" => q.totals = Zero
    /\ \A k \in Keys : k \notin q.told => q.totals[k] = 0

(* A key's figures wherever they are, and what they are worth.  Each call  *)
(* is in one place; what an instance was told, or is being told, has been  *)
(* let through and handed over; of the calls it made itself an instance    *)
(* has been told, or is about to be, as far as it has handed them over,    *)
(* and it stops at the allowance on top of what it knows.                  *)
CellOf(k) ==
    [admitted |-> admitted[k], counted |-> usage[k] + pending[k],
     lost |-> lost[k], late |-> late[k],
     delta |-> [i \in Instances |-> counters[i].delta[k]],
     flying |-> [i \in Instances |-> qpoll[i].deltas[k]],
     known |-> [i \in Instances |-> counters[i].aggregate[k]],
     told |-> [i \in Instances |-> qpoll[i].totals[k]],
     answered |-> {i \in Instances : qpoll[i].stage = "answered"}]
CountedOnce(r) == r.admitted = r.counted + r.lost + r.late + Tally(r.delta) + Tally(r.flying)
ToldWhatIs(r) ==
    \A i \in Instances : r.known[i] <= r.counted + r.lost /\ r.told[i] <= r.counted + r.lost
InStep(r, i, made) ==
    LET own == r.delta[i] + r.flying[i]
    IN  /\ own <= made /\ made <= 2 * Allowance
        /\ r.delta[i] <= Allowance /\ r.flying[i] <= Allowance
        /\ made <= own + r.counted
        /\ i \notin r.answered => made <= own + r.known[i]
        /\ i \in r.answered => made <= own + r.known[i] + Allowance /\ made <= own + r.told[i]
Paced(r) ==
    /\ r.late = 0 /\ r.lost = 0
    /\ \E made \in [Instances -> Nat] :
          Tally(made) = r.admitted /\ \A i \in Instances : InStep(r, i, made[i])

(* A window that has not begun has no calls; the overshoot is bounded; and *)
(* every instance is in step in an open window that nothing happened to.   *)
KeyInv(k) ==
    /\ CountedOnce(CellOf(k)) /\ ToldWhatIs(CellOf(k))
    /\ k[2] > quotaWindow => admitted[k] = 0
    /\ k \in disturbed \/ admitted[k] <= 2 * Allowance * Cardinality(Instances)
    /\ Live(k) /\ k \notin disturbed => Paced(CellOf(k))

QInv ==
    /\ QuotaTypeOK
    /\ \A i \in Instances : Tidy(counters[i]) /\ PollHolds(qpoll[i])
    /\ \A k \in Keys : KeyInv(k)

-----------------------------------------------------------------------------
(* Sums over a finite set, as the number of pairs of an element and one of *)
(* its units.                                                              *)
Units1(f) == UNION {{x} \X (1..f[x]) : x \in DOMAIN f}

LEMMA TallyApart ==
    ASSUME NEW S, IsFiniteSet(S), NEW f \in [S -> Nat], NEW x \in S
    PROVE  /\ IsFiniteSet(Units1(f)) /\ Tally(f) = Cardinality(Units1(f)) /\ Tally(f) \in Nat
           /\ IsFiniteSet(Units1(f) \ ({x} \X (1..f[x])))
           /\ Tally(f) = Cardinality(Units1(f) \ ({x} \X (1..f[x]))) + f[x]
  <1> DEFINE C(y) == {y} \X (1..f[y])
  <1>1. ASSUME NEW y \in S PROVE IsFiniteSet(C(y)) /\ Cardinality(C(y)) = f[y]
    <2>1. IsFiniteSet({y}) /\ Cardinality({y}) = 1
      BY FS_Singleton
    <2>2. f[y] \in Nat
      OBVIOUS
    <2>3. IsFiniteSet(1..f[y]) /\ Cardinality(1..f[y]) = f[y]
      BY <2>2, FS_Interval
    <2> QED BY ONLY <2>1, <2>2, <2>3, FS_Product
  <1>2. IsFiniteSet(Units1(f))
    <2> DEFINE T == {C(y) : y \in S}
               g == [y \in S |-> C(y)]
    <2>1. g \in Surjection(S, T)
      BY DEF Surjection
    <2>2. IsFiniteSet(T)
      <3> HIDE DEF T, g
      <3> QED BY <2>1, FS_Surjection
    <2>3. \A U \in T : IsFiniteSet(U)
      BY <1>1
    <2>4. Units1(f) = UNION T
      BY DEF Units1
    <2> HIDE DEF T
    <2> QED BY <2>2, <2>3, <2>4, FS_UNION
  <1>3. C(x) \subseteq Units1(f)
    BY DEF Units1
  <1>4. Tally(f) = Cardinality(Units1(f))
    BY DEF Tally, Units1
  <1>5. Units1(f) \cap C(x) = C(x)
    BY <1>3
  <1>6. IsFiniteSet(C(x)) /\ Cardinality(C(x)) = f[x] /\ f[x] \in Nat
    BY <1>1
  <1> DEFINE U == Units1(f)
  <1>7. /\ IsFiniteSet(U \ C(x)) /\ Cardinality(U \ C(x)) = Cardinality(U) - Cardinality(U \cap C(x))
        /\ Cardinality(U) \in Nat
    <2> HIDE DEF U, C
    <2>1. IsFiniteSet(U)
      BY <1>2 DEF U
    <2> QED BY <2>1, FS_Difference, FS_CardinalityType
  <1>8. Cardinality(U \ C(x)) + f[x] = Tally(f) /\ Tally(f) \in Nat
    <2> HIDE DEF C
    <2>1. Cardinality(U \ C(x)) = Tally(f) - f[x] /\ Tally(f) \in Nat
      BY <1>4, <1>5, <1>6, <1>7
    <2> QED BY <2>1, <1>6
  <1> QED BY <1>2, <1>4, <1>7, <1>8

(* One element's value is part of the sum, which changes as it does.       *)
LEMMA TallyPart ==
    ASSUME NEW S, IsFiniteSet(S), NEW f \in [S -> Nat], NEW x \in S
    PROVE  f[x] <= Tally(f) /\ Tally(f) \in Nat
  <1> DEFINE R == Units1(f) \ ({x} \X (1..f[x]))
  <1>1. IsFiniteSet(R) /\ Tally(f) = Cardinality(R) + f[x] /\ Tally(f) \in Nat /\ f[x] \in Nat
    BY TallyApart
  <1>2. Cardinality(R) \in Nat
    <2> HIDE DEF R
    <2> QED BY <1>1, FS_CardinalityType
  <1> HIDE DEF R
  <1> QED BY <1>1, <1>2

LEMMA TallyChanges ==
    ASSUME NEW S, IsFiniteSet(S), NEW f \in [S -> Nat], NEW g \in [S -> Nat], NEW x \in S,
           \A y \in S \ {x} : g[y] = f[y]
    PROVE  Tally(g) = Tally(f) - f[x] + g[x]
  <1>1. Units1(f) \ ({x} \X (1..f[x])) = Units1(g) \ ({x} \X (1..g[x]))
    <2>1. ASSUME NEW h \in [S -> Nat]
          PROVE  Units1(h) \ ({x} \X (1..h[x])) = UNION {{y} \X (1..h[y]) : y \in S \ {x}}
      BY DEF Units1
    <2>2. {{y} \X (1..f[y]) : y \in S \ {x}} = {{y} \X (1..g[y]) : y \in S \ {x}}
      OBVIOUS
    <2> QED BY <2>1, <2>2
  <1> DEFINE R == Units1(f) \ ({x} \X (1..f[x]))
  <1>2. IsFiniteSet(R) /\ Tally(f) = Cardinality(R) + f[x] /\ f[x] \in Nat
    BY TallyApart
  <1>3. Tally(g) = Cardinality(R) + g[x] /\ g[x] \in Nat
    BY <1>1, TallyApart
  <1>4. Cardinality(R) \in Nat
    <2> HIDE DEF R
    <2> QED BY <1>2, FS_CardinalityType
  <1> HIDE DEF R
  <1> QED BY <1>2, <1>3, <1>4

LEMMA TallyNothing ==
    ASSUME NEW S, NEW f \in [S -> Nat], \A x \in S : f[x] = 0
    PROVE  Tally(f) = 0
  <1>1. \A x \in S : {x} \X (1..f[x]) = {}
    OBVIOUS
  <1>2. UNION {{x} \X (1..f[x]) : x \in DOMAIN f} = {}
    BY <1>1
  <1> QED BY <1>2, FS_EmptySet DEF Tally

(* What each stays below bounds the sum.                                   *)
LEMMA TallyBound ==
    ASSUME NEW S, IsFiniteSet(S), NEW f \in [S -> Nat], NEW b \in Nat, \A x \in S : f[x] <= b
    PROVE  Tally(f) <= b * Cardinality(S)
  <1>1. Units1(f) \subseteq S \X (1..b)
    <2>1. ASSUME NEW x \in S PROVE {x} \X (1..f[x]) \subseteq S \X (1..b)
      <3>1. f[x] \in Nat /\ f[x] <= b
        OBVIOUS
      <3>2. 1..f[x] \subseteq 1..b
        BY <3>1
      <3> QED BY <3>2
    <2> QED BY <2>1 DEF Units1
  <1>2. IsFiniteSet(1..b) /\ Cardinality(1..b) = b
    BY FS_Interval
  <1>3. IsFiniteSet(S \X (1..b)) /\ Cardinality(S \X (1..b)) = Cardinality(S) * b
    BY <1>2, FS_Product
  <1>4. Cardinality(Units1(f)) <= Cardinality(S) * b
    BY ONLY <1>1, <1>3, FS_Subset
  <1>5. Cardinality(S) \in Nat /\ Cardinality(S) * b = b * Cardinality(S)
    BY FS_CardinalityType
  <1>6. Tally(f) = Cardinality(Units1(f))
    BY DEF Tally, Units1
  <1> QED BY <1>4, <1>5, <1>6

-----------------------------------------------------------------------------
(* Lists of distinct keys.                                                 *)
LEMMA AppendDistinct ==
    ASSUME NEW T, NEW s \in Seq(T), NEW x \in T, Distinct(s), x \notin Range(s)
    PROVE  /\ Append(s, x) \in Seq(T) /\ Distinct(Append(s, x))
           /\ Range(Append(s, x)) = Range(s) \cup {x} /\ Len(Append(s, x)) = Len(s) + 1
  <1> DEFINE u == Append(s, x)
  <1>1. /\ u \in Seq(T) /\ Len(u) = Len(s) + 1 /\ Len(s) \in Nat
        /\ DOMAIN s = 1..Len(s) /\ DOMAIN u = 1..(Len(s) + 1)
        /\ \A n \in 1..Len(s) : u[n] = s[n]
        /\ u[Len(s) + 1] = x
    BY AppendProperties, LenProperties
  <1> HIDE DEF u
  <1>2. 1..(Len(s) + 1) = (1..Len(s)) \cup {Len(s) + 1}
    BY <1>1
  <1>3. Range(u) = {u[n] : n \in 1..Len(s)} \cup {u[Len(s) + 1]}
    BY <1>1, <1>2 DEF Range
  <1>4. {u[n] : n \in 1..Len(s)} = Range(s)
    BY <1>1 DEF Range
  <1>5. ASSUME NEW m \in DOMAIN u, NEW n \in DOMAIN u, u[m] = u[n] PROVE m = n
    <2>1. \A p \in 1..Len(s) : u[p] \in Range(s)
      BY <1>4
    <2>2. CASE m \in 1..Len(s) /\ n \in 1..Len(s)
      BY <1>1, <1>5, <2>2 DEF Distinct
    <2>3. CASE m = Len(s) + 1 \/ n = Len(s) + 1
      BY <1>1, <1>2, <1>5, <2>1, <2>3
    <2> QED BY <1>1, <1>2, <2>2, <2>3
  <1> QED BY <1>1, <1>3, <1>4, <1>5 DEF u, Distinct

LEMMA TailDistinct ==
    ASSUME NEW T, NEW s \in Seq(T), Distinct(s), s # <<>>
    PROVE  /\ Tail(s) \in Seq(T) /\ Distinct(Tail(s)) /\ Len(Tail(s)) = Len(s) - 1
           /\ Range(Tail(s)) = Range(s) \ {Head(s)} /\ Head(s) \in Range(s) /\ Head(s) \in T
  <1> DEFINE u == Tail(s)
  <1>1. /\ u \in Seq(T) /\ Len(u) = Len(s) - 1 /\ Len(s) \in Nat \ {0} /\ Head(s) = s[1]
        /\ DOMAIN s = 1..Len(s) /\ DOMAIN u = 1..(Len(s) - 1)
        /\ \A n \in 1..(Len(s) - 1) : u[n] = s[n + 1]
        /\ Head(s) \in T
    BY HeadTailProperties, LenProperties, EmptySeq
  <1> HIDE DEF u
  <1>2. \A n \in 1..(Len(s) - 1) : n + 1 \in 1..Len(s) /\ n + 1 # 1
    BY <1>1
  <1>3. \A n \in 1..Len(s) : n # 1 => n - 1 \in 1..(Len(s) - 1) /\ (n - 1) + 1 = n
    BY <1>1
  <1>4. 1 \in 1..Len(s)
    BY <1>1
  <1>5. ASSUME NEW y \in Range(u) PROVE y \in Range(s) /\ y # s[1]
    <2>1. PICK n \in 1..(Len(s) - 1) : y = u[n]
      BY <1>1 DEF Range
    <2>2. y = s[n + 1] /\ n + 1 \in DOMAIN s /\ n + 1 # 1 /\ 1 \in DOMAIN s
      BY <1>1, <1>2, <1>4, <2>1
    <2>3. y \in Range(s)
      BY <2>2 DEF Range
    <2>4. s[n + 1] # s[1]
      BY <2>2 DEF Distinct
    <2> QED BY <2>2, <2>3, <2>4
  <1>6. ASSUME NEW y \in Range(s), y # s[1] PROVE y \in Range(u)
    <2>1. PICK n \in 1..Len(s) : y = s[n]
      BY <1>1 DEF Range
    <2>2. n # 1
      BY <1>6, <2>1
    <2>3. y = u[n - 1] /\ n - 1 \in DOMAIN u
      BY <1>1, <1>3, <2>1, <2>2
    <2> QED BY <2>3 DEF Range
  <1>7. Distinct(u)
    <2> SUFFICES ASSUME NEW m \in 1..(Len(s) - 1), NEW n \in 1..(Len(s) - 1), u[m] = u[n] PROVE m = n
      BY <1>1 DEF Distinct
    <2>1. s[m + 1] = s[n + 1] /\ m + 1 \in DOMAIN s /\ n + 1 \in DOMAIN s
      BY <1>1, <1>2
    <2>2. m + 1 = n + 1
      BY <2>1 DEF Distinct
    <2> QED BY <1>1, <2>2
  <1>8. s[1] \in Range(s)
    BY <1>1, <1>4 DEF Range
  <1> QED BY <1>1, <1>5, <1>6, <1>7, <1>8 DEF u

LEMMA DistinctLen ==
    ASSUME NEW T, NEW s \in Seq(T), Distinct(s)
    PROVE  IsFiniteSet(Range(s)) /\ Cardinality(Range(s)) = Len(s)
  <1>1. Len(s) \in Nat /\ DOMAIN s = 1..Len(s)
    BY LenProperties
  <1>2. s \in [1..Len(s) -> Range(s)]
    BY <1>1, LenProperties DEF Range
  <1>3. s \in Surjection(1..Len(s), Range(s))
    BY <1>1, <1>2 DEF Surjection, Range
  <1>4. s \in Injection(1..Len(s), Range(s))
    BY <1>1, <1>2 DEF Injection, IsInjective, Distinct
  <1>5. IsFiniteSet(1..Len(s)) /\ Cardinality(1..Len(s)) = Len(s)
    BY <1>1, FS_Interval
  <1> QED BY <1>3, <1>4, <1>5, FS_Surjection

-----------------------------------------------------------------------------
(* What the operations on an instance's counters keep.                     *)
SameOrGone(c, e, k) ==
    \/ e.delta[k] = c.delta[k] /\ e.aggregate[k] = c.aggregate[k] /\ (Has(e, k) <=> Has(c, k))
    \/ e.delta[k] = 0 /\ e.aggregate[k] = 0 /\ Has(c, k) /\ ~Has(e, k)

LEMMA OldestHolds ==
    ASSUME NEW c, Tidy(c), Len(c.order) >= MaxKeys
    PROVE  /\ Tidy(OldestGone(c)) /\ Len(OldestGone(c).order) = Len(c.order) - 1
           /\ \A k \in Keys : SameOrGone(c, OldestGone(c), k)
  <1> DEFINE h == Head(c.order)
             e == OldestGone(c)
  <1>1. c \in CounterShape /\ c.order \in Seq(Keys) /\ c.delta \in Counts /\ c.aggregate \in Counts
    BY DEF Tidy, CounterShape
  <1>2. c.order # <<>> /\ Len(c.order) \in Nat
    <2>1. Len(c.order) \in Nat
      BY <1>1, LenProperties
    <2>2. Len(c.order) # 0
      BY <2>1, QuotaAssumption DEF QuotaAssumption
    <2> QED BY <2>1, <2>2
  <1>3. /\ Tail(c.order) \in Seq(Keys) /\ Distinct(Tail(c.order)) /\ Len(Tail(c.order)) = Len(c.order) - 1
        /\ Range(Tail(c.order)) = Range(c.order) \ {h} /\ h \in Range(c.order) /\ h \in Keys
    BY <1>1, <1>2, TailDistinct DEF Tidy
  <1>4. /\ e.order = Tail(c.order) /\ e.delta = [c.delta EXCEPT ![h] = 0]
        /\ e.aggregate = [c.aggregate EXCEPT ![h] = 0]
        /\ e = [order |-> e.order, delta |-> e.delta, aggregate |-> e.aggregate]
    BY DEF OldestGone
  <1> HIDE DEF h, e
  <1>5. e \in CounterShape
    <2>0. \A f \in Counts : [f EXCEPT ![h] = 0] \in Counts
      BY DEF Counts
    <2>1. e.delta \in Counts /\ e.aggregate \in Counts
      BY <1>1, <1>4, <2>0
    <2>2. e.order \in Seq(Keys)
      BY <1>3, <1>4
    <2> QED BY <1>4, <2>1, <2>2 DEF CounterShape
  <1>6. \A k \in Keys : Has(e, k) <=> Has(c, k) /\ k # h
    BY <1>3, <1>4 DEF Has
  <1>7. \A k \in Keys : /\ e.delta[k] = IF k = h THEN 0 ELSE c.delta[k]
                        /\ e.aggregate[k] = IF k = h THEN 0 ELSE c.aggregate[k]
    BY <1>1, <1>3, <1>4 DEF Counts
  <1>8. Has(c, h)
    BY <1>3 DEF Has
  <1>9. \A k \in Keys : SameOrGone(c, e, k)
    BY <1>6, <1>7, <1>8 DEF SameOrGone
  <1>10. Len(e.order) = Len(c.order) - 1 /\ Len(e.order) <= MaxKeys
    BY <1>2, <1>3, <1>4, QuotaAssumption DEF Tidy, QuotaAssumption
  <1>11. Tidy(e)
    <2>1. \A k \in Keys : ~Has(e, k) => e.delta[k] = 0 /\ e.aggregate[k] = 0
      BY <1>6, <1>7 DEF Tidy
    <2> QED BY <1>3, <1>4, <1>5, <1>10, <2>1 DEF Tidy
  <1> QED BY <1>6, <1>9, <1>10, <1>11 DEF e

LEMMA MadeHolds ==
    ASSUME NEW c, Tidy(c), NEW k \in Keys, ~Has(c, k)
    PROVE  /\ Tidy(Made(c, k)) /\ Has(Made(c, k), k)
           /\ Made(c, k).delta[k] = c.delta[k] /\ Made(c, k).aggregate[k] = c.aggregate[k]
           /\ \A j \in Keys \ {k} : SameOrGone(c, Made(c, k), j)
  <1> DEFINE d == IF Len(c.order) >= MaxKeys THEN OldestGone(c) ELSE c
             e == Made(c, k)
  <1>1. /\ Tidy(d) /\ Len(d.order) < MaxKeys /\ Len(d.order) \in Nat
        /\ \A j \in Keys : SameOrGone(c, d, j)
    <2>0. MaxKeys \in Nat /\ Len(c.order) \in Nat
      BY QuotaAssumption, LenProperties DEF QuotaAssumption, Tidy, CounterShape
    <2>1. CASE Len(c.order) >= MaxKeys
      <3>1. d = OldestGone(c)
        BY <2>1
      <3>2. Len(c.order) = MaxKeys
        BY <2>0, <2>1 DEF Tidy
      <3> HIDE DEF d
      <3>3. Len(d.order) = Len(c.order) - 1 /\ Tidy(d)
        BY <2>1, <3>1, OldestHolds
      <3>4. Len(d.order) \in Nat
        BY <3>3, LenProperties DEF Tidy, CounterShape
      <3> QED BY <2>0, <2>1, <3>1, <3>2, <3>3, <3>4, OldestHolds
    <2>2. CASE ~(Len(c.order) >= MaxKeys)
      <3>1. d = c
        BY <2>2
      <3> HIDE DEF d
      <3> QED BY <2>0, <2>2, <3>1 DEF SameOrGone
    <2> QED BY <2>1, <2>2
  <1>2. /\ e.order = Append(d.order, k) /\ e.delta = [d.delta EXCEPT ![k] = 0]
        /\ e.aggregate = [d.aggregate EXCEPT ![k] = 0]
        /\ e = [order |-> e.order, delta |-> e.delta, aggregate |-> e.aggregate]
    BY DEF Made
  <1> HIDE DEF d, e
  <1>3. d \in CounterShape /\ d.order \in Seq(Keys) /\ d.delta \in Counts /\ d.aggregate \in Counts /\ Distinct(d.order)
    BY <1>1 DEF Tidy, CounterShape
  <1>4. ~Has(d, k) /\ k \notin Range(d.order)
    <2>1. ~Has(d, k)
      BY <1>1 DEF SameOrGone
    <2> QED BY <2>1 DEF Has
  <1>5. /\ e.order \in Seq(Keys) /\ Distinct(e.order) /\ Len(e.order) = Len(d.order) + 1
        /\ Range(e.order) = Range(d.order) \cup {k}
    BY <1>2, <1>3, <1>4, AppendDistinct
  <1>6. d.delta[k] = 0 /\ d.aggregate[k] = 0
    BY <1>1, <1>4 DEF Tidy
  <1>7. e.delta = d.delta /\ e.aggregate = d.aggregate
    BY <1>2, <1>3, <1>6 DEF Counts
  <1>8. e \in CounterShape
    BY <1>2, <1>3, <1>5, <1>7 DEF CounterShape
  <1>9. \A j \in Keys : Has(e, j) <=> Has(d, j) \/ j = k
    BY <1>5 DEF Has
  <1>10. Len(e.order) <= MaxKeys
    BY <1>1, <1>5, QuotaAssumption DEF QuotaAssumption
  <1>11. Tidy(e)
    BY <1>1, <1>5, <1>7, <1>8, <1>9, <1>10 DEF Tidy
  <1>12. \A j \in Keys \ {k} : SameOrGone(c, e, j)
    BY <1>1, <1>7, <1>9 DEF SameOrGone
  <1>13. e.delta[k] = c.delta[k] /\ e.aggregate[k] = c.aggregate[k]
    BY <1>1, <1>6, <1>7 DEF Tidy
  <1> QED BY <1>9, <1>11, <1>12, <1>13 DEF e

LEMMA TouchedHolds ==
    ASSUME NEW c, Tidy(c), NEW k \in Keys
    PROVE  /\ Tidy(Touched(c, k)) /\ Has(Touched(c, k), k)
           /\ Touched(c, k).delta[k] = c.delta[k] /\ Touched(c, k).aggregate[k] = c.aggregate[k]
           /\ \A j \in Keys \ {k} : SameOrGone(c, Touched(c, k), j)
  <1>1. CASE ~Has(c, k)
    BY <1>1, MadeHolds DEF Touched
  <1>2. CASE Has(c, k)
    <2> DEFINE s == Only(c.order, Keys \ {k})
               e == Touched(c, k)
    <2>1. c \in CounterShape /\ c.order \in Seq(Keys) /\ Distinct(c.order) /\ k \in Range(c.order)
      BY <1>2 DEF Tidy, CounterShape, Has
    <2>2. s \in Seq(Keys) /\ Distinct(s) /\ Range(s) = Range(c.order) \cap (Keys \ {k})
      BY <2>1, OnlyKeeps
    <2>3. e = [c EXCEPT !.order = Append(s, k)]
      BY <1>2 DEF Touched
    <2> HIDE DEF s
    <2>4. e.order = Append(s, k) /\ e.delta = c.delta /\ e.aggregate = c.aggregate
      BY <2>1, <2>3 DEF CounterShape
    <2>5. /\ e.order \in Seq(Keys) /\ Distinct(e.order) /\ Range(e.order) = Range(s) \cup {k}
      BY <2>2, <2>4, AppendDistinct
    <2>6. Range(c.order) \subseteq Keys
      BY <2>1, LenProperties DEF Range
    <2>7. Range(e.order) = Range(c.order)
      BY <2>1, <2>2, <2>5, <2>6
    <2>8. Len(e.order) = Len(c.order)
      BY <2>1, <2>5, <2>7, DistinctLen
    <2>9. e \in CounterShape
      BY <2>1, <2>3, <2>4, <2>5 DEF CounterShape
    <2> HIDE DEF e
    <2>10. \A j \in Keys : Has(e, j) <=> Has(c, j)
      BY <2>7 DEF Has
    <2>11. Tidy(e)
      BY <2>4, <2>5, <2>8, <2>9, <2>10 DEF Tidy
    <2>12. \A j \in Keys : SameOrGone(c, e, j)
      BY <2>4, <2>10 DEF SameOrGone
    <2> QED BY <1>2, <2>4, <2>10, <2>11, <2>12 DEF e
  <1> QED BY <1>1, <1>2

LEMMA InformedHolds ==
    ASSUME NEW c, Tidy(c), NEW k \in Keys, NEW n \in Nat
    PROVE  /\ Tidy(Informed(c, k, n)) /\ Has(Informed(c, k, n), k)
           /\ Informed(c, k, n).aggregate[k] = n
           /\ Informed(c, k, n).delta[k] = c.delta[k]
           /\ \A j \in Keys \ {k} : SameOrGone(c, Informed(c, k, n), j)
  <1> DEFINE d == IF Has(c, k) THEN c ELSE Made(c, k)
             e == Informed(c, k, n)
  <1>1. /\ Tidy(d) /\ Has(d, k) /\ d.delta[k] = c.delta[k]
        /\ \A j \in Keys \ {k} : SameOrGone(c, d, j)
    <2>1. CASE Has(c, k)
      BY <2>1 DEF SameOrGone
    <2>2. CASE ~Has(c, k)
      <3>2. d = Made(c, k)
        BY <2>2
      <3> HIDE DEF d
      <3> QED BY <2>2, <3>2, MadeHolds
    <2> QED BY <2>1, <2>2
  <1>2. e = [d EXCEPT !.aggregate[k] = n]
    BY DEF Informed
  <1> HIDE DEF d, e
  <1>3. d \in CounterShape /\ d.order \in Seq(Keys) /\ d.delta \in Counts /\ d.aggregate \in Counts
    BY <1>1 DEF Tidy, CounterShape
  <1>4. e.order = d.order /\ e.delta = d.delta /\ e.aggregate = [d.aggregate EXCEPT ![k] = n]
    BY <1>2, <1>3 DEF CounterShape
  <1>5. \A f \in Counts : [f EXCEPT ![k] = n] \in Counts
    BY DEF Counts
  <1>6. e \in CounterShape
    BY <1>2, <1>3, <1>4, <1>5 DEF CounterShape
  <1>7. \A j \in Keys : e.aggregate[j] = IF j = k THEN n ELSE d.aggregate[j]
    BY <1>3, <1>4 DEF Counts
  <1>8. \A j \in Keys : Has(e, j) <=> Has(d, j)
    BY <1>4 DEF Has
  <1>9. Tidy(e)
    BY <1>1, <1>4, <1>6, <1>7, <1>8 DEF Tidy
  <1>10. \A j \in Keys \ {k} : SameOrGone(c, e, j)
    BY <1>1, <1>4, <1>7, <1>8 DEF SameOrGone
  <1> QED BY <1>1, <1>4, <1>7, <1>8, <1>9, <1>10 DEF e

(* A recursive function over 0..m exists.                                  *)
LEMMA Iterates ==
    ASSUME NEW X, NEW base \in X, NEW m \in Nat, NEW step \in [1..m -> [X -> X]]
    PROVE  \E f \in [0..m -> X] : f[0] = base /\ \A n \in 1..m : f[n] = step[n][f[n - 1]]
  <1> DEFINE Run(k, f) == f \in [0..k -> X] /\ f[0] = base /\ \A n \in 1..k : f[n] = step[n][f[n - 1]]
             Bad == {k \in Nat : k <= m /\ ~\E f : Run(k, f)}
  <1>1. Bad = {}
    <2> SUFFICES ASSUME Bad # {} PROVE FALSE
      OBVIOUS
    <2>1. PICK k \in Bad : \A n \in Bad : k <= n
      <3>1. Bad \in SUBSET Nat
        OBVIOUS
      <3> HIDE DEF Bad
      <3> QED BY <3>1, LeastNat
    <2>2. k \in Nat /\ k <= m
      BY <2>1
    <2>3. CASE k = 0
      <3> DEFINE h == [n \in 0..k |-> base]
      <3>1. Run(k, h)
        BY <2>3
      <3> QED BY <2>1, <3>1
    <2>4. CASE k # 0
      <3>1. k - 1 \in Nat /\ k - 1 <= m /\ k - 1 < k /\ k \in 1..m
        BY <2>2, <2>4
      <3>2. k - 1 \notin Bad
        <4> HIDE DEF Bad
        <4> QED BY <2>1, <2>2, <3>1
      <3>3. PICK f : Run(k - 1, f)
        BY <3>1, <3>2
      <3> DEFINE h == [n \in 0..k |-> IF n = k THEN step[k][f[k - 1]] ELSE f[n]]
      <3>4. f[k - 1] \in X /\ step[k][f[k - 1]] \in X
        BY <3>1, <3>3
      <3>5. \A n \in 0..k : n # k => n \in 0..(k - 1)
        BY <2>2
      <3>6. h \in [0..k -> X]
        BY <3>3, <3>4, <3>5
      <3>7. h[0] = base
        BY <2>2, <2>4, <3>3
      <3>8. ASSUME NEW n \in 1..k PROVE h[n] = step[n][h[n - 1]]
        <4>1. n \in 0..k /\ n - 1 \in 0..k /\ n - 1 # k /\ h[n - 1] = f[n - 1]
          BY <2>2
        <4>2. CASE n = k
          BY <4>1, <4>2
        <4>3. CASE n # k
          <5>1. n \in 1..(k - 1) /\ h[n] = f[n]
            BY <2>2, <4>1, <4>3
          <5> HIDE DEF h
          <5> QED BY <3>3, <4>1, <5>1
        <4> QED BY <4>2, <4>3
      <3>9. Run(k, h)
        <4> HIDE DEF h
        <4> QED BY <3>6, <3>7, <3>8
      <3> QED BY <2>1, <3>9
    <2> QED BY <2>3, <2>4
  <1>2. m <= m
    OBVIOUS
  <1>3. m \notin Bad
    <2> HIDE DEF Bad
    <2> QED BY <1>1
  <1>4. \E f : Run(m, f)
    <2> HIDE DEF Run
    <2> QED BY <1>2, <1>3
  <1>5. PICK f : Run(m, f)
    BY <1>4
  <1> QED BY <1>5

(* After some of an answer's figures: those are known, the others as they  *)
(* were or evicted.                                                        *)
Knows(c, d, totals, S) ==
    /\ Tidy(d)
    /\ \A k \in Keys :
          /\ d.delta[k] = c.delta[k] \/ (d.delta[k] = 0 /\ Has(c, k))
          /\ d.aggregate[k] \in {0, c.aggregate[k], totals[k]}
          /\ k \in S /\ Has(d, k) => d.aggregate[k] = totals[k]
          /\ k \notin S => SameOrGone(c, d, k)

LEMMA InformedKnows ==
    ASSUME NEW c, Tidy(c), NEW totals \in Counts, NEW S, NEW d, Knows(c, d, totals, S),
           NEW k \in Keys, k \notin S
    PROVE  Knows(c, Informed(d, k, totals[k]), totals, S \cup {k})
  <1> DEFINE n == totals[k]
             e == Informed(d, k, n)
  <1>1. Tidy(d) /\ n \in Nat
    BY DEF Knows, Counts
  <1>2. /\ Tidy(e) /\ Has(e, k) /\ e.aggregate[k] = n /\ e.delta[k] = d.delta[k]
        /\ \A j \in Keys \ {k} : SameOrGone(d, e, j)
    <2> HIDE DEF n
    <2> QED BY <1>1, InformedHolds
  <1> HIDE DEF e
  <1>3. ASSUME NEW j \in Keys
        PROVE  /\ e.delta[j] = c.delta[j] \/ (e.delta[j] = 0 /\ Has(c, j))
               /\ e.aggregate[j] \in {0, c.aggregate[j], totals[j]}
               /\ j \in S \cup {k} /\ Has(e, j) => e.aggregate[j] = totals[j]
               /\ j \notin S \cup {k} => SameOrGone(c, e, j)
    <2>0. /\ d.delta[j] = c.delta[j] \/ (d.delta[j] = 0 /\ Has(c, j))
          /\ d.aggregate[j] \in {0, c.aggregate[j], totals[j]}
          /\ j \in S /\ Has(d, j) => d.aggregate[j] = totals[j]
          /\ j \notin S => SameOrGone(c, d, j)
      BY DEF Knows
    <2>1. CASE j = k
      BY <1>2, <2>0, <2>1
    <2>2. CASE j # k
      <3>1. SameOrGone(d, e, j)
        BY <1>2, <2>2
      <3>2. ~Has(d, j) => d.delta[j] = 0 /\ d.aggregate[j] = 0
        BY <1>1 DEF Tidy
      <3>3. ~Has(e, j) => e.delta[j] = 0 /\ e.aggregate[j] = 0
        BY <1>2 DEF Tidy
      <3>4. e.delta[j] = c.delta[j] \/ (e.delta[j] = 0 /\ Has(c, j))
        <4>1. CASE d.delta[j] = c.delta[j]
          <5>1. ~Has(c, j) => c.delta[j] = 0
            BY DEF Tidy
          <5> QED BY <3>1, <4>1, <5>1 DEF SameOrGone
        <4>2. CASE d.delta[j] = 0 /\ Has(c, j)
          BY <3>1, <4>2 DEF SameOrGone
        <4> QED BY <2>0, <4>1, <4>2
      <3>5. e.aggregate[j] \in {0, c.aggregate[j], totals[j]}
        BY <2>0, <3>1 DEF SameOrGone
      <3>6. ASSUME j \in S, Has(e, j) PROVE e.aggregate[j] = totals[j]
        <4>1. e.aggregate[j] = d.aggregate[j] /\ Has(d, j)
          BY <3>1, <3>6 DEF SameOrGone
        <4> QED BY <2>0, <3>6, <4>1
      <3>7. ASSUME j \notin S PROVE SameOrGone(c, e, j)
        <4>1. SameOrGone(c, d, j)
          BY <2>0, <3>7
        <4>2. ~Has(c, j) => c.delta[j] = 0 /\ c.aggregate[j] = 0
          BY DEF Tidy
        <4> QED BY <3>1, <3>2, <3>3, <4>1, <4>2 DEF SameOrGone
      <3> QED BY <2>2, <3>4, <3>5, <3>6, <3>7
    <2> QED BY <2>1, <2>2
  <1> QED BY <1>2, <1>3 DEF Knows, e

LEMMA AppliesHolds ==
    ASSUME NEW c, Tidy(c), NEW totals \in Counts, NEW told \in SUBSET Keys, IsFiniteSet(told),
           NEW order \in SetToSeqs(told)
    PROVE  Knows(c, ApplyAggregates(c, totals, order), totals, told)
  <1> DEFINE m == Cardinality(told)
  <1>1. /\ m \in Nat /\ order \in [1..m -> told] /\ Len(order) = m
        /\ \A i, j \in 1..m : i # j => order[i] # order[j]
    <2>1. m \in Nat
      BY FS_CardinalityType
    <2>2. order \in [1..m -> told] /\ \A i, j \in 1..m : i # j => order[i] # order[j]
      BY DEF SetToSeqs
    <2> HIDE DEF m
    <2>3. Len(order) = m
      BY <2>1, <2>2
    <2> QED BY <2>1, <2>2, <2>3
  <1>2. told = {order[j] : j \in 1..m}
    <2>1. order \in Injection(1..m, told)
      BY <1>1 DEF Injection, IsInjective
    <2>2. IsFiniteSet(1..m) /\ Cardinality(1..m) = m
      BY <1>1, FS_Interval
    <2>3. order \in Surjection(1..m, told)
      BY <2>1, <2>2, FS_Injection
    <2> HIDE DEF m
    <2> QED BY <1>1, <2>3 DEF Surjection
  <1> HIDE DEF m
  <1>3. \A j \in 1..m : order[j] \in Keys
    BY <1>1
  <1> DEFINE X == {d \in CounterShape : Tidy(d)}
             step == [n \in 1..m |-> [d \in X |-> Informed(d, order[n], totals[order[n]])]]
             Def(f) == f = [n \in 0..Len(order) |->
                              IF n = 0 THEN c ELSE Informed(f[n - 1], order[n], totals[order[n]])]
  <1>4. c \in X
    BY DEF Tidy
  <1>5. step \in [1..m -> [X -> X]]
    <2> SUFFICES ASSUME NEW d \in X, NEW j \in 1..m
                 PROVE  Informed(d, order[j], totals[order[j]]) \in X
      OBVIOUS
    <2>1. totals[order[j]] \in Nat /\ order[j] \in Keys /\ Tidy(d)
      BY <1>3 DEF Counts
    <2>2. Tidy(Informed(d, order[j], totals[order[j]]))
      BY <2>1, InformedHolds
    <2> QED BY <2>2 DEF Tidy
  <1>6. \E f : Def(f)
    <2>1. PICK f \in [0..m -> X] : f[0] = c /\ \A n \in 1..m : f[n] = step[n][f[n - 1]]
      <3> HIDE DEF X, step
      <3>1. m \in Nat
        BY <1>1
      <3> QED BY ONLY <3>1, <1>4, <1>5, Iterates
    <2>2. ASSUME NEW n \in 1..m PROVE f[n] = Informed(f[n - 1], order[n], totals[order[n]])
      <3>1. n - 1 \in 0..m
        BY <1>1
      <3>2. f[n - 1] \in X
        <4> HIDE DEF X
        <4> QED BY <2>1, <3>1
      <3>3. f[n] = step[n][f[n - 1]]
        <4> HIDE DEF step, X
        <4> QED BY <2>1
      <3> HIDE DEF X
      <3> QED BY <3>2, <3>3
    <2>3. ASSUME NEW n \in 0..m
          PROVE  f[n] = IF n = 0 THEN c ELSE Informed(f[n - 1], order[n], totals[order[n]])
      <3>1. n # 0 => n \in 1..m
        BY <1>1
      <3> QED BY <2>1, <2>2, <3>1
    <2>4. f = [n \in 0..m |-> f[n]]
      BY <2>1
    <2>5. Def(f)
      <3> HIDE DEF X, step
      <3> QED BY <1>1, <2>3, <2>4
    <2> QED BY <2>5
  <1> DEFINE after == CHOOSE f : Def(f)
  <1>7. Def(after)
    <2> HIDE DEF Def
    <2> QED BY <1>6
  <1>8. ApplyAggregates(c, totals, order) = after[Len(order)]
    BY DEF ApplyAggregates
  <1> HIDE DEF after
  <1>9. after[0] = c /\ \A n \in 1..m : after[n] = Informed(after[n - 1], order[n], totals[order[n]])
    <2>1. \A n \in 0..m : after[n] = IF n = 0 THEN c ELSE Informed(after[n - 1], order[n], totals[order[n]])
      BY <1>1, <1>7
    <2>2. 0 \in 0..m /\ \A n \in 1..m : n \in 0..m /\ n # 0
      BY <1>1
    <2> HIDE DEF Def
    <2> QED BY <2>1, <2>2
  <1> HIDE DEF X, step, Def
  <1> DEFINE Seen1(n) == {order[j] : j \in 1..n}
             Bad == {n \in Nat : n <= m /\ ~Knows(c, after[n], totals, Seen1(n))}
  <1>10. Bad = {}
    <2> SUFFICES ASSUME Bad # {} PROVE FALSE
      OBVIOUS
    <2>1. PICK n \in Bad : \A j \in Bad : n <= j
      <3>1. Bad \in SUBSET Nat
        OBVIOUS
      <3> HIDE DEF Bad
      <3> QED BY <3>1, LeastNat
    <2>2. n \in Nat /\ n <= m /\ ~Knows(c, after[n], totals, Seen1(n))
      BY <2>1
    <2>3. CASE n = 0
      <3>1. Seen1(0) = {}
        OBVIOUS
      <3> HIDE DEF Bad, Seen1
      <3>2. \A k \in Keys : SameOrGone(c, c, k)
        BY DEF SameOrGone
      <3>3. Knows(c, c, totals, {})
        BY <3>2 DEF Knows
      <3> QED BY <1>9, <2>2, <2>3, <3>1, <3>3
    <2>4. CASE n # 0
      <3>1. n - 1 \in Nat /\ n - 1 <= m /\ n - 1 < n /\ n \in 1..m
        BY <1>1, <2>2, <2>4
      <3>2. n - 1 \notin Bad
        <4> HIDE DEF Bad
        <4> QED BY <2>1, <2>2, <3>1
      <3>3. Knows(c, after[n - 1], totals, Seen1(n - 1))
        BY <3>1, <3>2
      <3>4. Seen1(n) = Seen1(n - 1) \cup {order[n]}
        <4>1. 1..n = (1..(n - 1)) \cup {n}
          BY <3>1
        <4> QED BY <4>1
      <3>5. order[n] \notin Seen1(n - 1)
        <4>1. \A j \in 1..(n - 1) : j \in 1..m /\ j # n
          BY <1>1, <3>1
        <4> QED BY <1>1, <3>1, <4>1
      <3> HIDE DEF Bad, Seen1
      <3>6. Knows(c, Informed(after[n - 1], order[n], totals[order[n]]), totals, Seen1(n - 1) \cup {order[n]})
        BY <1>3, <3>1, <3>3, <3>5, InformedKnows
      <3> QED BY <1>9, <2>2, <3>1, <3>4, <3>6
    <2> QED BY <2>3, <2>4
  <1>11. m \in Nat /\ m <= m
    BY <1>1
  <1>12. Knows(c, after[m], totals, Seen1(m))
    <2>1. m \notin Bad
      <3> HIDE DEF Bad
      <3> QED BY <1>10
    <2> HIDE DEF Seen1
    <2> QED BY <1>11, <2>1
  <1>13. Seen1(m) = told
    BY <1>2
  <1> HIDE DEF Seen1
  <1> QED BY <1>1, <1>8, <1>12, <1>13

LEMMA SweptHolds ==
    ASSUME NEW c, Tidy(c)
    PROVE  /\ Tidy(Swept(c))
           /\ \A k \in Keys : IF Live(k) THEN SameOrGone(c, Swept(c), k) /\ (Has(c, k) => Has(Swept(c), k))
                              ELSE Swept(c).delta[k] = 0 /\ Swept(c).aggregate[k] = 0
  <1> DEFINE S == {k \in Keys : Live(k)}
             s == Only(c.order, S)
             e == Swept(c)
  <1>1. c \in CounterShape /\ c.order \in Seq(Keys) /\ c.delta \in Counts /\ c.aggregate \in Counts /\ Distinct(c.order)
    BY DEF Tidy, CounterShape
  <1>2. s \in Seq(Keys) /\ Range(s) = Range(c.order) \cap S /\ Distinct(s)
    <2> HIDE DEF S
    <2> QED BY <1>1, OnlyKeeps
  <1>3. /\ e.order = s /\ e.delta = [k \in Keys |-> IF Live(k) THEN c.delta[k] ELSE 0]
        /\ e.aggregate = [k \in Keys |-> IF Live(k) THEN c.aggregate[k] ELSE 0]
        /\ e = [order |-> e.order, delta |-> e.delta, aggregate |-> e.aggregate]
    BY DEF Swept
  <1> HIDE DEF e
  <1>4. e \in CounterShape
    <2>1. e.delta \in Counts /\ e.aggregate \in Counts
      BY <1>1, <1>3 DEF Counts
    <2> HIDE DEF s
    <2> QED BY <1>2, <1>3, <2>1 DEF CounterShape
  <1>5. Len(s) <= MaxKeys
    <2>1. /\ Cardinality(Range(s)) = Len(s) /\ Cardinality(Range(c.order)) = Len(c.order)
          /\ IsFiniteSet(Range(c.order))
      BY <1>1, <1>2, DistinctLen
    <2>2. Cardinality(Range(s)) <= Cardinality(Range(c.order))
      BY <1>2, <2>1, FS_Subset
    <2>3. Len(s) \in Nat /\ Len(c.order) \in Nat /\ Len(c.order) <= MaxKeys /\ MaxKeys \in Nat
      BY <1>1, <1>2, LenProperties, QuotaAssumption DEF Tidy, QuotaAssumption
    <2> HIDE DEF s
    <2> QED BY <2>1, <2>2, <2>3
  <1>6. \A k \in Keys : Has(e, k) <=> Has(c, k) /\ Live(k)
    BY <1>2, <1>3 DEF Has
  <1> HIDE DEF s, S
  <1>7. \A k \in Keys : IF Live(k) THEN e.delta[k] = c.delta[k] /\ e.aggregate[k] = c.aggregate[k]
                        ELSE e.delta[k] = 0 /\ e.aggregate[k] = 0
    BY <1>3
  <1>8. Tidy(e)
    BY <1>2, <1>3, <1>4, <1>5, <1>6, <1>7 DEF Tidy
  <1>9. \A k \in Keys : Live(k) => SameOrGone(c, e, k) /\ (Has(c, k) => Has(e, k))
    BY <1>6, <1>7 DEF SameOrGone
  <1> QED BY <1>7, <1>8, <1>9 DEF e

-----------------------------------------------------------------------------
(* A key's figures are numbers.                                            *)
CellShape == [admitted : Nat, counted : Nat, lost : Nat, late : Nat,
          delta : [Instances -> Nat], flying : [Instances -> Nat],
          known : [Instances -> Nat], told : [Instances -> Nat], answered : SUBSET Instances]

LEMMA CountsAre == ASSUME NEW f \in Counts, NEW k \in Keys PROVE f[k] \in Nat
  BY DEF Counts

LEMMA QuotaCells ==
    ASSUME QuotaTypeOK, NEW k \in Keys
    PROVE  CellOf(k) \in CellShape /\ usage[k] \in Nat /\ pending[k] \in Nat
  <1>1. late \in Counts /\ pending \in Counts /\ usage \in Counts /\ admitted \in Counts /\ lost \in Counts
    BY DEF QuotaTypeOK
  <1>2. ASSUME NEW i \in Instances
        PROVE  /\ counters[i].delta \in Counts /\ counters[i].aggregate \in Counts
               /\ qpoll[i].deltas \in Counts /\ qpoll[i].totals \in Counts
    BY DEF QuotaTypeOK
  <1>3. \A f \in Counts : f[k] \in Nat
    BY DEF Counts
  <1>4. /\ late[k] \in Nat /\ pending[k] \in Nat /\ usage[k] \in Nat /\ admitted[k] \in Nat /\ lost[k] \in Nat
        /\ usage[k] + pending[k] \in Nat
    BY <1>1, <1>3
  <1>5. /\ [i \in Instances |-> counters[i].delta[k]] \in [Instances -> Nat]
        /\ [i \in Instances |-> qpoll[i].deltas[k]] \in [Instances -> Nat]
        /\ [i \in Instances |-> counters[i].aggregate[k]] \in [Instances -> Nat]
        /\ [i \in Instances |-> qpoll[i].totals[k]] \in [Instances -> Nat]
    BY <1>2, <1>3
  <1>6. {i \in Instances : qpoll[i].stage = "answered"} \in SUBSET Instances
    OBVIOUS
  <1> QED BY <1>4, <1>5, <1>6 DEF CellOf, CellShape

LEMMA InstancesFinite == IsFiniteSet(Instances) /\ Cardinality(Instances) \in Nat /\ Allowance \in Nat
  BY QuotaAssumption, FS_CardinalityType DEF QuotaAssumption

(* From the pace of each the bound on all.                                 *)
LEMMA PaceBounds ==
    ASSUME NEW r, Paced(r)
    PROVE  r.admitted <= 2 * Allowance * Cardinality(Instances)
  <1>1. PICK made \in [Instances -> Nat] :
          Tally(made) = r.admitted /\ \A i \in Instances : InStep(r, i, made[i])
    BY DEF Paced
  <1>2. \A i \in Instances : made[i] <= 2 * Allowance
    BY <1>1 DEF InStep
  <1>3. 2 * Allowance \in Nat
    BY InstancesFinite
  <1> QED BY <1>1, <1>2, <1>3, InstancesFinite, TallyBound

(* A step of one instance moves its own figures and what is behind it.     *)
OneMoves(r, s, i) ==
    /\ r \in CellShape /\ s \in CellShape
    /\ \A j \in Instances \ {i} :
          /\ s.delta[j] = r.delta[j] /\ s.flying[j] = r.flying[j]
          /\ s.known[j] = r.known[j] /\ s.told[j] = r.told[j]
          /\ j \in s.answered <=> j \in r.answered

LEMMA OneCounted ==
    ASSUME NEW r, NEW s, NEW i \in Instances, OneMoves(r, s, i), CountedOnce(r),
           s.admitted + r.counted + r.lost + r.late + r.delta[i] + r.flying[i]
             = r.admitted + s.counted + s.lost + s.late + s.delta[i] + s.flying[i]
    PROVE  CountedOnce(s)
  <1>1. /\ r.delta \in [Instances -> Nat] /\ s.delta \in [Instances -> Nat]
        /\ r.flying \in [Instances -> Nat] /\ s.flying \in [Instances -> Nat]
        /\ r.admitted \in Nat /\ r.counted \in Nat /\ r.lost \in Nat /\ r.late \in Nat
        /\ s.admitted \in Nat /\ s.counted \in Nat /\ s.lost \in Nat /\ s.late \in Nat
    BY DEF OneMoves, CellShape
  <1>2. Tally(s.delta) = Tally(r.delta) - r.delta[i] + s.delta[i]
    <2>1. \A j \in Instances \ {i} : s.delta[j] = r.delta[j]
      BY DEF OneMoves
    <2> QED BY <1>1, <2>1, InstancesFinite, TallyChanges
  <1>3. Tally(s.flying) = Tally(r.flying) - r.flying[i] + s.flying[i]
    <2>1. \A j \in Instances \ {i} : s.flying[j] = r.flying[j]
      BY DEF OneMoves
    <2> QED BY <1>1, <2>1, InstancesFinite, TallyChanges
  <1>4. Tally(r.delta) \in Nat /\ Tally(r.flying) \in Nat
    BY <1>1, InstancesFinite, TallyPart
  <1>5. r.delta[i] \in Nat /\ s.delta[i] \in Nat /\ r.flying[i] \in Nat /\ s.flying[i] \in Nat
    BY <1>1
  <1>6. r.admitted = r.counted + r.lost + r.late + Tally(r.delta) + Tally(r.flying)
    BY DEF CountedOnce
  <1> DEFINE x == r.counted + r.lost + r.late
             y == s.counted + s.lost + s.late
  <1>7. /\ x \in Nat /\ y \in Nat
        /\ s.admitted + x + r.delta[i] + r.flying[i] = r.admitted + y + s.delta[i] + s.flying[i]
        /\ r.admitted = x + Tally(r.delta) + Tally(r.flying)
    BY <1>1, <1>5, <1>6
  <1> HIDE DEF x, y
  <1>8. s.admitted = y + Tally(s.delta) + Tally(s.flying)
    <2>1. ASSUME NEW a \in Nat, NEW b \in Nat, NEW t \in Nat, NEW u \in Nat,
                 NEW v \in Nat, NEW w \in Nat, NEW d \in Nat, NEW e \in Nat, NEW f \in Nat, NEW g \in Nat,
                 b + x + d + f = a + y + e + g, a = x + t + u, v = t - d + e, w = u - f + g
          PROVE  b = y + v + w
      BY ONLY <1>7, <2>1
    <2>2. Tally(s.delta) \in Nat /\ Tally(s.flying) \in Nat
      BY <1>1, InstancesFinite, TallyPart
    <2> QED BY ONLY <1>1, <1>2, <1>3, <1>4, <1>5, <1>7, <2>1, <2>2
  <1> QED BY <1>8 DEF CountedOnce, y

LEMMA OneTold ==
    ASSUME NEW r, NEW s, NEW i \in Instances, OneMoves(r, s, i), ToldWhatIs(r),
           r.counted + r.lost <= s.counted + s.lost,
           s.known[i] <= s.counted + s.lost, s.told[i] <= s.counted + s.lost
    PROVE  ToldWhatIs(s)
  <1> SUFFICES ASSUME NEW j \in Instances
               PROVE  s.known[j] <= s.counted + s.lost /\ s.told[j] <= s.counted + s.lost
    BY DEF ToldWhatIs
  <1>1. CASE j = i
    BY <1>1
  <1>2. CASE j # i
    <2>1. s.known[j] = r.known[j] /\ s.told[j] = r.told[j]
      BY <1>2 DEF OneMoves
    <2>2. r.known[j] <= r.counted + r.lost /\ r.told[j] <= r.counted + r.lost
      BY DEF ToldWhatIs
    <2>3. /\ r.known[j] \in Nat /\ r.told[j] \in Nat
          /\ r.counted \in Nat /\ r.lost \in Nat /\ s.counted \in Nat /\ s.lost \in Nat
      BY DEF OneMoves, CellShape
    <2> QED BY <2>1, <2>2, <2>3
  <1> QED BY <1>1, <1>2

LEMMA OnePaced ==
    ASSUME NEW r, NEW s, NEW i \in Instances, OneMoves(r, s, i), Paced(r),
           s.late = 0, s.lost = 0, r.counted <= s.counted, r.admitted <= s.admitted,
           \A m \in Nat : InStep(r, i, m) => InStep(s, i, m + (s.admitted - r.admitted))
    PROVE  Paced(s)
  <1>1. /\ r.admitted \in Nat /\ s.admitted \in Nat /\ r.counted \in Nat /\ s.counted \in Nat
    BY DEF OneMoves, CellShape
  <1>2. PICK made \in [Instances -> Nat] :
          Tally(made) = r.admitted /\ \A j \in Instances : InStep(r, j, made[j])
    BY DEF Paced
  <1> DEFINE x == made[i] + (s.admitted - r.admitted)
             next == [made EXCEPT ![i] = x]
  <1>3. x \in Nat /\ made[i] \in Nat
    BY <1>1
  <1>4. next \in [Instances -> Nat] /\ next[i] = x /\ \A j \in Instances \ {i} : next[j] = made[j]
    BY <1>3
  <1>5. InStep(s, i, x)
    BY <1>2, <1>3
  <1>6. x = made[i] + (s.admitted - r.admitted)
    OBVIOUS
  <1> HIDE DEF x, next
  <1>7. Tally(next) = s.admitted
    <2>1. Tally(next) = Tally(made) - made[i] + next[i]
      BY <1>4, InstancesFinite, TallyChanges
    <2> QED BY <1>1, <1>2, <1>3, <1>4, <1>6, <2>1
  <1>8. ASSUME NEW j \in Instances PROVE InStep(s, j, next[j])
    <2>1. CASE j = i
      BY <1>4, <1>5, <2>1
    <2>2. CASE j # i
      <3>1. InStep(r, j, made[j]) /\ next[j] = made[j] /\ made[j] \in Nat
        BY <1>2, <1>4, <2>2
      <3>2. /\ s.delta[j] = r.delta[j] /\ s.flying[j] = r.flying[j]
            /\ s.known[j] = r.known[j] /\ s.told[j] = r.told[j]
            /\ j \in s.answered <=> j \in r.answered
            /\ r.delta[j] \in Nat /\ r.flying[j] \in Nat
        BY <2>2 DEF OneMoves, CellShape
      <3> QED BY <1>1, <3>1, <3>2 DEF InStep
    <2> QED BY <2>1, <2>2
  <1> QED BY <1>4, <1>7, <1>8 DEF Paced

(* What a step of one instance has to show of a key.                       *)
Carries(r, s, i) ==
    /\ OneMoves(r, s, i)
    /\ s.admitted + r.counted + r.lost + r.late + r.delta[i] + r.flying[i]
         = r.admitted + s.counted + s.lost + s.late + s.delta[i] + s.flying[i]
    /\ r.counted + r.lost <= s.counted + s.lost
    /\ s.known[i] <= s.counted + s.lost /\ s.told[i] <= s.counted + s.lost
InPace(r, s, i) ==
    /\ s.late = 0 /\ s.lost = 0 /\ r.counted <= s.counted /\ r.admitted <= s.admitted
    /\ \A m \in Nat : InStep(r, i, m) => InStep(s, i, m + (s.admitted - r.admitted))

LEMMA KeySteps ==
    ASSUME QuotaTypeOK, NEW k \in Keys, KeyInv(k), NEW i \in Instances,
           NEW s, s = CellOf(k)', quotaWindow' = quotaWindow, disturbed \subseteq disturbed',
           Carries(CellOf(k), s, i), ~Live(k) => admitted'[k] = admitted[k],
           Live(k) /\ k \notin disturbed' /\ Paced(CellOf(k)) => InPace(CellOf(k), s, i)
    PROVE  KeyInv(k)'
  <1> DEFINE r == CellOf(k)
  <1>1. OneMoves(r, s, i)
    BY DEF Carries
  <1>2. CountedOnce(s) /\ ToldWhatIs(s)
    <2> HIDE DEF r
    <2>1. CountedOnce(r) /\ ToldWhatIs(r)
      BY DEF KeyInv, r
    <2>2. CountedOnce(s)
      BY <1>1, <2>1, OneCounted DEF Carries, r
    <2>3. ToldWhatIs(s)
      BY <1>1, <2>1, OneTold DEF Carries, r
    <2> QED BY <2>2, <2>3
  <1>3. Live(k) /\ k \notin disturbed' => Paced(s)
    <2> SUFFICES ASSUME Live(k), k \notin disturbed' PROVE Paced(s)
      OBVIOUS
    <2>1. Paced(r)
      BY DEF KeyInv
    <2> HIDE DEF r
    <2> QED BY <1>1, <2>1, OnePaced DEF InPace, r
  <1>4. s.admitted = admitted'[k]
    BY DEF CellOf
  <1>5. k[2] > quotaWindow => admitted'[k] = 0
    <2>1. k[2] \in 0..LastWindow /\ quotaWindow \in Nat
      BY DEF Keys, QuotaTypeOK
    <2>2. Live(k) => ~(k[2] > quotaWindow)
      BY <2>1 DEF Live
    <2> QED BY <2>2 DEF KeyInv
  <1>6. k \in disturbed' \/ admitted'[k] <= 2 * Allowance * Cardinality(Instances)
    <2>1. CASE Live(k)
      BY <1>3, <1>4, <2>1, PaceBounds
    <2>2. CASE ~Live(k)
      BY <2>2 DEF KeyInv
    <2> QED BY <2>1, <2>2
  <1>7. Live(k)' <=> Live(k)
    BY DEF Live
  <1>8. /\ CountedOnce(CellOf(k)') /\ ToldWhatIs(CellOf(k)')
        /\ Live(k) /\ k \notin disturbed' => Paced(CellOf(k)')
    BY <1>2, <1>3
  <1> QED BY <1>5, <1>6, <1>7, <1>8 DEF KeyInv
-----------------------------------------------------------------------------
(* What the other steps are shown from, in figures of one counter and one  *)
(* poll.                                                                   *)
Pace(c, q, k, counted, made) ==
    LET own == c.delta[k] + q.deltas[k]
    IN  /\ own <= made /\ made <= 2 * Allowance
        /\ c.delta[k] <= Allowance /\ q.deltas[k] <= Allowance
        /\ made <= own + counted
        /\ q.stage # "answered" => made <= own + c.aggregate[k]
        /\ q.stage = "answered" => /\ made <= own + c.aggregate[k] + Allowance
                                   /\ made <= own + q.totals[k]
KeyMoves(k, c, q, d, p) ==
    /\ admitted'[k] + (usage[k] + pending[k]) + lost[k] + late[k] + c.delta[k] + q.deltas[k]
         = admitted[k] + (usage'[k] + pending'[k]) + lost'[k] + late'[k] + d.delta[k] + p.deltas[k]
    /\ (usage[k] + pending[k]) + lost[k] <= (usage'[k] + pending'[k]) + lost'[k]
    /\ d.aggregate[k] <= (usage'[k] + pending'[k]) + lost'[k]
    /\ p.totals[k] <= (usage'[k] + pending'[k]) + lost'[k]
    /\ ~Live(k) => admitted'[k] = admitted[k]
    /\ Live(k) /\ k \notin disturbed' /\ late[k] = 0 /\ lost[k] = 0 =>
          /\ late'[k] = 0 /\ lost'[k] = 0 /\ admitted[k] <= admitted'[k]
          /\ usage[k] + pending[k] <= usage'[k] + pending'[k]
          /\ \A m \in Nat : Pace(c, q, k, usage[k] + pending[k], m)
                => Pace(d, p, k, usage'[k] + pending'[k], m + (admitted'[k] - admitted[k]))

LEMMA CellPace ==
    ASSUME NEW k \in Keys, NEW i \in Instances, NEW m
    PROVE  InStep(CellOf(k), i, m) <=> Pace(counters[i], qpoll[i], k, usage[k] + pending[k], m)
  <1> DEFINE r == CellOf(k)
  <1>1. /\ r.delta[i] = counters[i].delta[k] /\ r.flying[i] = qpoll[i].deltas[k]
        /\ r.known[i] = counters[i].aggregate[k] /\ r.told[i] = qpoll[i].totals[k]
        /\ r.counted = usage[k] + pending[k]
        /\ i \in r.answered <=> qpoll[i].stage = "answered"
    BY DEF CellOf
  <1> HIDE DEF r
  <1> QED BY <1>1 DEF InStep, Pace, r

(* A step of instance i that leaves it with counters d and poll p.         *)
LEMMA OneStep ==
    ASSUME QInv, NEW i \in Instances, NEW d, Tidy(d), NEW p, PollHolds(p),
           counters' = [counters EXCEPT ![i] = d], qpoll' = [qpoll EXCEPT ![i] = p],
           quotaWindow' = quotaWindow,
           late' \in Counts, pending' \in Counts, usage' \in Counts,
           admitted' \in Counts, lost' \in Counts,
           Cardinality({k \in Keys : pending'[k] > 0}) <= MaxEntries,
           newer' \subseteq {k \in Keys : usage'[k] > 0} \X {k \in Keys : usage'[k] > 0},
           mishaps' \in 0..MaxMishaps, disturbed \subseteq disturbed', disturbed' \subseteq Keys,
           \A k \in Keys : KeyMoves(k, counters[i], qpoll[i], d, p)
    PROVE  QInv'
  <1>1. QuotaTypeOK /\ \A j \in Instances : Tidy(counters[j]) /\ PollHolds(qpoll[j])
    BY DEF QInv
  <1>2. /\ counters \in [Instances -> CounterShape] /\ qpoll \in [Instances -> PollShape]
        /\ d \in CounterShape /\ p \in PollShape
    BY <1>1 DEF QuotaTypeOK, CounterShape, PollShape, Tidy, PollHolds
  <1>3. /\ counters' \in [Instances -> CounterShape] /\ qpoll' \in [Instances -> PollShape]
        /\ counters'[i] = d /\ qpoll'[i] = p
        /\ \A j \in Instances \ {i} : counters'[j] = counters[j] /\ qpoll'[j] = qpoll[j]
    BY <1>2
  <1>4. ASSUME NEW j \in Instances PROVE Tidy(counters'[j]) /\ PollHolds(qpoll'[j])
    BY <1>1, <1>3
  <1>5. QuotaTypeOK'
    <2>1. quotaWindow' \in 0..LastWindow
      BY <1>1 DEF QuotaTypeOK
    <2>2. \A j \in Instances : Len(counters'[j].order) <= MaxKeys
      BY <1>4 DEF Tidy
    <2>3. {late', pending', usage', admitted', lost'} \subseteq Counts
      OBVIOUS
    <2> QED BY <1>3, <2>1, <2>2, <2>3 DEF QuotaTypeOK, CounterShape, PollShape
  <1>6. ASSUME NEW k \in Keys PROVE KeyInv(k)'
    <2> DEFINE r == CellOf(k)
               s == CellOf(k)'
    <2>1. r \in CellShape /\ s \in CellShape
      <3>1. r \in CellShape
        BY <1>1, QuotaCells
      <3>2. ASSUME NEW j \in Instances
            PROVE  /\ counters'[j].delta[k] \in Nat /\ counters'[j].aggregate[k] \in Nat
                   /\ qpoll'[j].deltas[k] \in Nat /\ qpoll'[j].totals[k] \in Nat
        BY <1>3 DEF CounterShape, PollShape, Counts
      <3>3. /\ late'[k] \in Nat /\ pending'[k] \in Nat /\ usage'[k] \in Nat
            /\ admitted'[k] \in Nat /\ lost'[k] \in Nat
        BY DEF Counts
      <3>4. usage'[k] + pending'[k] \in Nat
        BY <3>3
      <3>5. s \in CellShape
        BY <3>2, <3>3, <3>4 DEF CellOf, CellShape
      <3> QED BY <3>1, <3>5
    <2>2. /\ r.admitted = admitted[k] /\ r.counted = usage[k] + pending[k]
          /\ r.lost = lost[k] /\ r.late = late[k]
          /\ s.admitted = admitted'[k] /\ s.counted = usage'[k] + pending'[k]
          /\ s.lost = lost'[k] /\ s.late = late'[k]
      BY DEF CellOf
    <2>3. ASSUME NEW j \in Instances
          PROVE  /\ r.delta[j] = counters[j].delta[k] /\ r.flying[j] = qpoll[j].deltas[k]
                 /\ r.known[j] = counters[j].aggregate[k] /\ r.told[j] = qpoll[j].totals[k]
                 /\ s.delta[j] = counters'[j].delta[k] /\ s.flying[j] = qpoll'[j].deltas[k]
                 /\ s.known[j] = counters'[j].aggregate[k] /\ s.told[j] = qpoll'[j].totals[k]
                 /\ j \in r.answered <=> qpoll[j].stage = "answered"
                 /\ j \in s.answered <=> qpoll'[j].stage = "answered"
      BY DEF CellOf
    <2>4. \A m : InStep(r, i, m) <=> Pace(counters[i], qpoll[i], k, usage[k] + pending[k], m)
      BY CellPace
    <2>5. \A m : InStep(s, i, m) <=> Pace(d, p, k, usage'[k] + pending'[k], m)
      <3> HIDE DEF s
      <3> QED BY <1>3, <2>2, <2>3 DEF InStep, Pace
    <2>6. KeyInv(k) /\ KeyMoves(k, counters[i], qpoll[i], d, p)
      BY DEF QInv
    <2> HIDE DEF s
    <2>7. OneMoves(r, s, i)
      <3> HIDE DEF r
      <3> QED BY <1>3, <2>1, <2>3 DEF OneMoves
    <2>8. Carries(r, s, i)
      <3> HIDE DEF r
      <3> QED BY <1>3, <2>2, <2>3, <2>6, <2>7 DEF Carries, KeyMoves
    <2>9. Live(k) /\ k \notin disturbed' /\ Paced(r) => InPace(r, s, i)
      <3> SUFFICES ASSUME Live(k), k \notin disturbed', Paced(r) PROVE InPace(r, s, i)
        OBVIOUS
      <3>1. late[k] = 0 /\ lost[k] = 0
        <4> HIDE DEF r
        <4> QED BY <2>2 DEF Paced
      <3>2. /\ late'[k] = 0 /\ lost'[k] = 0 /\ admitted[k] <= admitted'[k]
            /\ usage[k] + pending[k] <= usage'[k] + pending'[k]
            /\ \A m \in Nat : Pace(counters[i], qpoll[i], k, usage[k] + pending[k], m)
                => Pace(d, p, k, usage'[k] + pending'[k], m + (admitted'[k] - admitted[k]))
        BY <2>6, <3>1 DEF KeyMoves
      <3> HIDE DEF r
      <3> QED BY <2>2, <2>4, <2>5, <3>2 DEF InPace
    <2> QED BY <1>1, <2>2, <2>6, <2>8, <2>9, KeySteps DEF s, KeyMoves
  <1> QED BY <1>4, <1>5, <1>6 DEF QInv

-----------------------------------------------------------------------------
(* The figures the steps are made of.                                      *)
LEMMA SumCounts ==
    ASSUME NEW f \in Counts, NEW g \in Counts
    PROVE  f ++ g \in Counts /\ \A k \in Keys : (f ++ g)[k] = f[k] + g[k]
  BY DEF Counts, ++

LEMMA ZeroCounts == Zero \in Counts /\ \A k \in Keys : Zero[k] = 0
  BY DEF Counts, Zero

LEMMA KeysFinite == IsFiniteSet(Keys)
  <1>1. IsFiniteSet(Consumers) /\ LastWindow \in Nat
    BY QuotaAssumption DEF QuotaAssumption
  <1>2. IsFiniteSet(0..LastWindow)
    BY <1>1, FS_Interval
  <1> QED BY <1>1, <1>2, FS_Product DEF Keys

LEMMA UpToHolds ==
    ASSUME NEW S, NEW n, NEW T \in UpTo(S, n)
    PROVE  T \subseteq S /\ (n \in Nat => Cardinality(T) <= n)
  <1>1. CASE Cardinality(S) <= n
    BY <1>1 DEF UpTo
  <1>2. CASE ~(Cardinality(S) <= n)
    <2>1. T \in SUBSET S /\ Cardinality(T) = n
      BY <1>2 DEF UpTo
    <2> QED BY <2>1
  <1> QED BY <1>1, <1>2

LEMMA QuotaParts ==
    ASSUME QInv
    PROVE  /\ late \in Counts /\ pending \in Counts /\ usage \in Counts /\ admitted \in Counts /\ lost \in Counts
           /\ disturbed \subseteq Keys /\ mishaps \in 0..MaxMishaps /\ quotaWindow \in 0..LastWindow
           /\ Cardinality({k \in Keys : pending[k] > 0}) <= MaxEntries
           /\ newer \subseteq {k \in Keys : usage[k] > 0} \X {k \in Keys : usage[k] > 0}
           /\ \A i \in Instances :
                 /\ Tidy(counters[i]) /\ PollHolds(qpoll[i])
                 /\ counters = [counters EXCEPT ![i] = counters[i]]
                 /\ qpoll = [qpoll EXCEPT ![i] = qpoll[i]]
                 /\ counters[i].delta \in Counts /\ counters[i].aggregate \in Counts
                 /\ qpoll[i].deltas \in Counts /\ qpoll[i].totals \in Counts
  <1>1. QuotaTypeOK
    BY DEF QInv
  <1>2. counters \in [Instances -> CounterShape] /\ qpoll \in [Instances -> PollShape]
    BY <1>1 DEF QuotaTypeOK, CounterShape, PollShape
  <1>3. ASSUME NEW i \in Instances
        PROVE  /\ counters = [counters EXCEPT ![i] = counters[i]]
               /\ qpoll = [qpoll EXCEPT ![i] = qpoll[i]]
               /\ counters[i].delta \in Counts /\ counters[i].aggregate \in Counts
               /\ qpoll[i].deltas \in Counts /\ qpoll[i].totals \in Counts
    BY <1>2 DEF CounterShape, PollShape
  <1> QED BY <1>1, <1>3 DEF QInv, QuotaTypeOK

LEMMA KeyNumbers ==
    ASSUME QInv, NEW k \in Keys
    PROVE  /\ late[k] \in Nat /\ pending[k] \in Nat /\ usage[k] \in Nat /\ admitted[k] \in Nat /\ lost[k] \in Nat
           /\ \A i \in Instances :
                 /\ counters[i].delta[k] \in Nat /\ counters[i].aggregate[k] \in Nat
                 /\ qpoll[i].deltas[k] \in Nat /\ qpoll[i].totals[k] \in Nat
                 /\ counters[i].aggregate[k] <= usage[k] + pending[k] + lost[k]
                 /\ qpoll[i].totals[k] <= usage[k] + pending[k] + lost[k]
  <1>1. \A f \in Counts : f[k] \in Nat
    BY DEF Counts
  <1>2. ToldWhatIs(CellOf(k))
    BY DEF QInv, KeyInv
  <1>3. \A i \in Instances : /\ counters[i].aggregate[k] <= usage[k] + pending[k] + lost[k]
                             /\ qpoll[i].totals[k] <= usage[k] + pending[k] + lost[k]
    BY <1>2 DEF ToldWhatIs, CellOf
  <1>4. /\ late \in Counts /\ pending \in Counts /\ usage \in Counts /\ admitted \in Counts /\ lost \in Counts
        /\ \A i \in Instances : /\ counters[i].delta \in Counts /\ counters[i].aggregate \in Counts
                                /\ qpoll[i].deltas \in Counts /\ qpoll[i].totals \in Counts
    BY QuotaParts
  <1> QED BY <1>1, <1>3, <1>4

(* What an operation on the counters forgot is what has gone from them,    *)
(* and an open window it was forgotten of is disturbed.                    *)
LEMMA GoneHolds ==
    ASSUME NEW c, Tidy(c), NEW d, Tidy(d),
           \A k \in Keys : d.delta[k] = c.delta[k] \/ (d.delta[k] = 0 /\ Has(c, k))
    PROVE  /\ Gone(c, d) \in Counts /\ Forgotten(c, d) \subseteq Keys
           /\ \A k \in Keys : Gone(c, d)[k] + d.delta[k] = c.delta[k]
           /\ \A k \in Keys : Live(k) /\ k \notin Forgotten(c, d) =>
                 d.delta[k] = c.delta[k] /\ Gone(c, d)[k] = 0 /\ (Has(c, k) => Has(d, k))
  <1>1. \A k \in Keys : c.delta[k] \in Nat /\ d.delta[k] \in Nat /\ c.delta[k] - d.delta[k] \in Nat
    <2>1. c.delta \in Counts /\ d.delta \in Counts
      BY DEF Tidy, CounterShape
    <2>2. \A k \in Keys : c.delta[k] \in Nat /\ d.delta[k] \in Nat
      BY <2>1 DEF Counts
    <2> QED BY <2>2
  <1>2. \A k \in Keys : Gone(c, d)[k] = c.delta[k] - d.delta[k]
    BY DEF Gone
  <1>3. Gone(c, d) \in Counts
    BY <1>1 DEF Gone, Counts
  <1>4. ASSUME NEW k \in Keys, Live(k), k \notin Forgotten(c, d)
        PROVE  d.delta[k] = c.delta[k] /\ Gone(c, d)[k] = 0 /\ (Has(c, k) => Has(d, k))
    <2>1. ~(Has(c, k) /\ (~Has(d, k) \/ d.delta[k] < c.delta[k]))
      BY <1>4 DEF Forgotten
    <2>2. d.delta[k] = c.delta[k]
      BY <1>1, <2>1
    <2> QED BY <1>1, <1>2, <2>1, <2>2
  <1>5. \A k \in Keys : Gone(c, d)[k] + d.delta[k] = c.delta[k]
    BY <1>1, <1>2
  <1>6. Forgotten(c, d) \subseteq Keys
    BY DEF Forgotten
  <1> QED BY <1>3, <1>4, <1>5, <1>6

LEMMA SetDelta ==
    ASSUME NEW c, Tidy(c), NEW k \in Keys, Has(c, k)
    PROVE  LET d == [c EXCEPT !.delta[k] = @ + 1]
           IN  /\ Tidy(d) /\ d.aggregate = c.aggregate
               /\ \A j \in Keys : d.delta[j] = IF j = k THEN c.delta[k] + 1 ELSE c.delta[j]
  <1> DEFINE d == [c EXCEPT !.delta[k] = @ + 1]
  <1>1. c \in CounterShape /\ c.delta \in Counts /\ c.aggregate \in Counts
    BY DEF Tidy, CounterShape
  <1>2. /\ d.order = c.order /\ d.aggregate = c.aggregate /\ d.delta = [c.delta EXCEPT ![k] = @ + 1]
        /\ d = [order |-> d.order, delta |-> d.delta, aggregate |-> d.aggregate]
    BY <1>1 DEF CounterShape
  <1> HIDE DEF d
  <1>3. d.delta \in Counts /\ \A j \in Keys : d.delta[j] = IF j = k THEN c.delta[k] + 1 ELSE c.delta[j]
    BY <1>1, <1>2 DEF Counts
  <1>4. d \in CounterShape
    BY <1>1, <1>2, <1>3 DEF CounterShape
  <1>5. Tidy(d)
    BY <1>2, <1>3, <1>4 DEF Tidy, Has
  <1> QED BY <1>2, <1>3, <1>5 DEF d

-----------------------------------------------------------------------------
(* The steps of one instance.                                              *)
LEMMA QuotaCheckStep ==
    ASSUME QInv, NEW i \in Instances, NEW s \in Consumers, QuotaCheck(i, s)
    PROVE  QInv'
  <1> DEFINE k == <<s, quotaWindow>>
             b == counters[i]
             c == Touched(b, k)
             ok == c.aggregate[k] + c.delta[k] < Allowance
             e == [c EXCEPT !.delta[k] = @ + 1]
             d == IF ok THEN e ELSE c
             p == qpoll[i]
  <1>1. /\ counters' = [counters EXCEPT ![i] = d]
        /\ admitted' = IF ok THEN [admitted EXCEPT ![k] = @ + 1] ELSE admitted
        /\ lost' = lost ++ Gone(b, c)
        /\ disturbed' = disturbed \cup Forgotten(b, c)
        /\ UNCHANGED <<quotaWindow, qpoll, late, pending, usage, newer, mishaps>>
    BY DEF QuotaCheck
  <1>2. k \in Keys /\ Live(k)
    BY QuotaParts DEF Keys, Live
  <1>3. Tidy(b) /\ PollHolds(p) /\ qpoll' = [qpoll EXCEPT ![i] = p]
    BY <1>1, QuotaParts
  <1>4. /\ Tidy(c) /\ Has(c, k) /\ c.delta[k] = b.delta[k] /\ c.aggregate[k] = b.aggregate[k]
        /\ \A j \in Keys \ {k} : SameOrGone(b, c, j)
    BY <1>2, <1>3, TouchedHolds
  <1> HIDE DEF k, c
  <1>5. /\ Tidy(e) /\ e.aggregate = c.aggregate
        /\ \A j \in Keys : e.delta[j] = IF j = k THEN c.delta[k] + 1 ELSE c.delta[j]
    BY <1>2, <1>4, SetDelta
  <1>6. /\ Tidy(d) /\ d.aggregate = c.aggregate
        /\ \A j \in Keys : d.delta[j] = IF j = k /\ ok THEN c.delta[k] + 1 ELSE c.delta[j]
    BY <1>4, <1>5
  <1>7. \A j \in Keys : c.delta[j] = b.delta[j] \/ (c.delta[j] = 0 /\ Has(b, j))
    BY <1>4 DEF SameOrGone
  <1>8. /\ Gone(b, c) \in Counts /\ Forgotten(b, c) \subseteq Keys
        /\ \A j \in Keys : Gone(b, c)[j] + c.delta[j] = b.delta[j]
        /\ \A j \in Keys : Live(j) /\ j \notin Forgotten(b, c) =>
              c.delta[j] = b.delta[j] /\ Gone(b, c)[j] = 0 /\ (Has(b, j) => Has(c, j))
    BY <1>3, <1>4, <1>7, GoneHolds
  <1>9. lost' \in Counts /\ \A j \in Keys : lost'[j] = lost[j] + Gone(b, c)[j]
    BY <1>1, <1>8, QuotaParts, SumCounts
  <1>10. /\ admitted' \in Counts
         /\ \A j \in Keys : admitted'[j] = IF j = k /\ ok THEN admitted[j] + 1 ELSE admitted[j]
    <2>1. admitted \in Counts
      BY QuotaParts
    <2>2. /\ [admitted EXCEPT ![k] = @ + 1] \in Counts
          /\ \A j \in Keys : [admitted EXCEPT ![k] = @ + 1][j] = IF j = k THEN admitted[j] + 1 ELSE admitted[j]
      BY <1>2, <2>1 DEF Counts
    <2> QED BY <1>1, <2>1, <2>2
  <1> HIDE DEF e
  <1>10a. counters' = [counters EXCEPT ![i] = d]
    BY <1>1
  <1> HIDE DEF d
  <1>11. ASSUME NEW j \in Keys PROVE KeyMoves(j, b, p, d, p)
    <2>1. /\ late[j] \in Nat /\ pending[j] \in Nat /\ usage[j] \in Nat /\ admitted[j] \in Nat /\ lost[j] \in Nat
          /\ b.delta[j] \in Nat /\ b.aggregate[j] \in Nat /\ p.deltas[j] \in Nat /\ p.totals[j] \in Nat
          /\ b.aggregate[j] <= usage[j] + pending[j] + lost[j]
          /\ p.totals[j] <= usage[j] + pending[j] + lost[j]
      BY KeyNumbers
    <2>2. Gone(b, c)[j] \in Nat /\ c.delta[j] \in Nat
      BY <1>4, <1>8 DEF Counts, Tidy, CounterShape
    <2>3. usage'[j] = usage[j] /\ pending'[j] = pending[j] /\ late'[j] = late[j]
      BY <1>1
    <2>4. d.aggregate[j] = b.aggregate[j] \/ (d.aggregate[j] = 0 /\ Has(b, j) /\ ~Has(c, j))
      BY <1>4, <1>6 DEF SameOrGone
    <2>5. Allowance \in Nat
      BY InstancesFinite
    <2>6. Gone(b, c)[j] + c.delta[j] = b.delta[j]
      BY <1>8
    <2>7. p.stage = "answered" => p.deltas[j] = 0
      BY <1>3, ZeroCounts DEF PollHolds
    <2>8. CASE j = k /\ ok
      <3>1. /\ d.delta[j] = c.delta[j] + 1 /\ admitted'[j] = admitted[j] + 1 /\ c.delta[j] = b.delta[j]
            /\ d.aggregate[j] = b.aggregate[j] /\ lost'[j] = lost[j] /\ b.aggregate[j] + b.delta[j] < Allowance
        <4>1. Gone(b, c)[j] = 0
          BY <1>4, <2>1, <2>2, <2>6, <2>8
        <4> QED BY <1>4, <1>6, <1>9, <1>10, <2>1, <2>8, <4>1
      <3>2. ASSUME NEW m \in Nat, Pace(b, p, j, usage[j] + pending[j], m)
            PROVE  Pace(d, p, j, usage'[j] + pending'[j], m + (admitted'[j] - admitted[j]))
        <4>1. m + (admitted'[j] - admitted[j]) = m + 1 /\ usage'[j] + pending'[j] = usage[j] + pending[j]
          BY <2>1, <2>3, <3>1
        <4>2. d.delta[j] = b.delta[j] + 1
          BY <3>1
        <4> DEFINE n == usage[j] + pending[j]
        <4>3. n \in Nat
          BY <2>1
        <4> HIDE DEF n, b, p, ok
        <4>4. Pace(b, p, j, n, m)
          BY <3>2 DEF n
        <4>5. Pace(d, p, j, n, m + 1)
          BY <2>1, <2>5, <2>7, <3>1, <4>2, <4>3, <4>4 DEF Pace
        <4> QED BY <4>1, <4>5 DEF n
      <3>3. Live(j)
        BY <1>2, <2>8
      <3> QED BY <2>1, <2>3, <3>1, <3>2, <3>3 DEF KeyMoves
    <2>9. CASE ~(j = k /\ ok)
      <3>1. /\ d.delta[j] = c.delta[j] /\ admitted'[j] = admitted[j] /\ lost'[j] = lost[j] + Gone(b, c)[j]
        BY <1>6, <1>9, <1>10, <2>9
      <3>2. ASSUME Live(j), j \notin disturbed'
            PROVE  d.delta[j] = b.delta[j] /\ d.aggregate[j] = b.aggregate[j] /\ Gone(b, c)[j] = 0
        BY <1>1, <1>8, <2>4, <3>1, <3>2
      <3>3. ASSUME Live(j), j \notin disturbed', NEW m \in Nat, Pace(b, p, j, usage[j] + pending[j], m)
            PROVE  Pace(d, p, j, usage'[j] + pending'[j], m + (admitted'[j] - admitted[j]))
        <4>1. m + (admitted'[j] - admitted[j]) = m
          BY <2>1, <3>1
        <4>2. usage'[j] + pending'[j] = usage[j] + pending[j]
          BY <2>3
        <4>3. d.delta[j] = b.delta[j] /\ d.aggregate[j] = b.aggregate[j]
          BY <3>2, <3>3
        <4>4. Pace(d, p, j, usage[j] + pending[j], m)
          <5> HIDE DEF b, p, ok
          <5> QED BY <3>3, <4>3 DEF Pace
        <4> QED BY <4>1, <4>2, <4>4
      <3> QED BY <2>1, <2>2, <2>3, <2>4, <2>6, <3>1, <3>2, <3>3 DEF KeyMoves
    <2> QED BY <2>8, <2>9
  <1>12. disturbed \subseteq disturbed' /\ disturbed' \subseteq Keys
    BY <1>1, <1>8, QuotaParts
  <1>13. /\ quotaWindow' = quotaWindow /\ late' \in Counts /\ pending' \in Counts /\ usage' \in Counts
         /\ Cardinality({j \in Keys : pending'[j] > 0}) <= MaxEntries
         /\ newer' \subseteq {j \in Keys : usage'[j] > 0} \X {j \in Keys : usage'[j] > 0}
         /\ mishaps' \in 0..MaxMishaps
    BY <1>1, QuotaParts
  <1> QED BY <1>3, <1>6, <1>9, <1>10, <1>10a, <1>11, <1>12, <1>13, OneStep

LEMMA QuotaSendStep ==
    ASSUME QInv, NEW i \in Instances, QuotaSend(i)
    PROVE  QInv'
  <1> DEFINE c == counters[i]
             q == qpoll[i]
             S == {k \in Keys : counters[i].delta[k] > 0}
  <1>1. PICK T \in UpTo(S, MaxEntries) :
          /\ qpoll' = [qpoll EXCEPT ![i] = [stage |-> "sent", deltas |-> Reporting(counters[i], T),
                                        told |-> {}, totals |-> Zero]]
          /\ counters' = [counters EXCEPT ![i] = Taken(@, T)]
    BY DEF QuotaSend
  <1>2. q.stage = "idle" /\ UNCHANGED <<quotaWindow, late, pending, usage, newer, mishaps, admitted, lost, disturbed>>
    BY DEF QuotaSend
  <1> DEFINE d == Taken(c, T)
             p == [stage |-> "sent", deltas |-> Reporting(c, T), told |-> {}, totals |-> Zero]
  <1>3. counters' = [counters EXCEPT ![i] = d] /\ qpoll' = [qpoll EXCEPT ![i] = p]
    BY <1>1
  <1>4. Tidy(c) /\ c \in CounterShape /\ c.delta \in Counts /\ PollHolds(q)
    BY QuotaParts DEF Tidy
  <1>5. /\ d.order = c.order /\ d.aggregate = c.aggregate /\ d.delta = [k \in Keys |-> IF k \in T THEN 0 ELSE c.delta[k]]
        /\ d = [order |-> d.order, delta |-> d.delta, aggregate |-> d.aggregate]
    BY <1>4 DEF Taken, CounterShape
  <1>6. /\ p.stage = "sent" /\ p.deltas = [k \in Keys |-> IF k \in T THEN c.delta[k] ELSE 0]
        /\ p.told = {} /\ p.totals = Zero
        /\ p = [stage |-> p.stage, deltas |-> p.deltas, told |-> p.told, totals |-> p.totals]
    BY DEF Reporting
  <1> HIDE DEF d, p
  <1>7. d.delta \in Counts /\ p.deltas \in Counts
    BY <1>4, <1>5, <1>6 DEF Counts
  <1>8. Tidy(d)
    <2>1. d \in CounterShape
      BY <1>4, <1>5, <1>7 DEF CounterShape
    <2> QED BY <1>4, <1>5, <2>1 DEF Tidy, Has
  <1>9. PollHolds(p)
    <2>1. p \in PollShape
      BY <1>6, <1>7, ZeroCounts DEF PollShape
    <2> QED BY <1>6, <2>1, ZeroCounts DEF PollHolds
  <1>10. ASSUME NEW j \in Keys PROVE KeyMoves(j, c, q, d, p)
    <2>1. /\ late[j] \in Nat /\ pending[j] \in Nat /\ usage[j] \in Nat /\ admitted[j] \in Nat /\ lost[j] \in Nat
          /\ c.delta[j] \in Nat /\ c.aggregate[j] \in Nat /\ q.deltas[j] \in Nat /\ q.totals[j] \in Nat
          /\ c.aggregate[j] <= usage[j] + pending[j] + lost[j]
      BY KeyNumbers
    <2>2. UNCHANGED <<usage, pending, late, lost, admitted>>
      BY <1>2
    <2>3. q.deltas[j] = 0 /\ p.totals[j] = 0 /\ d.aggregate[j] = c.aggregate[j]
      BY <1>2, <1>4, <1>5, <1>6, ZeroCounts DEF PollHolds
    <2>4. \/ d.delta[j] = 0 /\ p.deltas[j] = c.delta[j]
          \/ d.delta[j] = c.delta[j] /\ p.deltas[j] = 0
      BY <1>5, <1>6
    <2>5. Allowance \in Nat
      BY InstancesFinite
    <2>6. ASSUME NEW m \in Nat, Pace(c, q, j, usage[j] + pending[j], m)
          PROVE  Pace(d, p, j, usage'[j] + pending'[j], m + (admitted'[j] - admitted[j]))
      <3>1. m + (admitted'[j] - admitted[j]) = m
        BY <2>1, <2>2
      <3> HIDE DEF c, q
      <3> QED BY <1>2, <1>6, <2>1, <2>2, <2>3, <2>4, <2>5, <2>6, <3>1 DEF Pace
    <2> HIDE DEF c, q
    <2> QED BY <2>1, <2>2, <2>3, <2>4, <2>6 DEF KeyMoves
  <1>11. /\ quotaWindow' = quotaWindow /\ late' \in Counts /\ pending' \in Counts /\ usage' \in Counts
         /\ admitted' \in Counts /\ lost' \in Counts
         /\ Cardinality({j \in Keys : pending'[j] > 0}) <= MaxEntries
         /\ newer' \subseteq {j \in Keys : usage'[j] > 0} \X {j \in Keys : usage'[j] > 0}
         /\ mishaps' \in 0..MaxMishaps /\ disturbed \subseteq disturbed' /\ disturbed' \subseteq Keys
    BY <1>2, QuotaParts
  <1> QED BY <1>3, <1>8, <1>9, <1>10, <1>11, OneStep

LEMMA FitsHolds ==
    ASSUME QInv, NEW d \in Counts, NEW fitting \in Fits(d)
    PROVE  /\ Accepted(d, fitting) \in Counts /\ Dropped(d, fitting) \in Counts
           /\ Cardinality({k \in Keys : Accepted(d, fitting)[k] > 0}) <= MaxEntries
           /\ \A k \in Keys : /\ Accepted(d, fitting)[k] + Dropped(d, fitting)[k] = pending[k] + d[k]
                              /\ pending[k] <= Accepted(d, fitting)[k]
  <1> DEFINE X == {k \in Keys : d[k] > 0} \ Entries
             n == MaxEntries - Cardinality(Entries)
  <1>1. PICK S \in UpTo(X, n) : fitting = Entries \cup S
    BY DEF Fits
  <1>2. IsFiniteSet(Entries) /\ Cardinality(Entries) <= MaxEntries /\ Entries \subseteq Keys
    <2>1. Entries \subseteq Keys
      BY DEF Entries
    <2>2. Cardinality(Entries) <= MaxEntries
      BY QuotaParts DEF Entries
    <2> QED BY <2>1, <2>2, KeysFinite, FS_Subset
  <1>3. n \in Nat /\ Cardinality(Entries) \in Nat /\ MaxEntries \in Nat
    BY <1>2, FS_CardinalityType, QuotaAssumption DEF QuotaAssumption
  <1>4. S \subseteq X /\ Cardinality(S) <= n
    <2> HIDE DEF X, n
    <2> QED BY <1>1, <1>3, UpToHolds
  <1>5. IsFiniteSet(S) /\ Cardinality(S) \in Nat
    <2>1. S \subseteq Keys
      BY <1>4
    <2> QED BY <2>1, KeysFinite, FS_Subset, FS_CardinalityType
  <1>6. fitting \subseteq Keys /\ IsFiniteSet(fitting) /\ Cardinality(fitting) <= MaxEntries
    <2>1. Cardinality(Entries \cup S) = Cardinality(Entries) + Cardinality(S) - Cardinality(Entries \cap S)
      BY <1>2, <1>5, FS_Union
    <2>2. Entries \cap S = {}
      BY <1>4
    <2>3. Cardinality(Entries \cap S) = 0
      BY <2>2, FS_EmptySet
    <2>4. IsFiniteSet(Entries \cup S)
      BY <1>2, <1>5, FS_Union
    <2> HIDE DEF X
    <2>5. Cardinality(Entries \cup S) <= MaxEntries
      BY <1>3, <1>4, <1>5, <2>1, <2>3
    <2>6. S \subseteq Keys
      BY <1>4 DEF X
    <2> QED BY <1>1, <1>2, <2>4, <2>5, <2>6
  <1>7. \A k \in Keys : pending[k] \in Nat /\ d[k] \in Nat /\ (k \notin fitting => pending[k] = 0)
    <2>1. \A k \in Keys : pending[k] \in Nat /\ d[k] \in Nat
      BY QuotaParts DEF Counts
    <2>2. \A k \in Keys : k \notin fitting => ~(pending[k] > 0)
      BY <1>1 DEF Entries
    <2> QED BY <2>1, <2>2
  <1>8. \A k \in Keys : /\ Accepted(d, fitting)[k] = IF k \in fitting THEN pending[k] + d[k] ELSE 0
                        /\ Dropped(d, fitting)[k] = IF k \in fitting THEN 0 ELSE d[k]
    BY DEF Accepted, Dropped
  <1>9. Accepted(d, fitting) \in Counts /\ Dropped(d, fitting) \in Counts
    <2>1. \A k \in Keys : pending[k] + d[k] \in Nat
      BY <1>7
    <2> QED BY <1>7, <2>1 DEF Accepted, Dropped, Counts
  <1>10. {k \in Keys : Accepted(d, fitting)[k] > 0} \subseteq fitting
    BY <1>8
  <1>11. Cardinality({k \in Keys : Accepted(d, fitting)[k] > 0}) <= MaxEntries
    <2> DEFINE Y == {k \in Keys : Accepted(d, fitting)[k] > 0}
    <2>1. Y \subseteq fitting
      BY <1>10
    <2> HIDE DEF Y
    <2>2. Cardinality(Y) <= Cardinality(fitting) /\ Cardinality(Y) \in Nat /\ Cardinality(fitting) \in Nat
      BY <1>6, <2>1, FS_Subset, FS_CardinalityType
    <2>3. Cardinality(Y) <= MaxEntries
      BY <1>3, <1>6, <2>2
    <2> QED BY <2>3 DEF Y
  <1>12. ASSUME NEW k \in Keys
         PROVE  /\ Accepted(d, fitting)[k] + Dropped(d, fitting)[k] = pending[k] + d[k]
                /\ pending[k] <= Accepted(d, fitting)[k]
    BY <1>7, <1>8
  <1> QED BY <1>9, <1>11, <1>12

LEMMA AnsweredHolds ==
    ASSUME QInv, NEW p \in Counts, NEW a \in Answered(p)
    PROVE  /\ a.told \in SUBSET Keys /\ a.totals \in Counts
           /\ \A k \in Keys : /\ a.totals[k] <= usage[k] + p[k]
                              /\ k \notin a.told => a.totals[k] = 0
  <1>1. PICK R \in RowsRead : a \in AnsweredFrom({k \in R : Live(k)}, p)
    BY DEF Answered
  <1> DEFINE rows == {k \in R : Live(k)}
             X == {k \in Keys : p[k] > 0} \ rows
  <1>2. PICK S \in UpTo(X, MaxEntries - Cardinality(rows)) :
             a = [told |-> rows \cup S,
                  totals |-> [k \in Keys |-> (IF k \in rows THEN usage[k] ELSE 0)
                                             + (IF k \in rows \cup S THEN p[k] ELSE 0)]]
    <2> HIDE DEF rows
    <2>1. a \in AnsweredFrom(rows, p)
      BY <1>1 DEF rows
    <2> QED BY <2>1 DEF AnsweredFrom
  <1>3. rows \subseteq Keys
    <2>1. R \subseteq Rows
      BY UpToHolds DEF RowsRead
    <2> QED BY <2>1 DEF Rows
  <1>4. S \subseteq Keys
    <2>1. S \subseteq X
      <3> HIDE DEF X, rows
      <3> QED BY <1>2, UpToHolds
    <2> QED BY <2>1
  <1> HIDE DEF rows, X
  <1>5. \A k \in Keys : usage[k] \in Nat /\ p[k] \in Nat
    BY QuotaParts DEF Counts
  <1>6. a.told = rows \cup S /\ a.totals = [k \in Keys |-> (IF k \in rows THEN usage[k] ELSE 0)
                                             + (IF k \in rows \cup S THEN p[k] ELSE 0)]
    BY <1>2
  <1>7. \A k \in Keys : a.totals[k] = (IF k \in rows THEN usage[k] ELSE 0)
                                      + (IF k \in rows \cup S THEN p[k] ELSE 0)
    BY <1>6
  <1>8. ASSUME NEW k \in Keys
        PROVE  a.totals[k] \in Nat /\ a.totals[k] <= usage[k] + p[k] /\ (k \notin a.told => a.totals[k] = 0)
    BY <1>5, <1>6, <1>7
  <1>9. a.totals \in Counts
    BY <1>6, <1>8 DEF Counts
  <1> QED BY <1>3, <1>4, <1>6, <1>8, <1>9

LEMMA QuotaIntakeStep ==
    ASSUME QInv, NEW i \in Instances, QuotaIntake(i)
    PROVE  QInv'
  <1> DEFINE c == counters[i]
             q == qpoll[i]
  <1>1. PICK fitting \in Fits(q.deltas) : \E a \in Answered(Accepted(q.deltas, fitting)) :
             /\ pending' = Accepted(q.deltas, fitting)
             /\ lost' = lost ++ Dropped(q.deltas, fitting)
             /\ qpoll' = [qpoll EXCEPT ![i] = [stage |-> "answered", deltas |-> Zero,
                                               told |-> a.told, totals |-> a.totals]]
             /\ disturbed' = disturbed \cup Withheld(Accepted(q.deltas, fitting), a)
                                       \cup {k \in Keys : Dropped(q.deltas, fitting)[k] > 0}
    BY DEF QuotaIntake
  <1> DEFINE x == Accepted(q.deltas, fitting)
             gone == Dropped(q.deltas, fitting)
  <1>2. PICK a \in Answered(x) :
             /\ pending' = x
             /\ lost' = lost ++ gone
             /\ qpoll' = [qpoll EXCEPT ![i] = [stage |-> "answered", deltas |-> Zero,
                                               told |-> a.told, totals |-> a.totals]]
             /\ disturbed' = disturbed \cup Withheld(x, a) \cup {k \in Keys : gone[k] > 0}
    BY <1>1
  <1>3. q.stage = "sent" /\ UNCHANGED <<quotaWindow, counters, late, usage, newer, mishaps, admitted>>
    BY DEF QuotaIntake
  <1>4. /\ Tidy(c) /\ PollHolds(q) /\ q.deltas \in Counts
        /\ counters' = [counters EXCEPT ![i] = c]
    BY <1>3, QuotaParts
  <1> DEFINE p == [stage |-> "answered", deltas |-> Zero, told |-> a.told, totals |-> a.totals]
  <1>5. qpoll' = [qpoll EXCEPT ![i] = p]
    BY <1>2
  <1>6. /\ x \in Counts /\ gone \in Counts
        /\ Cardinality({k \in Keys : x[k] > 0}) <= MaxEntries
        /\ \A k \in Keys : x[k] + gone[k] = pending[k] + q.deltas[k] /\ pending[k] <= x[k]
    BY <1>1, <1>4, FitsHolds
  <1> HIDE DEF x, gone
  <1>7. /\ a.told \in SUBSET Keys /\ a.totals \in Counts
        /\ \A k \in Keys : a.totals[k] <= usage[k] + x[k] /\ (k \notin a.told => a.totals[k] = 0)
    BY <1>6, AnsweredHolds
  <1>8. /\ p \in PollShape /\ p.stage = "answered" /\ p.deltas = Zero
        /\ p.told = a.told /\ p.totals = a.totals
    BY <1>7, ZeroCounts DEF PollShape
  <1> HIDE DEF p
  <1>9. PollHolds(p)
    BY <1>7, <1>8 DEF PollHolds
  <1>10. lost' \in Counts /\ \A k \in Keys : lost'[k] = lost[k] + gone[k]
    BY <1>2, <1>6, QuotaParts, SumCounts
  <1>11. ASSUME NEW j \in Keys PROVE KeyMoves(j, c, q, c, p)
    <2>1. /\ late[j] \in Nat /\ pending[j] \in Nat /\ usage[j] \in Nat /\ admitted[j] \in Nat /\ lost[j] \in Nat
          /\ c.delta[j] \in Nat /\ c.aggregate[j] \in Nat /\ q.deltas[j] \in Nat
          /\ c.aggregate[j] <= usage[j] + pending[j] + lost[j]
      BY KeyNumbers
    <2>2. usage'[j] = usage[j] /\ late'[j] = late[j] /\ admitted'[j] = admitted[j] /\ pending'[j] = x[j]
      BY <1>2, <1>3
    <2>3. /\ x[j] \in Nat /\ gone[j] \in Nat /\ p.totals[j] \in Nat
          /\ x[j] + gone[j] = pending[j] + q.deltas[j] /\ pending[j] <= x[j]
          /\ p.totals[j] <= usage[j] + x[j] /\ p.deltas[j] = 0 /\ p.stage = "answered"
          /\ lost'[j] = lost[j] + gone[j]
      BY <1>6, <1>7, <1>8, <1>10, ZeroCounts DEF Counts
    <2>4. Live(j) /\ j \notin disturbed' => gone[j] = 0 /\ p.totals[j] >= usage[j] + x[j]
      <3> SUFFICES ASSUME Live(j), j \notin disturbed' PROVE gone[j] = 0 /\ p.totals[j] >= usage[j] + x[j]
        OBVIOUS
      <3>1. j \notin Withheld(x, a) /\ ~(gone[j] > 0)
        BY <1>2
      <3>2. ~(a.totals[j] < usage[j] + x[j])
        BY <3>1 DEF Withheld
      <3> QED BY <1>8, <2>1, <2>3, <3>1, <3>2
    <2>5. Allowance \in Nat /\ q.stage = "sent"
      BY <1>3, InstancesFinite
    <2> HIDE DEF c, q
    <2>6. ASSUME Live(j), j \notin disturbed', NEW m \in Nat, Pace(c, q, j, usage[j] + pending[j], m)
          PROVE  Pace(c, p, j, usage'[j] + pending'[j], m + (admitted'[j] - admitted[j]))
      <3>1. m + (admitted'[j] - admitted[j]) = m
        BY <2>1, <2>2
      <3>2. gone[j] = 0 /\ p.totals[j] >= usage[j] + x[j] /\ x[j] = pending[j] + q.deltas[j]
        BY <2>1, <2>3, <2>4, <2>6
      <3>3. Pace(c, p, j, usage[j] + x[j], m)
        BY <2>1, <2>3, <2>5, <2>6, <3>2 DEF Pace
      <3> QED BY <2>2, <3>1, <3>3
    <2>7. Live(j) /\ j \notin disturbed' /\ lost[j] = 0 => lost'[j] = 0
      BY <2>1, <2>3, <2>4
    <2>8. /\ admitted'[j] + (usage[j] + pending[j]) + lost[j] + late[j] + c.delta[j] + q.deltas[j]
               = admitted[j] + (usage'[j] + pending'[j]) + lost'[j] + late'[j] + c.delta[j] + p.deltas[j]
          /\ (usage[j] + pending[j]) + lost[j] <= (usage'[j] + pending'[j]) + lost'[j]
          /\ c.aggregate[j] <= (usage'[j] + pending'[j]) + lost'[j]
          /\ p.totals[j] <= (usage'[j] + pending'[j]) + lost'[j]
          /\ usage[j] + pending[j] <= usage'[j] + pending'[j] /\ admitted[j] <= admitted'[j]
      BY <2>1, <2>2, <2>3
    <2> QED BY <2>2, <2>6, <2>7, <2>8 DEF KeyMoves
  <1>12. disturbed \subseteq disturbed' /\ disturbed' \subseteq Keys
    <2>1. Withheld(x, a) \subseteq Keys
      BY DEF Withheld
    <2> QED BY <1>2, <2>1, QuotaParts
  <1>13. /\ quotaWindow' = quotaWindow /\ late' \in Counts /\ pending' \in Counts /\ usage' \in Counts
         /\ admitted' \in Counts
         /\ newer' \subseteq {j \in Keys : usage'[j] > 0} \X {j \in Keys : usage'[j] > 0}
         /\ mishaps' \in 0..MaxMishaps
    BY <1>2, <1>3, <1>6, QuotaParts
  <1>14. Cardinality({j \in Keys : pending'[j] > 0}) <= MaxEntries
    BY <1>2, <1>6
  <1> QED BY <1>4, <1>5, <1>9, <1>10, <1>11, <1>12, <1>13, <1>14, OneStep

LEMMA QuotaApplyStep ==
    ASSUME QInv, NEW i \in Instances, QuotaApply(i)
    PROVE  QInv'
  <1> DEFINE c == counters[i]
             q == qpoll[i]
  <1>1. PICK order \in SetToSeqs(q.told) :
          LET d == ApplyAggregates(c, q.totals, order)
          IN  /\ counters' = [counters EXCEPT ![i] = d]
              /\ lost' = lost ++ Gone(c, d)
              /\ disturbed' = disturbed \cup Forgotten(c, d)
                                \cup {k \in q.told : Live(k) /\ ~Has(d, k)}
    BY DEF QuotaApply
  <1> DEFINE d == ApplyAggregates(c, q.totals, order)
             p == NoPoll
  <1>2. /\ counters' = [counters EXCEPT ![i] = d]
        /\ lost' = lost ++ Gone(c, d)
        /\ disturbed' = disturbed \cup Forgotten(c, d) \cup {k \in q.told : Live(k) /\ ~Has(d, k)}
    BY <1>1
  <1>3. /\ q.stage = "answered" /\ qpoll' = [qpoll EXCEPT ![i] = p]
        /\ UNCHANGED <<quotaWindow, late, pending, usage, newer, mishaps, admitted>>
    BY DEF QuotaApply
  <1>4. Tidy(c) /\ PollHolds(q) /\ q \in PollShape /\ q.totals \in Counts /\ q.told \in SUBSET Keys
    BY QuotaParts DEF PollHolds, PollShape
  <1>5. Knows(c, d, q.totals, q.told)
    <2>1. IsFiniteSet(q.told)
      BY <1>4, KeysFinite, FS_Subset
    <2> HIDE DEF c, q
    <2> QED BY <1>1, <1>4, <2>1, AppliesHolds
  <1> HIDE DEF d
  <1>6. /\ Tidy(d)
        /\ \A k \in Keys :
             /\ d.delta[k] = c.delta[k] \/ (d.delta[k] = 0 /\ Has(c, k))
             /\ d.aggregate[k] \in {0, c.aggregate[k], q.totals[k]}
             /\ k \in q.told /\ Has(d, k) => d.aggregate[k] = q.totals[k]
    BY <1>5 DEF Knows
  <1>7. /\ Gone(c, d) \in Counts /\ Forgotten(c, d) \subseteq Keys
        /\ \A j \in Keys : Gone(c, d)[j] + d.delta[j] = c.delta[j]
        /\ \A j \in Keys : Live(j) /\ j \notin Forgotten(c, d) =>
              d.delta[j] = c.delta[j] /\ Gone(c, d)[j] = 0 /\ (Has(c, j) => Has(d, j))
    BY <1>4, <1>6, GoneHolds
  <1>8. lost' \in Counts /\ \A j \in Keys : lost'[j] = lost[j] + Gone(c, d)[j]
    BY <1>2, <1>7, QuotaParts, SumCounts
  <1>9. /\ p.stage = "idle" /\ p.deltas = Zero /\ p.totals = Zero /\ PollHolds(p)
    BY ZeroCounts DEF NoPoll, PollHolds, PollShape
  <1> HIDE DEF p
  <1>10. ASSUME NEW j \in Keys PROVE KeyMoves(j, c, q, d, p)
    <2>1. /\ late[j] \in Nat /\ pending[j] \in Nat /\ usage[j] \in Nat /\ admitted[j] \in Nat /\ lost[j] \in Nat
          /\ c.delta[j] \in Nat /\ c.aggregate[j] \in Nat /\ q.deltas[j] \in Nat /\ q.totals[j] \in Nat
          /\ c.aggregate[j] <= usage[j] + pending[j] + lost[j]
          /\ q.totals[j] <= usage[j] + pending[j] + lost[j]
      BY KeyNumbers
    <2>2. usage'[j] = usage[j] /\ late'[j] = late[j] /\ admitted'[j] = admitted[j] /\ pending'[j] = pending[j]
      BY <1>3
    <2>3. /\ Gone(c, d)[j] \in Nat /\ d.delta[j] \in Nat
          /\ Gone(c, d)[j] + d.delta[j] = c.delta[j] /\ lost'[j] = lost[j] + Gone(c, d)[j]
          /\ q.deltas[j] = 0 /\ p.deltas[j] = 0 /\ p.totals[j] = 0
          /\ d.aggregate[j] = 0 \/ d.aggregate[j] = c.aggregate[j] \/ d.aggregate[j] = q.totals[j]
      <3>1. d.delta \in Counts
        BY <1>6 DEF Tidy, CounterShape
      <3>2. q.deltas[j] = 0 /\ p.deltas[j] = 0 /\ p.totals[j] = 0
        BY <1>3, <1>4, <1>9, ZeroCounts DEF PollHolds
      <3> HIDE DEF c, q
      <3> QED BY <1>6, <1>7, <1>8, <3>1, <3>2 DEF Counts
    <2>4. Live(j) /\ j \notin disturbed' =>
             /\ d.delta[j] = c.delta[j] /\ Gone(c, d)[j] = 0
             /\ q.totals[j] = 0 \/ d.aggregate[j] = q.totals[j]
      <3> SUFFICES ASSUME Live(j), j \notin disturbed'
                   PROVE  /\ d.delta[j] = c.delta[j] /\ Gone(c, d)[j] = 0
                          /\ q.totals[j] = 0 \/ d.aggregate[j] = q.totals[j]
        OBVIOUS
      <3>1. j \notin Forgotten(c, d) /\ (j \in q.told => Has(d, j))
        BY <1>2
      <3>2. j \notin q.told => q.totals[j] = 0
        BY <1>4 DEF PollHolds
      <3> HIDE DEF c, q
      <3> QED BY <1>6, <1>7, <3>1, <3>2
    <2>5. Allowance \in Nat /\ q.stage = "answered" /\ p.stage = "idle"
      BY <1>3, <1>9, InstancesFinite
    <2> HIDE DEF c, q
    <2>6. ASSUME Live(j), j \notin disturbed', NEW m \in Nat, Pace(c, q, j, usage[j] + pending[j], m)
          PROVE  Pace(d, p, j, usage'[j] + pending'[j], m + (admitted'[j] - admitted[j]))
      <3>1. m + (admitted'[j] - admitted[j]) = m
        BY <2>1, <2>2
      <3>2. d.delta[j] = c.delta[j] /\ (q.totals[j] = 0 \/ d.aggregate[j] = q.totals[j])
        BY <2>4, <2>6
      <3>3. d.aggregate[j] \in Nat
        BY <2>1, <2>3
      <3>4. Pace(d, p, j, usage[j] + pending[j], m)
        BY <2>1, <2>3, <2>5, <2>6, <3>2, <3>3 DEF Pace
      <3> QED BY <2>2, <3>1, <3>4
    <2>7. Live(j) /\ j \notin disturbed' /\ lost[j] = 0 => lost'[j] = 0
      BY <2>1, <2>3, <2>4
    <2>8. /\ admitted'[j] + (usage[j] + pending[j]) + lost[j] + late[j] + c.delta[j] + q.deltas[j]
               = admitted[j] + (usage'[j] + pending'[j]) + lost'[j] + late'[j] + d.delta[j] + p.deltas[j]
          /\ (usage[j] + pending[j]) + lost[j] <= (usage'[j] + pending'[j]) + lost'[j]
          /\ d.aggregate[j] <= (usage'[j] + pending'[j]) + lost'[j]
          /\ p.totals[j] <= (usage'[j] + pending'[j]) + lost'[j]
          /\ usage[j] + pending[j] <= usage'[j] + pending'[j] /\ admitted[j] <= admitted'[j]
      BY <2>1, <2>2, <2>3
    <2> QED BY <2>2, <2>6, <2>7, <2>8 DEF KeyMoves
  <1>11. disturbed \subseteq disturbed' /\ disturbed' \subseteq Keys
    BY <1>2, <1>4, <1>7, QuotaParts
  <1>12. /\ quotaWindow' = quotaWindow /\ late' \in Counts /\ pending' \in Counts /\ usage' \in Counts
         /\ admitted' \in Counts
         /\ Cardinality({j \in Keys : pending'[j] > 0}) <= MaxEntries
         /\ newer' \subseteq {j \in Keys : usage'[j] > 0} \X {j \in Keys : usage'[j] > 0}
         /\ mishaps' \in 0..MaxMishaps
    BY <1>3, QuotaParts
  <1> QED BY <1>2, <1>3, <1>6, <1>8, <1>9, <1>10, <1>11, <1>12, OneStep

LEMMA QuotaSweepStep ==
    ASSUME QInv, NEW i \in Instances, QuotaSweep(i)
    PROVE  QInv'
  <1> DEFINE c == counters[i]
             q == qpoll[i]
             d == Swept(c)
  <1>1. counters' = [counters EXCEPT ![i] = d] /\ lost' = lost ++ Gone(c, d)
    BY DEF QuotaSweep
  <1>2. UNCHANGED <<quotaWindow, qpoll, late, pending, usage, newer, mishaps, admitted, disturbed>>
    BY DEF QuotaSweep
  <1>3. Tidy(c) /\ PollHolds(q) /\ qpoll' = [qpoll EXCEPT ![i] = q]
    BY <1>2, QuotaParts
  <1>4. /\ Tidy(d)
        /\ \A k \in Keys : IF Live(k) THEN SameOrGone(c, d, k) /\ (Has(c, k) => Has(d, k))
                           ELSE d.delta[k] = 0 /\ d.aggregate[k] = 0
    BY <1>3, SweptHolds
  <1> HIDE DEF d
  <1>5. \A k \in Keys : /\ d.delta[k] = c.delta[k] \/ (d.delta[k] = 0 /\ Has(c, k))
                        /\ d.aggregate[k] = c.aggregate[k] \/ d.aggregate[k] = 0
    <2> SUFFICES ASSUME NEW k \in Keys
                 PROVE  /\ d.delta[k] = c.delta[k] \/ (d.delta[k] = 0 /\ Has(c, k))
                        /\ d.aggregate[k] = c.aggregate[k] \/ d.aggregate[k] = 0
      OBVIOUS
    <2>1. CASE Live(k)
      BY <1>4, <2>1 DEF SameOrGone
    <2>2. CASE ~Live(k)
      <3>1. ~Has(c, k) => c.delta[k] = 0
        BY <1>3 DEF Tidy
      <3> QED BY <1>4, <2>2, <3>1
    <2> QED BY <2>1, <2>2
  <1>6. /\ Gone(c, d) \in Counts
        /\ \A j \in Keys : Gone(c, d)[j] + d.delta[j] = c.delta[j]
    BY <1>3, <1>4, <1>5, GoneHolds
  <1>7. lost' \in Counts /\ \A j \in Keys : lost'[j] = lost[j] + Gone(c, d)[j]
    BY <1>1, <1>6, QuotaParts, SumCounts
  <1>8. \A k \in Keys : Live(k) => d.delta[k] = c.delta[k] /\ d.aggregate[k] = c.aggregate[k]
    BY <1>4 DEF SameOrGone
  <1>9. ASSUME NEW j \in Keys PROVE KeyMoves(j, c, q, d, q)
    <2>1. /\ late[j] \in Nat /\ pending[j] \in Nat /\ usage[j] \in Nat /\ admitted[j] \in Nat /\ lost[j] \in Nat
          /\ c.delta[j] \in Nat /\ c.aggregate[j] \in Nat /\ q.deltas[j] \in Nat /\ q.totals[j] \in Nat
          /\ c.aggregate[j] <= usage[j] + pending[j] + lost[j]
          /\ q.totals[j] <= usage[j] + pending[j] + lost[j]
      BY KeyNumbers
    <2>2. usage'[j] = usage[j] /\ late'[j] = late[j] /\ admitted'[j] = admitted[j] /\ pending'[j] = pending[j]
      BY <1>2
    <2>3. /\ Gone(c, d)[j] \in Nat /\ d.delta[j] \in Nat
          /\ Gone(c, d)[j] + d.delta[j] = c.delta[j] /\ lost'[j] = lost[j] + Gone(c, d)[j]
          /\ d.aggregate[j] = 0 \/ d.aggregate[j] = c.aggregate[j]
      <3>1. d.delta \in Counts
        BY <1>4 DEF Tidy, CounterShape
      <3> HIDE DEF c, q
      <3> QED BY <1>5, <1>6, <1>7, <3>1 DEF Counts
    <2>4. Live(j) => d.delta[j] = c.delta[j] /\ d.aggregate[j] = c.aggregate[j] /\ Gone(c, d)[j] = 0
      BY <1>8, <2>1, <2>3
    <2> HIDE DEF c, q
    <2>5. ASSUME Live(j), NEW m \in Nat, Pace(c, q, j, usage[j] + pending[j], m)
          PROVE  Pace(d, q, j, usage'[j] + pending'[j], m + (admitted'[j] - admitted[j]))
      <3>1. m + (admitted'[j] - admitted[j]) = m
        BY <2>1, <2>2
      <3> QED BY <2>2, <2>4, <2>5, <3>1 DEF Pace
    <2>6. Live(j) /\ lost[j] = 0 => lost'[j] = 0
      BY <2>1, <2>3, <2>4
    <2>7. /\ admitted'[j] + (usage[j] + pending[j]) + lost[j] + late[j] + c.delta[j] + q.deltas[j]
               = admitted[j] + (usage'[j] + pending'[j]) + lost'[j] + late'[j] + d.delta[j] + q.deltas[j]
          /\ (usage[j] + pending[j]) + lost[j] <= (usage'[j] + pending'[j]) + lost'[j]
          /\ d.aggregate[j] <= (usage'[j] + pending'[j]) + lost'[j]
          /\ q.totals[j] <= (usage'[j] + pending'[j]) + lost'[j]
          /\ usage[j] + pending[j] <= usage'[j] + pending'[j] /\ admitted[j] <= admitted'[j]
      BY <2>1, <2>2, <2>3
    <2> QED BY <2>2, <2>5, <2>6, <2>7 DEF KeyMoves
  <1>10. /\ quotaWindow' = quotaWindow /\ late' \in Counts /\ pending' \in Counts /\ usage' \in Counts
         /\ admitted' \in Counts
         /\ Cardinality({j \in Keys : pending'[j] > 0}) <= MaxEntries
         /\ newer' \subseteq {j \in Keys : usage'[j] > 0} \X {j \in Keys : usage'[j] > 0}
         /\ mishaps' \in 0..MaxMishaps /\ disturbed \subseteq disturbed' /\ disturbed' \subseteq Keys
    BY <1>2, QuotaParts
  <1> QED BY <1>1, <1>3, <1>4, <1>7, <1>9, <1>10, OneStep

(* A poll that comes to nothing, and the counters that go with it if the   *)
(* process does.                                                           *)
LEMMA PollGone ==
    ASSUME QInv, NEW i \in Instances, NEW d, Tidy(d), Mishap,
           counters' = [counters EXCEPT ![i] = d], qpoll' = [qpoll EXCEPT ![i] = NoPoll],
           UNCHANGED <<quotaWindow, pending, usage, newer, admitted>>,
           late' \in Counts, lost' \in Counts, disturbed' \subseteq Keys,
           disturbed \cup Unsaid(i) \subseteq disturbed',
           \A k \in Keys :
              /\ \/ d.delta[k] = counters[i].delta[k] /\ d.aggregate[k] = counters[i].aggregate[k]
                 \/ d.delta[k] = 0 /\ d.aggregate[k] = 0 /\ (Has(counters[i], k) => k \in disturbed')
              /\ lost[k] <= lost'[k] /\ late[k] <= late'[k]
              /\ lost'[k] + late'[k] + d.delta[k]
                   = lost[k] + late[k] + counters[i].delta[k] + qpoll[i].deltas[k]
    PROVE  QInv'
  <1> DEFINE c == counters[i]
             q == qpoll[i]
             p == NoPoll
  <1>1. Tidy(c) /\ PollHolds(q)
    BY QuotaParts
  <1>2. p.stage = "idle" /\ p.deltas = Zero /\ p.totals = Zero /\ PollHolds(p)
    BY ZeroCounts DEF NoPoll, PollHolds, PollShape
  <1>3. qpoll' = [qpoll EXCEPT ![i] = p]
    OBVIOUS
  <1> HIDE DEF p
  <1>4. ASSUME NEW j \in Keys PROVE KeyMoves(j, c, q, d, p)
    <2>1. /\ late[j] \in Nat /\ pending[j] \in Nat /\ usage[j] \in Nat /\ admitted[j] \in Nat /\ lost[j] \in Nat
          /\ c.delta[j] \in Nat /\ c.aggregate[j] \in Nat /\ q.deltas[j] \in Nat /\ q.totals[j] \in Nat
          /\ c.aggregate[j] <= usage[j] + pending[j] + lost[j]
      BY KeyNumbers
    <2>2. usage'[j] = usage[j] /\ admitted'[j] = admitted[j] /\ pending'[j] = pending[j]
      OBVIOUS
    <2>3. /\ d.delta[j] \in Nat /\ late'[j] \in Nat /\ lost'[j] \in Nat /\ d.aggregate[j] \in Nat
          /\ p.deltas[j] = 0 /\ p.totals[j] = 0
      BY <1>2, ZeroCounts DEF Counts, Tidy, CounterShape
    <2>4. /\ \/ d.delta[j] = c.delta[j] /\ d.aggregate[j] = c.aggregate[j]
             \/ d.delta[j] = 0 /\ d.aggregate[j] = 0
          /\ lost[j] <= lost'[j] /\ late[j] <= late'[j]
          /\ lost'[j] + late'[j] + d.delta[j] = lost[j] + late[j] + c.delta[j] + q.deltas[j]
      OBVIOUS
    <2>5. Live(j) /\ j \notin disturbed' =>
             /\ q.deltas[j] = 0 /\ q.totals[j] <= c.aggregate[j]
             /\ d.delta[j] = c.delta[j] /\ d.aggregate[j] = c.aggregate[j]
      <3> SUFFICES ASSUME j \notin disturbed'
                   PROVE  /\ q.deltas[j] = 0 /\ q.totals[j] <= c.aggregate[j]
                          /\ d.delta[j] = c.delta[j] /\ d.aggregate[j] = c.aggregate[j]
        OBVIOUS
      <3>1. ~(q.deltas[j] > 0 \/ q.totals[j] > c.aggregate[j])
        BY DEF Unsaid
      <3>2. ~Has(c, j) => c.delta[j] = 0 /\ c.aggregate[j] = 0
        BY <1>1 DEF Tidy
      <3>3. d.delta[j] = c.delta[j] /\ d.aggregate[j] = c.aggregate[j]
        BY <3>2
      <3> QED BY <2>1, <3>1, <3>3
    <2> HIDE DEF c, q
    <2>6. Allowance \in Nat
      BY InstancesFinite
    <2>7. ASSUME Live(j), j \notin disturbed', NEW m \in Nat, Pace(c, q, j, usage[j] + pending[j], m)
          PROVE  Pace(d, p, j, usage'[j] + pending'[j], m + (admitted'[j] - admitted[j]))
      <3>1. m + (admitted'[j] - admitted[j]) = m
        BY <2>1, <2>2
      <3>2. Pace(d, p, j, usage[j] + pending[j], m)
        BY <1>2, <2>1, <2>3, <2>5, <2>6, <2>7 DEF Pace
      <3> QED BY <2>2, <3>1, <3>2
    <2>8. Live(j) /\ j \notin disturbed' /\ late[j] = 0 /\ lost[j] = 0 => late'[j] = 0 /\ lost'[j] = 0
      <3> SUFFICES ASSUME Live(j), j \notin disturbed', late[j] = 0, lost[j] = 0
                   PROVE  late'[j] = 0 /\ lost'[j] = 0
        OBVIOUS
      <3>1. lost'[j] + late'[j] + d.delta[j] = d.delta[j]
        BY <2>1, <2>3, <2>4, <2>5
      <3> QED BY <2>3, <3>1
    <2>9. /\ admitted'[j] + (usage[j] + pending[j]) + lost[j] + late[j] + c.delta[j] + q.deltas[j]
               = admitted[j] + (usage'[j] + pending'[j]) + lost'[j] + late'[j] + d.delta[j] + p.deltas[j]
          /\ (usage[j] + pending[j]) + lost[j] <= (usage'[j] + pending'[j]) + lost'[j]
          /\ d.aggregate[j] <= (usage'[j] + pending'[j]) + lost'[j]
          /\ p.totals[j] <= (usage'[j] + pending'[j]) + lost'[j]
          /\ usage[j] + pending[j] <= usage'[j] + pending'[j] /\ admitted[j] <= admitted'[j]
      BY <2>1, <2>2, <2>3, <2>4
    <2> QED BY <2>2, <2>7, <2>8, <2>9 DEF KeyMoves
  <1>5. mishaps' \in 0..MaxMishaps
    <2>1. mishaps \in 0..MaxMishaps /\ MaxMishaps \in Nat
      BY QuotaParts, QuotaAssumption DEF QuotaAssumption
    <2> QED BY <2>1 DEF Mishap
  <1>6. /\ quotaWindow' = quotaWindow /\ pending' \in Counts /\ usage' \in Counts
        /\ admitted' \in Counts
        /\ Cardinality({j \in Keys : pending'[j] > 0}) <= MaxEntries
        /\ newer' \subseteq {j \in Keys : usage'[j] > 0} \X {j \in Keys : usage'[j] > 0}
        /\ disturbed \subseteq disturbed'
    BY QuotaParts
  <1> QED BY <1>2, <1>3, <1>4, <1>5, <1>6, OneStep

LEMMA PollFailsStep ==
    ASSUME QInv, NEW i \in Instances, PollFails(i)
    PROVE  QInv'
  <1> DEFINE d == counters[i]
  <1>1. /\ Mishap /\ lost' = lost ++ qpoll[i].deltas /\ disturbed' = disturbed \cup Unsaid(i)
        /\ qpoll' = [qpoll EXCEPT ![i] = NoPoll]
        /\ UNCHANGED <<quotaWindow, counters, late, pending, usage, newer, admitted>>
    BY DEF PollFails
  <1>2. lost' \in Counts /\ late' \in Counts /\ \A k \in Keys : lost'[k] = lost[k] + qpoll[i].deltas[k]
    BY <1>1, QuotaParts, SumCounts
  <1>3. Tidy(d) /\ counters' = [counters EXCEPT ![i] = d]
    BY <1>1, QuotaParts
  <1>4. disturbed' \subseteq Keys
    BY <1>1, QuotaParts DEF Unsaid
  <1>5. ASSUME NEW k \in Keys
        PROVE  /\ d.delta[k] = counters[i].delta[k] /\ d.aggregate[k] = counters[i].aggregate[k]
               /\ lost[k] <= lost'[k] /\ late[k] <= late'[k]
               /\ lost'[k] + late'[k] + d.delta[k]
                    = lost[k] + late[k] + counters[i].delta[k] + qpoll[i].deltas[k]
    BY <1>1, <1>2, KeyNumbers
  <1>6. /\ Mishap /\ qpoll' = [qpoll EXCEPT ![i] = NoPoll]
        /\ UNCHANGED <<quotaWindow, pending, usage, newer, admitted>>
        /\ disturbed \cup Unsaid(i) \subseteq disturbed'
    BY <1>1
  <1> HIDE DEF d
  <1>7. \A k \in Keys :
          /\ \/ d.delta[k] = counters[i].delta[k] /\ d.aggregate[k] = counters[i].aggregate[k]
             \/ d.delta[k] = 0 /\ d.aggregate[k] = 0 /\ (Has(counters[i], k) => k \in disturbed')
          /\ lost[k] <= lost'[k] /\ late[k] <= late'[k]
          /\ lost'[k] + late'[k] + d.delta[k]
               = lost[k] + late[k] + counters[i].delta[k] + qpoll[i].deltas[k]
    BY <1>5
  <1> QED BY ONLY QInv, i \in Instances, <1>2, <1>3, <1>4, <1>6, <1>7, PollGone

LEMMA PollTimesOutStep ==
    ASSUME QInv, NEW i \in Instances, PollTimesOut(i)
    PROVE  QInv'
  <1> DEFINE d == counters[i]
  <1>1. /\ Mishap /\ late' = late ++ qpoll[i].deltas /\ disturbed' = disturbed \cup Unsaid(i)
        /\ qpoll' = [qpoll EXCEPT ![i] = NoPoll]
        /\ UNCHANGED <<quotaWindow, counters, pending, usage, newer, admitted, lost>>
    BY DEF PollTimesOut
  <1>2. lost' \in Counts /\ late' \in Counts /\ \A k \in Keys : late'[k] = late[k] + qpoll[i].deltas[k]
    BY <1>1, QuotaParts, SumCounts
  <1>3. Tidy(d) /\ counters' = [counters EXCEPT ![i] = d]
    BY <1>1, QuotaParts
  <1>4. disturbed' \subseteq Keys
    BY <1>1, QuotaParts DEF Unsaid
  <1>5. ASSUME NEW k \in Keys
        PROVE  /\ d.delta[k] = counters[i].delta[k] /\ d.aggregate[k] = counters[i].aggregate[k]
               /\ lost[k] <= lost'[k] /\ late[k] <= late'[k]
               /\ lost'[k] + late'[k] + d.delta[k]
                    = lost[k] + late[k] + counters[i].delta[k] + qpoll[i].deltas[k]
    BY <1>1, <1>2, KeyNumbers
  <1>6. /\ Mishap /\ qpoll' = [qpoll EXCEPT ![i] = NoPoll]
        /\ UNCHANGED <<quotaWindow, pending, usage, newer, admitted>>
        /\ disturbed \cup Unsaid(i) \subseteq disturbed'
    BY <1>1
  <1> HIDE DEF d
  <1>7. \A k \in Keys :
          /\ \/ d.delta[k] = counters[i].delta[k] /\ d.aggregate[k] = counters[i].aggregate[k]
             \/ d.delta[k] = 0 /\ d.aggregate[k] = 0 /\ (Has(counters[i], k) => k \in disturbed')
          /\ lost[k] <= lost'[k] /\ late[k] <= late'[k]
          /\ lost'[k] + late'[k] + d.delta[k]
               = lost[k] + late[k] + counters[i].delta[k] + qpoll[i].deltas[k]
    BY <1>5
  <1> QED BY ONLY QInv, i \in Instances, <1>2, <1>3, <1>4, <1>6, <1>7, PollGone

LEMMA InstanceRestartsStep ==
    ASSUME QInv, NEW i \in Instances, InstanceRestarts(i)
    PROVE  QInv'
  <1> DEFINE c == counters[i]
             d == NoCounters
  <1>1. /\ Mishap /\ lost' = lost ++ c.delta /\ late' = late ++ qpoll[i].deltas
        /\ disturbed' = disturbed \cup Unsaid(i) \cup Range(c.order)
        /\ counters' = [counters EXCEPT ![i] = d] /\ qpoll' = [qpoll EXCEPT ![i] = NoPoll]
        /\ UNCHANGED <<quotaWindow, pending, usage, newer, admitted>>
    BY DEF InstanceRestarts
  <1>2. /\ lost' \in Counts /\ \A k \in Keys : lost'[k] = lost[k] + c.delta[k]
        /\ late' \in Counts /\ \A k \in Keys : late'[k] = late[k] + qpoll[i].deltas[k]
    BY <1>1, QuotaParts, SumCounts
  <1>3. Tidy(c)
    BY QuotaParts
  <1>4. d.order = <<>> /\ d.delta = Zero /\ d.aggregate = Zero /\ d \in CounterShape
    <2>1. <<>> \in Seq(Keys)
      BY EmptySeq
    <2> QED BY <2>1, ZeroCounts DEF NoCounters, CounterShape
  <1> HIDE DEF d
  <1>5. Tidy(d)
    <2>1. Len(<<>>) = 0 /\ DOMAIN <<>> = {}
      BY EmptySeq, LenProperties
    <2>2. Distinct(<<>>)
      BY <2>1 DEF Distinct
    <2>3. Len(d.order) <= MaxKeys
      BY <1>4, <2>1, QuotaAssumption DEF QuotaAssumption
    <2> QED BY <1>4, <2>2, <2>3, ZeroCounts DEF Tidy
  <1>6. disturbed' \subseteq Keys
    <2>1. Range(c.order) \subseteq Keys
      <3>1. c.order \in Seq(Keys)
        BY <1>3 DEF Tidy, CounterShape
      <3>2. c.order \in [1..Len(c.order) -> Keys] /\ DOMAIN c.order = 1..Len(c.order)
        BY <3>1, LenProperties
      <3> HIDE DEF c
      <3> QED BY <3>2 DEF Range
    <2> QED BY <1>1, <2>1, QuotaParts DEF Unsaid
  <1>7. ASSUME NEW k \in Keys
        PROVE  /\ d.delta[k] = 0 /\ d.aggregate[k] = 0 /\ (Has(c, k) => k \in disturbed')
               /\ lost[k] <= lost'[k] /\ late[k] <= late'[k]
               /\ lost'[k] + late'[k] + d.delta[k] = lost[k] + late[k] + c.delta[k] + qpoll[i].deltas[k]
    <2>1. d.delta[k] = 0 /\ d.aggregate[k] = 0
      BY <1>4, ZeroCounts
    <2>2. Has(c, k) => k \in disturbed'
      BY <1>1 DEF Has
    <2>3. lost'[k] = lost[k] + c.delta[k] /\ late'[k] = late[k] + qpoll[i].deltas[k]
      BY <1>2
    <2>4. lost[k] \in Nat /\ late[k] \in Nat /\ c.delta[k] \in Nat /\ qpoll[i].deltas[k] \in Nat
      BY KeyNumbers
    <2> QED BY <2>1, <2>2, <2>3, <2>4
  <1>8. disturbed \cup Unsaid(i) \subseteq disturbed'
    BY <1>1
  <1> QED BY <1>1, <1>2, <1>5, <1>6, <1>7, <1>8, PollGone

-----------------------------------------------------------------------------
(* The steps that leave the instances alone: what is on its way to a row   *)
(* moves on, or is lost.                                                   *)
StillMoves(k) ==
    /\ (usage[k] + pending[k]) + lost[k] + late[k] = (usage'[k] + pending'[k]) + lost'[k] + late'[k]
    /\ (usage[k] + pending[k]) + lost[k] <= (usage'[k] + pending'[k]) + lost'[k]
    /\ Live(k) /\ k \notin disturbed' /\ late[k] = 0 /\ lost[k] = 0 =>
          late'[k] = 0 /\ lost'[k] = 0 /\ usage[k] + pending[k] <= usage'[k] + pending'[k]

LEMMA TallyIsNat == ASSUME NEW f \in [Instances -> Nat] PROVE Tally(f) \in Nat
  <1>1. CASE Instances = {}
    <2>1. Tally(f) = 0
      BY <1>1, TallyNothing
    <2> QED BY <2>1
  <1>2. CASE Instances # {}
    <2>1. PICK i \in Instances : TRUE
      BY <1>2
    <2> QED BY <2>1, InstancesFinite, TallyPart
  <1> QED BY <1>1, <1>2

LEMMA StillStep ==
    ASSUME QInv, UNCHANGED <<quotaWindow, counters, qpoll, admitted>>,
           late' \in Counts, pending' \in Counts, usage' \in Counts, lost' \in Counts,
           Cardinality({k \in Keys : pending'[k] > 0}) <= MaxEntries,
           newer' \subseteq {k \in Keys : usage'[k] > 0} \X {k \in Keys : usage'[k] > 0},
           mishaps' \in 0..MaxMishaps, disturbed \subseteq disturbed', disturbed' \subseteq Keys,
           \A k \in Keys : StillMoves(k)
    PROVE  QInv'
  <1>1. QuotaTypeOK'
    <2>1. QuotaTypeOK
      BY DEF QInv
    <2>2. {late', pending', usage', admitted', lost'} \subseteq Counts
      BY QuotaParts
    <2>3. /\ quotaWindow' \in 0..LastWindow
          /\ counters' \in [Instances -> [order : Seq(Keys), delta : Counts, aggregate : Counts]]
          /\ \A i \in Instances : Len(counters'[i].order) <= MaxKeys
          /\ qpoll' \in [Instances -> [stage : {"idle", "sent", "answered"}, deltas : Counts,
                                told : SUBSET Keys, totals : Counts]]
      BY <2>1 DEF QuotaTypeOK
    <2> QED BY <2>2, <2>3 DEF QuotaTypeOK
  <1>2. ASSUME NEW i \in Instances PROVE Tidy(counters'[i]) /\ PollHolds(qpoll'[i])
    BY DEF QInv
  <1>3. ASSUME NEW k \in Keys PROVE KeyInv(k)'
    <2> DEFINE r == CellOf(k)
               s == CellOf(k)'
    <2>1. /\ r.admitted = admitted[k] /\ r.counted = usage[k] + pending[k]
          /\ r.lost = lost[k] /\ r.late = late[k]
          /\ s.admitted = admitted[k] /\ s.counted = usage'[k] + pending'[k]
          /\ s.lost = lost'[k] /\ s.late = late'[k]
          /\ s.delta = r.delta /\ s.flying = r.flying /\ s.known = r.known /\ s.told = r.told
          /\ s.answered = r.answered
      BY DEF CellOf
    <2>2. r \in CellShape
      BY QuotaCells DEF QInv
    <2>3. KeyInv(k) /\ StillMoves(k)
      BY DEF QInv
    <2>4. CountedOnce(r) /\ ToldWhatIs(r) /\ (Live(k) /\ k \notin disturbed => Paced(r))
      BY <2>3 DEF KeyInv
    <2>5. /\ late[k] \in Nat /\ pending[k] \in Nat /\ usage[k] \in Nat /\ lost[k] \in Nat
          /\ late'[k] \in Nat /\ pending'[k] \in Nat /\ usage'[k] \in Nat /\ lost'[k] \in Nat
      BY KeyNumbers DEF Counts
    <2> HIDE DEF r, s
    <2>6. /\ r.delta \in [Instances -> Nat] /\ r.flying \in [Instances -> Nat]
          /\ r.known \in [Instances -> Nat] /\ r.told \in [Instances -> Nat]
          /\ Tally(r.delta) \in Nat /\ Tally(r.flying) \in Nat
          /\ r.counted \in Nat /\ r.lost \in Nat /\ r.late \in Nat
          /\ s.counted \in Nat /\ s.lost \in Nat /\ s.late \in Nat
      <3>1. /\ r.delta \in [Instances -> Nat] /\ r.flying \in [Instances -> Nat]
            /\ r.known \in [Instances -> Nat] /\ r.told \in [Instances -> Nat]
            /\ r.counted \in Nat /\ r.lost \in Nat /\ r.late \in Nat
        BY <2>2 DEF CellShape
      <3>2. Tally(r.delta) \in Nat /\ Tally(r.flying) \in Nat
        BY <3>1, TallyIsNat
      <3> QED BY <2>1, <2>5, <3>1, <3>2
    <2>7. /\ r.counted + r.lost + r.late = s.counted + s.lost + s.late
          /\ r.counted + r.lost <= s.counted + s.lost
      BY <2>1, <2>3 DEF StillMoves
    <2>8. CountedOnce(s)
      <3>1. r.admitted = r.counted + r.lost + r.late + Tally(r.delta) + Tally(r.flying)
        BY <2>4 DEF CountedOnce
      <3>2. s.admitted = s.counted + s.lost + s.late + Tally(r.delta) + Tally(r.flying)
        BY <2>1, <2>6, <2>7, <3>1
      <3> QED BY <2>1, <3>2 DEF CountedOnce
    <2>9. ToldWhatIs(s)
      <3> SUFFICES ASSUME NEW i \in Instances
                   PROVE  s.known[i] <= s.counted + s.lost /\ s.told[i] <= s.counted + s.lost
        BY DEF ToldWhatIs
      <3>1. r.known[i] <= r.counted + r.lost /\ r.told[i] <= r.counted + r.lost
        BY <2>4 DEF ToldWhatIs
      <3>2. r.known[i] \in Nat /\ r.told[i] \in Nat
        BY <2>6
      <3> QED BY <2>1, <2>6, <2>7, <3>1, <3>2
    <2>10. Live(k) /\ k \notin disturbed' => Paced(s)
      <3> SUFFICES ASSUME Live(k), k \notin disturbed' PROVE Paced(s)
        OBVIOUS
      <3>1. Paced(r)
        BY <2>4
      <3>2. r.late = 0 /\ r.lost = 0
        BY <3>1 DEF Paced
      <3>3. s.late = 0 /\ s.lost = 0 /\ r.counted <= s.counted
        BY <2>1, <2>3, <3>2 DEF StillMoves
      <3>4. PICK made \in [Instances -> Nat] :
              Tally(made) = r.admitted /\ \A i \in Instances : InStep(r, i, made[i])
        BY <3>1 DEF Paced
      <3>5. ASSUME NEW i \in Instances PROVE InStep(s, i, made[i])
        <4>1. InStep(r, i, made[i]) /\ made[i] \in Nat /\ r.delta[i] \in Nat /\ r.flying[i] \in Nat
          BY <2>6, <3>4
        <4> QED BY <2>1, <2>6, <3>3, <4>1 DEF InStep
      <3> QED BY <2>1, <3>3, <3>4, <3>5 DEF Paced
    <2>11. /\ k[2] > quotaWindow => admitted[k] = 0
           /\ k \in disturbed \/ admitted[k] <= 2 * Allowance * Cardinality(Instances)
      BY <2>3 DEF KeyInv
    <2>12. Live(k)' <=> Live(k)
      BY DEF Live
    <2>13. /\ CountedOnce(CellOf(k)') /\ ToldWhatIs(CellOf(k)')
           /\ Live(k) /\ k \notin disturbed' => Paced(CellOf(k)')
      BY <2>8, <2>9, <2>10 DEF s
    <2> QED BY <2>11, <2>12, <2>13 DEF KeyInv
  <1> QED BY <1>1, <1>2, <1>3 DEF QInv

LEMMA LateIntakeStep == ASSUME QInv, LateIntake PROVE QInv'
  <1>1. PICK d \in Arrivals : \E fitting \in Fits(d) :
          /\ pending' = Accepted(d, fitting)
          /\ lost' = lost ++ Dropped(d, fitting)
          /\ late' = [k \in Keys |-> late[k] - d[k]]
          /\ UNCHANGED <<quotaWindow, counters, qpoll, usage, newer, mishaps, admitted, disturbed>>
    BY DEF LateIntake
  <1>2. PICK fitting \in Fits(d) :
          /\ pending' = Accepted(d, fitting)
          /\ lost' = lost ++ Dropped(d, fitting)
          /\ late' = [k \in Keys |-> late[k] - d[k]]
          /\ UNCHANGED <<quotaWindow, counters, qpoll, usage, newer, mishaps, admitted, disturbed>>
    BY <1>1
  <1>3. d \in Counts /\ \A k \in Keys : d[k] <= late[k]
    BY DEF Arrivals, Counts
  <1>4. /\ Accepted(d, fitting) \in Counts /\ Dropped(d, fitting) \in Counts
        /\ Cardinality({k \in Keys : Accepted(d, fitting)[k] > 0}) <= MaxEntries
        /\ \A k \in Keys : /\ Accepted(d, fitting)[k] + Dropped(d, fitting)[k] = pending[k] + d[k]
                           /\ pending[k] <= Accepted(d, fitting)[k]
    BY <1>2, <1>3, FitsHolds
  <1>5. lost' \in Counts /\ \A k \in Keys : lost'[k] = lost[k] + Dropped(d, fitting)[k]
    BY <1>2, <1>4, QuotaParts, SumCounts
  <1>6. late' \in Counts /\ \A k \in Keys : late'[k] = late[k] - d[k]
    <2>1. \A k \in Keys : late[k] \in Nat /\ d[k] \in Nat /\ d[k] <= late[k]
      BY <1>3, KeyNumbers DEF Counts
    <2>2. \A k \in Keys : late[k] - d[k] \in Nat
      BY <2>1
    <2> QED BY <1>2, <2>2 DEF Counts
  <1> DEFINE x == Accepted(d, fitting)
             y == Dropped(d, fitting)
  <1>7. x \in Counts /\ y \in Counts /\ pending' = x
    BY <1>2, <1>4
  <1>8. \A k \in Keys : x[k] + y[k] = pending[k] + d[k] /\ pending[k] <= x[k] /\ lost'[k] = lost[k] + y[k]
    BY <1>4, <1>5
  <1> HIDE DEF x, y
  <1>9. ASSUME NEW k \in Keys PROVE StillMoves(k)
    <2>1. /\ late[k] \in Nat /\ pending[k] \in Nat /\ usage[k] \in Nat /\ lost[k] \in Nat
          /\ d[k] \in Nat /\ d[k] <= late[k] /\ x[k] \in Nat /\ y[k] \in Nat
      BY <1>3, <1>7, KeyNumbers DEF Counts
    <2>2. /\ late'[k] = late[k] - d[k] /\ lost'[k] = lost[k] + y[k] /\ usage'[k] = usage[k] /\ pending'[k] = x[k]
          /\ x[k] + y[k] = pending[k] + d[k] /\ pending[k] <= x[k]
      BY <1>2, <1>6, <1>7, <1>8
    <2>3. /\ (usage[k] + pending[k]) + lost[k] + late[k] = (usage'[k] + pending'[k]) + lost'[k] + late'[k]
          /\ (usage[k] + pending[k]) + lost[k] <= (usage'[k] + pending'[k]) + lost'[k]
          /\ usage[k] + pending[k] <= usage'[k] + pending'[k]
      BY <2>1, <2>2
    <2>4. late[k] = 0 /\ lost[k] = 0 => late'[k] = 0 /\ lost'[k] = 0
      <3> SUFFICES ASSUME late[k] = 0, lost[k] = 0 PROVE late'[k] = 0 /\ lost'[k] = 0
        OBVIOUS
      <3>1. d[k] = 0
        BY <2>1
      <3>2. y[k] = 0
        BY <2>1, <2>2, <3>1
      <3> QED BY <2>2, <3>1, <3>2
    <2> QED BY <2>3, <2>4 DEF StillMoves
  <1>10. /\ UNCHANGED <<quotaWindow, counters, qpoll, admitted>> /\ usage' \in Counts
         /\ newer' \subseteq {k \in Keys : usage'[k] > 0} \X {k \in Keys : usage'[k] > 0}
         /\ mishaps' \in 0..MaxMishaps /\ disturbed \subseteq disturbed' /\ disturbed' \subseteq Keys
    BY <1>2, QuotaParts
  <1>11. pending' \in Counts /\ Cardinality({k \in Keys : pending'[k] > 0}) <= MaxEntries
    BY <1>2, <1>4
  <1> QED BY <1>5, <1>6, <1>9, <1>10, <1>11, StillStep

LEMMA NothingPends == Cardinality({k \in Keys : Zero[k] > 0}) <= MaxEntries
  <1>1. {k \in Keys : Zero[k] > 0} = {}
    BY ZeroCounts
  <1> QED BY <1>1, FS_EmptySet, QuotaAssumption DEF QuotaAssumption

LEMMA QuotaFlushStep == ASSUME QInv, QuotaFlush PROVE QInv'
  <1>1. /\ usage' = usage ++ pending /\ pending' = Zero
        /\ newer' = (newer \ ((Entries \X Keys) \cup (Keys \X Entries))) \cup (Entries \X (Rows \ Entries))
        /\ UNCHANGED <<quotaWindow, counters, qpoll, late, mishaps, admitted, lost, disturbed>>
    BY DEF QuotaFlush
  <1>2. usage' \in Counts /\ \A k \in Keys : usage'[k] = usage[k] + pending[k]
    BY <1>1, QuotaParts, SumCounts
  <1>3. pending' \in Counts /\ \A k \in Keys : pending'[k] = 0
    BY <1>1, ZeroCounts
  <1>4. Cardinality({k \in Keys : pending'[k] > 0}) <= MaxEntries
    BY <1>1, NothingPends
  <1>5. newer' \subseteq {k \in Keys : usage'[k] > 0} \X {k \in Keys : usage'[k] > 0}
    <2> DEFINE N == {k \in Keys : usage'[k] > 0}
    <2>1. \A k \in Keys : usage[k] \in Nat /\ pending[k] \in Nat
      BY KeyNumbers
    <2>2. Rows \subseteq N /\ Entries \subseteq N
      BY <1>2, <2>1 DEF Rows, Entries
    <2>3. newer \subseteq Rows \X Rows
      BY QuotaParts DEF Rows
    <2> HIDE DEF N
    <2>4. newer' \subseteq N \X N
      BY <1>1, <2>2, <2>3
    <2> QED BY <2>4 DEF N
  <1>6. ASSUME NEW k \in Keys PROVE StillMoves(k)
    <2>1. /\ late[k] \in Nat /\ pending[k] \in Nat /\ usage[k] \in Nat /\ lost[k] \in Nat
      BY KeyNumbers
    <2>2. /\ late'[k] = late[k] /\ lost'[k] = lost[k] /\ usage'[k] = usage[k] + pending[k] /\ pending'[k] = 0
      BY <1>1, <1>2, <1>3
    <2> QED BY <2>1, <2>2 DEF StillMoves
  <1>7. /\ UNCHANGED <<quotaWindow, counters, qpoll, admitted>> /\ late' \in Counts /\ lost' \in Counts
        /\ mishaps' \in 0..MaxMishaps /\ disturbed \subseteq disturbed' /\ disturbed' \subseteq Keys
    BY <1>1, QuotaParts
  <1> QED BY <1>2, <1>3, <1>4, <1>5, <1>6, <1>7, StillStep

LEMMA FlushFailsStep == ASSUME QInv, FlushFails PROVE QInv'
  <1>1. /\ Mishap /\ lost' = lost ++ pending /\ pending' = Zero
        /\ disturbed' = disturbed \cup Entries
        /\ UNCHANGED <<quotaWindow, counters, qpoll, late, usage, newer, admitted>>
    BY DEF FlushFails
  <1>2. lost' \in Counts /\ \A k \in Keys : lost'[k] = lost[k] + pending[k]
    BY <1>1, QuotaParts, SumCounts
  <1>3. pending' \in Counts /\ \A k \in Keys : pending'[k] = 0
    BY <1>1, ZeroCounts
  <1>4. Cardinality({k \in Keys : pending'[k] > 0}) <= MaxEntries
    BY <1>1, NothingPends
  <1>5. mishaps' \in 0..MaxMishaps
    <2>1. mishaps \in 0..MaxMishaps /\ MaxMishaps \in Nat
      BY QuotaParts, QuotaAssumption DEF QuotaAssumption
    <2> QED BY <1>1, <2>1 DEF Mishap
  <1>6. ASSUME NEW k \in Keys PROVE StillMoves(k)
    <2>1. /\ late[k] \in Nat /\ pending[k] \in Nat /\ usage[k] \in Nat /\ lost[k] \in Nat
      BY KeyNumbers
    <2>2. /\ late'[k] = late[k] /\ lost'[k] = lost[k] + pending[k] /\ usage'[k] = usage[k] /\ pending'[k] = 0
      BY <1>1, <1>2, <1>3
    <2>3. k \notin disturbed' => pending[k] = 0
      <3>1. k \notin disturbed' => ~(pending[k] > 0)
        BY <1>1 DEF Entries
      <3> QED BY <2>1, <3>1
    <2> QED BY <2>1, <2>2, <2>3 DEF StillMoves
  <1>7. /\ UNCHANGED <<quotaWindow, counters, qpoll, admitted>> /\ late' \in Counts /\ usage' \in Counts
        /\ newer' \subseteq {k \in Keys : usage'[k] > 0} \X {k \in Keys : usage'[k] > 0}
        /\ disturbed \subseteq disturbed' /\ disturbed' \subseteq Keys
    BY <1>1, QuotaParts DEF Entries
  <1> QED BY <1>2, <1>3, <1>4, <1>5, <1>6, <1>7, StillStep

(* A key no call was let through for.                                      *)
LEMMA NoCalls ==
    ASSUME NEW r \in CellShape, CountedOnce(r), r.admitted = 0
    PROVE  Paced(r)
  <1>1. /\ r.delta \in [Instances -> Nat] /\ r.flying \in [Instances -> Nat]
        /\ r.known \in [Instances -> Nat] /\ r.told \in [Instances -> Nat]
        /\ r.counted \in Nat /\ r.lost \in Nat /\ r.late \in Nat
    BY DEF CellShape
  <1>2. Tally(r.delta) \in Nat /\ Tally(r.flying) \in Nat
    BY <1>1, TallyIsNat
  <1>3. r.lost = 0 /\ r.late = 0 /\ Tally(r.delta) = 0 /\ Tally(r.flying) = 0
    <2>1. 0 = r.counted + r.lost + r.late + Tally(r.delta) + Tally(r.flying)
      BY DEF CountedOnce
    <2>2. ASSUME NEW a \in Nat, NEW b \in Nat, NEW c \in Nat, NEW d \in Nat, NEW e \in Nat,
                 0 = a + b + c + d + e
          PROVE  b = 0 /\ c = 0 /\ d = 0 /\ e = 0
      BY ONLY <2>2
    <2> QED BY ONLY <1>1, <1>2, <2>1, <2>2
  <1> DEFINE made == [i \in Instances |-> 0]
  <1>4. made \in [Instances -> Nat] /\ Tally(made) = 0 /\ \A i \in Instances : made[i] = 0
    <2>1. made \in [Instances -> Nat] /\ \A i \in Instances : made[i] = 0
      OBVIOUS
    <2> HIDE DEF made
    <2> QED BY <2>1, TallyNothing
  <1> HIDE DEF made
  <1>5. ASSUME NEW i \in Instances PROVE InStep(r, i, made[i])
    <2>1. r.delta[i] <= 0 /\ r.flying[i] <= 0
      BY <1>1, <1>3, InstancesFinite, TallyPart
    <2>2. r.delta[i] = 0 /\ r.flying[i] = 0 /\ r.known[i] \in Nat /\ r.told[i] \in Nat
      BY <1>1, <2>1
    <2> QED BY <1>1, <1>4, <2>2, InstancesFinite DEF InStep
  <1> QED BY <1>3, <1>4, <1>5 DEF Paced

LEMMA NextWindowStep == ASSUME QInv, NextWindow PROVE QInv'
  <1>1. /\ quotaWindow < LastWindow /\ quotaWindow' = quotaWindow + 1
        /\ UNCHANGED <<counters, qpoll, late, pending, usage, newer, mishaps, admitted, lost, disturbed>>
    BY DEF NextWindow
  <1>2. quotaWindow \in 0..LastWindow /\ LastWindow \in Nat
    BY QuotaParts, QuotaAssumption DEF QuotaAssumption
  <1>3. QuotaTypeOK'
    <2>1. QuotaTypeOK
      BY DEF QInv
    <2>2. quotaWindow' \in 0..LastWindow
      BY <1>1, <1>2
    <2> QED BY <1>1, <2>1, <2>2 DEF QuotaTypeOK
  <1>4. ASSUME NEW i \in Instances PROVE Tidy(counters'[i]) /\ PollHolds(qpoll'[i])
    BY <1>1 DEF QInv
  <1>5. ASSUME NEW k \in Keys PROVE KeyInv(k)'
    <2>1. CellOf(k)' = CellOf(k)
      BY <1>1 DEF CellOf
    <2>2. KeyInv(k) /\ CellOf(k) \in CellShape
      BY QuotaCells DEF QInv
    <2>3. k[2] \in 0..LastWindow
      BY DEF Keys
    <2>4. k[2] > quotaWindow' => admitted[k] = 0
      <3>1. k[2] > quotaWindow + 1 => k[2] > quotaWindow
        BY <1>2, <2>3
      <3> QED BY <1>1, <2>2, <3>1 DEF KeyInv
    <2>5. Live(k)' => Paced(CellOf(k))
      <3> SUFFICES ASSUME k[2] = quotaWindow + 1 PROVE Paced(CellOf(k))
        BY <1>1 DEF Live
      <3>1. k[2] > quotaWindow
        BY <1>2, <2>3
      <3>2. CellOf(k).admitted = 0
        BY <2>2, <3>1 DEF KeyInv, CellOf
      <3> QED BY <2>2, <3>2, NoCalls DEF KeyInv
    <2>6. CountedOnce(CellOf(k)) /\ ToldWhatIs(CellOf(k))
          /\ (k \in disturbed \/ admitted[k] <= 2 * Allowance * Cardinality(Instances))
      BY <2>2 DEF KeyInv
    <2>7. /\ CountedOnce(CellOf(k)') /\ ToldWhatIs(CellOf(k)')
          /\ Live(k)' => Paced(CellOf(k)')
      BY <2>1, <2>5, <2>6
    <2> QED BY <1>1, <2>4, <2>6, <2>7 DEF KeyInv
  <1> QED BY <1>3, <1>4, <1>5 DEF QInv

-----------------------------------------------------------------------------
LEMMA QuotaStarts == QuotaInit => QInv
  <1> SUFFICES ASSUME QuotaInit PROVE QInv
    OBVIOUS
  <1> USE DEF QuotaInit
  <1>1. Zero \in Counts /\ \A k \in Keys : Zero[k] = 0
    BY ZeroCounts
  <1>2. <<>> \in Seq(Keys) /\ Len(<<>>) = 0 /\ DOMAIN <<>> = {}
    BY EmptySeq, LenProperties
  <1>3. /\ NoCounters.order = <<>> /\ NoCounters.delta = Zero /\ NoCounters.aggregate = Zero
        /\ NoCounters \in CounterShape
    BY <1>1, <1>2 DEF NoCounters, CounterShape
  <1>4. /\ NoPoll.stage = "idle" /\ NoPoll.deltas = Zero /\ NoPoll.totals = Zero /\ PollHolds(NoPoll)
    BY <1>1 DEF NoPoll, PollHolds, PollShape
  <1>5. Tidy(NoCounters)
    <2>1. Distinct(<<>>)
      BY <1>2 DEF Distinct
    <2>2. Len(<<>>) <= MaxKeys
      BY <1>2, QuotaAssumption DEF QuotaAssumption
    <2> QED BY <1>1, <1>3, <2>1, <2>2 DEF Tidy
  <1>6. ASSUME NEW i \in Instances PROVE counters[i] = NoCounters /\ qpoll[i] = NoPoll
    OBVIOUS
  <1>7. QuotaTypeOK
    <2>1. counters \in [Instances -> CounterShape] /\ qpoll \in [Instances -> PollShape]
      BY <1>3, <1>4 DEF PollHolds
    <2>2. \A i \in Instances : Len(counters[i].order) <= MaxKeys
      BY <1>5, <1>6 DEF Tidy
    <2>3. {late, pending, usage, admitted, lost} \subseteq Counts
      BY <1>1
    <2>4. Cardinality({k \in Keys : pending[k] > 0}) <= MaxEntries
      BY NothingPends
    <2>5. quotaWindow \in 0..LastWindow /\ mishaps \in 0..MaxMishaps
      BY QuotaAssumption DEF QuotaAssumption
    <2>6. newer = {} /\ disturbed = {}
      OBVIOUS
    <2> HIDE DEF QuotaInit
    <2> QED BY <2>1, <2>2, <2>3, <2>4, <2>5, <2>6 DEF QuotaTypeOK, CounterShape, PollShape
  <1>8. ASSUME NEW k \in Keys PROVE KeyInv(k)
    <2>1. /\ admitted[k] = 0 /\ usage[k] + pending[k] = 0 /\ lost[k] = 0 /\ late[k] = 0
      BY <1>1
    <2> DEFINE r == CellOf(k)
    <2>2. ASSUME NEW i \in Instances
          PROVE  r.delta[i] = 0 /\ r.flying[i] = 0 /\ r.known[i] = 0 /\ r.told[i] = 0
      BY <1>1, <1>3, <1>4, <1>6 DEF CellOf
    <2>3. r \in CellShape
      BY <1>7, QuotaCells
    <2>4. r.admitted = 0 /\ r.counted = 0 /\ r.lost = 0 /\ r.late = 0
      BY <2>1 DEF CellOf
    <2> HIDE DEF r, QuotaInit
    <2>5. CountedOnce(r)
      <3>1. r.delta \in [Instances -> Nat] /\ r.flying \in [Instances -> Nat]
        BY <2>3 DEF CellShape
      <3>2. Tally(r.delta) = 0 /\ Tally(r.flying) = 0
        BY <2>2, <3>1, TallyNothing
      <3> QED BY <2>4, <3>2 DEF CountedOnce
    <2>6. ToldWhatIs(r)
      BY <2>2, <2>4 DEF ToldWhatIs
    <2>7. Paced(r)
      BY <2>3, <2>4, <2>5, NoCalls
    <2>8. admitted[k] <= 2 * Allowance * Cardinality(Instances)
      BY <2>4, <2>7, PaceBounds, <2>1
    <2> QED BY <2>1, <2>5, <2>6, <2>7, <2>8 DEF KeyInv, r
  <1> QED BY <1>4, <1>5, <1>6, <1>7, <1>8 DEF QInv

LEMMA QuotaStep == QInv /\ [QuotaNext]_qvars => QInv'
  <1> SUFFICES ASSUME QInv, [QuotaNext]_qvars PROVE QInv'
    OBVIOUS
  <1>1. ASSUME NEW i \in Instances, NEW s \in Consumers, QuotaCheck(i, s) PROVE QInv'
    BY <1>1, QuotaCheckStep
  <1>2. ASSUME NEW i \in Instances, QuotaSend(i) PROVE QInv'
    BY <1>2, QuotaSendStep
  <1>3. ASSUME NEW i \in Instances, QuotaIntake(i) PROVE QInv'
    BY <1>3, QuotaIntakeStep
  <1>4. ASSUME NEW i \in Instances, QuotaApply(i) PROVE QInv'
    BY <1>4, QuotaApplyStep
  <1>5. ASSUME NEW i \in Instances, QuotaSweep(i) PROVE QInv'
    BY <1>5, QuotaSweepStep
  <1>6. ASSUME NEW i \in Instances, PollFails(i) PROVE QInv'
    BY <1>6, PollFailsStep
  <1>7. ASSUME NEW i \in Instances, PollTimesOut(i) PROVE QInv'
    BY <1>7, PollTimesOutStep
  <1>8. ASSUME NEW i \in Instances, InstanceRestarts(i) PROVE QInv'
    BY <1>8, InstanceRestartsStep
  <1>9. CASE LateIntake \/ QuotaFlush \/ FlushFails \/ NextWindow
    BY <1>9, LateIntakeStep, QuotaFlushStep, FlushFailsStep, NextWindowStep
  <1>10. CASE UNCHANGED qvars
    <2>1. /\ UNCHANGED <<quotaWindow, counters, qpoll, admitted, late, pending, usage, lost,
                         newer, mishaps, disturbed>>
      BY <1>10 DEF qvars
    <2>2. ASSUME NEW k \in Keys PROVE StillMoves(k)
      BY <2>1, KeyNumbers DEF StillMoves
    <2>3. /\ UNCHANGED <<quotaWindow, counters, qpoll, admitted>>
          /\ late' \in Counts /\ pending' \in Counts /\ usage' \in Counts /\ lost' \in Counts
          /\ Cardinality({k \in Keys : pending'[k] > 0}) <= MaxEntries
          /\ newer' \subseteq {k \in Keys : usage'[k] > 0} \X {k \in Keys : usage'[k] > 0}
          /\ mishaps' \in 0..MaxMishaps /\ disturbed \subseteq disturbed' /\ disturbed' \subseteq Keys
      BY <2>1, QuotaParts
    <2> QED BY <2>2, <2>3, StillStep
  <1> QED BY <1>1, <1>2, <1>3, <1>4, <1>5, <1>6, <1>7, <1>8, <1>9, <1>10 DEF QuotaNext

LEMMA QuotaSafe == QInv => QuotaHonoured
  <1> SUFFICES ASSUME QInv PROVE QuotaHonoured
    OBVIOUS
  <1> DEFINE D == Total([i \in Instances |-> counters[i].delta])
             Q == Total([i \in Instances |-> qpoll[i].deltas])
  <1>1. QuotaTypeOK
    BY DEF QInv
  <1>2. ASSUME NEW k \in Keys
        PROVE  /\ D[k] = Tally(CellOf(k).delta) /\ Q[k] = Tally(CellOf(k).flying)
               /\ CellOf(k).admitted = admitted[k] /\ CellOf(k).counted = usage[k] + pending[k]
               /\ CellOf(k).lost = lost[k] /\ CellOf(k).late = late[k]
    <2>1. [i \in Instances |-> [j \in Instances |-> counters[j].delta][i][k]] = CellOf(k).delta
      BY DEF CellOf
    <2>2. [i \in Instances |-> [j \in Instances |-> qpoll[j].deltas][i][k]] = CellOf(k).flying
      BY DEF CellOf
    <2>3. D[k] = Tally(CellOf(k).delta) /\ Q[k] = Tally(CellOf(k).flying)
      BY <2>1, <2>2 DEF Total
    <2> QED BY <2>3 DEF CellOf
  <1>3. ASSUME NEW k \in Keys
        PROVE  /\ CellOf(k).delta \in [Instances -> Nat] /\ CellOf(k).flying \in [Instances -> Nat]
               /\ Tally(CellOf(k).delta) \in Nat /\ Tally(CellOf(k).flying) \in Nat
               /\ \A i \in Instances : /\ CellOf(k).delta[i] = counters[i].delta[k]
                                       /\ counters[i].delta[k] <= Tally(CellOf(k).delta)
    <2>1. CellOf(k).delta \in [Instances -> Nat] /\ CellOf(k).flying \in [Instances -> Nat]
      BY <1>1, QuotaCells DEF CellShape
    <2>2. \A i \in Instances : CellOf(k).delta[i] = counters[i].delta[k]
      BY DEF CellOf
    <2> QED BY <2>1, <2>2, TallyIsNat, TallyPart, InstancesFinite
  <1>4. ASSUME NEW k \in Keys
        PROVE  admitted[k] = (usage[k] + pending[k]) + lost[k] + late[k]
                             + Tally(CellOf(k).delta) + Tally(CellOf(k).flying)
    BY <1>2 DEF QInv, KeyInv, CountedOnce
  <1> HIDE DEF D, Q
  <1>5. EachCallCountedOnce
    <2> DEFINE A == usage ++ pending ++ late ++ lost ++ D ++ Q
    <2>1. A = [k \in Keys |-> A[k]] /\ admitted = [k \in Keys |-> admitted[k]]
      <3>1. A = [k \in Keys |-> A[k]]
        BY DEF ++
      <3>2. admitted \in Counts
        BY QuotaParts
      <3> QED BY <3>1, <3>2 DEF Counts
    <2>2. ASSUME NEW k \in Keys PROVE A[k] = admitted[k]
      <3>1. A[k] = usage[k] + pending[k] + late[k] + lost[k] + D[k] + Q[k]
        BY DEF ++
      <3>2. /\ usage[k] \in Nat /\ pending[k] \in Nat /\ late[k] \in Nat /\ lost[k] \in Nat
            /\ D[k] \in Nat /\ Q[k] \in Nat
        BY <1>2, <1>3, KeyNumbers
      <3>3. admitted[k] = (usage[k] + pending[k]) + lost[k] + late[k] + D[k] + Q[k]
        BY <1>2, <1>4
      <3> HIDE DEF A
      <3> QED BY <3>1, <3>2, <3>3
    <2> HIDE DEF A
    <2>3. admitted = A
      BY <2>1, <2>2
    <2> QED BY <2>3 DEF A, D, Q, EachCallCountedOnce
  <1>6. NeverOvercharged
    <2> SUFFICES ASSUME NEW i \in Instances, NEW k \in Keys
                 PROVE  counters[i].aggregate[k] + counters[i].delta[k] <= admitted[k]
      BY DEF NeverOvercharged
    <2>1. /\ usage[k] \in Nat /\ pending[k] \in Nat /\ late[k] \in Nat /\ lost[k] \in Nat
          /\ counters[i].delta[k] \in Nat /\ counters[i].aggregate[k] \in Nat
          /\ counters[i].aggregate[k] <= usage[k] + pending[k] + lost[k]
      BY KeyNumbers
    <2>2. counters[i].delta[k] <= Tally(CellOf(k).delta)
      BY <1>3
    <2>3. Tally(CellOf(k).delta) \in Nat /\ Tally(CellOf(k).flying) \in Nat
      BY <1>3
    <2> QED BY <1>4, <2>1, <2>2, <2>3
  <1>7. OvershootBounded
    BY DEF QInv, KeyInv, OvershootBounded
  <1> QED BY <1>1, <1>5, <1>6, <1>7 DEF QuotaHonoured

(* Whichever polls fail, time out or arrive late, whichever instances      *)
(* restart and whichever counters and entries are turned out, a call let   *)
(* through is counted in one place or lost, nobody is charged for more     *)
(* calls than were made, and a window nothing happened to is overshot by   *)
(* one poll interval's traffic at the most (data-plane/src/quota.ts,       *)
(* control-plane/src/quota.ts).                                            *)
THEOREM QuotaKept == QuotaSpec => []QuotaHonoured
  BY QuotaStarts, QuotaStep, QuotaSafe, PTL DEF QuotaSpec
=============================================================================
